------------------------------ MODULE MCMutator ------------------------------
(***************************************************************************)
(* Two commands: d defines its argument, u uses one that an earlier d has   *)
(* defined. The parser does not take y as the argument of u, so that there  *)
(* are three statements for pools of two.                                   *)
(***************************************************************************)
EXTENDS Mutator

CONSTANTS d, u, x, y

MCGrammatical == {<<d, x>>, <<d, y>>, <<u, x>>}

MCTexts == {<< <<d, x>>, <<u, x>> >>, << <<d, y>> >>, << <<u, y>> >>}

MCRepaired ==
  {t \in UNION {[1 .. n -> Prog] : n \in 1 .. MaxSize} :
     \A i \in DOMAIN t : t[i][1] = u => \E j \in 1 .. i - 1 : t[j] = <<d, t[i][2]>>}
=============================================================================
