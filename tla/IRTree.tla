------------------------------- MODULE IRTree -------------------------------
(***************************************************************************)
(* The tree of ir::IR nodes that a parser returns and that everything else  *)
(* in the program walks. A node is known by its ID; `kids` is children_ and *)
(* `up` the parent_ pointer. The name of a rule node is the name of the     *)
(* rule, the name of a terminal its text.                                   *)
(***************************************************************************)
EXTENDS Integers, SequencesExt

None == -1   (* a null pointer *)

(* A map with one more entry.                                               *)
Put(f, x, y) == [z \in DOMAIN f \cup {x} |-> IF z = x THEN y ELSE f[z]]

VARIABLE tree   (* the nodes by ID *)

Kids(n) == ToSet(tree[n].kids)

(* Everything that can be reached from n through children_.                 *)
Closed(S) == \A m \in S : Kids(m) \subseteq S
Subtree(n) ==
  {m \in DOMAIN tree : \A S \in SUBSET DOMAIN tree : n \in S /\ Closed(S) => m \in S}

Below(n) == UNION {Subtree(c) : c \in Kids(n)}

(* The numbers of a set in ascending order.                                 *)
InOrder(S) ==
  [i \in 1 .. Cardinality(S) |-> CHOOSE x \in S : Cardinality({y \in S : y < x}) = i - 1]

(* ToSource: the terminals from left to right. The IDs of a tree the parser *)
(* returns ascend from left to right (IRIsTree).                            *)
Terminals(n) == {m \in Subtree(n) : tree[m].terminal}
ToSource(n) ==
  LET ids == InOrder(Terminals(n)) IN [i \in DOMAIN ids |-> tree[ids[i]].name]
=============================================================================
