---------------------------- MODULE MCGuidedEdit ----------------------------
(***************************************************************************)
(* The statements of the grammar                                            *)
(*   progs : prog | prog NEWLINE progs      prog : KEYWORD key   key : IDENT *)
(* set defines its key, get uses one, touch uses any symbol, and join uses  *)
(* symbols of another type.                                                 *)
(***************************************************************************)
EXTENDS GuidedEdit

Commands == {"set", "get", "touch", "join"}
Keys     == {"a", "b"}

(* Six nodes for every statement but the last, which has no NEWLINE.        *)
ParseTree(stmts) ==
  LET nodes   == 1 .. 6 * Len(stmts) - 1
      kind(p) == (p - 1) % 6
      stmt(p) == stmts[(p - 1) \div 6 + 1]
      first(p) == p - kind(p)
  IN  [up |-> [p \in nodes |->
                 CASE kind(p) = 0 -> IF p = 1 THEN 0 ELSE p - 6
                   [] kind(p) \in {1, 5} -> first(p)
                   [] kind(p) \in {2, 3} -> first(p) + 1
                   [] OTHER -> p - 1],
       rules |-> {p \in nodes : kind(p) \in {0, 1, 3}},
       type |-> [p \in nodes |-> <<"progs", "prog", stmt(p)[1], "key", "IDENT", "NEWLINE">>[kind(p) + 1]],
       name |-> [p \in nodes |-> <<"progs", "prog", stmt(p)[1], "key", stmt(p)[2], "NL">>[kind(p) + 1]],
       label |-> [p \in nodes |-> IF kind(p) = 3 THEN Label(stmt(p)[1], "key", "") ELSE NoLabel]]

Annotation(cmd, option, action, types) ==
  [rule |-> cmd, label |-> "key", option |-> option, action |-> action, types |-> types]

MCAnnotations ==
  {Annotation("set", "0", "DefineSymbol", {"key_?"}), Annotation("get", "0", "UseSymbol", {"key_?"}),
   Annotation("touch", "0", "UseSymbol", {}), Annotation("join", "0", "UseSymbol", {"group"})}

MCTypes     == {"key_a", "group"}
MCDescribes == {<<"key_?", "key_a">>, <<"group", "group">>}

Statements == Commands \X Keys

MCCorpus == {ParseTree(<<s>>) : s \in Statements} \cup {ParseTree(<< <<"join", "a">>, <<"set", "a">> >>)}

Lists(S, n) == [1 .. n -> S]

MCTestCases ==
  {ParseTree(t) : t \in Lists(Statements, 1) \cup Lists(Statements, 2)
                         \cup {<< <<c, "a">>, <<"get", "b">>, <<c, "a">> >> : c \in {"set", "get"}}}

MCRemovable  == [type \in {"prog"} |-> {"NEWLINE"}]
MCInsertable == {[location_type |-> "prog", target_type |-> "prog", insert_before |-> b, sep |-> "NL"] :
                   b \in BOOLEAN}
=============================================================================
