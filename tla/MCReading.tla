------------------------------ MODULE MCReading ------------------------------
(***************************************************************************)
(* Every parse tree of MaxNodes nodes, then a short one, over two rules and *)
(* one kind of token, with a label on at most one node. No token has the    *)
(* name of a rule for its text.                                             *)
(***************************************************************************)
EXTENDS Reading

CONSTANT MaxNodes

Ancestor(up, a, n) == \* a is n or above it
  LET above[m \in 0 .. Len(up)] == IF m = 0 THEN {} ELSE {m} \cup above[up[m]]
  IN  a \in above[n]

Shapes(n) ==
  {up \in [1 .. n -> 0 .. n - 1] :
     /\ \A m \in 1 .. n : (up[m] = 0) = (m = 1) /\ up[m] < m
     /\ \A m \in 2 .. n : Ancestor(up, up[m], m - 1)}

Leaves(up) == {m \in DOMAIN up : \A c \in DOMAIN up : up[c] # m}

RuleNames == {"prog", "cmd"}

ParseTrees(n) ==
  {[up |-> up, rules |-> rules, eof |-> eof, type |-> name, name |-> name,
    label |-> [m \in 1 .. n |-> IF m = l THEN "R->l" ELSE ""]] :
       up \in Shapes(n), rules \in SUBSET (1 .. n), eof \in {0, n}, l \in 0 .. n,
       name \in [1 .. n -> RuleNames \cup {"tok"}]}

IsParseTree(pt) ==
  /\ 1 \in pt.rules /\ DOMAIN pt.up \ Leaves(pt.up) \subseteq pt.rules
  /\ pt.eof \notin pt.rules
  /\ \A m \in DOMAIN pt.up : (pt.name[m] \in RuleNames) = (m \in pt.rules)
  /\ pt.eof # 0 => pt.label[pt.eof] = ""

AllTexts   == {pt \in ParseTrees(MaxNodes) : IsParseTree(pt)}
ShortTexts == {pt \in ParseTrees(2) : IsParseTree(pt) /\ pt.name[1] = "prog"}
MCTexts    == <<AllTexts, ShortTexts>>

Call(what, arg, type) == [what |-> what, arg |-> arg, type |-> type]

MCCalls ==
  {Call(w, "", "") : w \in Plain \cup {"terminals"}}
  \cup {Call(w, "cmd", "") : w \in (Selecting \ {"terminals"}) \cup Bounded}
  \cup {Call(w, "R->l", "cmd") : w \in Labelling}

T(is)       == [is |-> is, arg |-> "", num |-> 0]
Named(is, name) == [T(is) EXCEPT !.arg = name]
Nth(is, k)  == [T(is) EXCEPT !.num = k]
Braces(ts)  == <<T("open")>> \o ts \o <<T("close")>>

Steps == {T("parent"), Named("parentuntil", "prog"), Nth("child", 0), Nth("child", 1),
          Nth("lsib", 1), Nth("lsib", 2), Nth("rsib", 1), Nth("rsib", 2)}

MCExpressions ==
  {Braces(<<s, t, T("text")>>) : s, t \in Steps}
  \cup {Braces(<<s, T("id")>>) \o Braces(<<T("parent"), Named("node_num", "cmd")>>) :
            s \in {T("parent"), Nth("rsib", 1)}}
  \cup {<<Named("ident", "x")>> \o Braces(<<T(p)>>) \o Braces(<<T("term_num")>>) :
          p \in {"sym_use_type", "sym_def_type", "sym_inval_type"}}
  \cup {<< >>, <<T("open"), Named("ident", "x")>>, Braces(<<T("id"), T("parent")>>),
        <<T("open"), T("parent")>>, <<T("close")>>}

(* What the theorem about queries asks of the texts and the expressions.    *)
ASSUME QueriesAreOrdinary == OffsetsFit /\ NamesDiffer
=============================================================================
