------------------------------ MODULE Frontend ------------------------------
(***************************************************************************)
(* ParseSourceToIR: the generated ANTLR parser (external) either reports a  *)
(* syntax error or yields a parse tree, which TranslateANTLR4ParseTreeToIR  *)
(* turns into IR nodes, calling itself for every child. The IDs come from   *)
(* the static counter of IR::NewIR.                                         *)
(*                                                                          *)
(* The nodes of a parse tree are numbered in preorder. EOF is a token of    *)
(* its own, the last node, and gets an IR that is thrown away again.        *)
(***************************************************************************)
EXTENDS IRTree

CONSTANT Texts   (* the parse trees of the first text, of the second text, ... *)

(* The numbering: a node follows its parent, and between the two there are  *)
(* only nodes below the parent. Only rule nodes have children.              *)
InPreorder(pt) ==
  /\ pt.up \in Seq(Nat) /\ pt.up # << >> /\ pt.up[1] = 0 /\ 1 \in pt.rules
  /\ \A p \in 2 .. Len(pt.up) :
       /\ pt.up[p] \in pt.rules /\ pt.up[p] \in 1 .. p - 1
       /\ \A q \in pt.up[p] + 1 .. p - 1 : pt.up[q] >= pt.up[p]
  /\ pt.eof \in {0, Len(pt.up)} /\ pt.eof \notin pt.rules

ASSUME TextsAssumption ==
  Len(Texts) \in Nat /\ \A i \in 1 .. Len(Texts) : \A pt \in Texts[i] : InPreorder(pt)

VARIABLES
  parses,    (* how many texts have been parsed                             *)
  source,    (* the parse tree of the last text without a syntax error      *)
  at,        (* how many of its nodes have been entered                     *)
  calls,     (* the active calls: the node of the parse tree, and its IR    *)
  counter,   (* the static id of NewIR                                      *)
  root       (* what the last ParseSourceToIR returned                      *)

frontendVars == <<parses, source, at, calls, counter, root>>

FrontendInit ==
  /\ parses = 0 /\ source = << >> /\ at = 0 /\ calls = << >>
  /\ counter = 0 /\ root = None /\ tree = << >>

Returned == calls = << >>
Caller   == Last(calls)

(* A mutant: a child is put in front of those before it.                   *)
AttachFirst(nodes, child, parent) ==
  [nodes EXCEPT ![child].up = parent, ![parent].kids = <<child>> \o @]

(* child->SetParent(root); root->GetChildren().push_back(child)             *)
Attach(nodes, child, parent) ==
  [nodes EXCEPT ![child].up = parent, ![parent].kids = Append(@, child)]

(* A new IR for node p of a parse tree.                                     *)
NewIR(pt, p) ==
  [type |-> pt.type[p], name |-> pt.name[p], terminal |-> p \notin pt.rules,
   label |-> pt.label[p], up |-> None, kids |-> << >>]

(* A syntax error, found before any IR is made.                             *)
Reject ==
  /\ Returned /\ parses < Len(Texts)
  /\ parses' = parses + 1 /\ root' = None
  /\ UNCHANGED <<source, at, calls, counter, tree>>

Parse(pt) ==
  /\ Returned /\ parses < Len(Texts)
  /\ parses' = parses + 1 /\ root' = None
  /\ source' = pt /\ at' = 1
  /\ calls' = <<[node |-> 1, id |-> counter]>>
  /\ tree' = Put(<< >>, counter, NewIR(pt, 1)) /\ counter' = counter + 1

(* The next child of the node whose call is active.                         *)
HasChild == ~Returned /\ at < Len(source.up) /\ source.up[at + 1] = Caller.node

EnterRule ==
  /\ HasChild /\ at + 1 \in source.rules
  /\ at' = at + 1 /\ counter' = counter + 1
  /\ calls' = Append(calls, [node |-> at + 1, id |-> counter])
  /\ tree' = Put(tree, counter, NewIR(source, at + 1))
  /\ UNCHANGED <<parses, source, root>>

EnterToken ==
  /\ HasChild /\ at + 1 \notin source.rules /\ at + 1 # source.eof
  /\ at' = at + 1 /\ counter' = counter + 1
  /\ tree' = Attach(Put(tree, counter, NewIR(source, at + 1)), counter, Caller.id)
  /\ UNCHANGED <<parses, source, calls, root>>

(* The call for EOF returns nullptr, but NewIR has counted.                 *)
EnterEOF ==
  /\ HasChild /\ at + 1 = source.eof
  /\ at' = at + 1 /\ counter' = counter + 1
  /\ UNCHANGED <<parses, source, calls, root, tree>>

Return ==
  /\ ~Returned /\ ~HasChild
  /\ calls' = Front(calls)
  /\ IF Len(calls) = 1
     THEN root' = Caller.id /\ UNCHANGED tree
     ELSE tree' = Attach(tree, Caller.id, calls[Len(calls) - 1].id) /\ UNCHANGED root
  /\ UNCHANGED <<parses, source, at, counter>>

FrontendNext ==
  \/ Reject
  \/ parses < Len(Texts) /\ \E pt \in Texts[parses + 1] : Parse(pt)
  \/ EnterRule
  \/ EnterToken
  \/ EnterEOF
  \/ Return

-----------------------------------------------------------------------------
(* What is returned is the parse tree without EOF, node by node, with       *)
(* consecutive IDs in preorder, whatever has been parsed before. Scopes,    *)
(* insertion points and symbol marker lists compare IDs and rely on it, and *)
(* so does AnnotatedTree.                                                   *)
Kept == Len(source.up) - (IF source.eof = 0 THEN 0 ELSE 1)
IDOf(p) == IF p = 0 THEN None ELSE root + p - 1

Ascending(s) == \A i, j \in DOMAIN s : i < j => s[i] < s[j]

IRIsTree ==
  Returned /\ root # None =>
    /\ DOMAIN tree = {IDOf(p) : p \in 1 .. Kept}
    /\ \A p \in 1 .. Kept :
         LET n == tree[IDOf(p)] IN
         /\ n.type = source.type[p] /\ n.name = source.name[p] /\ n.label = source.label[p]
         /\ n.terminal = (p \notin source.rules)
         /\ n.up = IDOf(source.up[p])
         /\ ToSet(n.kids) = {IDOf(c) : c \in {c \in 1 .. Kept : source.up[c] = p}}
         /\ Ascending(n.kids)
=============================================================================
