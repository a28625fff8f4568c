-------------------------- MODULE MCSymbolAnalysis --------------------------
(***************************************************************************)
(* Families of annotated programs for SymbolAnalysis. Node 1 is always the  *)
(* program's CreateScope; the texts v0 and v1 collide with generated names. *)
(***************************************************************************)
EXTENDS SymbolAnalysis

MCBase == {"a", "b"}

Plain == [op |-> "none", text |-> 0, names |-> {}, bases |-> {}, of |-> << >>,
          copy |-> 0, block |-> {}, into |-> 0, after |-> {}]

ScopeNode      == [Plain EXCEPT !.op = "scope"]
Def(b, x)      == [Plain EXCEPT !.op = "define", !.bases = {b}, !.text = x]
Use(bs, x)     == [Plain EXCEPT !.op = "use", !.bases = bs, !.text = x]
Inval(bs, x)   == [Plain EXCEPT !.op = "invalidate", !.bases = bs, !.text = x]
Of(leaf, ns)   == [leaf EXCEPT !.of = ns]
Named(leaf, x) == [leaf EXCEPT !.names = {x}]
Copy(leaf, d)  == [leaf EXCEPT !.copy = d, !.bases = {}]
Block(leaf, b) == [leaf EXCEPT !.block = {b}]
Into(leaf, sc) == [leaf EXCEPT !.into = sc]
After(ns)      == [Plain EXCEPT !.op = "order", !.after = ns]

(* The program whose node n is annotated with f[n].                         *)
Build(last, f) ==
  [last  |-> last,
   op    |-> [n \in Node |-> f[n].op],
   text  |-> [n \in Node |-> f[n].text],
   names |-> [n \in Node |-> f[n].names],
   bases |-> [n \in Node |-> f[n].bases],
   of    |-> [n \in Node |-> f[n].of],
   copy  |-> [n \in Node |-> f[n].copy],
   block |-> [n \in Node |-> f[n].block],
   into  |-> [n \in Node |-> f[n].into],
   after |-> [n \in Node |-> f[n].after]]

(* With the dependency relation, its closure and the given order of nodes.  *)
Complete(s, rank) ==
  LET dep   == Dependencies(s)
      once  == {e \in Node \X Node : e[1] \in dep[e[2]]}
      join(R) == R \cup {<<e[1], f[2]>> : <<e, f>> \in {g \in R \X R : g[1][2] = g[2][1]}}
      all   == join(join(once))
  IN  [src |-> s, rank |-> rank, dep |-> dep,
       desc |-> [x \in Node |-> {y \in Node : <<x, y>> \in all}]]

InOrder == [n \in Node |-> n - 1]

Flat == [n \in Node |-> IF n = 1 THEN N ELSE n]

Texts == {0, 1}

(* Statements of one scope that do not refer to each other.                 *)
Statement ==
  {Def("a", 0), Def("b", 0), Def("b", 1), Named(Def("b", 0), 1),
   Use({"a"}, 0), Use({"a", "b"}, 1), Use({}, 1), Block(Use({}, 0), "a"), Named(Use({}, 0), 1),
   Inval({"a"}, 0), Inval({"b"}, 1), Inval({}, 1), Block(Inval({}, 0), "b")}

(* N = 7: a definition, any three statements and two nodes without action.  *)
FlatPrograms ==
  {Complete(Build(Flat, <<ScopeNode, Def("a", 0), p, q, r, Plain, Plain>>), InOrder) :
     p, q, r \in Statement}

(* N = 7: groups whose type embeds the name of their key, and a copy whose  *)
(* type is the one of the symbol it copies.                                 *)
KeyedPrograms ==
  {Complete(Build(Flat, <<ScopeNode, Def("a", x), Of(Def("b", 2), <<2>>), p, q, r, t>>), InOrder) :
     x \in {0, 1},
     p \in {Inval({"a"}, 0), Inval({}, 2), Def("a", 0), Use({"a"}, 1), Of(Inval({"b"}, 2), <<2>>)},
     q \in {Use({"a"}, 0), Use({"a"}, 1), Def("a", 0), Use({}, 1)},
     r \in {Of(Use({"b"}, 2), <<5>>), Of(Def("b", 2), <<5>>), Of(Inval({"b"}, 0), <<5>>)},
     t \in {Of(Use({"b"}, 2), <<5>>), Of(Use({"b"}, 0), <<5, 6>>), Use({}, 2), Inval({}, 0)}}
  \cup
  {Complete(Build(Flat, <<ScopeNode, Def("a", x), Of(Def("b", 2), <<2>>), p, q, r, t>>), InOrder) :
     x \in {0, 1},
     p \in {Inval({"a"}, 0), Inval({}, 2), Def("a", 0), Def("b", 0)},
     q \in {Use({}, 0), Use({}, 1), Use({"a"}, 1)},
     r \in {Copy(Def("a", 0), 5), Copy(Def("a", 3), 5)},
     t \in {Use({"a"}, 0), Use({"b"}, 3), Copy(Use({"a"}, 2), 5)}}

(* N = 6: nodes 3..4 are analysed after node 6 (AlterOrder).                *)
DelayedTree  == <<6, 2, 4, 4, 5, 6>>
DelayedOrder == <<0, 1, 4, 5, 2, 3>>
DelayedPrograms ==
  {Complete(Build(DelayedTree, <<ScopeNode, p, After({6}), q, r, t>>), DelayedOrder) :
     p, q, r, t \in {Def("a", 0), Def("b", 0), Use({"a"}, 0), Use({}, 1), Inval({"a"}, 0), Inval({}, 1)}}

(* N = 7: nodes 4 and 5 in a scope of their own.                            *)
NestedTree == <<7, 2, 5, 4, 5, 6, 7>>
NestedPrograms ==
  {Complete(Build(NestedTree, <<ScopeNode, p, ScopeNode, q, r, t, u>>), InOrder) :
     p \in {Def("a", 0)},
     q \in {Def("a", 0), Def("b", 0), Into(Def("b", 0), 1), Inval({}, 0)},
     r, t, u \in {Def("b", 1), Use({"a"}, 0), Use({}, 1), Inval({"a"}, 0), Inval({}, 1)}}

(* Programs that are analysed in textual order, as documented.              *)
TextualPrograms == FlatPrograms \cup KeyedPrograms \cup NestedPrograms

(* N = 6: programs whose scope does not hold every node, or that copy the   *)
(* type of a node that uses no symbol.                                      *)
NarrowTree == <<6, 3, 3, 4, 5, 6>>
NarrowPrograms ==
  {Complete(Build(NarrowTree, <<Plain, ScopeNode, q, r, t, u>>), InOrder) :
     q \in {Def("a", 0), Inval({"a"}, 1), Copy(Def("a", 0), 2)},
     r, t \in {Plain, Use({"a"}, 0), Into(Def("b", 1), 2)},
     u \in {Def("a", 1), Use({}, 0), Copy(Use({"a"}, 0), 3)}}

(* N = 6: a type copied from a use in a scope inside another one, or from   *)
(* one outside of it that nothing is defined for.                           *)
InnerTree == <<6, 2, 6, 4, 5, 6>>
InnerPrograms ==
  {Complete(Build(InnerTree, <<ScopeNode, p, ScopeNode, q, r, t>>), InOrder) :
     p \in {Def("a", 0), Use({}, 0), Into(Def("b", 1), 3)},
     q \in {Def("a", 0), Def("b", 1), Into(Def("b", 1), 1), Use({}, 0)},
     r \in {Use({"a"}, 0), Use({}, 1), Use({"b"}, 0), Copy(Def("a", 0), 4), Copy(Use({}, 0), 4)},
     t \in {Copy(Def("a", 2), 5), Copy(Use({"a"}, 0), 5), Copy(Inval({"a"}, 0), 4),
            Copy(Use({}, 0), 2), Use({}, 0)}}

AwkwardPrograms == DelayedPrograms \cup NarrowPrograms \cup InnerPrograms

(* N = 6: two symbols of one name, one in a scope inside the scope of the   *)
(* other, and an invalidate that fits both.                                 *)
ShadowTree == <<6, 2, 6, 4, 5, 6>>
ShadowPrograms ==
  {Complete(Build(ShadowTree, <<ScopeNode, Def("a", x), ScopeNode, Def("b", 0), p, q>>), InOrder) :
     x \in {0, 1},
     p \in {Inval({}, 2), Inval({}, 0), Use({}, 2)},
     q \in {Use({"b"}, 0), Use({"a"}, 0), Use({}, 1)}}
=============================================================================
