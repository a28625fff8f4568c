----------------------------- MODULE MCCascade -----------------------------
(***************************************************************************)
(* Programs whose fixes cascade: fixing the invalidate 3 cuts off a use,    *)
(* whose dependents include defines, whose symbols are used again.          *)
(***************************************************************************)
EXTENDS Cascade, MCSymbolAnalysis

(* N = 8                                                                    *)
ChainedPrograms ==
  {Complete(Build(Flat, <<ScopeNode, Def("a", 0), p, Use({"a"}, 0), q, r, t, u>>), InOrder) :
     p \in {Inval({"a"}, 1), Inval({}, 2)},
     q \in {Copy(Def("a", 1), 4), Of(Def("b", 1), <<4>>)},
     r \in {Use({}, 1), Copy(Use({"a"}, 1), 4), Inval({}, 1)},
     t \in {Of(Def("b", 2), <<6>>), Copy(Def("a", 2), 4), Copy(Use({"a"}, 1), 6), Of(Use({"b"}, 0), <<4>>)},
     u \in {Use({}, 2), Of(Use({"b"}, 2), <<6>>), Of(Def("b", 3), <<4>>), Inval({"a"}, 0)}}

(* N = 8: with AlterOrder, the last two nodes without action.               *)
LongDelayedPrograms ==
  {Complete(Build(<<8, 2, 4, 4, 5, 6, 7, 8>>, <<ScopeNode, p, After({6}), q, r, t, Plain, Plain>>),
            <<0, 1, 4, 5, 2, 3, 6, 7>>) :
     p, q, r, t \in {Def("a", 0), Use({"a"}, 0), Use({}, 1), Inval({"a"}, 0), Inval({}, 1)}}

CascadingPrograms == ChainedPrograms \cup LongDelayedPrograms
=============================================================================
