-------------------------- MODULE MCDependencyGraph --------------------------
(***************************************************************************)
(* All trees of N nodes in which two nodes wait for other nodes.            *)
(***************************************************************************)
EXTENDS DependencyGraph

MCBase == {"a"}

Trees == {last \in [Node -> Node] :
            /\ last[1] = N
            /\ \A n \in Node : n <= last[n]
            /\ \A m \in Node : \A n \in m .. last[m] : last[n] <= last[m]}

Waiting(last, after) ==
  [last  |-> last,
   op    |-> [n \in Node |-> IF after[n] = {} THEN "none" ELSE "order"],
   text  |-> [n \in Node |-> 0],
   names |-> [n \in Node |-> {}],
   bases |-> [n \in Node |-> {}],
   of    |-> [n \in Node |-> << >>],
   copy  |-> [n \in Node |-> 0],
   block |-> [n \in Node |-> {}],
   into  |-> [n \in Node |-> 0],
   after |-> after]

Pairs == {<<n, d>> \in Node \X Node : n # d}

TwoWait ==
  {Waiting(last, [n \in Node |-> {d \in Node : <<n, d>> \in {e, f}}]) :
     last \in Trees, e, f \in Pairs}
=============================================================================
