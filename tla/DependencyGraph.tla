-------------------------- MODULE DependencyGraph --------------------------
(***************************************************************************)
(* SymbolAnalyzerBuildDependencyGraphListener and DependencyGraph: IRWalker *)
(* visits the tree and adds the edges of every annotation, PerformTopoSort  *)
(* orders the nodes with a priority queue of IDs, and TopoWalk calls EnterIR *)
(* in that order and ExitIR when the last child has exited.                 *)
(***************************************************************************)
EXTENDS AnnotatedTree, SequencesExt

CONSTANTS
  Sources,  (* the annotated trees to analyse                               *)
  Wrap      (* 2^64: the counters of TopoWalk are uint64_t                  *)

ASSUME SourcesAssumption == \A p \in Sources : p \in Source /\ IsTree(p)
ASSUME WrapAssumption == Wrap \in Nat /\ Wrap > N

VARIABLES
  src,       (* the tree                                                    *)
  phase,     (* "build", "sort", "walk", "done" or "fatal"                  *)
  built,     (* the last node EnterIR of the builder has seen               *)
  adj,       (* vertices_adj_list_: <<from, to>>, from depends on to        *)
  indegree,  (* inorder_map: dependencies not taken yet                     *)
  ready,     (* pq                                                          *)
  order,     (* ordered_vec_; the position of a node is its OrderID + 1     *)
  entered,   (* how many nodes of ordered_vec_ TopoWalk has entered         *)
  left,      (* ir_to_children_onexit_not_called_map (0 is the null parent) *)
  exits,     (* onexit_q                                                    *)
  exited     (* the nodes whose ExitIR has been called, in that order       *)

vars == <<src, phase, built, adj, indegree, ready, order, entered, left, exits, exited>>
sortVars == <<indegree, ready, order>>
walkVars == <<entered, left, exits, exited>>

Children(n) ==
  {m \in Subtree(src, n) \ {n} :
     \A o \in Subtree(src, n) \ {n, m} : m \notin Subtree(src, o)}

(* GetParent, 0 for the root, whose weak_ptr is empty.                      *)
Parent(n) == IF n = 1 THEN 0 ELSE CHOOSE p \in Node : n \in Children(p)

DependsOn(n)  == {m \in Node : <<n, m>> \in adj}
Dependents(n) == {m \in Node : <<m, n>> \in adj}

Init ==
  /\ src \in Sources
  /\ phase = "build" /\ built = 0 /\ adj = {}
  /\ indegree = [n \in Node |-> 0] /\ ready = {} /\ order = << >>
  /\ entered = 0 /\ left = [n \in Node \cup {0} |-> 0] /\ exits = << >> /\ exited = << >>

(* A mutant: only the annotated node waits, not the nodes below it.         *)
EdgesOfRoots(n) ==
  {e \in Node \X Node : /\ e[1] # e[2] /\ e[1] = n
                        /\ \E d \in References(src, n) : e[2] \in Subtree(src, d)}

(* Everything below n depends on everything below what n refers to.         *)
Edges(n) ==
  {e \in Node \X Node : /\ e[1] # e[2] /\ e[1] \in Subtree(src, n)
                        /\ \E d \in References(src, n) : e[2] \in Subtree(src, d)}

(* The builder's EnterIR.                                                   *)
AddNode ==
  /\ phase = "build" /\ built < N
  /\ built' = built + 1
  /\ adj' = adj \cup Edges(built + 1)
  /\ UNCHANGED <<src, phase, sortVars, walkVars>>

StartSort ==
  /\ phase = "build" /\ built = N
  /\ phase' = "sort"
  /\ indegree' = [n \in Node |-> Cardinality(DependsOn(n))]
  /\ ready' = {n \in Node : DependsOn(n) = {}}
  /\ UNCHANGED <<src, built, adj, order, walkVars>>

(* A mutant: the order the priority queue has without its comparator.       *)
LargestFirst == Max(ready)

Top == Min(ready)

TakeTop ==
  /\ phase = "sort" /\ ready # {}
  /\ order' = Append(order, Top)
  /\ indegree' = [n \in Node |-> indegree[n] - (IF n \in Dependents(Top) THEN 1 ELSE 0)]
  /\ ready' = (ready \ {Top}) \cup {n \in Dependents(Top) : indegree[n] = 1}
  /\ UNCHANGED <<src, phase, built, adj, walkVars>>

(* A mutant: the sanity check for cycles is missing.                        *)
NoCycleSeen == TRUE

AllTaken == Len(order) = N

EndSort ==
  /\ phase = "sort" /\ ready = {}
  /\ phase' = IF AllTaken THEN "walk" ELSE "fatal"
  /\ UNCHANGED <<src, built, adj, sortVars, walkVars>>

(* listener->EnterIR; a leaf can exit at once.                              *)
EnterNext ==
  LET n == order[entered + 1]
  IN  /\ phase = "walk" /\ exits = << >> /\ entered < Len(order)
      /\ entered' = entered + 1
      /\ left' = [left EXCEPT ![n] = Cardinality(Children(n))]
      /\ exits' = IF Children(n) = {} THEN <<n>> ELSE << >>
      /\ UNCHANGED <<src, phase, built, adj, sortVars, exited>>

(* Mutants: the parent exits with its first child; the null parent of the   *)
(* root is not told apart.                                                  *)
ExitsWithFirstChild(p, count) == p # 0

ExitsAlways(p, count) == TRUE

(* The parent may exit when the counter that has just been decremented is 0. *)
MayExit(p, count) == count = 0

(* listener->ExitIR on the head of the queue.                               *)
ExitNext ==
  LET n == Head(exits)
      p == Parent(n)
      count == (left[p] - 1) % Wrap
  IN  /\ phase = "walk" /\ exits # << >>
      /\ exited' = Append(exited, n)
      /\ left' = [left EXCEPT ![p] = count]
      /\ exits' = Tail(exits) \o (IF MayExit(p, count) THEN <<p>> ELSE << >>)
      /\ UNCHANGED <<src, phase, built, adj, sortVars, entered>>

(* A mutant: the walk waits for every ExitIR.                               *)
AllHaveExited == ToSet(exited) = Node

AllEntered == entered = Len(order)

Done ==
  /\ phase = "walk" /\ exits = << >> /\ AllEntered
  /\ phase' = "done"
  /\ UNCHANGED <<src, built, adj, sortVars, walkVars>>

Next == AddNode \/ StartSort \/ TakeTop \/ EndSort \/ EnterNext \/ ExitNext \/ Done

Spec == Init /\ [][Next]_vars

(* Analyze is one call on one thread.                                       *)
FairSpec == Spec /\ WF_vars(Next)

-----------------------------------------------------------------------------
(***************************************************************************)
(* Properties.                                                              *)
(***************************************************************************)
(* Every variable stays within the values the graph can hold.               *)
TypeOK ==
  /\ src \in Source
  /\ phase \in {"build", "sort", "walk", "done", "fatal"}
  /\ built \in 0 .. N
  /\ adj \subseteq Node \X Node
  /\ indegree \in [Node -> 0 .. N]
  /\ ready \subseteq Node
  /\ Len(order) <= N /\ ToSet(order) \subseteq Node
  /\ entered \in 0 .. N
  /\ left \in [Node \cup {0} -> 0 .. Wrap - 1]
  /\ ToSet(exits) \subseteq Node
  /\ ToSet(exited) \subseteq Node

Rank(n) == CHOOSE r \in 0 .. N - 1 : order[r + 1] = n

(* The OrderIDs are the topological order the symbol analysis relies on: a  *)
(* node after everything it depends on, the smallest ID first among those   *)
(* that may be taken.                                                       *)
TopologicalOrder ==
  phase \in {"walk", "done"} =>
    /\ ToSet(order) = Node
    /\ IsTopoOrder([n \in Node |-> Rank(n)], Dependencies(src))

(* Some nodes wait for each other.                                          *)
Cyclic(dep) == \E S \in (SUBSET Node) \ {{}} : \A n \in S : dep[n] \cap S # {}

(* PerformTopoSort aborts if and only if the annotations form a cycle.      *)
FatalIffCycle ==
  /\ phase = "fatal" => Cyclic(Dependencies(src))
  /\ phase \in {"walk", "done"} => ~Cyclic(Dependencies(src))

EnteredSet == {order[i] : i \in 1 .. entered}

(* If no node waits for a part of itself, then between two calls of EnterIR *)
(* exactly the nodes whose whole subtree has been entered have exited: the  *)
(* scope of a CreateScope node is closed neither early nor late.            *)
ExitsWhenComplete ==
  NoSelfReach(src) /\ phase \in {"walk", "done"} /\ exits = << >> =>
    ToSet(exited) = {n \in Node : Subtree(src, n) \subseteq EnteredSet}

(* An ExitIR comes once, and after the ExitIR of everything below the node. *)
ExitsInsideOut ==
  [][ \A n \in ToSet(exited') \ ToSet(exited) :
        Subtree(src, n) \ {n} \subseteq ToSet(exited) ]_vars

(* The analysis of the graph ends, in a complete walk or in an abort.       *)
Terminates == <>(phase \in {"done", "fatal"})

(* "After an IR's onEnter is called, its onExit will be called when all of  *)
(* its children's onExit are called.", also when a node waits for a child.  *)
EveryIRExits == phase = "done" => ToSet(exited) = Node
=============================================================================
