----------------------- MODULE DependencyGraphProofs -----------------------
(***************************************************************************)
(* The topological sort and the walk of DependencyGraph are correct for all *)
(* trees, sizes and references.                                             *)
(***************************************************************************)
EXTENDS DependencyGraph, TreeLemmas

-----------------------------------------------------------------------------
(***************************************************************************)
(* The edges.                                                               *)
(***************************************************************************)
InTree == src \in Source /\ IsTree(src)

(* The edges the builder has added for the nodes it has seen.               *)
EdgesUpTo(k) == {e \in Node \X Node : \E n \in 1 .. k : e \in Edges(n)}

Built ==
  /\ phase = "build" => built \in 0 .. N /\ adj = EdgesUpTo(built)
  /\ phase # "build" => built = N /\ adj = EdgesUpTo(N)

LEMMA BuiltInit == Init => InTree /\ Built
<1> SUFFICES ASSUME Init PROVE InTree /\ Built
  OBVIOUS
<1>1. InTree
  BY SourcesAssumption DEF Init, InTree
<1>2. EdgesUpTo(0) = {}
  BY DEF EdgesUpTo
<1> QED BY <1>1, <1>2, NAssumption DEF Init, Built

LEMMA BuiltStep ==
  ASSUME InTree, Built, [Next]_vars
  PROVE  InTree' /\ Built'
<1>1. src' = src
  BY DEF Next, AddNode, StartSort, TakeTop, EndSort, EnterNext, ExitNext, Done, vars
<1>2. \A k : EdgesUpTo(k)' = EdgesUpTo(k)
  BY <1>1 DEF EdgesUpTo, Edges
<1>3. CASE AddNode
  <2>1. built' \in 0 .. N /\ built \in 0 .. N /\ built' = built + 1
    BY <1>3, NAssumption DEF AddNode, Built
  <2>2. adj' = EdgesUpTo(built) \cup Edges(built + 1)
    BY <1>3 DEF AddNode, Built
  <2>3. Edges(built + 1) \subseteq Node \X Node
    BY DEF Edges
  <2>4. 1 .. built' = (1 .. built) \cup {built + 1}
    BY <2>1
  <2>5. adj' = EdgesUpTo(built')
    BY <2>1, <2>2, <2>3, <2>4 DEF EdgesUpTo
  <2> QED BY <1>1, <1>2, <1>3, <2>1, <2>5 DEF AddNode, Built, InTree
<1>4. CASE StartSort
  BY <1>1, <1>2, <1>4 DEF StartSort, Built, InTree
<1>5. CASE ~AddNode /\ ~StartSort
  BY <1>1, <1>2, <1>5
     DEF Next, TakeTop, EndSort, EnterNext, ExitNext, Done, vars, Built, InTree
<1> QED BY <1>3, <1>4, <1>5

(* Once the tree has been seen, the edges are the dependencies.             *)
LEMMA EdgesAreDependencies ==
  ASSUME InTree, Built, phase # "build", NEW n \in Node
  PROVE  DependsOn(n) = Dependencies(src)[n]
<1>1. \A m \in Node : m \in DependsOn(n) <=> \E k \in Node : <<n, m>> \in Edges(k)
  BY DEF DependsOn, Built, EdgesUpTo, Node
<1>2. \A m, k \in Node : <<n, m>> \in Edges(k) <=>
        n # m /\ n \in Subtree(src, k) /\ \E d \in References(src, k) : m \in Subtree(src, d)
  BY DEF Edges
<1>3. DependsOn(n) \subseteq Node /\ Dependencies(src)[n] \subseteq Node
  BY DEF DependsOn, Dependencies
<1> QED BY <1>1, <1>2, <1>3 DEF Dependencies

-----------------------------------------------------------------------------
(***************************************************************************)
(* The sort.                                                                *)
(***************************************************************************)
Taken == {order[i] : i \in 1 .. Len(order)}
Before(i) == {order[j] : j \in 1 .. (i - 1)}

(* No node is taken twice, each after everything it depends on, and the     *)
(* smallest of those that may be taken.                                     *)
Ordered ==
  /\ order \in Seq(Node)
  /\ \A i, j \in 1 .. Len(order) : order[i] = order[j] => i = j
  /\ \A i \in 1 .. Len(order) :
       /\ DependsOn(order[i]) \subseteq Before(i)
       /\ \A m \in Node \ Before(i) : m < order[i] => ~(DependsOn(m) \subseteq Before(i))

(* What the counters and the priority queue hold.                           *)
Counted ==
  phase = "sort" =>
    /\ indegree = [n \in Node |-> Cardinality(DependsOn(n) \ Taken)]
    /\ ready = {n \in Node \ Taken : DependsOn(n) \subseteq Taken}

(* How the sort ends.                                                       *)
Sorted ==
  /\ phase = "build" => order = << >>
  /\ phase \in {"walk", "done"} => Len(order) = N
  /\ phase = "fatal" => /\ Len(order) # N
                        /\ \A n \in Node \ Taken : ~(DependsOn(n) \subseteq Taken)

SortInv == InTree /\ Built /\ Ordered /\ Counted /\ Sorted

LEMMA NodesFinite ==
  /\ IsFiniteSet(Node) /\ Cardinality(Node) = N
  /\ \A S \in SUBSET Node : IsFiniteSet(S) /\ Cardinality(S) \in 0 .. N
<1>1. IsFiniteSet(Node) /\ Cardinality(Node) = N
  BY FS_Interval, NAssumption DEF Node
<1>2. ASSUME NEW S \in SUBSET Node PROVE IsFiniteSet(S) /\ Cardinality(S) \in 0 .. N
  <2>1. IsFiniteSet(S) /\ Cardinality(S) <= N
    BY <1>1, FS_Subset
  <2> QED BY <2>1, FS_CardinalityType, NAssumption
<1> QED BY <1>1, <1>2

(* The first k nodes of the order are k nodes.                              *)
LEMMA TakenCount ==
  ASSUME Ordered, NEW k \in 0 .. Len(order)
  PROVE  /\ Before(k + 1) \subseteq Node
         /\ Cardinality(Before(k + 1)) = k
<1> DEFINE f == [i \in 1 .. k |-> order[i]]
<1>1. Len(order) \in Nat /\ order \in Seq(Node)
  BY DEF Ordered
<1>2. \A i \in 1 .. k : order[i] \in Node /\ i \in 1 .. Len(order)
  BY <1>1
<1>3. Before(k + 1) = {order[i] : i \in 1 .. k}
  BY <1>1 DEF Before
<1>4. f \in Bijection(1 .. k, Before(k + 1))
  BY <1>2, <1>3 DEF Ordered, Bijection, Injection, Surjection, IsInjective
<1>5. IsFiniteSet(1 .. k) /\ Cardinality(1 .. k) = k
  BY <1>1, FS_Interval
<1>6. Cardinality(Before(k + 1)) = k
  <2>1. \E g \in Bijection(1 .. k, Before(k + 1)) : TRUE
    BY <1>4
  <2>2. PICK S, T : S = 1 .. k /\ T = Before(k + 1)
    OBVIOUS
  <2>3. ExistsBijection(S, T) /\ IsFiniteSet(S) /\ Cardinality(S) = k
    BY <1>5, <2>1, <2>2 DEF ExistsBijection
  <2> QED BY <2>2, <2>3, FS_Bijection
<1> QED BY <1>2, <1>3, <1>6

LEMMA TakenFacts ==
  ASSUME Ordered
  PROVE  /\ Taken \subseteq Node /\ Cardinality(Taken) = Len(order) /\ Len(order) \in 0 .. N
         /\ Len(order) = N <=> Taken = Node
<1>1. Len(order) \in Nat
  BY DEF Ordered
<1>2. Taken = Before(Len(order) + 1)
  BY <1>1 DEF Taken, Before
<1>3. Taken \subseteq Node /\ Cardinality(Taken) = Len(order)
  BY <1>1, <1>2, TakenCount
<1>4. Len(order) \in 0 .. N
  BY <1>3, NodesFinite
<1>5. Len(order) = N => Taken = Node
  BY <1>3, NodesFinite, FS_Subset
<1> QED BY <1>3, <1>4, <1>5, NodesFinite

LEMMA SortInit == Init => SortInv
<1> SUFFICES ASSUME Init PROVE SortInv
  OBVIOUS
<1> QED BY BuiltInit DEF Init, SortInv, Ordered, Counted, Sorted

(* What is ready has not been taken and may be taken.                       *)
LEMMA TopFacts ==
  ASSUME SortInv, phase = "sort", ready # {}
  PROVE  /\ Top \in Node \ Taken /\ DependsOn(Top) \subseteq Taken
         /\ \A m \in Node \ Taken : DependsOn(m) \subseteq Taken => Top <= m
<1>1. ready = {n \in Node \ Taken : DependsOn(n) \subseteq Taken}
  BY DEF SortInv, Counted
<1>2. ready \subseteq Nat
  BY <1>1, NAssumption DEF Node
<1>3. \E x \in ready : \A y \in ready : x <= y
  BY <1>2, LeastNat
<1>4. Top \in ready /\ \A y \in ready : Top <= y
  BY <1>3 DEF Top, Min
<1> QED BY <1>1, <1>4

(* Taking the smallest ready node keeps the order topological.              *)
LEMMA TakeOrders ==
  ASSUME SortInv, TakeTop
  PROVE  Ordered' /\ Taken' = Taken \cup {Top}
<1>1. phase = "sort" /\ ready # {} /\ order' = Append(order, Top) /\ adj' = adj
  BY DEF TakeTop
<1>2. /\ Top \in Node \ Taken /\ DependsOn(Top) \subseteq Taken
      /\ \A m \in Node \ Taken : DependsOn(m) \subseteq Taken => Top <= m
  BY <1>1, TopFacts
<1>3. PICK k \in Nat : k = Len(order) /\ order \in Seq(Node)
  BY DEF SortInv, Ordered
<1>4. /\ order' \in Seq(Node) /\ Len(order') = k + 1 /\ order'[k + 1] = Top
      /\ \A i \in 1 .. k : order'[i] = order[i]
  BY <1>1, <1>2, <1>3
<1>5. 1 .. (k + 1) = (1 .. k) \cup {k + 1}
  BY <1>3
<1>6. \A i \in 1 .. k : Before(i)' = Before(i)
  BY <1>3, <1>4 DEF Before
<1>7. Before(k + 1)' = Taken
  BY <1>3, <1>4 DEF Before, Taken
<1>8. \A n : DependsOn(n)' = DependsOn(n)
  BY <1>1 DEF DependsOn
<1>9. \A i \in 1 .. k : order[i] # Top
  BY <1>2, <1>3 DEF Taken
<1>10. \A i, j \in 1 .. (k + 1) : order'[i] = order'[j] => i = j
  BY <1>3, <1>4, <1>5, <1>9 DEF SortInv, Ordered
<1>11. ASSUME NEW i \in 1 .. (k + 1)
       PROVE  /\ DependsOn(order'[i]) \subseteq Before(i)'
              /\ \A m \in Node \ Before(i)' : m < order'[i] => ~(DependsOn(m) \subseteq Before(i)')
  <2>1. CASE i \in 1 .. k
    BY <1>3, <1>4, <1>6, <2>1 DEF SortInv, Ordered
  <2>2. CASE i = k + 1
    <3>1. \A m \in Node \ Taken : m < Top => ~(DependsOn(m) \subseteq Taken)
      BY <1>2, NAssumption DEF Node
    <3> QED BY <1>2, <1>4, <1>7, <2>2, <3>1
  <2> QED BY <1>5, <2>1, <2>2
<1>12. Taken' = Taken \cup {Top}
  BY <1>3, <1>4, <1>5 DEF Taken
<1> QED BY <1>4, <1>8, <1>10, <1>11, <1>12 DEF Ordered

(* The counters and the queue follow.                                       *)
LEMMA TakeCounts ==
  ASSUME SortInv, TakeTop
  PROVE  Counted'
<1>1. phase = "sort" /\ ready # {} /\ adj' = adj /\ phase' = phase
  BY DEF TakeTop
<1>2. Top \in Node \ Taken /\ DependsOn(Top) \subseteq Taken
  BY <1>1, TopFacts
<1>3. Taken' = Taken \cup {Top} /\ Taken \subseteq Node
  BY TakeOrders, TakenFacts DEF SortInv
<1>4. \A n : DependsOn(n)' = DependsOn(n) /\ DependsOn(n) \subseteq Node
  BY <1>1 DEF DependsOn
<1>5. /\ indegree = [n \in Node |-> Cardinality(DependsOn(n) \ Taken)]
      /\ ready = {n \in Node \ Taken : DependsOn(n) \subseteq Taken}
  BY <1>1 DEF SortInv, Counted
<1>6. \A n \in Node : n \in Dependents(Top) <=> Top \in DependsOn(n)
  BY <1>2 DEF Dependents, DependsOn
<1>7. ASSUME NEW n \in Node
      PROVE  Cardinality(DependsOn(n) \ Taken')
               = Cardinality(DependsOn(n) \ Taken) - (IF n \in Dependents(Top) THEN 1 ELSE 0)
  <2> DEFINE W == DependsOn(n) \ Taken
  <2>1. IsFiniteSet(W) /\ Cardinality(W) \in Int
    BY <1>4, NodesFinite
  <2>2. CASE Top \in DependsOn(n)
    <3>1. DependsOn(n) \ Taken' = W \ {Top} /\ Top \in W
      BY <1>2, <1>3, <2>2
    <3>2. Cardinality(W \ {Top}) = Cardinality(W) - 1
      BY <2>1, <3>1, FS_RemoveElement
    <3> QED BY <1>6, <2>2, <3>1, <3>2
  <2>3. CASE Top \notin DependsOn(n)
    <3>1. DependsOn(n) \ Taken' = W
      BY <1>3, <2>3
    <3> QED BY <1>6, <2>1, <2>3, <3>1
  <2> QED BY <2>2, <2>3
<1>8. indegree' = [n \in Node |-> Cardinality(DependsOn(n) \ Taken')]
  BY <1>5, <1>7 DEF TakeTop
<1>9. ASSUME NEW n \in Node
      PROVE  n \in ready' <=> n \notin Taken' /\ DependsOn(n) \subseteq Taken'
  <2> DEFINE W == DependsOn(n) \ Taken
  <2>1. n \in ready' <=> (n \in ready /\ n # Top) \/ (n \in Dependents(Top) /\ Cardinality(W) = 1)
    BY <1>5 DEF TakeTop
  <2>2. n \in Dependents(Top) /\ Cardinality(W) = 1 <=> W = {Top}
    <3>1. IsFiniteSet(W)
      BY <1>4, NodesFinite
    <3>2. Cardinality(W) = 1 <=> \E x : W = {x}
      BY <3>1, FS_Singleton
    <3> QED BY <1>2, <1>6, <3>2
  <2>3. n \in Taken => W = {}
    <3>1. ASSUME n \in Taken PROVE DependsOn(n) \subseteq Taken
      <4>1. PICK i \in 1 .. Len(order) : n = order[i]
        BY <3>1 DEF Taken
      <4>2. DependsOn(n) \subseteq Before(i)
        BY <4>1 DEF SortInv, Ordered
      <4>3. Before(i) \subseteq Taken
        BY DEF SortInv, Ordered, Before, Taken
      <4> QED BY <4>2, <4>3
    <3> QED BY <3>1
  <2>4. n = Top => W = {}
    BY <1>2
  <2> QED BY <1>2, <1>3, <1>5, <2>1, <2>2, <2>3, <2>4
<1>10. ready' \subseteq Node
  BY <1>5 DEF TakeTop, Dependents
<1>11. ready' = {n \in Node \ Taken' : DependsOn(n) \subseteq Taken'}
  BY <1>9, <1>10
<1> QED BY <1>4, <1>8, <1>11 DEF Counted

LEMMA SortStep ==
  ASSUME SortInv, [Next]_vars
  PROVE  SortInv'
<1>1. InTree' /\ Built'
  BY BuiltStep DEF SortInv
<1>2. CASE TakeTop
  <2>1. Sorted'
    BY <1>2 DEF TakeTop, Sorted
  <2> QED BY <1>1, <1>2, <2>1, TakeOrders, TakeCounts DEF SortInv
<1>3. CASE StartSort
  <2>1. order = << >> /\ order' = << >> /\ adj' = adj /\ phase' = "sort" /\ Taken' = {}
    BY <1>3 DEF StartSort, SortInv, Sorted, Taken
  <2>2. \A n : DependsOn(n)' = DependsOn(n)
    BY <2>1 DEF DependsOn
  <2>3. Ordered'
    BY <2>1 DEF Ordered
  <2>4. Counted'
    BY <1>3, <2>1, <2>2 DEF StartSort, Counted
  <2> QED BY <1>1, <2>1, <2>3, <2>4 DEF SortInv, Sorted
<1>4. CASE AddNode
  <2>1. order' = << >> /\ phase' = "build"
    BY <1>4 DEF AddNode, SortInv, Sorted, sortVars
  <2> QED BY <1>1, <2>1 DEF SortInv, Ordered, Counted, Sorted
<1>5. CASE EndSort
  <2>1. UNCHANGED <<order, adj, ready, indegree, Taken>> /\ \A n : DependsOn(n)' = DependsOn(n)
    BY <1>5 DEF EndSort, sortVars, Taken, DependsOn
  <2>2. Ordered'
    BY <2>1 DEF SortInv, Ordered, Before
  <2>3. phase = "sort" /\ ready = {} /\ phase' = (IF AllTaken THEN "walk" ELSE "fatal")
    BY <1>5 DEF EndSort
  <2>4. \A n \in Node \ Taken : ~(DependsOn(n) \subseteq Taken)
    BY <2>3 DEF SortInv, Counted
  <2>5. Sorted'
    BY <2>1, <2>3, <2>4 DEF Sorted, AllTaken
  <2> QED BY <1>1, <2>2, <2>3, <2>5 DEF SortInv, Counted
<1>6. CASE EnterNext \/ ExitNext \/ Done \/ UNCHANGED vars
  <2>1. UNCHANGED <<order, adj, ready, indegree, Taken>> /\ \A n : DependsOn(n)' = DependsOn(n)
    BY <1>6 DEF EnterNext, ExitNext, Done, vars, sortVars, Taken, DependsOn
  <2>2. Ordered'
    BY <2>1 DEF SortInv, Ordered, Before
  <2>3. phase' = phase \/ (phase = "walk" /\ phase' = "done")
    BY <1>6 DEF EnterNext, ExitNext, Done, vars
  <2>4. Counted'
    BY <2>1, <2>3 DEF SortInv, Counted
  <2>5. Sorted'
    BY <2>1, <2>3 DEF SortInv, Sorted
  <2> QED BY <1>1, <2>2, <2>4, <2>5 DEF SortInv
<1> QED BY <1>2, <1>3, <1>4, <1>5, <1>6 DEF Next

THEOREM SortAlways == Spec => []SortInv
BY SortInit, SortStep, PTL DEF Spec

-----------------------------------------------------------------------------
(***************************************************************************)
(* What the sort promises.                                                  *)
(***************************************************************************)
(* The position of a node is its OrderID.                                   *)
LEMMA RankFacts ==
  ASSUME SortInv, Len(order) = N, NEW n \in Node
  PROVE  Rank(n) \in 0 .. N - 1 /\ order[Rank(n) + 1] = n
<1>1. Taken = Node
  BY TakenFacts DEF SortInv
<1>2. PICK i \in 1 .. N : order[i] = n
  BY <1>1 DEF Taken
<1>3. i - 1 \in 0 .. N - 1 /\ (i - 1) + 1 = i
  BY NAssumption
<1>4. \E r \in 0 .. N - 1 : order[r + 1] = n
  BY <1>2, <1>3
<1> QED BY <1>4 DEF Rank

LEMMA SortedIsTopological ==
  ASSUME SortInv, Len(order) = N, phase # "build"
  PROVE  IsTopoOrder([n \in Node |-> Rank(n)], Dependencies(src))
<1> DEFINE rank == [n \in Node |-> Rank(n)]
           taken(n) == {m \in Node : rank[m] < rank[n]}
<1>1. \A n \in Node : taken(n) = Before(Rank(n) + 1)
  <2> TAKE n \in Node
  <2>1. Rank(n) \in 0 .. N - 1
    BY RankFacts
  <2>2. ASSUME NEW m \in Node, Rank(m) < Rank(n) PROVE m \in Before(Rank(n) + 1)
    <3>1. Rank(m) \in 0 .. N - 1 /\ order[Rank(m) + 1] = m
      BY RankFacts
    <3>2. Rank(m) + 1 \in 1 .. ((Rank(n) + 1) - 1)
      BY <2>1, <2>2, <3>1, NAssumption
    <3> QED BY <3>1, <3>2 DEF Before
  <2>3. ASSUME NEW m \in Before(Rank(n) + 1) PROVE m \in Node /\ Rank(m) < Rank(n)
    <3>1. PICK j \in 1 .. ((Rank(n) + 1) - 1) : m = order[j]
      BY <2>3 DEF Before
    <3>2. j \in 1 .. N /\ j \in 1 .. Len(order)
      BY <2>1, <3>1, NAssumption
    <3>3. m \in Node
      BY <3>1, <3>2 DEF SortInv, Ordered
    <3>4. Rank(m) \in 0 .. N - 1 /\ order[Rank(m) + 1] = m
      BY <3>3, RankFacts
    <3>5. Rank(m) + 1 \in 1 .. Len(order)
      BY <3>4, NAssumption
    <3>6. Rank(m) + 1 = j
      BY <3>1, <3>2, <3>4, <3>5 DEF SortInv, Ordered
    <3> QED BY <2>1, <3>1, <3>3, <3>4, <3>6, NAssumption
  <2> QED BY <2>2, <2>3
<1>2. ASSUME NEW n \in Node
      PROVE  /\ Dependencies(src)[n] \subseteq taken(n)
             /\ Cardinality(taken(n)) = rank[n]
             /\ \A m \in Node \ taken(n) : m < n => ~(Dependencies(src)[m] \subseteq taken(n))
  <2>1. Rank(n) \in 0 .. N - 1 /\ order[Rank(n) + 1] = n
    BY RankFacts
  <2>2. Rank(n) + 1 \in 1 .. Len(order) /\ Rank(n) \in 0 .. Len(order)
    BY <2>1, NAssumption
  <2>3. Cardinality(taken(n)) = Rank(n)
    BY <1>1, <2>2, TakenCount DEF SortInv
  <2>4. /\ DependsOn(n) \subseteq Before(Rank(n) + 1)
        /\ \A m \in Node \ Before(Rank(n) + 1) :
             m < n => ~(DependsOn(m) \subseteq Before(Rank(n) + 1))
    BY <2>1, <2>2 DEF SortInv, Ordered
  <2>5. \A m \in Node : DependsOn(m) = Dependencies(src)[m]
    BY EdgesAreDependencies DEF SortInv
  <2> HIDE DEF taken
  <2> QED BY <1>1, <2>3, <2>4, <2>5
<1> QED BY <1>2 DEF IsTopoOrder

(* PerformTopoSort delivers the order the symbol analysis assumes of its    *)
(* programs, for every tree and every set of annotations.                   *)
THEOREM OrderIsTopological == Spec => []TopologicalOrder
<1>1. SortInv => TopologicalOrder
  <2> SUFFICES ASSUME SortInv, phase \in {"walk", "done"}
               PROVE  /\ ToSet(order) = Node
                      /\ IsTopoOrder([n \in Node |-> Rank(n)], Dependencies(src))
    BY DEF TopologicalOrder
  <2>1. Len(order) = N
    BY DEF SortInv, Sorted
  <2>2. ToSet(order) = Node
    <3>1. DOMAIN order = 1 .. Len(order)
      BY DEF SortInv, Ordered
    <3> QED BY <2>1, <3>1, TakenFacts DEF SortInv, ToSet, Taken
  <2> QED BY <2>1, <2>2, SortedIsTopological
<1> QED BY <1>1, SortAlways, PTL

(* The sanity check of PerformTopoSort finds the cycles and nothing else.   *)
THEOREM AbortsOnCycles == Spec => []FatalIffCycle
<1>1. ASSUME SortInv, phase = "fatal" PROVE Cyclic(Dependencies(src))
  <2>1. Taken \subseteq Node /\ Taken # Node
    BY <1>1, TakenFacts DEF SortInv, Sorted
  <2>2. \A n \in Node \ Taken : Dependencies(src)[n] \cap (Node \ Taken) # {}
    <3> TAKE n \in Node \ Taken
    <3>1. ~(DependsOn(n) \subseteq Taken) /\ DependsOn(n) \subseteq Node
      BY <1>1 DEF SortInv, Sorted, DependsOn
    <3>2. DependsOn(n) = Dependencies(src)[n]
      BY <1>1, EdgesAreDependencies DEF SortInv
    <3> QED BY <3>1, <3>2
  <2> QED BY <2>1, <2>2 DEF Cyclic
<1>2. ASSUME SortInv, phase \in {"walk", "done"}, Cyclic(Dependencies(src)) PROVE FALSE
  <2>1. PICK S \in (SUBSET Node) \ {{}} : \A n \in S : Dependencies(src)[n] \cap S # {}
    BY <1>2 DEF Cyclic
  <2>2. Len(order) = N /\ Taken = Node
    BY <1>2, TakenFacts DEF SortInv, Sorted
  <2> DEFINE T == {i \in 1 .. N : order[i] \in S}
  <2>3. T # {} /\ T \subseteq Nat
    BY <2>1, <2>2 DEF Taken
  <2>4. PICK i \in T : \A j \in T : i <= j
    BY <2>3, LeastNat
  <2>5. PICK d \in S : d \in Dependencies(src)[order[i]]
    BY <2>1
  <2>6. order[i] \in Node
    BY <2>1
  <2>7. d \in Before(i)
    BY <1>2, <2>2, <2>5, <2>6, EdgesAreDependencies DEF SortInv, Ordered
  <2>8. PICK j \in 1 .. (i - 1) : d = order[j]
    BY <2>7 DEF Before
  <2>9. j \in T /\ j < i
    BY <2>5, <2>8, NAssumption
  <2> QED BY <2>4, <2>9
<1>3. SortInv => FatalIffCycle
  BY <1>1, <1>2 DEF FatalIffCycle
<1> QED BY <1>3, SortAlways, PTL

-----------------------------------------------------------------------------
(***************************************************************************)
(* Parents and children.                                                    *)
(***************************************************************************)
LEMMA ChildrenFacts ==
  ASSUME InTree, NEW n \in Node
  PROVE  /\ Children(n) \subseteq Node
         /\ \A c \in Children(n) : c \in Subtree(src, n) /\ n < c
<1>1. Subtree(src, n) \subseteq Node /\ \A x \in Subtree(src, n) : n <= x
  BY SubtreeFacts, NAssumption DEF InTree, Node
<1> QED BY <1>1, NAssumption DEF Children, Node

LEMMA LargestNode ==
  ASSUME NEW S \in SUBSET Node, S # {}
  PROVE  \E x \in S : \A y \in S : y <= x
<1> DEFINE T == {N - x : x \in S}
<1>1. T \subseteq Nat /\ T # {}
  BY NAssumption DEF Node
<1>2. PICK t \in T : \A u \in T : t <= u
  BY <1>1, LeastNat
<1>3. PICK x \in S : t = N - x
  BY <1>2
<1>4. \A y \in S : y <= x
  <2> TAKE y \in S
  <2>1. t <= N - y
    BY <1>2
  <2> QED BY <1>3, <2>1, NAssumption DEF Node
<1> QED BY <1>4

(* A node that is not the root is the child of exactly one node.            *)
LEMMA ParentFacts ==
  ASSUME InTree, NEW n \in Node
  PROVE  /\ n = 1 => Parent(n) = 0 /\ \A q \in Node : n \notin Children(q)
         /\ n # 1 => /\ Parent(n) \in Node /\ n \in Children(Parent(n))
                     /\ \A q \in Node : n \in Children(q) => q = Parent(n)
<1>1. CASE n = 1
  BY <1>1, ChildrenFacts, NAssumption DEF Parent, Node
<1>2. CASE n # 1
  <2> DEFINE T == {a \in Node : a # n /\ n \in Subtree(src, a)}
  <2>1. 1 \in T
    BY <1>2, NAssumption DEF InTree, IsTree, Subtree, Node
  <2>2. PICK p \in T : \A a \in T : a <= p
    BY <2>1, LargestNode
  <2>3. n \in Children(p)
    <3>1. ASSUME NEW o \in Subtree(src, p) \ {p, n}, n \in Subtree(src, o) PROVE FALSE
      <4>1. o \in Node /\ p < o
        BY <2>2, SubtreeFacts, NAssumption DEF InTree, Node
      <4> QED BY <2>2, <3>1, <4>1, NAssumption DEF Node
    <3> QED BY <2>2, <3>1 DEF Children
  <2>4. ASSUME NEW q \in Node, NEW r \in Node, n \in Children(q), n \in Children(r), q # r
        PROVE  FALSE
    <3>1. n \in Subtree(src, q) /\ n \in Subtree(src, r) /\ q # n /\ r # n
      BY <2>4 DEF Children
    <3>2. q \in Subtree(src, r) \/ r \in Subtree(src, q)
      BY <3>1, SubtreeFacts DEF InTree
    <3> QED BY <2>4, <3>1, <3>2 DEF Children
  <2> QED BY <1>2, <2>2, <2>3, <2>4 DEF Parent
<1> QED BY <1>1, <1>2

(* The parent of a node below n is n or below n.                            *)
LEMMA ParentBelow ==
  ASSUME InTree, NEW n \in Node, NEW m \in Subtree(src, n) \ {n}
  PROVE  /\ m \in Node /\ m # 1 /\ Parent(m) \in Subtree(src, n) /\ Parent(m) < m
<1>1. m \in Node /\ n < m
  BY SubtreeFacts, NAssumption DEF InTree, Node
<1>2. m # 1
  BY <1>1, NAssumption DEF Node
<1>3. Parent(m) \in Node /\ m \in Children(Parent(m))
  BY <1>1, <1>2, ParentFacts
<1>4. m \in Subtree(src, Parent(m)) /\ Parent(m) < m
  BY <1>3, ChildrenFacts
<1>5. Parent(m) \in Subtree(src, n) \/ n \in Subtree(src, Parent(m))
  BY <1>1, <1>3, <1>4, SubtreeFacts DEF InTree
<1>6. n \in Subtree(src, Parent(m)) => n = Parent(m)
  BY <1>1, <1>3 DEF Children
<1> QED BY <1>1, <1>2, <1>4, <1>5, <1>6, SubtreeFacts DEF InTree

(* What holds all children of its members holds their subtrees.             *)
LEMMA ClosedBelow ==
  ASSUME InTree, NEW X \in SUBSET Node, \A x \in X : Children(x) \subseteq X,
         NEW n \in Node, Children(n) \subseteq X
  PROVE  Subtree(src, n) \ {n} \subseteq X
<1> DEFINE bad == (Subtree(src, n) \ {n}) \ X
<1> SUFFICES ASSUME bad # {} PROVE FALSE
  OBVIOUS
<1>1. bad \subseteq Nat
  BY SubtreeFacts, NAssumption DEF InTree, Node
<1>2. PICK m \in bad : \A y \in bad : m <= y
  BY <1>1, LeastNat
<1>3. m \in Node /\ m # 1 /\ Parent(m) \in Subtree(src, n) /\ Parent(m) < m
  BY ParentBelow
<1>4. Parent(m) \in Node /\ m \in Children(Parent(m))
  BY <1>3, ParentFacts
<1>5. Parent(m) = n \/ Parent(m) \in X
  BY <1>2, <1>3, <1>4, NAssumption DEF Node
<1> QED BY <1>2, <1>4, <1>5

-----------------------------------------------------------------------------
(***************************************************************************)
(* The walk.                                                                *)
(***************************************************************************)
Exited == ToSet(exited)
Queued == ToSet(exits)
Waits(p) == Children(p) \ Exited

(* The counter of a node that has not been entered has wrapped below zero   *)
(* once for every child that has exited; after it has been entered it is    *)
(* at least the number of children left, and no node exits twice.           *)
WalkInv ==
  /\ entered \in 0 .. Len(order)
  /\ exits \in Seq(Node) /\ exited \in Seq(Node)
  /\ \A i, j \in 1 .. Len(exits) : exits[i] = exits[j] => i = j
  /\ Queued \cap Exited = {}
  /\ \A n \in Queued \cup Exited : n \in EnteredSet /\ Children(n) \subseteq Exited
  /\ left \in [Node \cup {0} -> 0 .. Wrap - 1]
  /\ left[0] = IF 1 \in Exited THEN Wrap - 1 ELSE 0
  /\ \A p \in EnteredSet : Cardinality(Waits(p)) <= left[p]
  /\ \A p \in Node \ EnteredSet :
       LET gone == Cardinality(Children(p) \cap Exited)
       IN  left[p] = IF gone = 0 THEN 0 ELSE Wrap - gone

(* Before the walk.                                                         *)
Unwalked ==
  phase \notin {"walk", "done"} =>
    /\ entered = 0 /\ exits = << >> /\ exited = << >>
    /\ left = [n \in Node \cup {0} |-> 0]

LEMMA SeqFacts ==
  ASSUME NEW S, NEW s \in Seq(S)
  PROVE  /\ ToSet(s) = {s[i] : i \in 1 .. Len(s)} /\ ToSet(s) \subseteq S
         /\ \A x \in S : /\ Append(s, x) \in Seq(S)
                         /\ ToSet(Append(s, x)) = ToSet(s) \cup {x}
<1>1. ToSet(s) = {s[i] : i \in 1 .. Len(s)}
  BY DEF ToSet
<1>2. ASSUME NEW x \in S PROVE ToSet(Append(s, x)) = ToSet(s) \cup {x}
  <2>1. /\ Append(s, x) \in Seq(S) /\ Len(Append(s, x)) = Len(s) + 1 /\ Len(s) \in Nat
        /\ \A i \in 1 .. Len(s) : Append(s, x)[i] = s[i]
        /\ Append(s, x)[Len(s) + 1] = x
    BY <1>2
  <2>2. 1 .. (Len(s) + 1) = (1 .. Len(s)) \cup {Len(s) + 1}
    BY <2>1
  <2>3. ToSet(Append(s, x)) = {Append(s, x)[i] : i \in 1 .. (Len(s) + 1)}
    BY <2>1 DEF ToSet
  <2> QED BY <1>1, <2>1, <2>2, <2>3
<1>3. \A x \in S : Append(s, x) \in Seq(S)
  OBVIOUS
<1> QED BY <1>1, <1>2, <1>3

(* Taking the head of a sequence without repetitions.                       *)
LEMMA HeadFacts ==
  ASSUME NEW S, NEW s \in Seq(S), s # << >>,
         \A i, j \in 1 .. Len(s) : s[i] = s[j] => i = j
  PROVE  /\ Head(s) \in S /\ Head(s) \in ToSet(s) /\ Tail(s) \in Seq(S)
         /\ ToSet(Tail(s)) = ToSet(s) \ {Head(s)}
         /\ \A i, j \in 1 .. Len(Tail(s)) : Tail(s)[i] = Tail(s)[j] => i = j
<1>1. PICK k \in Nat : Len(s) = k + 1
  <2>1. Len(s) \in Nat /\ Len(s) # 0
    OBVIOUS
  <2> QED BY <2>1
<1>2. /\ Tail(s) \in Seq(S) /\ Len(Tail(s)) = k /\ Head(s) = s[1] /\ Head(s) \in S
      /\ \A i \in 1 .. k : Tail(s)[i] = s[i + 1]
  BY <1>1
<1>3. ToSet(s) = {s[i] : i \in 1 .. (k + 1)}
  BY <1>1, SeqFacts
<1>4. ToSet(Tail(s)) = {s[i + 1] : i \in 1 .. k}
  <2>1. PICK t \in Seq(S) : t = Tail(s)
    BY <1>2
  <2>2. ToSet(t) = {t[i] : i \in 1 .. Len(t)}
    BY SeqFacts
  <2> QED BY <1>2, <2>1, <2>2
<1>5. \A i \in 1 .. (k + 1) : i = 1 \/ (i - 1 \in 1 .. k /\ (i - 1) + 1 = i)
  BY <1>1
<1>6. \A i \in 1 .. k : i + 1 \in 1 .. (k + 1) /\ i + 1 # 1
  BY <1>1
<1>7. \A i \in 1 .. k : s[i + 1] # s[1]
  <2>1. 1 \in 1 .. (k + 1)
    BY <1>1
  <2> QED BY <1>1, <1>6, <2>1
<1>8. ToSet(Tail(s)) = ToSet(s) \ {Head(s)}
  <2>1. ToSet(s) = {s[1]} \cup {s[i + 1] : i \in 1 .. k}
    BY <1>3, <1>5, <1>6
  <2> QED BY <1>2, <1>4, <1>7, <2>1
<1>9. \A i, j \in 1 .. k : Tail(s)[i] = Tail(s)[j] => i = j
  BY <1>1, <1>2, <1>6
<1> QED BY <1>2, <1>3, <1>8, <1>9

(* The counters wrap.                                                       *)
LEMMA Wrapping ==
  /\ (0 - 1) % Wrap = Wrap - 1
  /\ \A a \in 1 .. Wrap - 1 : (a - 1) % Wrap = a - 1
<1>1. Wrap \in Nat /\ Wrap > 1
  BY WrapAssumption, NAssumption
<1> QED BY <1>1

LEMMA ChildCounts ==
  ASSUME InTree, NEW p \in Node, NEW X
  PROVE  /\ Cardinality(Children(p) \ X) \in 0 .. N /\ IsFiniteSet(Children(p) \ X)
         /\ Cardinality(Children(p) \cap X) \in 0 .. N /\ IsFiniteSet(Children(p) \cap X)
BY ChildrenFacts, NodesFinite

(* EnterIR sets the counter of the node.                                    *)
LEMMA WalkEnter ==
  ASSUME SortInv, WalkInv, EnterNext
  PROVE  WalkInv'
<1> DEFINE n == order[entered + 1]
<1>1. /\ phase = "walk" /\ exits = << >> /\ entered < Len(order) /\ entered' = entered + 1
      /\ left' = [left EXCEPT ![n] = Cardinality(Children(n))]
      /\ exits' = (IF Children(n) = {} THEN <<n>> ELSE << >>)
      /\ UNCHANGED <<src, adj, order, exited>>
  BY DEF EnterNext, sortVars
<1>2. entered \in Nat /\ Len(order) \in Nat /\ order \in Seq(Node)
  BY DEF WalkInv, SortInv, Ordered
<1>3. entered + 1 \in 1 .. Len(order) /\ n \in Node
  BY <1>1, <1>2
<1>4. EnteredSet' = EnteredSet \cup {n}
  <2>1. 1 .. (entered + 1) = (1 .. entered) \cup {entered + 1}
    BY <1>2
  <2> QED BY <1>1, <2>1 DEF EnteredSet
<1>5. n \notin EnteredSet
  <2>1. \A i \in 1 .. entered : i \in 1 .. Len(order) /\ i # entered + 1
    BY <1>1, <1>2
  <2> QED BY <1>3, <2>1 DEF EnteredSet, SortInv, Ordered
<1>6. Exited' = Exited /\ \A p : Children(p)' = Children(p) /\ Waits(p)' = Waits(p)
  BY <1>1 DEF Exited, Children, Waits
<1>7. Queued = {} /\ Queued' = (IF Children(n) = {} THEN {n} ELSE {})
  BY <1>1 DEF Queued, ToSet
<1>8. exits' \in Seq(Node) /\ \A i, j \in 1 .. Len(exits') : exits'[i] = exits'[j] => i = j
  BY <1>1, <1>3
<1>9. Cardinality(Children(n)) \in 0 .. N /\ N \in Int /\ Wrap \in Int /\ N < Wrap
  <2>1. Children(n) \in SUBSET Node
    BY <1>3, ChildrenFacts DEF SortInv
  <2> QED BY <2>1, NodesFinite, NAssumption, WrapAssumption
<1>10. left' \in [Node \cup {0} -> 0 .. Wrap - 1] /\ left'[0] = left[0]
  <2>1. n # 0
    BY <1>3, NAssumption DEF Node
  <2>2. PICK c \in 0 .. Wrap - 1 : c = Cardinality(Children(n))
    BY <1>9
  <2>3. left' = [left EXCEPT ![n] = c] /\ left \in [Node \cup {0} -> 0 .. Wrap - 1]
    BY <1>1, <2>2 DEF WalkInv
  <2> HIDE DEF n
  <2> QED BY <1>3, <2>1, <2>3
<1>11. \A p \in EnteredSet' : Cardinality(Waits(p)) <= left'[p]
  <2>1. Cardinality(Waits(n)) <= Cardinality(Children(n))
    <3>1. IsFiniteSet(Children(n))
      BY <1>3, ChildrenFacts, NodesFinite DEF SortInv
    <3> QED BY <3>1, FS_Subset DEF Waits
  <2>2. left'[n] = Cardinality(Children(n))
    BY <1>1, <1>3 DEF WalkInv
  <2>3. \A p \in EnteredSet : p # n => left'[p] = left[p]
    BY <1>1 DEF WalkInv
  <2> QED BY <1>4, <1>5, <2>1, <2>2, <2>3 DEF WalkInv
<1>12. \A p \in Node \ EnteredSet' : left'[p] = left[p] /\ p \in Node \ EnteredSet
  BY <1>1, <1>4 DEF WalkInv
<1>13. entered' \in 0 .. Len(order')
  BY <1>1, <1>2
<1>14. Queued' \cap Exited' = {}
  BY <1>5, <1>6, <1>7 DEF WalkInv
<1>15. \A m \in Queued' \cup Exited' : m \in EnteredSet' /\ Children(m)' \subseteq Exited'
  BY <1>4, <1>6, <1>7 DEF WalkInv
<1>16. \A p \in Node \ EnteredSet' :
         LET gone == Cardinality(Children(p) \cap Exited)
         IN  left'[p] = IF gone = 0 THEN 0 ELSE Wrap - gone
  BY <1>12 DEF WalkInv
<1>17. left'[0] = IF 1 \in Exited THEN Wrap - 1 ELSE 0
  BY <1>10 DEF WalkInv
<1>18. exited' \in Seq(Node)
  BY <1>1 DEF WalkInv
<1> QED BY <1>6, <1>8, <1>10, <1>11, <1>13, <1>14, <1>15, <1>16, <1>17, <1>18 DEF WalkInv

(* What ExitIR finds.                                                       *)
LEMMA ExitFacts ==
  ASSUME SortInv, WalkInv, ExitNext
  PROVE  LET n == Head(exits)  p == Parent(n)  count == (left[p] - 1) % Wrap IN
         /\ n \in Node \ Exited /\ n \in EnteredSet /\ Children(n) \subseteq Exited
         /\ Exited' = Exited \cup {n} /\ EnteredSet' = EnteredSet
         /\ \A q : Children(q)' = Children(q)
         /\ left' = [left EXCEPT ![p] = count]
         /\ n = 1 => p = 0 /\ count = Wrap - 1 /\ count # 0
         /\ n # 1 => /\ p \in Node /\ n \in Waits(p) /\ p \notin Queued \cup Exited
                     /\ IF p \in EnteredSet
                        THEN count = left[p] - 1 /\ left[p] \in 1 .. Wrap - 1
                        ELSE count = Wrap - (Cardinality(Children(p) \cap Exited) + 1)
                             /\ count \in 1 .. Wrap - 1
<1> DEFINE n == Head(exits)
           p == Parent(n)
           count == (left[p] - 1) % Wrap
<1>1. /\ phase = "walk" /\ exits # << >> /\ exited' = Append(exited, n)
      /\ left' = [left EXCEPT ![p] = count]
      /\ UNCHANGED <<src, order, entered>>
  BY DEF ExitNext, sortVars
<1>2. n \in Node /\ n \in Queued /\ n \notin Exited
  BY <1>1, HeadFacts DEF WalkInv, Queued
<1>3. n \in EnteredSet /\ Children(n) \subseteq Exited
  BY <1>2 DEF WalkInv
<1>4. Exited' = Exited \cup {n} /\ EnteredSet' = EnteredSet
  BY <1>1, <1>2, SeqFacts DEF WalkInv, Exited, EnteredSet
<1>5. \A q : Children(q)' = Children(q)
  BY <1>1 DEF Children
<1>6. N \in Nat /\ Wrap \in Nat /\ N >= 1 /\ Wrap > N
  BY NAssumption, WrapAssumption
<1>7. CASE n = 1
  <2>1. p = 0 /\ left[p] = 0
    BY <1>2, <1>7, ParentFacts DEF SortInv, WalkInv
  <2>2. count = Wrap - 1
    BY <2>1, Wrapping
  <2> QED BY <1>1, <1>2, <1>3, <1>4, <1>5, <1>6, <1>7, <2>1, <2>2
<1>8. CASE n # 1
  <2>1. p \in Node /\ n \in Children(p)
    BY <1>2, <1>8, ParentFacts DEF SortInv
  <2>2. n \in Waits(p) /\ p \notin Queued \cup Exited
    BY <1>2, <2>1 DEF Waits, WalkInv
  <2>3. CASE p \in EnteredSet
    <3>1. Cardinality(Waits(p)) \in 0 .. N /\ Cardinality(Waits(p)) # 0
      BY <2>1, <2>2, ChildCounts, FS_EmptySet DEF Waits, SortInv
    <3>2. left[p] \in 0 .. Wrap - 1 /\ Cardinality(Waits(p)) <= left[p]
      BY <2>1, <2>3 DEF WalkInv
    <3>3. left[p] \in 1 .. Wrap - 1
      BY <1>6, <3>1, <3>2
    <3>4. count = left[p] - 1
      BY <3>3, Wrapping
    <3> QED BY <1>1, <1>2, <1>3, <1>4, <1>5, <1>8, <2>1, <2>2, <2>3, <3>3, <3>4
  <2>4. CASE p \notin EnteredSet
    <3> DEFINE gone == Children(p) \cap Exited
    <3>1. Cardinality(gone) \in 0 .. N /\ Cardinality(gone \cup {n}) = Cardinality(gone) + 1
          /\ Cardinality(gone \cup {n}) \in 0 .. N
      <4>1. IsFiniteSet(gone) /\ Cardinality(gone) \in 0 .. N
        BY <2>1, ChildCounts DEF SortInv
      <4>2. gone \cup {n} \in SUBSET Node
        BY <1>2, <2>1, ChildrenFacts DEF SortInv
      <4> QED BY <1>2, <4>1, <4>2, FS_AddElement, NodesFinite
    <3>2. left[p] = IF Cardinality(gone) = 0 THEN 0 ELSE Wrap - Cardinality(gone)
      BY <2>1, <2>4 DEF WalkInv
    <3>3. Cardinality(gone) + 1 <= N
      BY <1>6, <3>1
    <3>4. count = Wrap - (Cardinality(gone) + 1)
      <4>1. CASE Cardinality(gone) = 0
        BY <1>6, <3>2, <4>1, Wrapping
      <4>2. CASE Cardinality(gone) # 0
        <5>1. left[p] \in 1 .. Wrap - 1 /\ left[p] = Wrap - Cardinality(gone)
          BY <1>6, <3>1, <3>2, <4>2
        <5> QED BY <1>6, <3>1, <5>1, Wrapping
      <4> QED BY <4>1, <4>2
    <3>5. count \in 1 .. Wrap - 1
      BY <1>6, <3>1, <3>3, <3>4
    <3> QED BY <1>1, <1>2, <1>3, <1>4, <1>5, <1>8, <2>1, <2>2, <2>4, <3>4, <3>5
  <2> QED BY <2>3, <2>4
<1> QED BY <1>7, <1>8

(* A parent joins the queue when, and only when, its last child has exited  *)
(* and it has been entered itself.                                          *)
LEMMA WalkExit ==
  ASSUME SortInv, WalkInv, ExitNext
  PROVE  WalkInv'
<1> DEFINE n == Head(exits)
           p == Parent(n)
           count == (left[p] - 1) % Wrap
<1>1. /\ exits # << >> /\ exits' = Tail(exits) \o (IF count = 0 THEN <<p>> ELSE << >>)
      /\ UNCHANGED <<src, order, entered>> /\ exited' = Append(exited, n)
  BY DEF ExitNext, sortVars, MayExit
<1>2. /\ n \in Node \ Exited /\ n \in EnteredSet /\ Children(n) \subseteq Exited
      /\ Exited' = Exited \cup {n} /\ EnteredSet' = EnteredSet
      /\ \A q : Children(q)' = Children(q)
      /\ left' = [left EXCEPT ![p] = count]
  BY ExitFacts
<1>3. n = 1 => p = 0 /\ count = Wrap - 1 /\ count # 0
  BY ExitFacts
<1>4. n # 1 => /\ p \in Node /\ n \in Waits(p) /\ p \notin Queued \cup Exited
               /\ IF p \in EnteredSet
                  THEN count = left[p] - 1 /\ left[p] \in 1 .. Wrap - 1
                  ELSE count = Wrap - (Cardinality(Children(p) \cap Exited) + 1)
                       /\ count \in 1 .. Wrap - 1
  BY ExitFacts
<1> HIDE DEF n, p, count
<1>5. N \in Nat /\ Wrap \in Nat /\ N >= 1 /\ Wrap > N
  BY NAssumption, WrapAssumption
<1>6. \A q \in Node : \A m \in Children(q) : m \in Node /\ (m = n => q = p)
  BY <1>2, ParentFacts, ChildrenFacts DEF SortInv, p
<1>7. ASSUME NEW q \in Node, q # p
      PROVE  /\ left'[q] = left[q] /\ Waits(q)' = Waits(q)
             /\ Children(q) \cap Exited' = Children(q) \cap Exited
  BY <1>2, <1>6, <1>7 DEF WalkInv, Waits
<1>8. left' \in [Node \cup {0} -> 0 .. Wrap - 1]
  <2>1. count \in 0 .. Wrap - 1
    BY <1>3, <1>4, <1>5
  <2> QED BY <1>2, <2>1 DEF WalkInv
<1>9. left'[0] = IF 1 \in Exited' THEN Wrap - 1 ELSE 0
  <2>1. CASE n = 1
    BY <1>2, <1>3, <2>1 DEF WalkInv
  <2>2. CASE n # 1
    <3>1. p # 0
      BY <1>4, <1>5, <2>2 DEF Node
    <3> QED BY <1>2, <2>2, <3>1 DEF WalkInv
  <2> QED BY <2>1, <2>2
<1>10. p \in Node => n # 1
  BY <1>3, <1>5 DEF Node
<1>11. ASSUME NEW q \in EnteredSet
       PROVE  Cardinality(Waits(q)') <= left'[q]
  <2>1. q \in Node
    BY TakenCount DEF EnteredSet, WalkInv, SortInv, Before, Ordered
  <2>2. CASE q # p
    BY <1>7, <1>11, <2>1, <2>2 DEF WalkInv
  <2>3. CASE q = p
    <3>1. n \in Waits(q) /\ left'[q] = left[q] - 1 /\ left[q] \in 1 .. Wrap - 1
      BY <1>2, <1>4, <1>10, <1>11, <2>1, <2>3 DEF WalkInv
    <3>2. Waits(q)' = Waits(q) \ {n}
      BY <1>2 DEF Waits
    <3>3. IsFiniteSet(Waits(q)) /\ Cardinality(Waits(q)) \in 0 .. N
      BY <2>1, ChildCounts DEF Waits, SortInv
    <3>4. Cardinality(Waits(q) \ {n}) = Cardinality(Waits(q)) - 1
      BY <3>1, <3>3, FS_RemoveElement
    <3>5. Cardinality(Waits(q)) <= left[q]
      BY <1>11 DEF WalkInv
    <3> QED BY <1>5, <3>1, <3>2, <3>3, <3>4, <3>5
  <2> QED BY <2>2, <2>3
<1>12. ASSUME NEW q \in Node \ EnteredSet
       PROVE  LET gone == Cardinality(Children(q) \cap Exited')
              IN  left'[q] = IF gone = 0 THEN 0 ELSE Wrap - gone
  <2>1. CASE q # p
    BY <1>7, <1>12, <2>1 DEF WalkInv
  <2>2. CASE q = p
    <3>1. /\ n \in Waits(p) /\ left'[p] = Wrap - (Cardinality(Children(p) \cap Exited) + 1)
      BY <1>2, <1>4, <1>10, <1>12, <2>2 DEF WalkInv
    <3>2. Children(p) \cap Exited' = (Children(p) \cap Exited) \cup {n}
      BY <1>2, <3>1 DEF Waits
    <3>3. IsFiniteSet(Children(p) \cap Exited) /\ Cardinality(Children(p) \cap Exited) \in 0 .. N
      BY <2>2, ChildCounts DEF SortInv
    <3>4. Cardinality(Children(p) \cap Exited') = Cardinality(Children(p) \cap Exited) + 1
      BY <1>2, <3>2, <3>3, FS_AddElement
    <3> QED BY <1>5, <2>2, <3>1, <3>3, <3>4
  <2> QED BY <2>1, <2>2
<1>13. /\ Tail(exits) \in Seq(Node) /\ ToSet(Tail(exits)) = Queued \ {n}
       /\ \A i, j \in 1 .. Len(Tail(exits)) : Tail(exits)[i] = Tail(exits)[j] => i = j
  BY <1>1, HeadFacts DEF WalkInv, Queued, n
<1>14. CASE count # 0
  <2>1. exits' = Tail(exits)
    BY <1>1, <1>13, <1>14
  <2>2. Queued' = Queued \ {n} /\ exits' \in Seq(Node)
        /\ \A i, j \in 1 .. Len(exits') : exits'[i] = exits'[j] => i = j
    BY <1>13, <2>1 DEF Queued
  <2>3. Queued' \cap Exited' = {}
    BY <1>2, <2>2 DEF WalkInv
  <2>4. \A m \in Queued' \cup Exited' : m \in EnteredSet' /\ Children(m)' \subseteq Exited'
    BY <1>2, <2>2 DEF WalkInv
  <2>5. entered' \in 0 .. Len(order') /\ exited' \in Seq(Node)
    BY <1>1, <1>2 DEF WalkInv
  <2> QED BY <1>2, <1>8, <1>9, <1>11, <1>12, <2>2, <2>3, <2>4, <2>5 DEF WalkInv
<1>15. CASE count = 0
  <2>1. n # 1 /\ p \in EnteredSet /\ p \in Node /\ p \notin Queued \cup Exited
        /\ n \in Waits(p) /\ left[p] \in 1 .. Wrap - 1 /\ left[p] - 1 = 0
    BY <1>3, <1>4, <1>5, <1>15
  <2>2. Children(p) \subseteq Exited'
    <3>1. IsFiniteSet(Waits(p)) /\ Cardinality(Waits(p)) \in 0 .. N /\ Cardinality(Waits(p)) <= left[p]
      BY <2>1, ChildCounts DEF Waits, SortInv, WalkInv
    <3>2. Cardinality(Waits(p) \ {n}) = Cardinality(Waits(p)) - 1 /\ IsFiniteSet(Waits(p) \ {n})
      BY <2>1, <3>1, FS_RemoveElement
    <3>3. Cardinality(Waits(p) \ {n}) \in Nat
      BY <3>2, FS_CardinalityType
    <3>4. Cardinality(Waits(p) \ {n}) = 0
      BY <1>5, <2>1, <3>1, <3>2, <3>3
    <3>5. Waits(p) \ {n} = {}
      BY <3>2, <3>4, FS_EmptySet
    <3> QED BY <1>2, <3>5 DEF Waits
  <2>3. exits' = Append(Tail(exits), p)
    BY <1>1, <1>13, <1>15, <2>1
  <2>4. exits' \in Seq(Node) /\ Queued' = (Queued \ {n}) \cup {p}
    <3>1. PICK t \in Seq(Node) : t = Tail(exits)
      BY <1>13
    <3>2. PICK x \in Node : x = p
      BY <2>1
    <3>3. Append(t, x) \in Seq(Node) /\ ToSet(Append(t, x)) = ToSet(t) \cup {x}
      BY SeqFacts
    <3>4. exits' = Append(t, x) /\ ToSet(t) = Queued \ {n}
      BY <1>13, <2>3, <3>1, <3>2
    <3> QED BY <3>2, <3>3, <3>4 DEF Queued
  <2>5. \A i, j \in 1 .. Len(exits') : exits'[i] = exits'[j] => i = j
    <3>1. PICK k \in Nat : k = Len(Tail(exits))
      <4>1. PICK t \in Seq(Node) : t = Tail(exits)
        BY <1>13
      <4>2. Len(t) \in Nat
        BY <4>1
      <4> QED BY <4>1, <4>2
    <3>2. /\ Len(exits') = k + 1 /\ exits'[k + 1] = p
          /\ \A i \in 1 .. k : exits'[i] = Tail(exits)[i]
      BY <1>13, <2>1, <2>3, <3>1
    <3>3. \A i \in 1 .. k : Tail(exits)[i] # p
      <4>1. PICK t \in Seq(Node) : t = Tail(exits)
        BY <1>13
      <4>2. ToSet(t) = {t[i] : i \in 1 .. Len(t)}
        BY SeqFacts
      <4> QED BY <1>13, <2>1, <3>1, <4>1, <4>2
    <3>4. \A i \in 1 .. (k + 1) : i \in 1 .. k \/ i = k + 1
      BY <3>1
    <3> QED BY <1>13, <3>1, <3>2, <3>3, <3>4
  <2>6. Queued' \cap Exited' = {}
    BY <1>2, <2>1, <2>4 DEF WalkInv, Waits
  <2>7. \A m \in Queued' \cup Exited' : m \in EnteredSet' /\ Children(m)' \subseteq Exited'
    BY <1>2, <2>1, <2>2, <2>4 DEF WalkInv
  <2>8. entered' \in 0 .. Len(order') /\ exited' \in Seq(Node)
    BY <1>1, <1>2 DEF WalkInv
  <2> QED BY <1>2, <1>8, <1>9, <1>11, <1>12, <2>4, <2>5, <2>6, <2>7, <2>8 DEF WalkInv
<1> QED BY <1>14, <1>15

LEMMA WalkInit == Init => WalkInv /\ Unwalked
<1> SUFFICES ASSUME Init PROVE WalkInv /\ Unwalked
  OBVIOUS
<1>1. /\ order = << >> /\ entered = 0 /\ exits = << >> /\ exited = << >>
      /\ left = [n \in Node \cup {0} |-> 0]
  BY DEF Init
<1>2. Exited = {} /\ Queued = {} /\ EnteredSet = {}
  BY <1>1 DEF Exited, Queued, EnteredSet, ToSet
<1>3. \A p \in Node : Children(p) \cap Exited = {} /\ Cardinality(Children(p) \cap Exited) = 0
  BY <1>2, FS_EmptySet
<1>4. 0 \in 0 .. Wrap - 1
  BY WrapAssumption, NAssumption
<1>5. left \in [Node \cup {0} -> 0 .. Wrap - 1] /\ left[0] = 0 /\ \A p \in Node : left[p] = 0
  BY <1>1, <1>4
<1>6. entered \in 0 .. Len(order) /\ exits \in Seq(Node) /\ exited \in Seq(Node)
      /\ \A i, j \in 1 .. Len(exits) : exits[i] = exits[j] => i = j
  BY <1>1
<1> QED BY <1>1, <1>2, <1>3, <1>5, <1>6 DEF WalkInv, Unwalked

LEMMA WalkStep ==
  ASSUME SortInv, WalkInv, Unwalked, [Next]_vars
  PROVE  WalkInv' /\ Unwalked'
<1>1. src' = src
  BY DEF Next, AddNode, StartSort, TakeTop, EndSort, EnterNext, ExitNext, Done, vars
<1>2. CASE EnterNext
  BY <1>2, WalkEnter DEF EnterNext, Unwalked
<1>3. CASE ExitNext
  BY <1>3, WalkExit DEF ExitNext, Unwalked
<1>4. CASE AddNode \/ StartSort \/ TakeTop \/ EndSort \/ Done \/ UNCHANGED vars
  <2>1. UNCHANGED walkVars
    BY <1>4 DEF AddNode, StartSort, TakeTop, EndSort, Done, vars, walkVars
  <2>2. /\ Exited' = Exited /\ Queued' = Queued
        /\ \A p : Children(p)' = Children(p) /\ Waits(p)' = Waits(p)
    BY <1>1, <2>1 DEF walkVars, Exited, Queued, Children, Waits
  <2>3. order' = order \/ (entered = 0 /\ Len(order') \in Nat)
    <3>1. CASE TakeTop
      <4>1. Len(order') \in Nat
        BY <3>1, TakeOrders DEF Ordered
      <4> QED BY <3>1, <4>1 DEF TakeTop, Unwalked
    <3>2. CASE ~TakeTop
      BY <1>4, <3>2 DEF AddNode, StartSort, EndSort, Done, vars, sortVars
    <3> QED BY <3>1, <3>2
  <2>4. EnteredSet' = EnteredSet /\ entered' \in 0 .. Len(order')
    BY <2>1, <2>3 DEF WalkInv, EnteredSet, walkVars
  <2>5. WalkInv'
    BY <2>1, <2>2, <2>4 DEF WalkInv, walkVars
  <2>6. phase' \notin {"walk", "done"} => phase \notin {"walk", "done"}
    BY <1>4 DEF AddNode, StartSort, TakeTop, EndSort, Done, vars
  <2>7. Unwalked'
    BY <2>1, <2>6 DEF Unwalked, walkVars
  <2> QED BY <2>5, <2>7
<1> QED BY <1>2, <1>3, <1>4 DEF Next

THEOREM WalkAlways == Spec => [](SortInv /\ WalkInv /\ Unwalked)
<1>1. Init => SortInv /\ WalkInv /\ Unwalked
  BY SortInit, WalkInit
<1>2. SortInv /\ WalkInv /\ Unwalked /\ [Next]_vars => (SortInv /\ WalkInv /\ Unwalked)'
  BY SortStep, WalkStep
<1> QED BY <1>1, <1>2, PTL DEF Spec

(* Whatever the order, even when a node waits for a part of itself, ExitIR  *)
(* comes at most once to a node, and from the inside out.                   *)
THEOREM ExitsAreInsideOut == Spec => ExitsInsideOut
<1> DEFINE A == \A n \in ToSet(exited') \ ToSet(exited) :
                  Subtree(src, n) \ {n} \subseteq ToSet(exited)
<1>1. SortInv /\ WalkInv /\ [Next]_vars => [A]_vars
  <2> SUFFICES ASSUME SortInv, WalkInv, [Next]_vars PROVE A
    OBVIOUS
  <2>1. CASE ExitNext
    <3>1. PICK n \in Node : n = Head(exits) /\ Children(n) \subseteq Exited /\ Exited' = Exited \cup {n}
      BY <2>1, ExitFacts
    <3>2. Exited \in SUBSET Node /\ \A x \in Exited : Children(x) \subseteq Exited
      BY SeqFacts DEF WalkInv, Exited
    <3>3. Subtree(src, n) \ {n} \subseteq Exited
      BY <3>1, <3>2, ClosedBelow DEF SortInv
    <3> QED BY <3>1, <3>3 DEF Exited
  <2>2. CASE ~ExitNext
    BY <2>2 DEF Next, AddNode, StartSort, TakeTop, EndSort, EnterNext, Done, vars, walkVars
  <2> QED BY <2>1, <2>2
<1> QED BY <1>1, WalkAlways, PTL DEF Spec, ExitsInsideOut

-----------------------------------------------------------------------------
(***************************************************************************)
(* The walk when no node waits for a part of itself: ancestors come first,  *)
(* so no child has exited when its parent is entered.                       *)
(***************************************************************************)
Exact ==
  NoSelfReach(src) /\ phase \in {"walk", "done"} =>
    \A p \in EnteredSet : /\ left[p] = Cardinality(Waits(p))
                          /\ Waits(p) = {} => p \in Queued \cup Exited

LEMMA ExactEnter ==
  ASSUME SortInv, WalkInv, Exact, EnterNext, NoSelfReach(src)
  PROVE  Exact'
<1> DEFINE n == order[entered + 1]
<1>1. /\ phase = "walk" /\ exits = << >> /\ entered < Len(order) /\ entered' = entered + 1
      /\ left' = [left EXCEPT ![n] = Cardinality(Children(n))]
      /\ exits' = (IF Children(n) = {} THEN <<n>> ELSE << >>)
      /\ UNCHANGED <<src, order, exited>>
  BY DEF EnterNext, sortVars
<1>2. PICK k \in Nat : k = entered /\ Len(order) = N /\ k + 1 \in 1 .. N /\ n \in Node
  BY <1>1, NAssumption DEF WalkInv, SortInv, Sorted, Ordered
<1>3. Children(n) \cap Exited = {}
  <2> SUFFICES ASSUME NEW c \in Children(n), c \in Exited PROVE FALSE
    OBVIOUS
  <2>1. c \in Node /\ c \in Subtree(src, n) \ {n}
    BY <1>2, ChildrenFacts DEF SortInv, Children
  <2> DEFINE rank == [x \in Node |-> Rank(x)]
  <2>2. IsTopoOrder(rank, Dependencies(src))
    BY <1>1, <1>2, SortedIsTopological
  <2>3. \A x \in Node : Rank(x) \in 0 .. N - 1 /\ order[Rank(x) + 1] = x
    BY <1>2, RankFacts
  <2>4. rank \in [Node -> Int]
    BY <2>3
  <2>5. rank[n] < rank[c]
    <3> HIDE DEF rank, n
    <3> QED BY <1>2, <2>1, <2>2, <2>4, AncestorsFirst DEF SortInv, InTree
  <2>6. PICK r \in 0 .. N - 1 : r = Rank(c) /\ order[r + 1] = c
    BY <2>1, <2>3
  <2>7. PICK t \in 0 .. N - 1 : t = Rank(n) /\ order[t + 1] = n
    BY <1>2, <2>3
  <2>8. t < r
    BY <1>2, <2>1, <2>5, <2>6, <2>7
  <2>9. c \in EnteredSet
    BY DEF WalkInv
  <2>10. PICK i \in 1 .. k : c = order[i]
    BY <1>2, <2>9 DEF EnteredSet
  <2>11. i = r + 1 /\ t + 1 = k + 1
    <3>1. i \in 1 .. N /\ r + 1 \in 1 .. N /\ t + 1 \in 1 .. N /\ k + 1 \in 1 .. N
      BY <1>2, NAssumption
    <3> QED BY <1>2, <2>6, <2>7, <2>10, <3>1 DEF SortInv, Ordered
  <2> QED BY <2>8, <2>10, <2>11
<1>4. EnteredSet' = EnteredSet \cup {n}
  <2>1. 1 .. (k + 1) = (1 .. k) \cup {k + 1}
    OBVIOUS
  <2> QED BY <1>1, <1>2, <2>1 DEF EnteredSet
<1>5. Exited' = Exited /\ \A p : Children(p)' = Children(p) /\ Waits(p)' = Waits(p)
  BY <1>1 DEF Exited, Children, Waits
<1>6. Queued = {} /\ Queued' = (IF Children(n) = {} THEN {n} ELSE {})
  BY <1>1 DEF Queued, ToSet
<1>7. Waits(n) = Children(n) /\ left'[n] = Cardinality(Children(n))
  BY <1>1, <1>2, <1>3 DEF WalkInv, Waits
<1>8. \A p \in EnteredSet : p # n => left'[p] = left[p]
  BY <1>1 DEF WalkInv
<1> HIDE DEF n
<1>9. \A p \in EnteredSet' : left'[p] = Cardinality(Waits(p)) /\ (Waits(p) = {} => p \in Queued' \cup Exited)
  BY <1>1, <1>4, <1>6, <1>7, <1>8 DEF Exact
<1> QED BY <1>5, <1>9 DEF Exact

LEMMA ExactExit ==
  ASSUME SortInv, WalkInv, Exact, ExitNext, NoSelfReach(src)
  PROVE  Exact'
<1> DEFINE n == Head(exits)
           p == Parent(n)
           count == (left[p] - 1) % Wrap
<1>1. /\ exits # << >> /\ exits' = Tail(exits) \o (IF count = 0 THEN <<p>> ELSE << >>)
      /\ phase = "walk"
  BY DEF ExitNext, MayExit
<1>2. /\ n \in Node \ Exited /\ n \in EnteredSet
      /\ Exited' = Exited \cup {n} /\ EnteredSet' = EnteredSet
      /\ \A q : Children(q)' = Children(q)
      /\ left' = [left EXCEPT ![p] = count]
  BY ExitFacts
<1>3. n = 1 => p = 0
  BY ExitFacts
<1>4. n # 1 => /\ p \in Node /\ n \in Waits(p)
               /\ p \in EnteredSet => count = left[p] - 1 /\ left[p] \in 1 .. Wrap - 1
  BY ExitFacts
<1> HIDE DEF n, p, count
<1>5. PICK t \in Seq(Node) : t = Tail(exits) /\ ToSet(t) = Queued \ {n}
  BY <1>1, HeadFacts DEF WalkInv, Queued, n
<1>6. Queued \ {n} \subseteq Queued' /\ (p \in Node /\ count = 0 => p \in Queued')
  <2>1. CASE count = 0 /\ p \in Node
    <3>1. exits' = Append(t, p)
      BY <1>1, <1>5, <2>1
    <3>2. ToSet(Append(t, p)) = ToSet(t) \cup {p}
      BY <2>1, SeqFacts
    <3> QED BY <1>5, <2>1, <3>1, <3>2 DEF Queued
  <2>2. CASE count # 0
    <3>1. exits' = t
      BY <1>1, <1>5, <2>2
    <3> QED BY <1>5, <2>2, <3>1 DEF Queued
  <2>3. CASE count = 0 /\ p \notin Node
    <3>1. n = 1
      BY <1>4, <2>3
    <3>2. count = Wrap - 1
      BY <3>1, ExitFacts DEF n, p, count
    <3> QED BY <2>3, <3>2, WrapAssumption, NAssumption
  <2> QED BY <2>1, <2>2, <2>3
<1>7. \A q \in Node : \A m \in Children(q) : m \in Node /\ (m = n => q = p)
  BY <1>2, ParentFacts, ChildrenFacts DEF SortInv, p
<1>8. ASSUME NEW q \in EnteredSet
      PROVE  left'[q] = Cardinality(Waits(q)') /\ (Waits(q)' = {} => q \in Queued' \cup Exited')
  <2>1. q \in Node
    BY TakenCount DEF EnteredSet, WalkInv, SortInv, Before, Ordered
  <2>2. left[q] = Cardinality(Waits(q)) /\ (Waits(q) = {} => q \in Queued \cup Exited)
    BY <1>1, <1>8 DEF Exact
  <2>3. CASE q # p
    <3>1. left'[q] = left[q] /\ Waits(q)' = Waits(q)
      BY <1>2, <1>7, <2>1, <2>3 DEF WalkInv, Waits
    <3> QED BY <1>2, <1>6, <2>2, <3>1
  <2>4. CASE q = p
    <3>1. n # 1
      BY <1>3, <2>1, <2>4, NAssumption DEF Node
    <3>2. n \in Waits(q) /\ left'[q] = left[q] - 1 /\ left[q] \in 1 .. Wrap - 1 /\ count = left[q] - 1
      BY <1>2, <1>4, <1>8, <2>1, <2>4, <3>1 DEF WalkInv
    <3>3. Waits(q)' = Waits(q) \ {n}
      BY <1>2 DEF Waits
    <3>4. IsFiniteSet(Waits(q)) /\ Cardinality(Waits(q)) \in 0 .. N
      BY <2>1, ChildCounts DEF Waits, SortInv
    <3>5. Cardinality(Waits(q) \ {n}) = Cardinality(Waits(q)) - 1
      BY <3>2, <3>4, FS_RemoveElement
    <3>6. Waits(q) \ {n} = {} => count = 0
      BY <2>2, <3>2, <3>5, FS_EmptySet
    <3> QED BY <1>6, <2>1, <2>2, <2>4, <3>2, <3>3, <3>5, <3>6
  <2> QED BY <2>3, <2>4
<1> QED BY <1>2, <1>8 DEF Exact

LEMMA ExactStep ==
  ASSUME SortInv, WalkInv, Unwalked, Exact, [Next]_vars
  PROVE  Exact'
<1>1. src' = src
  BY DEF Next, AddNode, StartSort, TakeTop, EndSort, EnterNext, ExitNext, Done, vars
<1> SUFFICES ASSUME NoSelfReach(src) PROVE Exact'
  BY <1>1 DEF Exact
<1>2. CASE EnterNext
  BY <1>2, ExactEnter
<1>3. CASE ExitNext
  BY <1>3, ExactExit
<1>4. CASE EndSort
  <2>1. EnteredSet' = {}
    BY <1>4 DEF EndSort, Unwalked, EnteredSet, walkVars
  <2> QED BY <2>1 DEF Exact
<1>5. CASE AddNode \/ StartSort \/ TakeTop
  BY <1>5 DEF AddNode, StartSort, TakeTop, Exact
<1>6. CASE Done \/ UNCHANGED vars
  <2>1. UNCHANGED <<walkVars, order>> /\ (phase' \in {"walk", "done"} => phase \in {"walk", "done"})
    BY <1>6 DEF Done, vars, sortVars, walkVars
  <2>2. /\ Exited' = Exited /\ Queued' = Queued /\ EnteredSet' = EnteredSet
        /\ \A p : Waits(p)' = Waits(p)
    BY <1>1, <2>1 DEF walkVars, Exited, Queued, EnteredSet, Children, Waits
  <2> QED BY <1>1, <2>1, <2>2 DEF Exact, walkVars
<1> QED BY <1>2, <1>3, <1>4, <1>5, <1>6 DEF Next

(* Between two calls of EnterIR exactly the complete subtrees have exited:  *)
(* CreateScope closes its scope neither early nor late.                     *)
THEOREM ExitsAreComplete == Spec => []ExitsWhenComplete
<1>1. Init => Exact
  BY DEF Init, Exact
<1>2. Exact /\ SortInv /\ WalkInv /\ Unwalked /\ [Next]_vars => Exact'
  BY ExactStep
<1>3. ASSUME SortInv, WalkInv, Exact PROVE ExitsWhenComplete
  <2> SUFFICES ASSUME NoSelfReach(src), phase \in {"walk", "done"}, exits = << >>
               PROVE  Exited = {n \in Node : Subtree(src, n) \subseteq EnteredSet}
    BY DEF ExitsWhenComplete, Exited
  <2>1. Exited \subseteq Node /\ Queued = {}
    BY <1>3, SeqFacts DEF WalkInv, Exited, Queued, ToSet
  <2>2. ASSUME NEW n \in Exited PROVE Subtree(src, n) \subseteq EnteredSet
    <3>1. n \in Node /\ \A x \in Exited : Children(x) \subseteq Exited /\ x \in EnteredSet
      BY <1>3, <2>1, <2>2 DEF WalkInv
    <3>2. Subtree(src, n) \ {n} \subseteq Exited
      BY <1>3, <2>1, <2>2, <3>1, ClosedBelow DEF SortInv
    <3> QED BY <2>2, <3>1, <3>2
  <2> DEFINE bad == {n \in Node \ Exited : Subtree(src, n) \subseteq EnteredSet}
  <2>3. ASSUME bad # {} PROVE FALSE
    <3>1. PICK n \in bad : \A m \in bad : m <= n
      BY <2>3, LargestNode
    <3>2. ASSUME NEW c \in Children(n) PROVE c \in Exited
      <4>1. c \in Node /\ n < c /\ c \in Subtree(src, n)
        BY <1>3, ChildrenFacts DEF SortInv
      <4>2. Subtree(src, c) \subseteq EnteredSet
        BY <1>3, <3>1, <4>1, SubtreeFacts DEF SortInv, InTree
      <4>3. c \notin bad
        BY <3>1, <4>1, NAssumption DEF Node
      <4> QED BY <4>1, <4>2, <4>3
    <3>3. Waits(n) = {} /\ n \in EnteredSet
      BY <1>3, <3>1, <3>2, SubtreeFacts DEF Waits, SortInv, InTree
    <3> QED BY <1>3, <2>1, <3>1, <3>3 DEF Exact
  <2> QED BY <2>1, <2>2, <2>3
<1> QED BY <1>1, <1>2, <1>3, WalkAlways, PTL DEF Spec

-----------------------------------------------------------------------------
Kept ==
  /\ phase \in {"build", "sort", "walk", "done", "fatal"}
  /\ indegree \in [Node -> 0 .. N]
  /\ ready \subseteq Node

(* The counters of the sort never go below zero, those of the walk stay     *)
(* within 64 bits.                                                          *)
THEOREM GraphTyped == Spec => []TypeOK
<1>1. Init => Kept
  BY NAssumption DEF Init, Kept
<1>2. ASSUME SortInv, SortInv', Kept, [Next]_vars PROVE Kept'
  <2>1. CASE StartSort \/ TakeTop
    <3>1. phase' = "sort"
      BY <2>1 DEF StartSort, TakeTop
    <3>2. /\ indegree' = [n \in Node |-> Cardinality(DependsOn(n)' \ Taken')]
          /\ ready' \subseteq Node
      BY <1>2, <3>1 DEF SortInv, Counted
    <3>3. \A n \in Node : Cardinality(DependsOn(n)' \ Taken') \in 0 .. N
      BY NodesFinite DEF DependsOn
    <3> QED BY <3>1, <3>2, <3>3 DEF Kept
  <2>2. CASE AddNode \/ EndSort \/ EnterNext \/ ExitNext \/ Done \/ UNCHANGED vars
    BY <1>2, <2>2 DEF AddNode, EndSort, EnterNext, ExitNext, Done, vars, sortVars, Kept
  <2> QED BY <1>2, <2>1, <2>2 DEF Next
<1>3. ASSUME SortInv, WalkInv, Kept PROVE TypeOK
  <2>1. built \in 0 .. N /\ adj \subseteq Node \X Node
    BY <1>3, NAssumption DEF SortInv, Built, EdgesUpTo, Kept
  <2>2. Len(order) \in 0 .. N /\ ToSet(order) \subseteq Node
    BY <1>3, TakenFacts, SeqFacts DEF SortInv, Ordered
  <2>3. entered \in 0 .. N
    BY <1>3, <2>2, NAssumption DEF WalkInv
  <2>4. ToSet(exits) \subseteq Node /\ ToSet(exited) \subseteq Node
    BY <1>3, SeqFacts DEF WalkInv
  <2> QED BY <1>3, <2>1, <2>2, <2>3, <2>4 DEF SortInv, InTree, WalkInv, Kept, TypeOK
<1> QED BY <1>1, <1>2, <1>3, WalkAlways, PTL DEF Spec
=============================================================================
