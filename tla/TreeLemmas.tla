----------------------------- MODULE TreeLemmas -----------------------------
(***************************************************************************)
(* Facts about numbers, annotated trees and topological orders that the     *)
(* proofs of the dependency graph and of the symbol analysis share.         *)
(***************************************************************************)
EXTENDS AnnotatedTree, FiniteSetTheorems, WellFoundedInduction, TLAPS

(* Every set of natural numbers that is not empty has a least element.      *)
LEMMA LeastNat ==
  ASSUME NEW T, T \subseteq Nat, T # {}
  PROVE  \E x \in T : \A y \in T : x <= y
<1> DEFINE below == {0 .. x : x \in T}
           R == StrictSubsetOrdering(Nat)
           F == FiniteSubsetsOf(Nat)
<1>1. IsWellFoundedOn(R, F)
  BY FS_StrictSubsetOrderingWellFounded
<1>2. below \subseteq F
  <2> SUFFICES ASSUME NEW x \in T PROVE 0 .. x \in F
    OBVIOUS
  <2>1. IsFiniteSet(0 .. x)
    BY FS_Interval
  <2> QED BY <2>1 DEF FiniteSubsetsOf
<1>3. below # {}
  OBVIOUS
<1> HIDE DEF R, F
<1>4. PICK B \in below : \A C \in below : ~(<<C, B>> \in R)
  <2> HIDE DEF below
  <2> QED BY <1>1, <1>2, <1>3, WFMin
<1>5. PICK x \in T : B = 0 .. x
  OBVIOUS
<1>6. ASSUME NEW y \in T PROVE x <= y
  <2>1. ~(<<0 .. y, 0 .. x>> \in R)
    BY <1>4, <1>5
  <2>2. ~(0 .. y \subseteq 0 .. x /\ 0 .. y # 0 .. x)
    BY <2>1 DEF R, StrictSubsetOrdering
  <2>3. SUFFICES ASSUME y < x PROVE FALSE
    OBVIOUS
  <2>4. 0 .. y \subseteq 0 .. x /\ x \in 0 .. x /\ x \notin 0 .. y
    BY <2>3
  <2> QED BY <2>2, <2>4
<1> QED BY <1>6

(* A subtree contains its root and the subtrees of its nodes, and two       *)
(* subtrees that meet are nested.                                           *)
LEMMA SubtreeFacts ==
  ASSUME NEW p \in Source, IsTree(p), NEW m \in Node, NEW n \in Node
  PROVE  /\ n \in Subtree(p, n) /\ Subtree(p, n) \subseteq Node
         /\ n \in Subtree(p, m) <=> m <= n /\ n <= p.last[m]
         /\ n \in Subtree(p, m) => Subtree(p, n) \subseteq Subtree(p, m)
         /\ \A x \in Node : x \in Subtree(p, m) /\ x \in Subtree(p, n)
              => m \in Subtree(p, n) \/ n \in Subtree(p, m)
<1>1. /\ \A x \in Node : p.last[x] \in Node /\ x <= p.last[x]
      /\ \A x \in Node : x \in Int /\ 1 <= x /\ x <= N
      /\ N \in Int
  <2>1. p.last \in [Node -> Node]
    BY DEF Source
  <2>2. \A x \in Node : x <= p.last[x]
    BY DEF IsTree
  <2>3. N \in Int /\ \A x \in Node : x \in Int /\ 1 <= x /\ x <= N
    BY NAssumption DEF Node
  <2> QED BY <2>1, <2>2, <2>3
<1>2. Subtree(p, n) \subseteq Node
  BY <1>1 DEF Subtree, Node
<1>3. n \in Subtree(p, m) => p.last[n] <= p.last[m]
  BY DEF IsTree
<1> QED BY <1>1, <1>2, <1>3 DEF Subtree

(* An ancestor is analysed before its descendants, unless a node waits for  *)
(* a part of itself: what the ancestor waits for, the descendant waits for  *)
(* too, and the smaller ID goes first.                                      *)
LEMMA AncestorsFirst ==
  ASSUME NEW p \in Source, IsTree(p), NoSelfReach(p),
         NEW rank \in [Node -> Int], IsTopoOrder(rank, Dependencies(p)),
         NEW n \in Node, NEW m \in Subtree(p, n) \ {n}
  PROVE  rank[n] < rank[m]
<1> DEFINE dep == Dependencies(p)
           taken == {x \in Node : rank[x] < rank[m]}
<1> SUFFICES ASSUME ~(rank[n] < rank[m]) PROVE FALSE
  OBVIOUS
<1>1. m \in Node /\ n < m
  <2>1. m \in Node
    BY SubtreeFacts
  <2>2. n <= m /\ m # n
    BY <2>1, SubtreeFacts
  <2>3. n \in Int /\ m \in Int
    BY <2>1, NAssumption DEF Node
  <2> QED BY <2>1, <2>2, <2>3
<1>2. dep[m] \subseteq taken /\ ~(dep[n] \subseteq taken)
  BY <1>1 DEF IsTopoOrder
<1>3. PICK y \in dep[n] : y \notin dep[m]
  BY <1>2
<1>4. PICK a \in Node : n \in Subtree(p, a) /\ \E d \in References(p, a) : y \in Subtree(p, d)
  BY <1>3 DEF Dependencies
<1>5. PICK d \in References(p, a) : y \in Subtree(p, d)
  BY <1>4
<1>6. d \in Node /\ y \in Node
  BY <1>3, <1>5 DEF References, Source, Dependencies
<1>7. m \in Subtree(p, a)
  BY <1>4, SubtreeFacts
<1>8. y = m
  BY <1>1, <1>3, <1>5, <1>6, <1>7 DEF Dependencies
<1>9. d \notin Subtree(p, a)
  BY <1>5 DEF NoSelfReach
<1>10. a \in Subtree(p, d)
  BY <1>1, <1>5, <1>6, <1>7, <1>8, <1>9, SubtreeFacts
<1>11. n \in Subtree(p, d)
  BY <1>4, <1>6, <1>10, SubtreeFacts
<1>12. n \in dep[m]
  BY <1>1, <1>5, <1>7, <1>11 DEF Dependencies
<1> QED BY <1>2, <1>12
=============================================================================
