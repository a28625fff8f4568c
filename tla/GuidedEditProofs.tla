-------------------------- MODULE GuidedEditProofs --------------------------
(***************************************************************************)
(* Every edit leaves the test case and the pools as the parser made them,   *)
(* the pools hold what their keys say, and a guided edit puts in what fits  *)
(* the symbol; the clone of an edited tree is a copy of it and a tree of    *)
(* its own. All of it for parse trees of any size, any annotations,         *)
(* insertions and removable types, and however many test cases are read.    *)
(***************************************************************************)
EXTENDS GuidedEdit, FiniteSetTheorems, WellFoundedInduction, TLAPS

-----------------------------------------------------------------------------
(***************************************************************************)
(* Sets of numbers.                                                         *)
(***************************************************************************)
(* A set of natural numbers that is not empty has a least element.          *)
LEMMA LeastOf ==
  ASSUME NEW T, T \subseteq Nat, T # {}
  PROVE  \E x \in T : \A y \in T : x <= y
<1> DEFINE R == OpToRel(<, Nat)
<1>1. IsWellFoundedOn(R, Nat)
  BY NatLessThanWellFounded
<1>2. PICK x \in T : \A y \in T : ~(<<y, x>> \in R)
  <2> HIDE DEF R
  <2> QED BY <1>1, WFMin
<1>3. \A y \in T : ~(y < x)
  BY <1>2 DEF OpToRel
<1> QED BY <1>3

(* One that is bounded has a greatest element.                              *)
LEMMA GreatestOf ==
  ASSUME NEW k \in Nat, NEW T, T \subseteq 0 .. k, T # {}
  PROVE  \E x \in T : \A y \in T : y <= x
<1> DEFINE U == {k - x : x \in T}
<1>1. U \subseteq Nat /\ U # {}
  <2>1. \A x \in T : k - x \in Nat
    OBVIOUS
  <2> QED BY <2>1
<1>2. PICK u \in U : \A v \in U : u <= v
  <2> HIDE DEF U
  <2> QED BY <1>1, LeastOf
<1>3. PICK x \in T : u = k - x
  OBVIOUS
<1>4. ASSUME NEW y \in T PROVE y <= x
  <2>1. k - y \in U
    OBVIOUS
  <2>2. k - x <= k - y
    BY <1>2, <1>3, <2>1
  <2> QED BY <2>2
<1> QED BY <1>4

(* In an enumeration in ascending order everything comes once.              *)
LEMMA InOrderFacts ==
  ASSUME NEW S, S \subseteq Int, IsFiniteSet(S)
  PROVE  InOrder(S) \in Seq(S) /\ ToSet(InOrder(S)) = S
<1>1. PICK k \in Nat : k = Cardinality(S)
  BY FS_CardinalityType
<1> DEFINE below(x) == {y \in S : y < x}
           f == [x \in S |-> Cardinality(below(x)) + 1]
<1>2. \A x \in S : /\ IsFiniteSet(below(x)) /\ Cardinality(below(x)) \in Nat
                   /\ Cardinality(below(x)) < k
  <2> SUFFICES ASSUME NEW x \in S
               PROVE  /\ IsFiniteSet(below(x)) /\ Cardinality(below(x)) \in Nat
                      /\ Cardinality(below(x)) < k
    OBVIOUS
  <2>1. below(x) \in SUBSET S /\ x \notin below(x)
    OBVIOUS
  <2> HIDE DEF below
  <2>2. IsFiniteSet(below(x)) /\ Cardinality(below(x)) <= k /\ Cardinality(below(x)) # k
    BY <1>1, <2>1, FS_Subset
  <2>3. Cardinality(below(x)) \in Nat
    BY <2>2, FS_CardinalityType
  <2> QED BY <2>2, <2>3
<1>3. ASSUME NEW x \in S, NEW z \in S, x < z
      PROVE  Cardinality(below(x)) # Cardinality(below(z))
  <2>1. below(x) \in SUBSET below(z) /\ below(x) # below(z)
    <3>1. x \in Int /\ z \in Int /\ \A y \in S : y \in Int
      OBVIOUS
    <3>2. x \in below(z) /\ x \notin below(x)
      BY <1>3, <3>1
    <3>3. \A y \in S : y < x => y < z
      BY <1>3, <3>1
    <3> QED BY <3>2, <3>3
  <2>2. IsFiniteSet(below(z))
    BY <1>2
  <2> HIDE DEF below
  <2> QED BY <2>1, <2>2, FS_Subset
<1>4. f \in Injection(S, 1 .. k)
  <2>1. f \in [S -> 1 .. k]
    BY <1>2
  <2>2. \A x, z \in S : f[x] = f[z] => x = z
    <3> SUFFICES ASSUME NEW x \in S, NEW z \in S, f[x] = f[z], x # z PROVE FALSE
      OBVIOUS
    <3>1. x < z \/ z < x
      OBVIOUS
    <3>2. Cardinality(below(x)) = Cardinality(below(z))
      BY <1>2
    <3> HIDE DEF below
    <3> QED BY <1>3, <3>1, <3>2
  <2> QED BY <2>1, <2>2 DEF Injection, IsInjective
<1>5. f \in Surjection(S, 1 .. k)
  <2>1. IsFiniteSet(1 .. k) /\ Cardinality(1 .. k) = k
    BY FS_Interval
  <2> HIDE DEF f
  <2> QED BY <1>1, <1>4, <2>1, FS_Injection
<1>6. \A i \in 1 .. k : \E x \in S : Cardinality(below(x)) = i - 1
  <2>1. \A i \in 1 .. k : \E x \in S : f[x] = i
    BY <1>5 DEF Surjection
  <2>2. \A x \in S : f[x] = Cardinality(below(x)) + 1 /\ Cardinality(below(x)) \in Nat
    BY <1>2
  <2> HIDE DEF f, below
  <2> SUFFICES ASSUME NEW i \in 1 .. k PROVE \E x \in S : Cardinality(below(x)) = i - 1
    OBVIOUS
  <2>3. PICK x \in S : f[x] = i
    BY <2>1
  <2>4. Cardinality(below(x)) = i - 1
    BY <2>2, <2>3
  <2> QED BY <2>4
<1> DEFINE a == InOrder(S)
<1>7. a = [i \in 1 .. k |-> CHOOSE x \in S : Cardinality(below(x)) = i - 1]
  BY <1>1 DEF InOrder
<1> HIDE DEF a, f, below
<1>8. \A i \in 1 .. k : a[i] \in S /\ Cardinality(below(a[i])) = i - 1
  BY <1>6, <1>7
<1>9. a \in [1 .. k -> S]
  BY <1>7, <1>8
<1>10. ASSUME NEW x \in S PROVE \E i \in 1 .. k : a[i] = x
  <2>1. PICK i \in 1 .. k : i = Cardinality(below(x)) + 1
    BY <1>2, <1>10
  <2>2. a[i] \in S /\ Cardinality(below(a[i])) = Cardinality(below(x))
    BY <1>2, <1>8, <2>1
  <2>3. a[i] \in Int /\ x \in Int
    BY <2>2
  <2>4. ~(a[i] < x) /\ ~(x < a[i])
    BY <1>3, <2>2
  <2> QED BY <2>3, <2>4
<1>11. ToSet(a) = S
  <2>1. DOMAIN a = 1 .. k
    BY <1>9
  <2> QED BY <1>9, <1>10, <2>1 DEF ToSet
<1> QED BY <1>9, <1>11 DEF a

-----------------------------------------------------------------------------
(***************************************************************************)
(* The trees that are parsed.                                               *)
(***************************************************************************)
Trees == Corpus \cup TestCases

(* The IDs of a parsed tree are consecutive; its nodes come after their      *)
(* parents and are once among the children of the parent.                   *)
IRsFit(pt, base) ==
  LET nodes == IRs(pt, base) IN
  /\ Len(pt.up) \in Nat \ {0}
  /\ DOMAIN nodes = base .. base + Len(pt.up) - 1
  /\ nodes[base].up = None
  /\ \A n \in DOMAIN nodes :
       /\ nodes[n].kids \in Seq(DOMAIN nodes)
       /\ \A c \in ToSet(nodes[n].kids) : c > n /\ nodes[c].up = n
       /\ n # base => nodes[n].up \in base .. n - 1 /\ n \in ToSet(nodes[nodes[n].up].kids)

LEMMA IRsFacts ==
  ASSUME NEW pt \in Trees, NEW base \in Nat
  PROVE  IRsFit(pt, base)
<1> DEFINE nodes == IRs(pt, base)
           id(p) == IF p = 0 THEN None ELSE base + p - 1
           kidsOf(p) == {id(c) : c \in {c \in DOMAIN pt.up : pt.up[c] = p}}
           len == Len(pt.up)
<1>1. /\ len \in Nat \ {0} /\ pt.up \in Seq(Nat) /\ DOMAIN pt.up = 1 .. len /\ pt.up[1] = 0
      /\ \A p \in 2 .. len : pt.up[p] \in 1 .. p - 1
  BY ParseTreesAssumption DEF Trees
<1>2. DOMAIN nodes = base .. base + len - 1
  <2>1. DOMAIN nodes = {id(p) : p \in 1 .. len}
    BY <1>1 DEF IRs
  <2>2. \A p \in 1 .. len : id(p) = base + p - 1
    OBVIOUS
  <2>3. \A n \in base .. base + len - 1 : n - base + 1 \in 1 .. len /\ n = base + (n - base + 1) - 1
    BY <1>1
  <2>4. \A p \in 1 .. len : base + p - 1 \in base .. base + len - 1
    BY <1>1
  <2> HIDE DEF nodes
  <2> QED BY <2>1, <2>2, <2>3, <2>4
<1>3. \A n \in DOMAIN nodes : /\ n - base + 1 \in 1 .. len /\ id(n - base + 1) = n
                              /\ nodes[n].up = id(pt.up[n - base + 1])
                              /\ nodes[n].kids = InOrder(kidsOf(n - base + 1))
  <2> SUFFICES ASSUME NEW n \in DOMAIN nodes
               PROVE  /\ n - base + 1 \in 1 .. len /\ id(n - base + 1) = n
                      /\ nodes[n].up = id(pt.up[n - base + 1])
                      /\ nodes[n].kids = InOrder(kidsOf(n - base + 1))
    OBVIOUS
  <2>1. n - base + 1 \in 1 .. len /\ id(n - base + 1) = n
    BY <1>1, <1>2
  <2>2. nodes[n].up = id(pt.up[n - base + 1])
    BY <1>1 DEF IRs
  <2>3. nodes[n].kids = InOrder(kidsOf(n - base + 1))
    BY <1>1 DEF IRs
  <2> QED BY <2>1, <2>2, <2>3
<1> HIDE DEF nodes
<1>4. \A p \in 1 .. len : kidsOf(p) \subseteq base .. base + len - 1
  BY <1>1
<1>5. \A n \in DOMAIN nodes : /\ nodes[n].kids \in Seq(DOMAIN nodes)
                              /\ ToSet(nodes[n].kids) = kidsOf(n - base + 1)
  <2> SUFFICES ASSUME NEW n \in DOMAIN nodes
               PROVE  /\ nodes[n].kids \in Seq(DOMAIN nodes)
                      /\ ToSet(nodes[n].kids) = kidsOf(n - base + 1)
    OBVIOUS
  <2>1. kidsOf(n - base + 1) \subseteq DOMAIN nodes
    BY <1>2, <1>3, <1>4
  <2> DEFINE K == kidsOf(n - base + 1)
  <2>2. IsFiniteSet(DOMAIN nodes) /\ DOMAIN nodes \subseteq Int
    BY <1>1, <1>2, FS_Interval
  <2>3. nodes[n].kids = InOrder(K)
    BY <1>3
  <2> HIDE DEF K
  <2>4. K \subseteq DOMAIN nodes
    BY <2>1 DEF K
  <2>5. IsFiniteSet(K) /\ K \subseteq Int
    BY <2>2, <2>4, FS_Subset
  <2>6. InOrder(K) \in Seq(K) /\ ToSet(InOrder(K)) = K
    BY <2>5, InOrderFacts
  <2>7. InOrder(K) \in Seq(DOMAIN nodes)
    BY <2>4, <2>6
  <2> QED BY <2>3, <2>6, <2>7 DEF K
<1>6. ASSUME NEW n \in DOMAIN nodes, NEW c \in kidsOf(n - base + 1)
      PROVE  c > n /\ c \in DOMAIN nodes /\ nodes[c].up = n
  <2>1. PICK p \in 1 .. len : c = id(p) /\ pt.up[p] = n - base + 1
    BY <1>1
  <2>0. n \in Nat /\ n - base + 1 \in 1 .. len
    <3>1. n \in Nat
      BY <1>1, <1>2
    <3> HIDE DEF id, kidsOf
    <3> QED BY <1>3, <3>1
  <2>2. p # 1
    <3> HIDE DEF id
    <3> QED BY <1>1, <2>0, <2>1
  <2>3. pt.up[p] < p /\ c = base + p - 1
    <3>1. p \in 2 .. len
      BY <1>1, <2>2
    <3>2. pt.up[p] \in 1 .. p - 1
      BY <1>1, <3>1
    <3>3. c = base + p - 1
      BY <1>1, <2>1
    <3> QED BY <3>1, <3>2, <3>3
  <2>4. c \in DOMAIN nodes /\ c - base + 1 = p
    BY <1>1, <1>2, <2>3
  <2>5. nodes[c].up = id(n - base + 1)
    BY <1>3, <2>1, <2>4
  <2>6. n = base + pt.up[p] - 1 /\ pt.up[p] \in Nat
    BY <1>1, <2>0, <2>1
  <2>7. c > n
    BY <1>1, <2>3, <2>6
  <2> QED BY <1>3, <2>4, <2>5, <2>7
<1>7. ASSUME NEW n \in DOMAIN nodes, n # base
      PROVE  nodes[n].up \in base .. n - 1 /\ n \in ToSet(nodes[nodes[n].up].kids)
  <2>1. PICK p \in 2 .. len : p = n - base + 1
    BY <1>1, <1>2, <1>7
  <2>2. PICK u \in 1 .. p - 1 : u = pt.up[p]
    BY <1>1
  <2>3. nodes[n].up = base + u - 1
    <3>1. nodes[n].up = id(u)
      BY <1>3, <2>1, <2>2
    <3>2. u \in Nat /\ u # 0
      BY <1>1, <2>1
    <3> QED BY <3>1, <3>2
  <2>4. base + u - 1 \in base .. n - 1 /\ base + u - 1 \in DOMAIN nodes
    <3>1. n \in base .. base + len - 1 /\ len \in Nat
      BY <1>1, <1>2
    <3> HIDE DEF len, id, kidsOf
    <3>2. p \in Nat /\ n = base + p - 1
      BY <2>1, <3>1
    <3>3. u \in Nat /\ u < p /\ u >= 1
      BY <3>2
    <3>4. base + u - 1 \in base .. n - 1 /\ base + u - 1 \in base .. base + len - 1
      BY <3>1, <3>2, <3>3
    <3> QED BY <1>2, <3>4
  <2>5. n \in kidsOf(u)
    <3>1. p \in DOMAIN pt.up /\ pt.up[p] = u
      BY <1>1, <2>2
    <3>2. id(p) = n
      BY <1>3, <2>1
    <3> QED BY <3>1, <3>2
  <2>6. (base + u - 1) - base + 1 = u
    BY <2>2
  <2>7. n \in ToSet(nodes[base + u - 1].kids)
    BY <1>5, <2>4, <2>5, <2>6
  <2> QED BY <2>3, <2>4, <2>7
<1>8. base \in DOMAIN nodes /\ nodes[base].up = None
  <2>1. base \in DOMAIN nodes /\ base - base + 1 = 1
    BY <1>1, <1>2
  <2>2. nodes[base].up = id(pt.up[1])
    <3> HIDE DEF id, kidsOf
    <3> QED BY <1>3, <2>1
  <2> QED BY <1>1, <2>1, <2>2
<1>9. IRsFit(pt, base)
  BY <1>1, <1>2, <1>5, <1>6, <1>7, <1>8 DEF IRsFit, nodes
<1> QED BY <1>9

-----------------------------------------------------------------------------
(***************************************************************************)
(* The nodes of a subtree, in a heap where children come after parents.     *)
(***************************************************************************)
KidsOf(nodes, n) == ToSet(nodes[n].kids)

HeapFits(nodes, k) ==
  /\ DOMAIN nodes = 0 .. k - 1
  /\ \A n \in DOMAIN nodes :
       /\ nodes[n].kids \in Seq(DOMAIN nodes)
       /\ KidsOf(nodes, n) \subseteq DOMAIN nodes
       /\ \A c \in KidsOf(nodes, n) : c > n

ClosedIn(nodes, S) == \A m \in S : KidsOf(nodes, m) \subseteq S

Linked(nodes) == \A n \in DOMAIN nodes : KidsOf(nodes, n) \subseteq DOMAIN nodes

(* A subtree is a node and the subtrees of its children.                    *)
LEMMA NodesUnfold ==
  ASSUME NEW nodes, Linked(nodes), NEW n \in DOMAIN nodes
  PROVE  NodesOf(nodes, n) = {n} \cup UNION {NodesOf(nodes, c) : c \in KidsOf(nodes, n)}
<1> DEFINE D == DOMAIN nodes
           F == [m \in D |-> {x \in D : \A S \in SUBSET D : m \in S /\ ClosedIn(nodes, S) => x \in S}]
           step(f) == [m \in D |-> {m} \cup UNION {f[c] : c \in KidsOf(nodes, m)}]
           below == CHOOSE f : f = step(f)
<1>1. \A m \in D : KidsOf(nodes, m) \subseteq D
  BY DEF Linked
<1>2. F = step(F)
  <2>1. ASSUME NEW m \in D PROVE F[m] = {m} \cup UNION {F[c] : c \in KidsOf(nodes, m)}
    <3> DEFINE R == {m} \cup UNION {F[c] : c \in KidsOf(nodes, m)}
    <3>1. \A y \in D : y \in F[y] /\ F[y] \subseteq D
      OBVIOUS
    <3>2. ASSUME NEW y \in D, NEW x \in F[y], NEW z \in KidsOf(nodes, x) PROVE z \in F[y]
      <4>1. x \in D /\ z \in D
        BY <1>1, <3>1
      <4>2. ASSUME NEW S \in SUBSET D, y \in S, ClosedIn(nodes, S) PROVE z \in S
        <5>1. x \in S
          BY <4>2
        <5> QED BY <4>2, <5>1 DEF ClosedIn
      <4> QED BY <4>1, <4>2
    <3>3. ASSUME NEW c \in KidsOf(nodes, m), NEW x \in F[c] PROVE x \in F[m]
      <4>1. c \in D /\ x \in D
        BY <1>1, <3>1
      <4>2. ASSUME NEW S \in SUBSET D, m \in S, ClosedIn(nodes, S) PROVE x \in S
        <5>1. c \in S
          BY <4>2 DEF ClosedIn
        <5> QED BY <4>1, <4>2, <5>1
      <4> QED BY <4>1, <4>2
    <3>4. R \subseteq F[m]
      <4> HIDE DEF F
      <4> QED BY <3>1, <3>3
    <3>5. R \in SUBSET D /\ m \in R /\ ClosedIn(nodes, R)
      <4>1. R \in SUBSET D /\ m \in R
        <5> HIDE DEF F
        <5> QED BY <1>1, <3>1
      <4>2. \A y \in R : KidsOf(nodes, y) \subseteq R
        <5> HIDE DEF F
        <5> SUFFICES ASSUME NEW y \in R, NEW z \in KidsOf(nodes, y) PROVE z \in R
          OBVIOUS
        <5>1. CASE y = m
          <6>1. z \in KidsOf(nodes, m) /\ z \in F[z]
            BY <1>1, <3>1, <5>1
          <6> QED BY <6>1
        <5>2. CASE y # m
          <6>1. PICK c \in KidsOf(nodes, m) : y \in F[c]
            BY <5>2
          <6>2. z \in F[c]
            BY <1>1, <3>2, <6>1
          <6> QED BY <6>2
        <5> QED BY <5>1, <5>2
      <4> QED BY <4>1, <4>2 DEF ClosedIn
    <3>6. F[m] \subseteq R
      <4> HIDE DEF R
      <4> QED BY <3>5
    <3> QED BY <3>4, <3>6
  <2>2. F = [m \in D |-> F[m]]
    OBVIOUS
  <2> HIDE DEF F
  <2> QED BY <2>1, <2>2
<1> HIDE DEF F
<1>3. below = step(below)
  <2>1. \E f : f = step(f)
    BY <1>2
  <2> HIDE DEF step
  <2> QED BY <2>1, Zenon
<1>4. \A m : NodesOf(nodes, m) = below[m]
  BY Zenon DEF NodesOf, KidsOf
<1> HIDE DEF below
<1>5. below[n] = {n} \cup UNION {below[c] : c \in KidsOf(nodes, n)}
  BY <1>3
<1>6. {below[c] : c \in KidsOf(nodes, n)} = {NodesOf(nodes, c) : c \in KidsOf(nodes, n)}
  BY <1>4
<1> QED BY <1>4, <1>5, <1>6

(* It is the least set that has the node and is closed under children.      *)
LEMMA NodesWithin ==
  ASSUME NEW k \in Nat, NEW nodes, HeapFits(nodes, k), NEW C \in SUBSET DOMAIN nodes,
         ClosedIn(nodes, C), NEW n \in C
  PROVE  NodesOf(nodes, n) \subseteq C
<1> SUFFICES ASSUME ~(NodesOf(nodes, n) \subseteq C) PROVE FALSE
  OBVIOUS
<1> DEFINE T == {m \in C : ~(NodesOf(nodes, m) \subseteq C)}
<1>1. T \subseteq 0 .. k /\ T # {}
  BY DEF HeapFits
<1>2. PICK m \in T : \A y \in T : y <= m
  <2> HIDE DEF T
  <2> QED BY <1>1, GreatestOf
<1>3. \A c \in KidsOf(nodes, m) : c \in C /\ NodesOf(nodes, c) \subseteq C
  <2> SUFFICES ASSUME NEW c \in KidsOf(nodes, m) PROVE c \in C /\ NodesOf(nodes, c) \subseteq C
    OBVIOUS
  <2>1. c \in C /\ c > m /\ c \in Int /\ m \in Int
    BY DEF HeapFits, ClosedIn
  <2>2. c \notin T
    BY <1>2, <2>1
  <2> QED BY <2>1, <2>2
<1>4. NodesOf(nodes, m) = {m} \cup UNION {NodesOf(nodes, c) : c \in KidsOf(nodes, m)}
  BY NodesUnfold DEF HeapFits, Linked
<1> QED BY <1>3, <1>4

LEMMA NodesClosed ==
  ASSUME NEW k \in Nat, NEW nodes, HeapFits(nodes, k), NEW n \in DOMAIN nodes
  PROVE  /\ n \in NodesOf(nodes, n)
         /\ NodesOf(nodes, n) \subseteq DOMAIN nodes
         /\ ClosedIn(nodes, NodesOf(nodes, n))
<1>1. n \in NodesOf(nodes, n)
  BY NodesUnfold DEF HeapFits, Linked
<1>2. NodesOf(nodes, n) \subseteq DOMAIN nodes
  <2>1. ClosedIn(nodes, DOMAIN nodes) /\ DOMAIN nodes \in SUBSET DOMAIN nodes
    BY DEF HeapFits, ClosedIn
  <2> QED BY <2>1, NodesWithin
<1> DEFINE closed(m) == ClosedIn(nodes, NodesOf(nodes, m))
           T == {m \in DOMAIN nodes : ~closed(m)}
<1>3. T = {}
  <2> SUFFICES ASSUME T # {} PROVE FALSE
    OBVIOUS
  <2>1. T \subseteq 0 .. k
    BY DEF HeapFits
  <2>2. PICK m \in T : \A y \in T : y <= m
    <3> HIDE DEF T
    <3> QED BY <2>1, GreatestOf
  <2>3. \A c \in KidsOf(nodes, m) : c \in DOMAIN nodes /\ closed(c)
    <3> SUFFICES ASSUME NEW c \in KidsOf(nodes, m) PROVE c \in DOMAIN nodes /\ closed(c)
      OBVIOUS
    <3>1. c \in DOMAIN nodes /\ c > m /\ c \in Int /\ m \in Int
      BY DEF HeapFits
    <3>2. c \notin T
      <4> HIDE DEF T
      <4> QED BY <2>2, <3>1
    <3> QED BY <3>1, <3>2
  <2>4. m \in DOMAIN nodes
    OBVIOUS
  <2>5. NodesOf(nodes, m) = {m} \cup UNION {NodesOf(nodes, c) : c \in KidsOf(nodes, m)}
    BY <2>4, NodesUnfold DEF HeapFits, Linked
  <2>6. \A c \in KidsOf(nodes, m) : c \in NodesOf(nodes, c)
    <3> SUFFICES ASSUME NEW c \in KidsOf(nodes, m) PROVE c \in NodesOf(nodes, c)
      OBVIOUS
    <3>1. c \in DOMAIN nodes
      BY <2>3
    <3> QED BY <3>1, NodesUnfold DEF HeapFits, Linked
  <2>7. closed(m)
    <3> SUFFICES ASSUME NEW x \in NodesOf(nodes, m), NEW z \in KidsOf(nodes, x)
                 PROVE  z \in NodesOf(nodes, m)
      BY DEF ClosedIn
    <3>1. CASE x = m
      BY <2>5, <2>6, <3>1
    <3>2. CASE x # m
      <4>1. PICK c \in KidsOf(nodes, m) : x \in NodesOf(nodes, c)
        BY <2>5, <3>2
      <4>2. z \in NodesOf(nodes, c)
        BY <2>3, <4>1 DEF ClosedIn
      <4> QED BY <2>5, <4>2
    <3> QED BY <3>1, <3>2
  <2> QED BY <2>7
<1> QED BY <1>1, <1>2, <1>3

-----------------------------------------------------------------------------
(***************************************************************************)
(* The heap as the parser made it.                                          *)
(***************************************************************************)
SizeOf(r) == Len(r.parse.up)

ReadFits ==
  /\ read \in Seq([parse : Trees, root : Nat])
  /\ NextID \in Nat
  /\ \A i \in DOMAIN read : read[i].root + SizeOf(read[i]) <= NextID
  /\ \A i, j \in DOMAIN read : i < j => read[i].root + SizeOf(read[i]) <= read[j].root
  /\ \A n \in 0 .. NextID - 1 : \E i \in DOMAIN read : n \in DOMAIN Parsed(read[i])

Origin(n) == CHOOSE i \in DOMAIN read : n \in DOMAIN Parsed(read[i])

Heap == [n \in 0 .. NextID - 1 |-> Parsed(read[Origin(n)])[n]]

LEMMA ReadFacts ==
  ASSUME ReadFits, NEW i \in DOMAIN read
  PROVE  /\ read[i].parse \in Trees /\ read[i].root \in Nat
         /\ IRsFit(read[i].parse, read[i].root)
         /\ SizeOf(read[i]) \in Nat \ {0}
         /\ DOMAIN Parsed(read[i]) = read[i].root .. read[i].root + SizeOf(read[i]) - 1
         /\ DOMAIN Parsed(read[i]) \subseteq 0 .. NextID - 1
<1>1. read[i].parse \in Trees /\ read[i].root \in Nat
  <2> DEFINE R == [parse : Trees, root : Nat]
  <2>1. read \in Seq(R)
    BY DEF ReadFits
  <2>2. read[i] \in R
    <3> HIDE DEF R
    <3> QED BY <2>1
  <2> QED BY <2>2
<1>2. IRsFit(read[i].parse, read[i].root)
  BY <1>1, IRsFacts
<1>3. /\ SizeOf(read[i]) \in Nat \ {0}
      /\ DOMAIN Parsed(read[i]) = read[i].root .. read[i].root + SizeOf(read[i]) - 1
  BY <1>2 DEF IRsFit, Parsed, SizeOf
<1>4. read[i].root + SizeOf(read[i]) <= NextID /\ NextID \in Nat
  BY DEF ReadFits
<1> QED BY <1>1, <1>2, <1>3, <1>4

LEMMA OriginUnique ==
  ASSUME ReadFits, NEW i \in DOMAIN read, NEW n \in DOMAIN Parsed(read[i])
  PROVE  Origin(n) = i
<1>1. PICK j \in DOMAIN read : j = Origin(n) /\ n \in DOMAIN Parsed(read[j])
  BY DEF Origin
<1>2. SUFFICES ASSUME i # j PROVE FALSE
  BY <1>1
<1>3. i \in Nat /\ j \in Nat
  BY DEF ReadFits
<1>4. /\ n \in read[i].root .. read[i].root + SizeOf(read[i]) - 1
      /\ n \in read[j].root .. read[j].root + SizeOf(read[j]) - 1
      /\ read[i].root \in Nat /\ read[j].root \in Nat
      /\ SizeOf(read[i]) \in Nat /\ SizeOf(read[j]) \in Nat
  BY <1>1, ReadFacts
<1>5. CASE i < j
  <2>1. read[i].root + SizeOf(read[i]) <= read[j].root
    BY <1>5 DEF ReadFits
  <2> QED BY <1>4, <2>1
<1>6. CASE j < i
  <2>1. read[j].root + SizeOf(read[j]) <= read[i].root
    BY <1>6 DEF ReadFits
  <2> QED BY <1>4, <2>1
<1> QED BY <1>2, <1>3, <1>5, <1>6

HeapIsParsed ==
  \A i \in DOMAIN read : \A n \in DOMAIN Parsed(read[i]) :
    n \in DOMAIN Heap /\ Heap[n] = Parsed(read[i])[n]

LEMMA HeapFacts == ReadFits => HeapFits(Heap, NextID) /\ HeapIsParsed
<1> SUFFICES ASSUME ReadFits PROVE HeapFits(Heap, NextID) /\ HeapIsParsed
  OBVIOUS
<1>1. ASSUME NEW i \in DOMAIN read, NEW n \in DOMAIN Parsed(read[i])
      PROVE  n \in DOMAIN Heap /\ Heap[n] = Parsed(read[i])[n]
  BY ReadFacts, OriginUnique DEF Heap
<1>2. DOMAIN Heap = 0 .. NextID - 1
  BY DEF Heap
<1>3. ASSUME NEW n \in DOMAIN Heap
      PROVE  /\ Heap[n].kids \in Seq(DOMAIN Heap)
             /\ KidsOf(Heap, n) \subseteq DOMAIN Heap
             /\ \A c \in KidsOf(Heap, n) : c > n
  <2>1. PICK i \in DOMAIN read : n \in DOMAIN Parsed(read[i])
    BY <1>2 DEF ReadFits
  <2> DEFINE nodes == Parsed(read[i])
  <2>2. /\ nodes[n].kids \in Seq(DOMAIN nodes)
        /\ \A c \in ToSet(nodes[n].kids) : c > n
    BY <2>1, ReadFacts DEF IRsFit, Parsed
  <2>3. Heap[n] = nodes[n] /\ DOMAIN nodes \subseteq DOMAIN Heap
    BY <1>1, <2>1
  <2> HIDE DEF nodes
  <2>4. ToSet(nodes[n].kids) \subseteq DOMAIN nodes
    BY <2>2 DEF ToSet
  <2>5. nodes[n].kids \in Seq(DOMAIN Heap)
    BY <2>2, <2>3
  <2> QED BY <2>2, <2>3, <2>4, <2>5 DEF KidsOf
<1> QED BY <1>1, <1>2, <1>3 DEF HeapFits, HeapIsParsed

LEMMA HeapFactsNext == ReadFits' => HeapFits(Heap, NextID)' /\ HeapIsParsed'
BY HeapFacts, PTL

(* What is parsed is added, and nothing else changes.                       *)
LEMMA ReadStep ==
  ASSUME ReadFits, NEW pt \in Trees, Read(pt)
  PROVE  /\ ReadFits'
         /\ Heap' = With(Heap, IRs(pt, NextID))
         /\ read' # << >> /\ (Last(read).root)' = NextID
<1> DEFINE r == [parse |-> pt, root |-> NextID]
           k == Len(read) + 1
<1>1. NextID \in Nat /\ read \in Seq([parse : Trees, root : Nat]) /\ r \in [parse : Trees, root : Nat]
  BY DEF ReadFits
<1>2. read' = Append(read, r)
  BY DEF Read
<1>3. /\ read' \in Seq([parse : Trees, root : Nat]) /\ Len(read') = k /\ read'[k] = r
      /\ DOMAIN read' = DOMAIN read \cup {k} /\ k \notin DOMAIN read /\ k \in Nat
      /\ \A i \in DOMAIN read : read'[i] = read[i] /\ i < k /\ i \in Nat
  <2> HIDE DEF r
  <2> QED BY <1>1, <1>2
<1>4. read' # << >> /\ (Last(read))' = r
  BY <1>3 DEF Last
<1>5. IRsFit(pt, NextID)
  BY <1>1, IRsFacts
<1> DEFINE len == Len(pt.up)
<1>6. len \in Nat \ {0} /\ SizeOf(r) = len /\ Parsed(r) = IRs(pt, NextID)
      /\ DOMAIN Parsed(r) = NextID .. NextID + len - 1
  BY <1>5 DEF IRsFit, SizeOf, Parsed
<1>7. NextID' = NextID + len
  BY <1>4 DEF NextID
<1> HIDE DEF r, k
<1>8. ReadFits'
  <2>1. NextID' \in Nat
    BY <1>1, <1>6, <1>7
  <2>2. ASSUME NEW i \in DOMAIN read' PROVE read'[i].root + SizeOf(read'[i]) <= NextID'
    <3>1. CASE i = k
      BY <1>1, <1>3, <1>6, <1>7, <3>1 DEF r
    <3>2. CASE i \in DOMAIN read
      <4>1. read'[i] = read[i] /\ read[i].root + SizeOf(read[i]) <= NextID
        BY <1>3, <3>2 DEF ReadFits
      <4>2. read[i].root \in Nat /\ SizeOf(read[i]) \in Nat
        BY <3>2, ReadFacts
      <4> QED BY <1>1, <1>6, <1>7, <4>1, <4>2
    <3> QED BY <1>3, <3>1, <3>2
  <2>3. ASSUME NEW i \in DOMAIN read', NEW j \in DOMAIN read', i < j
        PROVE  read'[i].root + SizeOf(read'[i]) <= read'[j].root
    <3>1. i \in DOMAIN read
      BY <1>3, <2>3
    <3>2. CASE j = k
      <4>1. read'[i] = read[i] /\ read[i].root + SizeOf(read[i]) <= NextID /\ read'[j].root = NextID
        BY <1>3, <3>1, <3>2 DEF ReadFits, r
      <4> QED BY <4>1
    <3>3. CASE j \in DOMAIN read
      BY <1>3, <2>3, <3>1, <3>3 DEF ReadFits
    <3> QED BY <1>3, <3>2, <3>3
  <2>4. ASSUME NEW n \in 0 .. NextID' - 1
        PROVE  \E i \in DOMAIN read' : n \in DOMAIN Parsed(read'[i])
    <3>1. CASE n \in 0 .. NextID - 1
      <4>1. PICK i \in DOMAIN read : n \in DOMAIN Parsed(read[i])
        BY <3>1 DEF ReadFits
      <4>2. i \in DOMAIN read' /\ read'[i] = read[i]
        BY <1>3
      <4> QED BY <4>1, <4>2
    <3>2. CASE n \in NextID .. NextID + len - 1
      <4>1. n \in DOMAIN Parsed(read'[k]) /\ k \in DOMAIN read'
        BY <1>3, <1>6, <3>2
      <4> QED BY <4>1
    <3> QED BY <1>1, <1>6, <1>7, <3>1, <3>2
  <2>5. /\ \A i \in DOMAIN read' : read'[i].root + SizeOf(read'[i]) <= NextID'
        /\ \A i, j \in DOMAIN read' : i < j => read'[i].root + SizeOf(read'[i]) <= read'[j].root
        /\ \A n \in 0 .. NextID' - 1 : \E i \in DOMAIN read' : n \in DOMAIN Parsed(read'[i])
    BY <2>2, <2>3, <2>4
  <2> QED BY <1>3, <2>1, <2>5 DEF ReadFits
<1>9. Heap' = With(Heap, IRs(pt, NextID))
  <2> DEFINE new == IRs(pt, NextID)
  <2>1. DOMAIN Heap = 0 .. NextID - 1 /\ DOMAIN Heap' = 0 .. NextID' - 1
        /\ DOMAIN new = NextID .. NextID + len - 1
    BY <1>6 DEF Heap
  <2>2. DOMAIN Heap' = DOMAIN Heap \cup DOMAIN new
    BY <1>1, <1>6, <1>7, <2>1
  <2>3. \A i \in DOMAIN read' : \A n \in DOMAIN Parsed(read'[i]) :
          n \in DOMAIN Heap' /\ Heap'[n] = Parsed(read'[i])[n]
    BY <1>8, HeapFactsNext DEF HeapIsParsed
  <2>4. ASSUME NEW n \in DOMAIN Heap PROVE Heap'[n] = Heap[n]
    <3>1. PICK i \in DOMAIN read : n \in DOMAIN Parsed(read[i])
      BY <2>1 DEF ReadFits
    <3>2. i \in DOMAIN read' /\ read'[i] = read[i]
      BY <1>3
    <3>3. Heap'[n] = Parsed(read[i])[n]
      BY <2>3, <3>1, <3>2
    <3> QED BY <3>1, <3>3, HeapFacts DEF HeapIsParsed
  <2>5. ASSUME NEW n \in DOMAIN new, n \notin DOMAIN Heap PROVE Heap'[n] = new[n]
    <3>1. k \in DOMAIN read' /\ Parsed(read'[k]) = new
      BY <1>3, <1>6
    <3> QED BY <2>3, <3>1
  <2> HIDE DEF new
  <2>6. Heap' = [n \in DOMAIN Heap' |-> Heap'[n]]
    BY DEF Heap
  <2> QED BY <2>2, <2>4, <2>5, <2>6 DEF With, new
<1>10. (Last(read).root)' = NextID
  BY <1>4 DEF r
<1> QED BY <1>4, <1>8, <1>9, <1>10

-----------------------------------------------------------------------------
(***************************************************************************)
(* Children that are taken out and put back.                                *)
(***************************************************************************)
Without(K, i, k) == SubSeq(K, 1, i - 1) \o SubSeq(K, i + k, Len(K))

LEMMA SameSeq ==
  ASSUME NEW S, NEW s \in Seq(S), NEW t \in Seq(S), Len(s) = Len(t),
         \A j \in 1 .. Len(s) : s[j] = t[j]
  PROVE  s = t
OBVIOUS

LEMMA Slice ==
  ASSUME NEW S, NEW K \in Seq(S), NEW m \in 1 .. Len(K), NEW n \in m - 1 .. Len(K)
  PROVE  /\ SubSeq(K, m, n) \in Seq(S) /\ Len(SubSeq(K, m, n)) = n - m + 1
         /\ \A j \in 1 .. n - m + 1 : SubSeq(K, m, n)[j] = K[m + j - 1]
<1>1. SubSeq(K, m, n) \in Seq(S) /\ Len(SubSeq(K, m, n)) = n - m + 1
  OBVIOUS
<1>2. \A j \in 1 .. n - m + 1 : SubSeq(K, m, n)[j] = K[j + m - 1]
  OBVIOUS
<1>3. \A j \in 1 .. n - m + 1 : j + m - 1 = m + j - 1
  OBVIOUS
<1> QED BY <1>1, <1>2, <1>3

LEMMA WithoutFacts ==
  ASSUME NEW S, NEW K \in Seq(S), NEW i \in 1 .. Len(K), NEW k \in Nat, i + k - 1 <= Len(K)
  PROVE  /\ Without(K, i, k) \in Seq(S)
         /\ Len(Without(K, i, k)) = Len(K) - k
         /\ \A j \in 1 .. Len(K) - k : Without(K, i, k)[j] = IF j < i THEN K[j] ELSE K[j + k]
<1> DEFINE A == SubSeq(K, 1, i - 1)
           B == SubSeq(K, i + k, Len(K))
<1>1. A \in Seq(S) /\ Len(A) = i - 1 /\ \A j \in 1 .. i - 1 : A[j] = K[j]
  OBVIOUS
<1>2. B \in Seq(S) /\ Len(B) = Len(K) - i - k + 1 /\ \A j \in 1 .. Len(B) : B[j] = K[j + i + k - 1]
  OBVIOUS
<1>3. Without(K, i, k) = A \o B
  BY DEF Without
<1> HIDE DEF A, B
<1>4. /\ A \o B \in Seq(S) /\ Len(A \o B) = Len(K) - k
      /\ \A j \in 1 .. Len(K) - k : (A \o B)[j] = IF j < i THEN A[j] ELSE B[j - i + 1]
  <2>1. Len(A) + Len(B) = Len(K) - k
    BY <1>1, <1>2
  <2>2. A \o B \in Seq(S) /\ Len(A \o B) = Len(K) - k
    BY <1>1, <1>2, <2>1
  <2>3. \A j \in 1 .. Len(K) - k : (A \o B)[j] = IF j <= Len(A) THEN A[j] ELSE B[j - Len(A)]
    BY <1>1, <1>2, <2>1
  <2>4. \A j \in 1 .. Len(K) - k : (j <= Len(A) <=> j < i) /\ j - Len(A) = j - i + 1
    BY <1>1
  <2> QED BY <2>2, <2>3, <2>4
<1>5. ASSUME NEW j \in 1 .. Len(K) - k, j >= i PROVE B[j - i + 1] = K[j + k]
  <2>1. j - i + 1 \in 1 .. Len(B) /\ (j - i + 1) + i + k - 1 = j + k
    BY <1>2, <1>5
  <2> QED BY <1>2, <2>1
<1>6. ASSUME NEW j \in 1 .. Len(K) - k
      PROVE  Without(K, i, k)[j] = IF j < i THEN K[j] ELSE K[j + k]
  <2>1. CASE j < i
    <3>1. j \in 1 .. i - 1
      BY <2>1
    <3> QED BY <1>1, <1>3, <1>4, <2>1, <3>1
  <2>2. CASE ~(j < i)
    <3>1. Without(K, i, k)[j] = B[j - i + 1]
      BY <1>3, <1>4, <2>2
    <3>2. j >= i
      BY <2>2
    <3> QED BY <1>5, <2>2, <3>1, <3>2
  <2> QED BY <2>1, <2>2
<1> QED BY <1>3, <1>4, <1>6

LEMMA WithoutNone ==
  ASSUME NEW S, NEW K \in Seq(S), NEW i \in 1 .. Len(K)
  PROVE  Without(K, i, 0) = K
<1> DEFINE W == Without(K, i, 0)
<1>1. /\ W \in Seq(S) /\ Len(W) = Len(K) - 0
      /\ \A j \in 1 .. Len(K) - 0 : W[j] = IF j < i THEN K[j] ELSE K[j + 0]
  <2>1. i + 0 - 1 <= Len(K)
    OBVIOUS
  <2> HIDE DEF W
  <2> QED BY <2>1, WithoutFacts DEF W
<1> HIDE DEF W
<1>2. Len(W) = Len(K) /\ \A j \in 1 .. Len(K) : W[j] = K[j]
  BY <1>1
<1>3. W = K
  BY <1>1, <1>2
<1> QED BY <1>3 DEF W

LEMMA PutBack ==
  ASSUME NEW S, NEW K \in Seq(S), NEW i \in 1 .. Len(K), NEW k \in Nat \ {0}, i + k - 1 <= Len(K)
  PROVE  InsertAt(Without(K, i, k), i, K[i + k - 1]) = Without(K, i, k - 1)
<1> DEFINE W == Without(K, i, k)
           V == Without(K, i, k - 1)
           A == SubSeq(W, 1, i - 1)
           B == SubSeq(W, i, Len(W))
           I == InsertAt(W, i, K[i + k - 1])
<1>1. /\ W \in Seq(S) /\ Len(W) = Len(K) - k
      /\ \A j \in 1 .. Len(K) - k : W[j] = IF j < i THEN K[j] ELSE K[j + k]
  BY WithoutFacts
<1>2. /\ V \in Seq(S) /\ Len(V) = Len(K) - (k - 1)
      /\ \A j \in 1 .. Len(K) - (k - 1) : V[j] = IF j < i THEN K[j] ELSE K[j + (k - 1)]
  <2>1. k - 1 \in Nat /\ i + (k - 1) - 1 <= Len(K)
    OBVIOUS
  <2> QED BY <2>1, WithoutFacts
<1> HIDE DEF W, V
<1>3. A \in Seq(S) /\ Len(A) = i - 1 /\ \A j \in 1 .. i - 1 : A[j] = W[j]
  BY <1>1
<1>4. B \in Seq(S) /\ Len(B) = Len(W) - i + 1 /\ \A j \in 1 .. Len(B) : B[j] = W[j + i - 1]
  BY <1>1
<1>5. I = (A \o <<K[i + k - 1]>>) \o B
  BY DEF InsertAt
<1> HIDE DEF A, B, I
<1> DEFINE A1 == A \o <<K[i + k - 1]>>
<1>6. /\ A1 \in Seq(S) /\ Len(A1) = i
      /\ \A j \in 1 .. i - 1 : A1[j] = A[j]
      /\ A1[i] = K[i + k - 1]
  <2>1. K[i + k - 1] \in S
    OBVIOUS
  <2> QED BY <1>3, <2>1
<1> HIDE DEF A1
<1>7. /\ I \in Seq(S) /\ Len(I) = Len(K) - (k - 1)
      /\ \A j \in 1 .. Len(I) : I[j] = IF j <= i THEN A1[j] ELSE B[j - i]
  <2>1. I = A1 \o B
    BY <1>5 DEF A1
  <2>2. Len(A1) + Len(B) = Len(K) - (k - 1)
    BY <1>1, <1>4, <1>6
  <2>3. I \in Seq(S) /\ Len(I) = Len(K) - (k - 1)
    <3>1. I \in Seq(S) /\ Len(I) = Len(A1) + Len(B)
      <4>1. A1 \in Seq(S) /\ B \in Seq(S)
        BY <1>4, <1>6
      <4> QED BY <2>1, <4>1
    <3> QED BY <2>2, <3>1
  <2>4. \A j \in 1 .. Len(A1) + Len(B) : I[j] = IF j <= Len(A1) THEN A1[j] ELSE B[j - Len(A1)]
    BY <1>4, <1>6, <2>1
  <2> QED BY <1>6, <2>2, <2>3, <2>4
<1>8. ASSUME NEW j \in 1 .. Len(K) - (k - 1) PROVE I[j] = V[j]
  <2>1. CASE j < i
    <3>1. j \in 1 .. i - 1 /\ j \in 1 .. Len(K) - k
      BY <2>1
    <3>2. I[j] = K[j]
      BY <1>1, <1>3, <1>6, <1>7, <2>1, <3>1
    <3> QED BY <1>2, <2>1, <3>2
  <2>2. CASE j = i
    <3>1. I[j] = K[i + k - 1]
      BY <1>6, <1>7, <2>2
    <3>2. V[j] = K[i + (k - 1)]
      BY <1>2, <2>2
    <3>3. i + (k - 1) = i + k - 1
      OBVIOUS
    <3> QED BY <3>1, <3>2, <3>3
  <2>3. CASE j > i
    <3>1. I[j] = B[j - i]
      BY <1>7, <2>3
    <3>2. j - i \in 1 .. Len(B) /\ (j - i) + i - 1 = j - 1
      BY <1>1, <1>4, <2>3
    <3>3. B[j - i] = W[j - 1]
      BY <1>4, <3>2
    <3>4. j - 1 \in 1 .. Len(K) - k /\ ~(j - 1 < i) /\ (j - 1) + k = j + (k - 1)
      BY <2>3
    <3>5. W[j - 1] = K[j + (k - 1)]
      BY <1>1, <3>4
    <3>6. V[j] = K[j + (k - 1)]
      BY <1>2, <2>3
    <3> QED BY <3>1, <3>3, <3>5, <3>6
  <2> HIDE DEF I, V
  <2> QED BY <2>1, <2>2, <2>3
<1>9. I = V
  <2>1. Len(I) = Len(V) /\ \A j \in 1 .. Len(I) : I[j] = V[j]
    BY <1>2, <1>7, <1>8
  <2> HIDE DEF I, V
  <2> QED BY <1>2, <1>7, <2>1, SameSeq
<1> QED BY <1>9 DEF I, V, W

-----------------------------------------------------------------------------
(***************************************************************************)
(* An edit changes the children of one node until it is undone.             *)
(***************************************************************************)
Parent == Heap[edit.node].up

Original == Heap[Parent].kids

EditedKids ==
  IF edit.by = "replace" THEN ReplaceAt(Original, edit.at, edit.other)
  ELSE Without(Original, edit.at, Len(removed))

EditedHeap == [Heap EXCEPT ![Parent].kids = EditedKids]

Unfinished == phase \in {"cloning", "restoring"}

EditFits ==
  Unfinished =>
    /\ edit.by \in {"replace", "delete"}
    /\ edit.node = test => edit.by = "replace"
    /\ edit.node # test =>
         /\ edit.node \in DOMAIN Heap /\ Parent \in DOMAIN Heap /\ Parent # edit.node
         /\ edit.node >= test
         /\ edit.at \in DOMAIN Original /\ Original[edit.at] = edit.node
    /\ edit.by = "delete" =>
         /\ Len(removed) \in Nat \ {0} /\ edit.at + Len(removed) - 1 <= Len(Original)
         /\ removed = SubSeq(Original, edit.at, edit.at + Len(removed) - 1)

TestFits ==
  /\ test = None => phase = "idle"
  /\ test # None => read # << >> /\ test = Last(read).root

TreeFits ==
  /\ phase \in {"idle", "cloning", "restoring", "parsing", "done"}
  /\ tree = IF Unfinished /\ edit.node # test THEN EditedHeap ELSE Heap

EditInv == ReadFits /\ TestFits /\ EditFits /\ TreeFits

(* The nodes of the test case are those the parser made for it, and all but *)
(* the root are among the children of their parents.                        *)
LEMMA TestFacts ==
  ASSUME ReadFits, read # << >>, NEW root, root = Last(read).root, NEW n \in NodesOf(Heap, root)
  PROVE  /\ n \in DOMAIN Parsed(Last(read)) /\ n \in DOMAIN Heap /\ root \in Nat /\ n >= root
         /\ Heap[root].up = None
         /\ n # root => /\ Heap[n].up \in DOMAIN Heap /\ Heap[n].up # n /\ Heap[n].up # None
                        /\ n \in KidsOf(Heap, Heap[n].up)
<1> DEFINE i == Len(read)
           nodes == Parsed(read[i])
           D == DOMAIN nodes
<1>1. i \in DOMAIN read /\ Last(read) = read[i]
  <2>1. read \in Seq([parse : Trees, root : Nat])
    BY DEF ReadFits
  <2> DEFINE R == [parse : Trees, root : Nat]
  <2>2. \A s \in Seq(R) : s # << >> => Len(s) \in DOMAIN s
    <3> HIDE DEF R
    <3> QED OBVIOUS
  <2> QED BY <2>1, <2>2 DEF Last
<1>2. IRsFit(read[i].parse, read[i].root) /\ read[i].root \in Nat /\ D \subseteq 0 .. NextID - 1
  BY <1>1, ReadFacts
<1>3. HeapFits(Heap, NextID) /\ HeapIsParsed
  BY HeapFacts
<1>4. \A m \in D : m \in DOMAIN Heap /\ Heap[m] = nodes[m]
  BY <1>1, <1>3 DEF HeapIsParsed
<1>5. /\ root \in D /\ nodes[root].up = None
      /\ \A m \in D : /\ nodes[m].kids \in Seq(D)
                      /\ m # root => nodes[m].up \in root .. m - 1 /\ m \in ToSet(nodes[nodes[m].up].kids)
                      /\ m >= root
      /\ D \subseteq Nat /\ root \in Nat
      /\ \A m \in D : root .. m - 1 \subseteq D
  <2>1. /\ root = read[i].root /\ Len(read[i].parse.up) \in Nat \ {0}
        /\ D = root .. root + Len(read[i].parse.up) - 1
        /\ nodes[root].up = None
        /\ \A m \in D : /\ nodes[m].kids \in Seq(D)
                        /\ m # root => nodes[m].up \in root .. m - 1 /\ m \in ToSet(nodes[nodes[m].up].kids)
    BY <1>1, <1>2 DEF IRsFit, Parsed
  <2> HIDE DEF nodes, D
  <2> QED BY <1>2, <2>1
<1> HIDE DEF nodes, D
<1>6. ClosedIn(Heap, D)
  <2> SUFFICES ASSUME NEW m \in D PROVE KidsOf(Heap, m) \subseteq D
    BY DEF ClosedIn
  <2>1. nodes[m].kids \in Seq(D) /\ Heap[m] = nodes[m]
    BY <1>4, <1>5
  <2> QED BY <2>1 DEF KidsOf, ToSet
<1>7. n \in D
  <2>1. NextID \in Nat /\ D \in SUBSET DOMAIN Heap
    BY <1>4 DEF ReadFits
  <2>2. NodesOf(Heap, root) \subseteq D
    BY <1>3, <1>5, <1>6, <2>1, NodesWithin
  <2> QED BY <2>2
<1>8. ASSUME n # root
      PROVE  /\ Heap[n].up \in DOMAIN Heap /\ Heap[n].up # n /\ Heap[n].up # None
             /\ n \in KidsOf(Heap, Heap[n].up)
  <2>1. nodes[n].up \in root .. n - 1 /\ n \in ToSet(nodes[nodes[n].up].kids)
    BY <1>5, <1>7, <1>8
  <2>2. nodes[n].up \in D /\ n \in Nat
    BY <1>5, <1>7, <2>1
  <2>3. nodes[n].up # n /\ nodes[n].up # None
    BY <1>5, <2>1, <2>2 DEF None
  <2> QED BY <1>4, <1>7, <2>1, <2>2, <2>3 DEF KidsOf
<1> QED BY <1>1, <1>4, <1>5, <1>7, <1>8 DEF D, nodes

LEMMA EditInvInit == Init => EditInv
<1> SUFFICES ASSUME Init PROVE EditInv
  OBVIOUS
<1>1. read = << >> /\ NextID = 0 /\ tree = << >> /\ test = None /\ phase = "idle"
  BY DEF Init, EditInit, NextID
<1>2. ReadFits
  BY <1>1 DEF ReadFits
<1>3. Heap = << >>
  BY <1>1 DEF Heap
<1> QED BY <1>1, <1>2, <1>3 DEF EditInv, TestFits, EditFits, TreeFits, Unfinished

LEMMA HeapRests == UNCHANGED read => Heap' = Heap /\ NextID' = NextID /\ (ReadFits => ReadFits')
BY DEF Heap, NextID, Origin, Parsed, ReadFits, SizeOf

LEMMA EditInvReads ==
  ASSUME EditInv, NEW pt \in Trees, Read(pt), test = None, UNCHANGED editVars,
         tree' = With(tree, IRs(pt, NextID)), test' \in {None, NextID}
  PROVE  EditInv'
<1>1. ReadFits' /\ Heap' = With(Heap, IRs(pt, NextID)) /\ read' # << >> /\ (Last(read).root)' = NextID
  BY ReadStep DEF EditInv
<1>2. phase = "idle" /\ phase' = "idle" /\ tree = Heap
  BY DEF EditInv, TestFits, TreeFits, Unfinished, editVars
<1>3. tree' = Heap'
  BY <1>1, <1>2
<1>4. EditFits' /\ TreeFits'
  BY <1>2, <1>3 DEF EditFits, TreeFits, Unfinished
<1>5. TestFits'
  BY <1>1, <1>2 DEF TestFits
<1> QED BY <1>1, <1>4, <1>5 DEF EditInv

(* Where an edit begins.                                                    *)
LEMMA BeginFacts ==
  ASSUME EditInv, phase = "idle", test # None, NEW n \in Nodes(test)
  PROVE  /\ tree = Heap /\ n \in DOMAIN Heap /\ Heap[test].up = None /\ n >= test
         /\ n # test =>
              /\ ParentOf(n) = Heap[n].up /\ Heap[n].up \in DOMAIN Heap /\ Heap[n].up # n
              /\ Heap[Heap[n].up].kids \in Seq(DOMAIN Heap)
              /\ IndexOf(n) \in DOMAIN Heap[Heap[n].up].kids
              /\ Heap[Heap[n].up].kids[IndexOf(n)] = n
<1>1. tree = Heap /\ test = Last(read).root /\ read # << >> /\ ReadFits
  BY DEF EditInv, TestFits, TreeFits, Unfinished
<1>2. n \in NodesOf(Heap, test)
  BY <1>1 DEF Nodes
<1>3. /\ n \in DOMAIN Heap /\ Heap[test].up = None /\ n >= test
      /\ n # test => /\ Heap[n].up \in DOMAIN Heap /\ Heap[n].up # n
                     /\ n \in KidsOf(Heap, Heap[n].up)
  BY <1>1, <1>2, TestFacts
<1>4. ASSUME n # test
      PROVE  /\ ParentOf(n) = Heap[n].up
             /\ Heap[Heap[n].up].kids \in Seq(DOMAIN Heap)
             /\ IndexOf(n) \in DOMAIN Heap[Heap[n].up].kids
             /\ Heap[Heap[n].up].kids[IndexOf(n)] = n
  <2>1. ParentOf(n) = Heap[n].up
    BY <1>1 DEF ParentOf
  <2>2. Heap[Heap[n].up].kids \in Seq(DOMAIN Heap)
    BY <1>1, <1>3, <1>4, HeapFacts DEF HeapFits
  <2>3. \E j \in DOMAIN Heap[Heap[n].up].kids : Heap[Heap[n].up].kids[j] = n
    BY <1>3, <1>4 DEF KidsOf, ToSet
  <2>4. IndexOf(n) = CHOOSE j \in DOMAIN Heap[Heap[n].up].kids : Heap[Heap[n].up].kids[j] = n
    BY <1>1, <2>1 DEF IndexOf
  <2> QED BY <2>1, <2>2, <2>3, <2>4
<1> QED BY <1>1, <1>3, <1>4

LEMMA EditInvReplace ==
  ASSUME EditInv, test # None, NEW n \in Nodes(test), NEW c, NEW aim, Replace(n, c, aim),
         UNCHANGED read
  PROVE  EditInv'
<1>1. Heap' = Heap /\ ReadFits'
  BY HeapRests DEF EditInv
<1>2. phase = "idle" /\ phase' = "cloning" /\ test' = test
  BY DEF Replace, StartClone
<1>3. edit' = [by |-> "replace", node |-> n, other |-> c, aim |-> aim,
               at |-> IF n = test THEN 0 ELSE IndexOf(n)]
  BY DEF Replace
<1>4. TestFits'
  BY <1>2 DEF EditInv, TestFits
<1>5. CASE n = test
  <2>1. tree' = tree
    BY <1>5 DEF Replace
  <2>2. edit'.node = test' /\ edit'.by = "replace"
    BY <1>2, <1>3, <1>5
  <2>3. EditFits'
    BY <2>2 DEF EditFits
  <2>4. TreeFits'
    BY <1>1, <1>2, <2>1, <2>2, BeginFacts DEF TreeFits
  <2> QED BY <1>1, <1>4, <2>3, <2>4 DEF EditInv
<1>6. CASE n # test
  <2>1. tree' = WithKids(ParentOf(n), ReplaceAt(tree[ParentOf(n)].kids, IndexOf(n), c))
    BY <1>6 DEF Replace
  <2>2. /\ edit'.node = n /\ edit'.by = "replace" /\ edit'.at = IndexOf(n) /\ edit'.other = c
        /\ n # test'
    BY <1>2, <1>3, <1>6
  <2>3. /\ tree = Heap /\ n \in DOMAIN Heap /\ n >= test'
        /\ ParentOf(n) = Heap[n].up /\ Heap[n].up \in DOMAIN Heap /\ Heap[n].up # n
        /\ IndexOf(n) \in DOMAIN Heap[Heap[n].up].kids
        /\ Heap[Heap[n].up].kids[IndexOf(n)] = n
    BY <1>2, <1>6, BeginFacts
  <2>4. Parent' = Heap[n].up /\ Original' = Heap[Heap[n].up].kids
    BY <1>1, <2>2 DEF Parent, Original
  <2>5. EditFits'
    BY <1>1, <2>2, <2>3, <2>4 DEF EditFits
  <2>6. EditedKids' = ReplaceAt(Heap[Heap[n].up].kids, IndexOf(n), c)
    BY <2>2, <2>4 DEF EditedKids
  <2>7. tree' = EditedHeap'
    BY <1>1, <2>1, <2>3, <2>4, <2>6 DEF EditedHeap, WithKids
  <2>8. TreeFits'
    BY <1>2, <2>2, <2>7 DEF TreeFits, Unfinished
  <2> QED BY <1>1, <1>4, <2>5, <2>8 DEF EditInv
<1> QED BY <1>5, <1>6

LEMMA EditInvDelete ==
  ASSUME EditInv, test # None, NEW n \in Nodes(test), Delete(n), UNCHANGED read
  PROVE  EditInv'
<1>1. Heap' = Heap /\ ReadFits'
  BY HeapRests DEF EditInv
<1>2. phase = "idle" /\ phase' = "cloning" /\ test' = test /\ ParentOf(n) # None
  BY DEF Delete, StartClone
<1>3. TestFits'
  BY <1>2 DEF EditInv, TestFits
<1>4. n # test
  BY <1>2, BeginFacts DEF ParentOf
<1> DEFINE u == Heap[n].up
           K == Heap[u].kids
           i == IndexOf(n)
           extra == Stripped(K, i, removable_types[tree[n].type])
           last == i + extra
<1>5. /\ tree = Heap /\ n \in DOMAIN Heap /\ n >= test'
      /\ ParentOf(n) = u /\ u \in DOMAIN Heap /\ u # n
      /\ K \in Seq(DOMAIN Heap) /\ i \in DOMAIN K /\ K[i] = n
  BY <1>2, <1>4, BeginFacts
<1>6. /\ edit' = [by |-> "delete", node |-> n, at |-> i]
      /\ removed' = SubSeq(K, i, last)
      /\ tree' = WithKids(u, SubSeq(K, 1, i - 1) \o SubSeq(K, last + 1, Len(K)))
  BY <1>5 DEF Delete
<1>7. i \in 1 .. Len(K) /\ Len(K) \in Nat
  <2> HIDE DEF K, i, u
  <2> QED BY <1>5
<1>8. extra \in 0 .. Len(K) - i
  <2> DEFINE J == {j \in i + 1 .. Len(K) : \A k \in i + 1 .. j : tree[K[k]].type \in removable_types[tree[n].type]}
  <2>1. extra = Cardinality(J)
    BY DEF Stripped
  <2>2. J \in SUBSET (i + 1 .. Len(K))
    OBVIOUS
  <2> HIDE DEF J, K, i, u
  <2>3. i + 1 \in Int /\ Len(K) \in Int
    BY <1>7
  <2>4. IsFiniteSet(i + 1 .. Len(K)) /\ Cardinality(i + 1 .. Len(K)) = IF i + 1 > Len(K) THEN 0 ELSE Len(K) - (i + 1) + 1
    BY <2>3, FS_Interval
  <2>5. Cardinality(J) <= Cardinality(i + 1 .. Len(K)) /\ IsFiniteSet(J)
    BY <2>2, <2>4, FS_Subset
  <2>6. Cardinality(J) \in Nat
    BY <2>5, FS_CardinalityType
  <2>7. Cardinality(J) \in 0 .. Len(K) - i
    BY <1>7, <2>4, <2>5, <2>6
  <2> QED BY <2>1, <2>7
<1> HIDE DEF u, K, i, extra
<1>9. Len(removed') = extra + 1 /\ i + (extra + 1) - 1 <= Len(K) /\ extra + 1 \in Nat \ {0}
  BY <1>5, <1>6, <1>7, <1>8
<1>10. edit'.by = "delete" /\ edit'.node = n /\ edit'.at = i /\ n # test'
  BY <1>2, <1>4, <1>6
<1>11. Parent' = u /\ Original' = K
  BY <1>1, <1>10 DEF Parent, Original, u, K
<1>12. last + 1 = i + (extra + 1) /\ i + (extra + 1) - 1 = last
  BY <1>7, <1>8
<1>13. EditFits'
  <2>1. removed' = SubSeq(K, i, i + (extra + 1) - 1)
    BY <1>6, <1>12
  <2> QED BY <1>1, <1>5, <1>9, <1>10, <1>11, <2>1 DEF EditFits
<1>14. EditedKids' = SubSeq(K, 1, i - 1) \o SubSeq(K, last + 1, Len(K))
  BY <1>9, <1>10, <1>11, <1>12 DEF EditedKids, Without
<1>15. tree' = EditedHeap'
  BY <1>1, <1>5, <1>6, <1>11, <1>14 DEF EditedHeap, WithKids
<1>16. TreeFits'
  BY <1>2, <1>10, <1>15 DEF TreeFits, Unfinished
<1> QED BY <1>1, <1>3, <1>13, <1>16 DEF EditInv

(* A node is a record.                                                      *)
LEMMA NodeRecord ==
  ASSUME ReadFits, NEW n \in DOMAIN Heap
  PROVE  \E t, x, b, l, u, s : Heap[n] = [type |-> t, name |-> x, terminal |-> b,
                                          label |-> l, up |-> u, kids |-> s]
<1>1. PICK i \in DOMAIN read : n \in DOMAIN Parsed(read[i])
  BY DEF Heap, ReadFits
<1>2. Heap[n] = Parsed(read[i])[n]
  BY <1>1, HeapFacts DEF HeapIsParsed
<1>3. \E t, x, b, l, u, s : Parsed(read[i])[n] = [type |-> t, name |-> x, terminal |-> b,
                                                  label |-> l, up |-> u, kids |-> s]
  BY <1>1 DEF Parsed, IRs
<1> QED BY <1>2, <1>3

(* Children that are changed back, or again.                                *)
Changed(tr, heap, p, K) ==
  /\ tr[p].kids = K
  /\ \A L : [tr EXCEPT ![p].kids = L] = [heap EXCEPT ![p].kids = L]
  /\ [tr EXCEPT ![p].kids = heap[p].kids] = heap

LEMMA ChangedAgain ==
  ASSUME ReadFits, NEW p \in DOMAIN Heap, NEW K, NEW tr, tr = [Heap EXCEPT ![p].kids = K]
  PROVE  Changed(tr, Heap, p, K)
<1>1. PICK t, x, b, l, u, s : Heap[p] = [type |-> t, name |-> x, terminal |-> b,
                                         label |-> l, up |-> u, kids |-> s]
  BY NodeRecord
<1>2. Heap = [n \in DOMAIN Heap |-> Heap[n]]
  BY DEF Heap
<1> DEFINE node(k) == [type |-> t, name |-> x, terminal |-> b, label |-> l, up |-> u, kids |-> k]
<1>3. \A k : [Heap EXCEPT ![p].kids = k] = [Heap EXCEPT ![p] = node(k)]
  <2> SUFFICES ASSUME NEW k PROVE [Heap EXCEPT ![p].kids = k] = [Heap EXCEPT ![p] = node(k)]
    OBVIOUS
  <2>1. [Heap[p] EXCEPT !.kids = k] = node(k)
    BY <1>1
  <2> HIDE DEF node
  <2>2. [Heap EXCEPT ![p].kids = k] = [Heap EXCEPT ![p] = [Heap[p] EXCEPT !.kids = k]]
    OBVIOUS
  <2> QED BY <2>1, <2>2
<1>4. tr = [Heap EXCEPT ![p] = node(K)]
  BY <1>3
<1>5. tr[p] = node(K)
  BY <1>4
<1>6. \A k : [tr EXCEPT ![p].kids = k] = [tr EXCEPT ![p] = node(k)]
  <2> SUFFICES ASSUME NEW k PROVE [tr EXCEPT ![p].kids = k] = [tr EXCEPT ![p] = node(k)]
    OBVIOUS
  <2>0. [node(K) EXCEPT !.kids = k] = node(k)
    OBVIOUS
  <2> HIDE DEF node
  <2>1. [tr[p] EXCEPT !.kids = k] = node(k)
    BY <1>5, <2>0
  <2>2. [tr EXCEPT ![p].kids = k] = [tr EXCEPT ![p] = [tr[p] EXCEPT !.kids = k]]
    OBVIOUS
  <2> QED BY <2>1, <2>2
<1>7. \A k : [tr EXCEPT ![p] = node(k)] = [Heap EXCEPT ![p] = node(k)]
  <2> HIDE DEF node
  <2> QED BY <1>2, <1>4
<1>8. [Heap EXCEPT ![p] = node(Heap[p].kids)] = Heap
  <2>1. node(Heap[p].kids) = Heap[p]
    BY <1>1
  <2> HIDE DEF node
  <2> QED BY <1>2, <2>1
<1>9. tr[p].kids = K
  BY <1>5
<1> HIDE DEF node
<1> QED BY <1>3, <1>6, <1>7, <1>8, <1>9 DEF Changed

LEMMA EditInvRevert ==
  ASSUME EditInv, Revert, UNCHANGED read
  PROVE  EditInv'
<1>1. Heap' = Heap /\ ReadFits' /\ ReadFits
  BY HeapRests DEF EditInv
<1>2. /\ phase = "restoring" /\ phase' = "parsing" /\ edit.by = "replace"
      /\ test' = test /\ edit' = edit
  BY DEF Revert
<1>3. TestFits' /\ EditFits'
  BY <1>2 DEF EditInv, TestFits, EditFits, Unfinished
<1>4. tree' = Heap
  <2>1. CASE edit.node = test
    BY <2>1 DEF Revert, EditInv, TreeFits
  <2>2. CASE edit.node # test
    <3>1. /\ edit.node \in DOMAIN Heap /\ Parent \in DOMAIN Heap /\ Parent # edit.node
          /\ edit.at \in DOMAIN Original /\ Original[edit.at] = edit.node
          /\ tree = EditedHeap
      BY <1>2, <2>2 DEF EditInv, EditFits, TreeFits, Unfinished
    <3>2. tree = [Heap EXCEPT ![Parent].kids = EditedKids]
      BY <3>1 DEF EditedHeap
    <3>3. ParentOf(edit.node) = Parent
      BY <3>1, <3>2 DEF ParentOf, Parent, Heap
    <3>4. tree[Parent].kids = EditedKids /\ [tree EXCEPT ![Parent].kids = Original] = Heap
      <4>1. Changed(tree, Heap, Parent, EditedKids)
        BY <1>1, <3>1, <3>2, ChangedAgain
      <4> QED BY <4>1 DEF Changed, Original
    <3>5. Original \in Seq(DOMAIN Heap)
      BY <1>1, <3>1, HeapFacts DEF HeapFits, Original
    <3>6. ReplaceAt(EditedKids, edit.at, edit.node) = Original
      <4>1. EditedKids = [Original EXCEPT ![edit.at] = edit.other]
        BY <1>2 DEF EditedKids, ReplaceAt
      <4>2. Original = [j \in DOMAIN Original |-> Original[j]]
        BY <3>5
      <4> QED BY <3>1, <4>1, <4>2 DEF ReplaceAt
    <3>7. tree' = [tree EXCEPT ![Parent].kids = ReplaceAt(tree[Parent].kids, edit.at, edit.node)]
      BY <2>2, <3>3 DEF Revert, WithKids
    <3> QED BY <3>4, <3>6, <3>7
  <2> QED BY <2>1, <2>2
<1> QED BY <1>1, <1>2, <1>3, <1>4 DEF EditInv, TreeFits, Unfinished

LEMMA EditInvReinsert ==
  ASSUME EditInv, Reinsert, UNCHANGED read
  PROVE  EditInv'
<1>1. Heap' = Heap /\ ReadFits' /\ ReadFits
  BY HeapRests DEF EditInv
<1>2. /\ phase = "restoring" /\ edit.by = "delete" /\ test' = test /\ edit' = edit
  BY DEF Reinsert
<1> DEFINE k == Len(removed)
           K == Original
           i == edit.at
<1>3. /\ edit.node # test
      /\ edit.node \in DOMAIN Heap /\ Parent \in DOMAIN Heap /\ Parent # edit.node
      /\ i \in DOMAIN K /\ K[i] = edit.node
      /\ edit.node >= test /\ k \in Nat \ {0} /\ i + k - 1 <= Len(K)
      /\ removed = SubSeq(K, i, i + k - 1)
      /\ tree = EditedHeap
  BY <1>2 DEF EditInv, EditFits, TreeFits, Unfinished
<1>4. tree = [Heap EXCEPT ![Parent].kids = Without(K, i, k)]
  BY <1>2, <1>3 DEF EditedHeap, EditedKids
<1>5. ParentOf(edit.node) = Parent
  BY <1>3, <1>4 DEF ParentOf, Parent, Heap
<1>6. /\ tree[Parent].kids = Without(K, i, k)
      /\ \A L : [tree EXCEPT ![Parent].kids = L] = [Heap EXCEPT ![Parent].kids = L]
      /\ [tree EXCEPT ![Parent].kids = K] = Heap
  <2>1. Changed(tree, Heap, Parent, Without(K, i, k))
    <3> HIDE DEF K, i, k
    <3> QED BY <1>1, <1>3, <1>4, ChangedAgain
  <2> QED BY <2>1 DEF Changed, Original
<1>7. K \in Seq(DOMAIN Heap) /\ i \in 1 .. Len(K) /\ Len(K) \in Nat
  BY <1>1, <1>3, HeapFacts DEF HeapFits, Original
<1>8. Last(removed) = K[i + k - 1] /\ Front(removed) = SubSeq(K, i, i + (k - 1) - 1)
      /\ Len(Front(removed)) = k - 1
  <2> HIDE DEF K, i
  <2>1. removed \in Seq(DOMAIN Heap) /\ \A j \in 1 .. k : removed[j] = K[i + j - 1]
    <3>1. i + k - 1 \in i - 1 .. Len(K) /\ (i + k - 1) - i + 1 = k
      BY <1>3, <1>7
    <3> HIDE DEF k
    <3>2. removed = SubSeq(K, i, i + k - 1)
      BY <1>3
    <3>3. /\ SubSeq(K, i, i + k - 1) \in Seq(DOMAIN Heap)
          /\ \A j \in 1 .. (i + k - 1) - i + 1 : SubSeq(K, i, i + k - 1)[j] = K[i + j - 1]
      BY <1>7, <3>1, Slice
    <3> QED BY <3>1, <3>2, <3>3
  <2>2. Last(removed) = K[i + k - 1]
    BY <1>3, <2>1 DEF Last
  <2>3. Front(removed) = SubSeq(removed, 1, k - 1)
    BY DEF Front
  <2>4. /\ SubSeq(removed, 1, k - 1) \in Seq(DOMAIN Heap) /\ Len(SubSeq(removed, 1, k - 1)) = k - 1
        /\ \A j \in 1 .. k - 1 : SubSeq(removed, 1, k - 1)[j] = K[i + j - 1]
    <3> HIDE DEF k
    <3>1. Len(removed) = k /\ k \in Nat \ {0}
      BY <1>3 DEF k
    <3>2. 1 \in 1 .. Len(removed) /\ k - 1 \in 1 - 1 .. Len(removed) /\ (k - 1) - 1 + 1 = k - 1
      BY <3>1
    <3>3. /\ SubSeq(removed, 1, k - 1) \in Seq(DOMAIN Heap) /\ Len(SubSeq(removed, 1, k - 1)) = (k - 1) - 1 + 1
          /\ \A j \in 1 .. (k - 1) - 1 + 1 : SubSeq(removed, 1, k - 1)[j] = removed[1 + j - 1]
      BY <2>1, <3>2, Slice
    <3>4. \A j \in 1 .. k - 1 : j \in 1 .. k /\ 1 + j - 1 = j
      BY <3>1
    <3> QED BY <2>1, <3>2, <3>3, <3>4
  <2>5. /\ SubSeq(K, i, i + (k - 1) - 1) \in Seq(DOMAIN Heap) /\ Len(SubSeq(K, i, i + (k - 1) - 1)) = k - 1
        /\ \A j \in 1 .. k - 1 : SubSeq(K, i, i + (k - 1) - 1)[j] = K[i + j - 1]
    <3>1. i + (k - 1) - 1 \in i - 1 .. Len(K) /\ (i + (k - 1) - 1) - i + 1 = k - 1
      BY <1>3, <1>7
    <3> QED BY <1>7, <3>1, Slice
  <2>6. SubSeq(removed, 1, k - 1) = SubSeq(K, i, i + (k - 1) - 1)
    <3> DEFINE A == SubSeq(removed, 1, k - 1)
               B == SubSeq(K, i, i + (k - 1) - 1)
    <3>1. /\ A \in Seq(DOMAIN Heap) /\ B \in Seq(DOMAIN Heap) /\ Len(A) = Len(B)
          /\ \A j \in 1 .. Len(A) : A[j] = B[j]
      BY <2>4, <2>5
    <3> HIDE DEF A, B
    <3>2. A = B
      BY <3>1
    <3> QED BY <3>2 DEF A, B
  <2> QED BY <2>2, <2>3, <2>4, <2>6
<1>9. InsertAt(Without(K, i, k), i, K[i + k - 1]) = Without(K, i, k - 1)
  <2> HIDE DEF K, i, k
  <2> QED BY <1>3, <1>7, PutBack
<1>10. tree' = [Heap EXCEPT ![Parent].kids = Without(K, i, k - 1)] /\ removed' = Front(removed)
  <2>1. tree' = [tree EXCEPT ![Parent].kids = InsertAt(tree[Parent].kids, i, Last(removed))]
    BY <1>5 DEF Reinsert, ReinsertLast, WithKids
  <2>2. removed' = Front(removed)
    BY DEF Reinsert, ReinsertLast
  <2> HIDE DEF K, i, k
  <2> QED BY <1>6, <1>8, <1>9, <2>1, <2>2
<1>11. Parent' = Parent /\ Original' = Original
  BY <1>1, <1>2 DEF Parent, Original
<1>12. CASE k = 1
  <2>1. removed' = << >>
    <3> HIDE DEF K, i
    <3> QED BY <1>8, <1>10, <1>12, <1>3, <1>7
  <2>2. phase' = "parsing"
    BY <2>1 DEF Reinsert
  <2>3. Without(K, i, k - 1) = K
    <3> HIDE DEF K, i, k
    <3>1. k - 1 = 0
      BY <1>12
    <3> QED BY <1>7, <3>1, WithoutNone
  <2>4. tree' = Heap
    BY <1>6, <1>10, <2>3
  <2>5. TestFits' /\ EditFits'
    BY <1>2, <2>2 DEF EditInv, TestFits, EditFits, Unfinished
  <2> QED BY <1>1, <2>2, <2>4, <2>5 DEF EditInv, TreeFits, Unfinished
<1>13. CASE k # 1
  <2>1. Len(removed') = k - 1 /\ k - 1 \in Nat \ {0} /\ i + (k - 1) - 1 <= Len(K)
    <3>1. Len(removed') = k - 1
      BY <1>8, <1>10
    <3> HIDE DEF K, i, k
    <3> QED BY <1>3, <1>7, <1>13, <3>1
  <2>2. phase' = "restoring"
    <3>1. removed' # << >>
      <4>1. Len(removed') # 0
        BY <2>1
      <4> QED BY <4>1
    <3> QED BY <1>2, <3>1 DEF Reinsert
  <2>3. removed' = SubSeq(K, i, i + Len(removed') - 1)
    BY <1>8, <1>10, <2>1
  <2>4. tree' = EditedHeap'
    BY <1>1, <1>2, <1>10, <1>11, <2>1 DEF EditedHeap, EditedKids
  <2>5. EditFits'
    BY <1>1, <1>2, <1>3, <1>11, <2>1, <2>3 DEF EditFits
  <2>6. TestFits'
    BY <1>2, <2>2 DEF EditInv, TestFits
  <2>7. TreeFits'
    BY <1>2, <1>3, <2>2, <2>4 DEF TreeFits, Unfinished
  <2> QED BY <1>1, <2>5, <2>6, <2>7 DEF EditInv
<1> QED BY <1>12, <1>13

(* The other steps leave the tree alone.                                    *)
LEMMA EditInvRests ==
  ASSUME EditInv, UNCHANGED <<tree, test, read>>,
         \/ Unfinished /\ Unfinished' /\ UNCHANGED <<edit, removed>>
         \/ ~Unfinished /\ phase' \in {"idle", "parsing", "done"} /\ test # None
  PROVE  EditInv'
<1>1. Heap' = Heap /\ ReadFits'
  BY HeapRests DEF EditInv
<1>2. phase' \in {"idle", "cloning", "restoring", "parsing", "done"} /\ test # None
  BY DEF EditInv, TestFits, Unfinished
<1>3. TestFits'
  BY <1>2 DEF EditInv, TestFits
<1>4. CASE Unfinished /\ Unfinished' /\ UNCHANGED <<edit, removed>>
  <2>1. Parent' = Parent /\ Original' = Original
    BY <1>1, <1>4 DEF Parent, Original
  <2>2. EditedHeap' = EditedHeap
    BY <1>1, <1>4, <2>1 DEF EditedHeap, EditedKids
  <2>3. EditFits'
    BY <1>1, <1>4, <2>1 DEF EditInv, EditFits
  <2>4. TreeFits'
    BY <1>1, <1>2, <1>4, <2>2 DEF EditInv, TreeFits
  <2> QED BY <1>1, <1>3, <2>3, <2>4 DEF EditInv
<1>5. CASE ~Unfinished /\ phase' \in {"idle", "parsing", "done"}
  <2>1. ~Unfinished'
    BY <1>5 DEF Unfinished
  <2> QED BY <1>1, <1>2, <1>3, <1>5, <2>1 DEF EditInv, TreeFits, EditFits
<1> QED BY <1>4, <1>5

LEMMA EditInvStep == EditInv /\ [Next]_vars => EditInv'
<1> SUFFICES ASSUME EditInv, [Next]_vars PROVE EditInv'
  OBVIOUS
<1>1. ASSUME NEW pt \in Corpus, Save(pt) PROVE EditInv'
  <2>1. /\ test = None /\ Read(pt) /\ tree' = With(tree, IRs(pt, NextID))
        /\ UNCHANGED <<test, editVars>>
    BY <1>1 DEF Save
  <2> QED BY <2>1, EditInvReads DEF Trees
<1>2. ASSUME NEW pt \in TestCases, Load(pt) PROVE EditInv'
  <2>1. /\ test = None /\ Read(pt) /\ tree' = With(tree, IRs(pt, NextID)) /\ test' = NextID
        /\ UNCHANGED editVars
    BY <1>2 DEF Load
  <2> QED BY <2>1, EditInvReads DEF Trees
<1>3. CASE GuidedReplace \/ RandomReplace
  <2>0. PICK n \in Nodes(test) : \E c, aim : Replace(n, c, aim)
    BY <1>3 DEF GuidedReplace, RandomReplace, Replaceable
  <2>1. PICK c, aim : Replace(n, c, aim)
    BY <2>0
  <2>2. test # None /\ UNCHANGED read
    BY <1>3 DEF GuidedReplace, RandomReplace
  <2> QED BY <2>1, <2>2, EditInvReplace
<1>4. CASE GuidedInsert \/ RandomInsert
  <2>1. PICK n, c, before, sep, aim : Insert(n, c, before, sep, aim)
    BY <1>4 DEF GuidedInsert, RandomInsert
  <2>2. test # None /\ UNCHANGED read
    BY <1>4 DEF GuidedInsert, RandomInsert
  <2>3. phase = "idle" /\ phase' = "done" /\ UNCHANGED <<tree, test>>
    BY <2>1 DEF Insert
  <2> QED BY <2>2, <2>3, EditInvRests DEF Unfinished
<1>5. CASE DeleteAny
  <2>1. PICK n \in Nodes(test) : Delete(n)
    BY <1>5 DEF DeleteAny
  <2>2. test # None /\ UNCHANGED read
    BY <1>5 DEF DeleteAny
  <2> QED BY <2>1, <2>2, EditInvDelete
<1>6. CASE EditNext /\ UNCHANGED <<read, pool>>
  <2>0. phase # "idle" => test # None
    BY DEF EditInv, TestFits
  <2>1. CASE CloneChild \/ ReturnClone
    <3>1. UNCHANGED <<tree, test, edit, removed, read>> /\ phase = "cloning"
          /\ phase' \in {"cloning", "restoring"}
      BY <1>6, <2>1 DEF CloneChild, ReturnClone
    <3> QED BY <3>1, EditInvRests DEF Unfinished
  <2>2. CASE Revert
    BY <1>6, <2>2, EditInvRevert
  <2>3. CASE Reinsert
    BY <1>6, <2>3, EditInvReinsert
  <2>4. CASE ParseEdit
    <3>1. UNCHANGED <<tree, test, read>> /\ phase = "parsing" /\ phase' = "done"
      BY <1>6, <2>4 DEF ParseEdit
    <3> QED BY <2>0, <3>1, EditInvRests DEF Unfinished
  <2>5. CASE EndEdit
    <3>1. UNCHANGED <<tree, test, read>> /\ phase = "done" /\ phase' = "idle"
      BY <1>6, <2>5 DEF EndEdit
    <3> QED BY <2>0, <3>1, EditInvRests DEF Unfinished
  <2> QED BY <1>6, <2>1, <2>2, <2>3, <2>4, <2>5 DEF EditNext
<1>7. CASE UNCHANGED vars
  <2>1. UNCHANGED <<tree, test, read, edit, phase, removed>>
    BY <1>7 DEF vars, editVars
  <2>2. Heap' = Heap /\ ReadFits'
    BY <2>1, HeapRests DEF EditInv
  <2>3. Parent' = Parent /\ Original' = Original
    BY <2>1, <2>2 DEF Parent, Original
  <2> QED BY <2>1, <2>2, <2>3
          DEF EditInv, TestFits, EditFits, TreeFits, EditedHeap, EditedKids, Unfinished
<1> QED BY <1>1, <1>2, <1>3, <1>4, <1>5, <1>6, <1>7 DEF Next

LEMMA EditInvAlways == Spec => []EditInv
<1>1. Init => EditInv
  BY EditInvInit
<1>2. EditInv /\ [Next]_vars => EditInv'
  BY EditInvStep
<1> QED BY <1>1, <1>2, PTL DEF Spec

(* Whatever is replaced, inserted and deleted, one after the other, every    *)
(* node of the test case and of the pools is afterwards as the parser made   *)
(* it.                                                                      *)
THEOREM OriginalsAlwaysRestored == Spec => []OriginalsRestored
<1>1. EditInv => OriginalsRestored
  <2> SUFFICES ASSUME EditInv, phase \in {"idle", "parsing", "done"},
                      NEW i \in DOMAIN read, NEW n \in DOMAIN Parsed(read[i])
               PROVE  tree[n] = Parsed(read[i])[n]
    BY DEF OriginalsRestored
  <2>1. tree = Heap
    BY DEF EditInv, TreeFits, Unfinished
  <2>2. Heap[n] = Parsed(read[i])[n]
    BY HeapFacts DEF EditInv, HeapIsParsed
  <2> QED BY <2>1, <2>2
<1> QED BY <1>1, EditInvAlways, PTL

-----------------------------------------------------------------------------
(***************************************************************************)
(* The text of a subtree, in a heap where children come after parents.      *)
(***************************************************************************)
TextFrom(nodes, text, m) ==
  IF nodes[m].terminal THEN <<nodes[m].name>>
  ELSE FlattenSeq([i \in DOMAIN nodes[m].kids |-> text[nodes[m].kids[i]]])

(* The text of the children of a node decides its own.                      *)
LEMMA TextAgrees ==
  ASSUME NEW k \in Nat, NEW nodes, HeapFits(nodes, k), NEW m \in DOMAIN nodes, NEW f, NEW g,
         \A c \in KidsOf(nodes, m) : f[c] = g[c]
  PROVE  TextFrom(nodes, f, m) = TextFrom(nodes, g, m)
<1>1. \A i \in DOMAIN nodes[m].kids : f[nodes[m].kids[i]] = g[nodes[m].kids[i]]
  BY DEF KidsOf, ToSet
<1>2. [i \in DOMAIN nodes[m].kids |-> f[nodes[m].kids[i]]]
      = [i \in DOMAIN nodes[m].kids |-> g[nodes[m].kids[i]]]
  BY <1>1
<1> QED BY <1>2 DEF TextFrom

LEMMA TextUnfold ==
  ASSUME NEW k \in Nat, NEW nodes, HeapFits(nodes, k)
  PROVE  \E text : /\ \A m \in DOMAIN nodes : text[m] = TextFrom(nodes, text, m)
                   /\ \A m : TextOf(nodes, m) = text[m]
<1> DEFINE D == DOMAIN nodes
           solves(f, j) == \A m \in j .. k - 1 : f[m] = TextFrom(nodes, f, m)
           P == {j \in 0 .. k : \E f : solves(f, j)}
           text == CHOOSE f : f = [m \in D |-> TextFrom(nodes, f, m)]
<1>1. D = 0 .. k - 1 /\ \A m \in D : \A c \in KidsOf(nodes, m) : c \in D /\ c > m
  BY DEF HeapFits
<1>2. k \in P
  <2>1. \A f : solves(f, k)
    OBVIOUS
  <2>2. solves(nodes, k)
    BY <2>1
  <2> HIDE DEF solves
  <2> QED BY <2>2
<1>3. 0 \in P
  <2>1. P \subseteq Nat /\ P # {}
    BY <1>2
  <2>2. PICK j \in P : \A y \in P : j <= y
    <3> HIDE DEF P
    <3> QED BY <2>1, LeastOf
  <2>3. SUFFICES ASSUME j # 0 PROVE FALSE
    BY <2>2
  <2>4. PICK f : solves(f, j)
    OBVIOUS
  <2>5. j - 1 \in D /\ j \in 1 .. k /\ D = 0 .. k - 1
    BY <1>1, <2>3
  <2> DEFINE g == [m \in D |-> IF m = j - 1 THEN TextFrom(nodes, f, m) ELSE f[m]]
  <2>6. ASSUME NEW m \in j - 1 .. k - 1 PROVE g[m] = TextFrom(nodes, g, m)
    <3>1. m \in D
      BY <2>5
    <3>2. ASSUME NEW c \in KidsOf(nodes, m) PROVE f[c] = g[c]
      <4>1. c \in D /\ c > m /\ c \in Int
        BY <1>1, <2>5, <3>1
      <4>2. c # j - 1
        BY <2>5, <4>1
      <4> QED BY <4>1, <4>2
    <3>3. TextFrom(nodes, f, m) = TextFrom(nodes, g, m)
      <4> HIDE DEF g
      <4> QED BY <3>1, <3>2, TextAgrees
    <3>4. g[m] = TextFrom(nodes, f, m)
      <4>1. CASE m = j - 1
        BY <2>5, <3>1, <4>1
      <4>2. CASE m # j - 1
        <5>1. m \in j .. k - 1
          BY <2>5, <4>2
        <5>2. f[m] = TextFrom(nodes, f, m)
          BY <2>4, <5>1
        <5> QED BY <3>1, <4>2, <5>2
      <4> QED BY <4>1, <4>2
    <3> QED BY <3>3, <3>4
  <2>7. solves(g, j - 1)
    <3> HIDE DEF g
    <3> QED BY <2>6
  <2>8. j - 1 \in P
    <3> HIDE DEF g, solves
    <3> QED BY <2>5, <2>7
  <2>9. j <= j - 1
    <3> HIDE DEF P
    <3> QED BY <2>2, <2>8
  <2> QED BY <2>5, <2>9
<1>4. PICK f : solves(f, 0)
  BY <1>3
<1>5. \E h : h = [m \in D |-> TextFrom(nodes, h, m)]
  <2> DEFINE h == [m \in D |-> f[m]]
  <2>1. ASSUME NEW m \in D PROVE f[m] = TextFrom(nodes, h, m)
    <3>1. \A c \in KidsOf(nodes, m) : f[c] = h[c]
      BY <1>1
    <3>2. f[m] = TextFrom(nodes, f, m)
      BY <1>1, <1>4
    <3> HIDE DEF h
    <3> QED BY <3>1, <3>2, TextAgrees
  <2>2. h = [m \in D |-> TextFrom(nodes, h, m)]
    BY <2>1
  <2> HIDE DEF h
  <2> QED BY <2>2
<1>6. text = [m \in D |-> TextFrom(nodes, text, m)]
  <2> DEFINE Q(f_) == f_ = [m \in D |-> TextFrom(nodes, f_, m)]
  <2>1. \E h : Q(h)
    BY <1>5
  <2>2. text = CHOOSE h : Q(h)
    OBVIOUS
  <2> HIDE DEF Q, text
  <2>3. Q(text)
    BY <2>1, <2>2, Zenon
  <2> QED BY <2>3 DEF Q
<1>7. \A m : TextOf(nodes, m) = text[m]
  BY Zenon DEF TextOf, TextFrom
<1> HIDE DEF text
<1>8. \A m \in D : text[m] = TextFrom(nodes, text, m)
  BY <1>6
<1> QED BY <1>7, <1>8

(* A subtree is the same in a heap with more nodes.                         *)
Extends(more, nodes) ==
  DOMAIN nodes \subseteq DOMAIN more /\ \A n \in DOMAIN nodes : more[n] = nodes[n]

(* Two heaps with the same children in a set of nodes.                      *)
Agree(more, nodes, C) ==
  /\ \A m \in C : m \in DOMAIN nodes /\ m \in DOMAIN more
  /\ \A m \in C : /\ KidsOf(more, m) = KidsOf(nodes, m)
                   /\ \A c \in KidsOf(nodes, m) : c \in C /\ c > m

LEMMA NodesAgree ==
  ASSUME NEW nodes, Linked(nodes), NEW more, Linked(more),
         NEW k \in Nat, NEW C, \A x \in C : x \in 0 .. k, Agree(more, nodes, C), NEW n \in C
  PROVE  NodesOf(more, n) = NodesOf(nodes, n)
<1> SUFFICES ASSUME NodesOf(more, n) # NodesOf(nodes, n) PROVE FALSE
  OBVIOUS
<1> DEFINE T == {m \in C : NodesOf(more, m) # NodesOf(nodes, m)}
<1>1. T \subseteq 0 .. k /\ T # {}
  OBVIOUS
<1>2. PICK m \in T : \A y \in T : y <= m
  <2> HIDE DEF T
  <2> QED BY <1>1, GreatestOf
<1>3. m \in C /\ m \in DOMAIN nodes /\ m \in DOMAIN more /\ KidsOf(more, m) = KidsOf(nodes, m)
  BY DEF Agree
<1>4. \A c \in KidsOf(nodes, m) : NodesOf(more, c) = NodesOf(nodes, c)
  <2> SUFFICES ASSUME NEW c \in KidsOf(nodes, m) PROVE NodesOf(more, c) = NodesOf(nodes, c)
    OBVIOUS
  <2>1. c \in C /\ c > m
    BY <1>3 DEF Agree
  <2>2. c \in Int /\ m \in Int
    <3> HIDE DEF T
    <3> QED BY <1>3, <2>1
  <2>3. c \notin T
    <3> HIDE DEF T
    <3> QED BY <1>2, <2>1, <2>2
  <2> QED BY <2>1, <2>3
<1>5. NodesOf(nodes, m) = {m} \cup UNION {NodesOf(nodes, c) : c \in KidsOf(nodes, m)}
  BY <1>3, NodesUnfold
<1>6. NodesOf(more, m) = {m} \cup UNION {NodesOf(more, c) : c \in KidsOf(more, m)}
  BY <1>3, NodesUnfold
<1>7. UNION {NodesOf(more, c) : c \in KidsOf(more, m)} = UNION {NodesOf(nodes, c) : c \in KidsOf(nodes, m)}
  BY <1>3, <1>4
<1> QED BY <1>5, <1>6, <1>7

LEMMA NodesExtended ==
  ASSUME NEW k \in Nat, NEW nodes, HeapFits(nodes, k), NEW l \in Nat, NEW more, HeapFits(more, l),
         Extends(more, nodes), NEW n \in DOMAIN nodes
  PROVE  NodesOf(more, n) = NodesOf(nodes, n)
<1>1. Linked(nodes) /\ Linked(more)
  BY DEF HeapFits, Linked
<1> DEFINE C == DOMAIN nodes
<1>2. (\A x \in C : x \in 0 .. k) /\ n \in C
  BY DEF HeapFits
<1>3. Agree(more, nodes, C)
  BY DEF HeapFits, Extends, KidsOf, Agree
<1> HIDE DEF C
<1> QED BY <1>1, <1>2, <1>3, NodesAgree

LEMMA TextExtended ==
  ASSUME NEW k \in Nat, NEW nodes, HeapFits(nodes, k), NEW l \in Nat, NEW more, HeapFits(more, l),
         Extends(more, nodes), NEW n \in DOMAIN nodes
  PROVE  TextOf(more, n) = TextOf(nodes, n)
<1> SUFFICES ASSUME TextOf(more, n) # TextOf(nodes, n) PROVE FALSE
  OBVIOUS
<1>1. PICK f : /\ \A m \in DOMAIN nodes : f[m] = TextFrom(nodes, f, m)
               /\ \A m : TextOf(nodes, m) = f[m]
  BY TextUnfold
<1>2. PICK g : /\ \A m \in DOMAIN more : g[m] = TextFrom(more, g, m)
               /\ \A m : TextOf(more, m) = g[m]
  BY TextUnfold
<1> DEFINE T == {m \in DOMAIN nodes : g[m] # f[m]}
<1>3. T \subseteq 0 .. k /\ T # {}
  BY <1>1, <1>2 DEF HeapFits
<1>4. PICK m \in T : \A y \in T : y <= m
  <2> HIDE DEF T
  <2> QED BY <1>3, GreatestOf
<1>5. m \in DOMAIN nodes /\ m \in DOMAIN more /\ more[m] = nodes[m]
  BY DEF Extends
<1>6. \A c \in KidsOf(nodes, m) : g[c] = f[c]
  <2> SUFFICES ASSUME NEW c \in KidsOf(nodes, m) PROVE g[c] = f[c]
    OBVIOUS
  <2>1. c \in DOMAIN nodes /\ c > m /\ c \in Int /\ m \in Int
    BY <1>5 DEF HeapFits
  <2>2. c \notin T
    <3> HIDE DEF T
    <3> QED BY <1>4, <2>1
  <2> QED BY <2>1, <2>2
<1>7. TextFrom(nodes, g, m) = TextFrom(nodes, f, m)
  BY <1>5, <1>6, TextAgrees
<1>8. TextFrom(more, g, m) = TextFrom(nodes, g, m)
  BY <1>5 DEF TextFrom
<1>9. g[m] = f[m]
  BY <1>1, <1>2, <1>5, <1>7, <1>8
<1> QED BY <1>9

-----------------------------------------------------------------------------
(***************************************************************************)
(* The pools, in the heap as the parser made it.                            *)
(***************************************************************************)
Fitting(e, heap) ==
  /\ e[3] \in DOMAIN heap /\ heap[e[3]].type = e[1]
  /\ e[2] # AnyLabel => e[2] # NoLabel /\ \E m \in NodesOf(heap, e[3]) : heap[m].label = e[2]
  /\ \A m \in NodesOf(heap, e[3]) \ {e[3]} : heap[m].type # Boundary

NoTwins(entries, heap) == \A e, f \in entries : Twins(heap, e, f) => e = f

PoolInv ==
  /\ \A e \in pool : Fitting(e, Heap)
  /\ \A e \in pool : test # None => e[3] < test
  /\ NoTwins(pool, Heap)

LEMMA FittingExtended ==
  ASSUME NEW k \in Nat, NEW nodes, HeapFits(nodes, k), NEW l \in Nat, NEW more, HeapFits(more, l),
         Extends(more, nodes), NEW e, Fitting(e, nodes)
  PROVE  Fitting(e, more)
<1>1. e[3] \in DOMAIN nodes
  BY DEF Fitting
<1>2. NodesOf(more, e[3]) = NodesOf(nodes, e[3]) /\ NodesOf(nodes, e[3]) \subseteq DOMAIN nodes
  BY <1>1, NodesExtended, NodesClosed
<1>3. \A m \in NodesOf(nodes, e[3]) : more[m] = nodes[m]
  BY <1>2 DEF Extends
<1>4. e[3] \in DOMAIN more /\ more[e[3]] = nodes[e[3]]
  BY <1>1 DEF Extends
<1> QED BY <1>2, <1>3, <1>4 DEF Fitting

LEMMA TwinsExtended ==
  ASSUME NEW k \in Nat, NEW nodes, HeapFits(nodes, k), NEW l \in Nat, NEW more, HeapFits(more, l),
         Extends(more, nodes), NEW e, Fitting(e, nodes), NEW f, Fitting(f, nodes)
  PROVE  Twins(more, e, f) <=> Twins(nodes, e, f)
<1>1. e[3] \in DOMAIN nodes /\ f[3] \in DOMAIN nodes
  BY DEF Fitting
<1>2. TextOf(more, e[3]) = TextOf(nodes, e[3])
  BY <1>1, TextExtended
<1>3. TextOf(more, f[3]) = TextOf(nodes, f[3])
  BY <1>1, TextExtended
<1> QED BY <1>2, <1>3 DEF Twins

LEMMA ReadExtends ==
  ASSUME ReadFits, NEW pt \in Trees, Read(pt)
  PROVE  /\ HeapFits(Heap, NextID) /\ NextID \in Nat
         /\ HeapFits(Heap', NextID') /\ NextID' \in Nat
         /\ Extends(Heap', Heap)
         /\ Heap' = With(Heap, IRs(pt, NextID))
         /\ DOMAIN IRs(pt, NextID) \subseteq DOMAIN Heap'
         /\ \A n \in DOMAIN IRs(pt, NextID) : n >= NextID
<1>1. ReadFits' /\ Heap' = With(Heap, IRs(pt, NextID))
  BY ReadStep
<1>2. HeapFits(Heap, NextID) /\ NextID \in Nat
  BY HeapFacts DEF ReadFits
<1>3. HeapFits(Heap', NextID') /\ NextID' \in Nat
  BY <1>1, HeapFactsNext DEF ReadFits
<1>4. Extends(Heap', Heap) /\ DOMAIN IRs(pt, NextID) \subseteq DOMAIN Heap'
  BY <1>1 DEF Extends, With
<1>5. \A n \in DOMAIN IRs(pt, NextID) : n >= NextID
  <2>1. IRsFit(pt, NextID)
    BY <1>2, IRsFacts
  <2> QED BY <1>2, <2>1 DEF IRsFit
<1> QED BY <1>1, <1>2, <1>3, <1>4, <1>5

LEMMA PoolInvSave ==
  ASSUME EditInv, PoolInv, NEW pt \in Corpus, Save(pt)
  PROVE  PoolInv'
<1> DEFINE new == IRs(pt, NextID)
           heap == With(tree, new)
           fresh == {e \in Offered(heap, new) : \A f \in pool : ~Twins(heap, e, f)}
<1>1. /\ test = None /\ test' = None /\ Read(pt) /\ ReadFits /\ pt \in Trees
      /\ tree = Heap
  BY DEF Save, EditInv, TestFits, TreeFits, Unfinished, Trees
<1>2. PICK late \in SUBSET fresh :
        /\ \A e, f \in fresh \ late : Twins(heap, e, f) => e = f
        /\ pool' = pool \cup (fresh \ late)
  BY DEF Save
<1>3. /\ HeapFits(Heap, NextID) /\ NextID \in Nat /\ HeapFits(Heap', NextID') /\ NextID' \in Nat
      /\ Extends(Heap', Heap) /\ Heap' = heap /\ DOMAIN new \subseteq DOMAIN Heap'
  BY <1>1, ReadExtends
<1> HIDE DEF new, heap
<1>4. ASSUME NEW e \in pool PROVE Fitting(e, Heap')
  BY <1>3, FittingExtended DEF PoolInv
<1>5. ASSUME NEW e \in fresh PROVE Fitting(e, Heap')
  <2>0. PICK n \in Kept(heap, new) :
          \E l \in LabelsIn(heap, NodesOf(heap, n)) \cup {AnyLabel} : e = <<heap[n].type, l, n>>
    BY DEF Offered
  <2>1. PICK l \in LabelsIn(heap, NodesOf(heap, n)) \cup {AnyLabel} : e = <<heap[n].type, l, n>>
    BY <2>0
  <2>2. n \in DOMAIN heap /\ \A m \in NodesOf(heap, n) \ {n} : heap[m].type # Boundary
    BY <1>3 DEF Kept
  <2>3. l # AnyLabel => l # NoLabel /\ \E m \in NodesOf(heap, n) : heap[m].label = l
    BY DEF LabelsIn
  <2>4. e[1] = heap[n].type /\ e[2] = l /\ e[3] = n
    BY <2>1
  <2> QED BY <1>3, <2>2, <2>3, <2>4 DEF Fitting
<1>6. NoTwins(pool', Heap')
  <2> SUFFICES ASSUME NEW e \in pool', NEW f \in pool', Twins(heap, e, f) PROVE e = f
    BY <1>3 DEF NoTwins
  <2>1. Twins(heap, f, e)
    BY DEF Twins
  <2>2. CASE e \in pool /\ f \in pool
    <3>1. Twins(Heap, e, f)
      BY <1>3, <2>2, TwinsExtended DEF PoolInv
    <3> QED BY <2>2, <3>1 DEF PoolInv, NoTwins
  <2>3. CASE e \in fresh \ late /\ f \in fresh \ late
    BY <1>2, <2>3
  <2>4. CASE e \in fresh /\ f \in pool
    BY <2>4
  <2>5. CASE f \in fresh /\ e \in pool
    BY <2>1, <2>5
  <2> QED BY <1>2, <2>2, <2>3, <2>4, <2>5
<1>7. \A e \in pool' : Fitting(e, Heap')
  BY <1>2, <1>4, <1>5
<1> QED BY <1>1, <1>6, <1>7 DEF PoolInv

LEMMA PoolInvLoad ==
  ASSUME EditInv, PoolInv, NEW pt \in TestCases, Load(pt)
  PROVE  PoolInv'
<1>1. test = None /\ test' = NextID /\ Read(pt) /\ ReadFits /\ pt \in Trees /\ pool' = pool
  BY DEF Load, EditInv, Trees
<1>2. /\ HeapFits(Heap, NextID) /\ NextID \in Nat /\ HeapFits(Heap', NextID') /\ NextID' \in Nat
      /\ Extends(Heap', Heap)
  BY <1>1, ReadExtends
<1>3. ASSUME NEW e \in pool PROVE Fitting(e, Heap') /\ e[3] < NextID
  <2>1. Fitting(e, Heap)
    BY DEF PoolInv
  <2>2. e[3] < NextID
    BY <1>2, <2>1 DEF Fitting, HeapFits
  <2> QED BY <1>2, <2>1, <2>2, FittingExtended
<1>4. NoTwins(pool, Heap')
  <2> SUFFICES ASSUME NEW e \in pool, NEW f \in pool, Twins(Heap', e, f) PROVE e = f
    BY DEF NoTwins
  <2>1. Twins(Heap, e, f)
    BY <1>2, TwinsExtended DEF PoolInv
  <2> QED BY <2>1 DEF PoolInv, NoTwins
<1> QED BY <1>1, <1>3, <1>4 DEF PoolInv

LEMMA PoolInvStep == EditInv /\ PoolInv /\ [Next]_vars => PoolInv'
<1> SUFFICES ASSUME EditInv, PoolInv, [Next]_vars PROVE PoolInv'
  OBVIOUS
<1>1. CASE \E pt \in Corpus : Save(pt)
  BY <1>1, PoolInvSave
<1>2. CASE \E pt \in TestCases : Load(pt)
  BY <1>2, PoolInvLoad
<1>3. CASE UNCHANGED <<read, pool, test>>
  BY <1>3, HeapRests DEF PoolInv
<1>4. CASE GuidedReplace \/ RandomReplace \/ GuidedInsert \/ RandomInsert \/ DeleteAny
  <2>1. UNCHANGED <<read, pool, test>>
    BY <1>4 DEF GuidedReplace, RandomReplace, GuidedInsert, RandomInsert, DeleteAny, Replace, Insert, Delete
  <2> QED BY <1>3, <2>1
<1>5. CASE EditNext /\ UNCHANGED <<read, pool>>
  <2>1. UNCHANGED <<read, pool, test>>
    BY <1>5 DEF EditNext, CloneChild, ReturnClone, Revert, Reinsert, ParseEdit, EndEdit
  <2> QED BY <1>3, <2>1
<1>6. CASE UNCHANGED vars
  BY <1>3, <1>6 DEF vars
<1> QED BY <1>1, <1>2, <1>4, <1>5, <1>6 DEF Next

LEMMA PoolInvAlways == Spec => []PoolInv
<1>1. Init => PoolInv
  BY DEF Init, PoolInv, NoTwins
<1>2. EditInv /\ PoolInv /\ [Next]_vars => PoolInv'
  BY PoolInvStep
<1> QED BY <1>1, <1>2, EditInvAlways, PTL DEF Spec

(* What was read before the test case is apart from it.                     *)
BeforeTest == {m \in DOMAIN Heap : m < test}

LEMMA BeforeTestClosed ==
  ASSUME EditInv, test # None
  PROVE  test \in Nat /\ ClosedIn(Heap, BeforeTest)
<1>1. /\ ReadFits /\ read # << >> /\ test = Last(read).root /\ read \in Seq([parse : Trees, root : Nat])
      /\ NextID \in Nat
  BY DEF EditInv, TestFits, ReadFits
<1> DEFINE last == Len(read)
<1>2. last \in DOMAIN read /\ Last(read) = read[last] /\ last \in Nat /\ DOMAIN read = 1 .. last
  <2> DEFINE R == [parse : Trees, root : Nat]
  <2>1. \A s \in Seq(R) : s # << >> => Len(s) \in DOMAIN s /\ Len(s) \in Nat /\ DOMAIN s = 1 .. Len(s)
    <3> HIDE DEF R
    <3> QED OBVIOUS
  <2> QED BY <1>1, <2>1 DEF Last
<1>3. HeapFits(Heap, NextID) /\ HeapIsParsed
  BY <1>1, HeapFacts
<1>4. test \in Nat
  BY <1>1, <1>2, ReadFacts
<1>5. ASSUME NEW m \in BeforeTest, NEW c \in KidsOf(Heap, m) PROVE c \in BeforeTest
  <2>1. PICK i \in DOMAIN read : m \in DOMAIN Parsed(read[i])
    BY <1>1 DEF ReadFits, Heap, BeforeTest
  <2>2. /\ IRsFit(read[i].parse, read[i].root) /\ read[i].root \in Nat /\ SizeOf(read[i]) \in Nat
        /\ DOMAIN Parsed(read[i]) = read[i].root .. read[i].root + SizeOf(read[i]) - 1
    BY <1>1, ReadFacts
  <2>3. i < last
    <3>1. i # last
      <4>1. read[last].root = test /\ m < test
        BY <1>1, <1>2 DEF BeforeTest
      <4>2. m >= read[i].root
        BY <2>1, <2>2
      <4>3. m \in Nat /\ read[i].root \in Nat
        BY <2>1, <2>2
      <4> QED BY <4>1, <4>2, <4>3
    <3> QED BY <1>2, <3>1
  <2>4. read[i].root + SizeOf(read[i]) <= test
    BY <1>1, <1>2, <2>3 DEF ReadFits
  <2>5. Heap[m] = Parsed(read[i])[m]
    BY <1>3, <2>1 DEF HeapIsParsed
  <2>6. c \in DOMAIN Parsed(read[i])
    <3>1. Parsed(read[i])[m].kids \in Seq(DOMAIN Parsed(read[i]))
      BY <2>1, <2>2 DEF IRsFit, Parsed
    <3> DEFINE ks == Parsed(read[i])[m].kids
               D == DOMAIN Parsed(read[i])
    <3>2. ks \in Seq(D) /\ c \in ToSet(ks)
      BY <2>5, <3>1 DEF KidsOf
    <3> HIDE DEF ks, D
    <3>3. c \in D
      BY <3>2 DEF ToSet
    <3> QED BY <3>3 DEF D
  <2>7. c \in DOMAIN Heap
    BY <1>3, <2>1, <2>6 DEF HeapIsParsed
  <2>8. c < test
    BY <1>4, <2>2, <2>4, <2>6
  <2> QED BY <2>7, <2>8 DEF BeforeTest
<1> QED BY <1>4, <1>5 DEF ClosedIn

LEMMA PoolApart ==
  ASSUME EditInv, test # None, NEW n \in BeforeTest
  PROVE  NodesOf(Heap, n) \subseteq BeforeTest /\ NodesOf(Heap, n) \cap NodesOf(Heap, test) = {}
<1>1. /\ ReadFits /\ read # << >> /\ test = Last(read).root /\ HeapFits(Heap, NextID) /\ NextID \in Nat
      /\ BeforeTest \in SUBSET DOMAIN Heap /\ ClosedIn(Heap, BeforeTest) /\ test \in Nat
  BY HeapFacts, BeforeTestClosed DEF EditInv, TestFits, ReadFits, BeforeTest
<1>2. NodesOf(Heap, n) \subseteq BeforeTest
  BY <1>1, NodesWithin
<1>3. ASSUME NEW m \in NodesOf(Heap, n), m \in NodesOf(Heap, test) PROVE FALSE
  <2>1. m < test /\ m \in DOMAIN Heap
    BY <1>2 DEF BeforeTest
  <2>2. m >= test
    BY <1>1, <1>3, TestFacts
  <2>3. m \in Nat
    BY <1>1, <2>1 DEF HeapFits
  <2> QED BY <1>1, <2>1, <2>2, <2>3
<1> QED BY <1>2, <1>3

(* A pool holds trees of its type that contain its label and no boundary    *)
(* strictly below the root, no text twice, and nothing of the test case that *)
(* is being mutated.                                                        *)
THEOREM PoolsAlwaysFit == Spec => []PoolsFit
<1>1. EditInv /\ PoolInv => PoolsFit
  <2> SUFFICES ASSUME EditInv, PoolInv, phase = "idle" PROVE PoolsFit
    BY DEF PoolsFit
  <2>1. tree = Heap
    BY DEF EditInv, TreeFits, Unfinished
  <2>2. ASSUME NEW e \in pool
        PROVE  /\ tree[e[3]].type = e[1]
               /\ e[2] # AnyLabel => \E m \in Nodes(e[3]) : tree[m].label = e[2]
               /\ \A m \in Nodes(e[3]) \ {e[3]} : tree[m].type # Boundary
    BY <2>1 DEF PoolInv, Fitting, Nodes
  <2>3. ASSUME NEW e \in pool, test # None PROVE Nodes(e[3]) \cap Nodes(test) = {}
    <3>1. e[3] \in BeforeTest
      BY <2>3 DEF PoolInv, Fitting, BeforeTest
    <3> QED BY <2>1, <2>3, <3>1, PoolApart DEF Nodes
  <2>4. \A e, f \in pool :
          <<e[1], e[2]>> = <<f[1], f[2]>> /\ TextOf(tree, e[3]) = TextOf(tree, f[3]) => e = f
    BY <2>1 DEF PoolInv, NoTwins, Twins
  <2> QED BY <2>2, <2>3, <2>4 DEF PoolsFit
<1> QED BY <1>1, EditInvAlways, PoolInvAlways, PTL

-----------------------------------------------------------------------------
(***************************************************************************)
(* What guided edits put in.                                                *)
(***************************************************************************)
(* The label of a node is that of an annotation.                            *)
LEMMA NodeLabels ==
  ASSUME ReadFits, NEW n \in DOMAIN Heap, Heap[n].label # NoLabel
  PROVE  \E a \in Annotations : Heap[n].label = NodeLabel(a)
<1>1. PICK i \in DOMAIN read : n \in DOMAIN Parsed(read[i])
  BY DEF Heap, ReadFits
<1>2. Heap[n] = Parsed(read[i])[n]
  BY <1>1, HeapFacts DEF HeapIsParsed
<1> DEFINE pt == read[i].parse
           p == n - read[i].root + 1
<1>3. /\ pt \in Trees /\ read[i].root \in Nat /\ SizeOf(read[i]) \in Nat
      /\ n \in read[i].root .. read[i].root + SizeOf(read[i]) - 1
  BY <1>1, ReadFacts
<1>4. pt.up \in Seq(Nat) /\ \A q \in DOMAIN pt.up : pt.label[q] \in {NoLabel} \cup {NodeLabel(a) : a \in Annotations}
  BY <1>3, ParseTreesAssumption DEF Trees
<1>5. p \in DOMAIN pt.up
  <2>1. DOMAIN pt.up = 1 .. SizeOf(read[i])
    BY <1>4 DEF SizeOf
  <2> QED BY <1>3, <2>1
<1>6. Heap[n].label = pt.label[p]
  <2> DEFINE base == read[i].root
  <2>1. Heap[n] = IRs(pt, base)[n] /\ n \in DOMAIN IRs(pt, base)
    BY <1>1, <1>2 DEF Parsed
  <2> HIDE DEF pt, base
  <2>2. IRs(pt, base)[n].label = pt.label[n - base + 1]
    BY <2>1 DEF IRs
  <2> QED BY <2>1, <2>2 DEF base
<1> QED BY <1>4, <1>5, <1>6

LEMMA LabelParts ==
  \A r, x, o : Label(r, x, o).rule = r /\ Label(r, x, o).label = x /\ Label(r, x, o).option = o
BY DEF Label

(* The labels of an annotation.                                             *)
Known(l, a) == l = Label(a.rule, a.label, a.option) \/ l = NodeLabel(a)

LEMMA SupportingLabels ==
  ASSUME NEW type, NEW l \in GetSupportingLabelsForSymbolType(type)
  PROVE  \E a \in Annotations : CanUse(a, type) /\ Known(l, a)
<1>1. PICK ct \in Canonical, action \in Actions : <<ct, type>> \in Describes /\ l \in SymInfo(ct, action)
  BY DEF GetSupportingLabelsForSymbolType
<1>2. PICK a \in Annotations : /\ a.action = action /\ Known(l, a)
                               /\ ct \in a.types \/ a.types = {}
  BY <1>1 DEF SymInfo, Known
<1>3. CanUse(a, type)
  BY <1>1, <1>2 DEF CanUse
<1> QED BY <1>2, <1>3

LEMMA DefiningLabels ==
  ASSUME NEW l \in GetLabelsForDefiningSymbol
  PROVE  \E a \in Annotations : a.action = "DefineSymbol" /\ Known(l, a)
BY DEF GetLabelsForDefiningSymbol, SymInfo, Known

(* A label that a node has and that guides a replacement or, without its    *)
(* last part, an insertion is that of the annotation it was taken from.     *)
LEMMA KnownReplacing ==
  ASSUME NEW a \in Annotations, NEW l, Known(l, a)
  PROVE  l # AnyLabel /\ \A b \in Annotations : l = NodeLabel(b) => l = NodeLabel(a)
<1>1. a.rule # NoPart /\ a.label # NoPart /\ a.option # NoPart
  BY AnnotationsAssumption
<1>2. l.rule = a.rule
  BY LabelParts DEF Known, NodeLabel
<1>3. l # AnyLabel
  BY <1>1, <1>2, LabelParts DEF AnyLabel
<1>4. ASSUME NEW b \in Annotations, l = NodeLabel(b), l # NodeLabel(a) PROVE FALSE
  <2>1. l.option = NoPart
    BY <1>4, LabelParts DEF NodeLabel
  <2>2. l.option = a.option
    BY <1>4, LabelParts DEF Known
  <2> QED BY <1>1, <2>1, <2>2
<1> QED BY <1>3, <1>4

LEMMA KnownInserting ==
  ASSUME NEW a \in Annotations, NEW k, Known(k, a), NEW l, l = WithoutLastPart(k)
  PROVE  l # AnyLabel /\ \A b \in Annotations : l = NodeLabel(b) => l = NodeLabel(a)
<1>1. a.rule # NoPart /\ a.label # NoPart /\ a.option # NoPart
  BY AnnotationsAssumption
<1>2. CASE k = Label(a.rule, a.label, a.option)
  <2>1. k.option = a.option /\ k.rule = a.rule /\ k.label = a.label
    BY <1>2, LabelParts
  <2>2. l = NodeLabel(a)
    BY <1>1, <2>1 DEF WithoutLastPart, NodeLabel
  <2>3. l.rule = a.rule
    BY <2>2, LabelParts DEF NodeLabel
  <2> QED BY <1>1, <2>2, <2>3, LabelParts DEF AnyLabel
<1>3. CASE k = NodeLabel(a)
  <2>1. k.option = NoPart /\ k.rule = a.rule
    BY <1>3, LabelParts DEF NodeLabel
  <2>2. l = Label(a.rule, NoPart, NoPart)
    BY <2>1 DEF WithoutLastPart
  <2>3. l.rule = a.rule /\ l.label = NoPart
    BY <2>2, LabelParts
  <2>4. l # AnyLabel
    BY <1>1, <2>3, LabelParts DEF AnyLabel
  <2>5. ASSUME NEW b \in Annotations, l = NodeLabel(b) PROVE FALSE
    <3>1. l.label = b.label
      BY <2>5, LabelParts DEF NodeLabel
    <3>2. b.label # NoPart
      BY AnnotationsAssumption
    <3> QED BY <2>3, <3>1, <3>2
  <2> QED BY <2>4, <2>5
<1> QED BY <1>2, <1>3 DEF Known

(* What is in a pool under a label of an annotation has a node it tags.     *)
LEMMA PooledHasLabel ==
  ASSUME EditInv, PoolInv, NEW type, NEW l, l # AnyLabel, NEW c \in Pooled(type, l)
  PROVE  \E m \in NodesOf(Heap, c) : Heap[m].label = l /\ \E b \in Annotations : l = NodeLabel(b)
<1>1. PICK e \in pool : e[2] = l /\ e[3] = c
  BY DEF Pooled
<1>2. e[3] \in DOMAIN Heap /\ l # NoLabel /\ \E m \in NodesOf(Heap, c) : Heap[m].label = l
  BY <1>1 DEF PoolInv, Fitting
<1>3. PICK m \in NodesOf(Heap, c) : Heap[m].label = l
  BY <1>2
<1>4. HeapFits(Heap, NextID) /\ NextID \in Nat /\ ReadFits
  BY HeapFacts DEF EditInv, ReadFits
<1>5. m \in DOMAIN Heap
  BY <1>1, <1>2, <1>4, NodesClosed
<1> QED BY <1>2, <1>3, <1>4, <1>5, NodeLabels

(* What the labels that guide an edit find in a heap.                       *)
Apt(heap, by, other, types) ==
  \E a \in Annotations, m \in NodesOf(heap, other) :
    /\ heap[m].label = NodeLabel(a)
    /\ \/ \E type \in types : CanUse(a, type)
       \/ by = "insert" /\ a.action = "DefineSymbol"

AimInv ==
  edit.by \in {"replace", "insert"} =>
    /\ test # None /\ edit.other \in DOMAIN Heap /\ edit.other < test
    /\ edit.aim # {} => Apt(Heap, edit.by, edit.other, edit.aim)

LEMMA PooledPlace ==
  ASSUME PoolInv, test # None, NEW type, NEW l, NEW c \in Pooled(type, l)
  PROVE  c \in DOMAIN Heap /\ c < test
BY DEF Pooled, PoolInv, Fitting

LEMMA GuidedReplaceApt ==
  ASSUME EditInv, PoolInv, NEW n, NEW type, NEW c \in GuidedCandidates(n, type)
  PROVE  Apt(Heap, "replace", c, {type})
<1>1. PICK l \in GetSupportingLabelsForSymbolType(type) : c \in Pooled(tree[n].type, l)
  BY DEF GuidedCandidates
<1>2. PICK a \in Annotations : CanUse(a, type) /\ Known(l, a)
  BY SupportingLabels
<1>3. l # AnyLabel /\ \A b \in Annotations : l = NodeLabel(b) => l = NodeLabel(a)
  BY <1>2, KnownReplacing
<1>4. PICK m \in NodesOf(Heap, c) : Heap[m].label = l /\ \E b \in Annotations : l = NodeLabel(b)
  BY <1>1, <1>3, PooledHasLabel
<1> QED BY <1>2, <1>3, <1>4 DEF Apt

LEMMA GuidedInsertApt ==
  ASSUME EditInv, PoolInv, NEW types, NEW l \in LabelsForInsertion(types), NEW type,
         NEW c \in Pooled(type, l)
  PROVE  Apt(Heap, "insert", c, types)
<1>1. PICK k : /\ l = WithoutLastPart(k)
               /\ \/ k \in GetLabelsForDefiningSymbol
                  \/ \E t \in types : k \in GetSupportingLabelsForSymbolType(t)
  BY DEF LabelsForInsertion
<1>2. PICK a \in Annotations : /\ Known(k, a)
                               /\ a.action = "DefineSymbol" \/ \E t \in types : CanUse(a, t)
  BY <1>1, SupportingLabels, DefiningLabels
<1>3. l # AnyLabel /\ \A b \in Annotations : l = NodeLabel(b) => l = NodeLabel(a)
  BY <1>1, <1>2, KnownInserting
<1>4. PICK m \in NodesOf(Heap, c) : Heap[m].label = l /\ \E b \in Annotations : l = NodeLabel(b)
  BY <1>3, PooledHasLabel
<1> QED BY <1>2, <1>3, <1>4 DEF Apt

LEMMA AimInvReads ==
  ASSUME EditInv, AimInv, NEW pt \in Trees, Read(pt), test = None, UNCHANGED edit
  PROVE  AimInv'
BY DEF AimInv

LEMMA AimInvStep == EditInv /\ PoolInv /\ AimInv /\ [Next]_vars => AimInv'
<1> SUFFICES ASSUME EditInv, PoolInv, AimInv, [Next]_vars PROVE AimInv'
  OBVIOUS
<1>1. CASE \E pt \in Corpus : Save(pt)
  BY <1>1 DEF Save, AimInv, editVars
<1>2. CASE \E pt \in TestCases : Load(pt)
  BY <1>2 DEF Load, AimInv, editVars
<1>3. ASSUME UNCHANGED <<read, test>>, UNCHANGED edit \/ edit'.by \in {"none", "delete"} PROVE AimInv'
  <2>1. Heap' = Heap
    BY <1>3, HeapRests
  <2> QED BY <1>3, <2>1 DEF AimInv
<1>4. ASSUME UNCHANGED <<read, test>>, test # None, NEW by \in {"replace", "insert"}, edit'.by = by,
             NEW c, edit'.other = c, c \in DOMAIN Heap, c < test,
             NEW aim, edit'.aim = aim, aim # {} => Apt(Heap, by, c, aim)
      PROVE  AimInv'
  <2>1. Heap' = Heap
    BY <1>4, HeapRests
  <2> QED BY <1>4, <2>1 DEF AimInv
<1>5. CASE GuidedReplace
  <2>1. PICK n \in Replaceable, type \in Types : \E c \in GuidedCandidates(n, type) : Replace(n, c, {type})
    BY <1>5 DEF GuidedReplace
  <2>2. PICK c \in GuidedCandidates(n, type) : Replace(n, c, {type})
    BY <2>1
  <2>3. test # None /\ UNCHANGED <<read, test>>
    BY <1>5, <2>2 DEF GuidedReplace, Replace
  <2>4. edit'.by = "replace" /\ edit'.other = c /\ edit'.aim = {type}
    BY <2>2 DEF Replace
  <2>5. Apt(Heap, "replace", c, {type})
    BY GuidedReplaceApt
  <2>6. c \in DOMAIN Heap /\ c < test
    BY <2>3, PooledPlace DEF GuidedCandidates
  <2> QED BY <1>4, <2>3, <2>4, <2>5, <2>6
<1>6. CASE RandomReplace
  <2>1. PICK n \in Replaceable : \E c \in Pooled(tree[n].type, AnyLabel) : Replace(n, c, {})
    BY <1>6 DEF RandomReplace
  <2>2. PICK c \in Pooled(tree[n].type, AnyLabel) : Replace(n, c, {})
    BY <2>1
  <2>3. test # None /\ UNCHANGED <<read, test>>
    BY <1>6, <2>2 DEF RandomReplace, Replace
  <2>4. edit'.by = "replace" /\ edit'.other = c /\ edit'.aim = {}
    BY <2>2 DEF Replace
  <2>5. c \in DOMAIN Heap /\ c < test
    BY <2>3, PooledPlace
  <2> QED BY <1>4, <2>3, <2>4, <2>5
<1>7. CASE GuidedInsert
  <2>1. PICK i \in insertable_types, types \in SUBSET Types \ {{}} :
          \E n \in Locations(i.location_type), l \in LabelsForInsertion(types) :
            \E c \in Pooled(i.target_type, l) : Insert(n, c, i.insert_before, i.sep, types)
    BY <1>7 DEF GuidedInsert
  <2>2. PICK n \in Locations(i.location_type), l \in LabelsForInsertion(types) :
          \E c \in Pooled(i.target_type, l) : Insert(n, c, i.insert_before, i.sep, types)
    BY <2>1
  <2>3. PICK c \in Pooled(i.target_type, l) : Insert(n, c, i.insert_before, i.sep, types)
    BY <2>2
  <2>4. test # None /\ UNCHANGED <<read, test>>
    BY <1>7, <2>3 DEF GuidedInsert, Insert
  <2>5. edit'.by = "insert" /\ edit'.other = c /\ edit'.aim = types
    BY <2>3 DEF Insert
  <2>6. Apt(Heap, "insert", c, types)
    BY GuidedInsertApt
  <2>7. c \in DOMAIN Heap /\ c < test
    BY <2>4, PooledPlace
  <2> QED BY <1>4, <2>4, <2>5, <2>6, <2>7
<1>8. CASE RandomInsert
  <2>1. PICK i \in insertable_types :
          \E n \in Locations(i.location_type), c \in Pooled(i.target_type, AnyLabel) :
            Insert(n, c, i.insert_before, i.sep, {})
    BY <1>8 DEF RandomInsert
  <2>2. PICK n \in Locations(i.location_type), c \in Pooled(i.target_type, AnyLabel) :
          Insert(n, c, i.insert_before, i.sep, {})
    BY <2>1
  <2>3. test # None /\ UNCHANGED <<read, test>>
    BY <1>8, <2>2 DEF RandomInsert, Insert
  <2>4. edit'.by = "insert" /\ edit'.other = c /\ edit'.aim = {}
    BY <2>2 DEF Insert
  <2>5. c \in DOMAIN Heap /\ c < test
    BY <2>3, PooledPlace
  <2> QED BY <1>4, <2>3, <2>4, <2>5
<1>9. CASE DeleteAny
  <2>1. UNCHANGED <<read, test>> /\ edit'.by = "delete"
    BY <1>9 DEF DeleteAny, Delete
  <2> QED BY <1>3, <2>1
<1>10. CASE EditNext /\ UNCHANGED <<read, pool>>
  <2>1. UNCHANGED <<read, test>> /\ (UNCHANGED edit \/ edit'.by = "none")
    BY <1>10 DEF EditNext, CloneChild, ReturnClone, Revert, Reinsert, ParseEdit, EndEdit, NoEdit
  <2> QED BY <1>3, <2>1
<1>11. CASE UNCHANGED vars
  BY <1>3, <1>11 DEF vars, editVars
<1> QED BY <1>1, <1>2, <1>5, <1>6, <1>7, <1>8, <1>9, <1>10, <1>11 DEF Next

LEMMA AimInvAlways == Spec => []AimInv
<1>1. Init => AimInv
  BY DEF Init, EditInit, NoEdit, AimInv
<1>2. EditInv /\ PoolInv /\ AimInv /\ [Next]_vars => AimInv'
  BY AimInvStep
<1> QED BY <1>1, <1>2, EditInvAlways, PoolInvAlways, PTL DEF Spec

(* An edit does not reach the trees of the pools.                           *)
LEMMA OtherRests ==
  ASSUME EditInv, AimInv, edit.by \in {"replace", "insert"}
  PROVE  /\ Nodes(edit.other) = NodesOf(Heap, edit.other)
         /\ \A m \in NodesOf(Heap, edit.other) : tree[m] = Heap[m]
<1>1. test # None /\ edit.other \in DOMAIN Heap /\ edit.other < test
  BY DEF AimInv
<1>2. CASE tree = Heap
  BY <1>2 DEF Nodes
<1>3. CASE tree # Heap
  <2>1. Unfinished /\ edit.node # test /\ tree = EditedHeap /\ ReadFits
    BY <1>3 DEF EditInv, TreeFits
  <2>2. /\ edit.by = "replace" /\ edit.node \in DOMAIN Heap /\ Parent \in DOMAIN Heap
        /\ edit.at \in DOMAIN Original /\ Original[edit.at] = edit.node /\ edit.node >= test
    BY <2>1 DEF EditInv, EditFits
  <2>3. HeapFits(Heap, NextID) /\ NextID \in Nat /\ test \in Nat /\ ClosedIn(Heap, BeforeTest)
    BY <1>1, <2>1, HeapFacts, BeforeTestClosed DEF ReadFits
  <2>4. Parent \notin BeforeTest
    <3> SUFFICES ASSUME Parent \in BeforeTest PROVE FALSE
      OBVIOUS
    <3>1. edit.node \in KidsOf(Heap, Parent)
      BY <2>2 DEF KidsOf, ToSet, Original
    <3>2. edit.node \in BeforeTest
      BY <2>3, <3>1 DEF ClosedIn
    <3>3. edit.node \in Nat
      BY <2>2, <2>3 DEF HeapFits
    <3> QED BY <2>2, <2>3, <3>2, <3>3 DEF BeforeTest
  <2>5. tree = [Heap EXCEPT ![Parent].kids = EditedKids]
    BY <2>1 DEF EditedHeap
  <2>6. DOMAIN tree = DOMAIN Heap /\ \A m \in DOMAIN Heap \ {Parent} : tree[m] = Heap[m]
    BY <2>5 DEF Heap
  <2>7. Linked(Heap)
    BY <2>3 DEF HeapFits, Linked
  <2>8. Linked(tree)
    <3>1. KidsOf(tree, Parent) \subseteq DOMAIN Heap
      <4>1. Changed(tree, Heap, Parent, EditedKids)
        BY <2>1, <2>2, <2>5, ChangedAgain
      <4>2. tree[Parent].kids = [Original EXCEPT ![edit.at] = edit.other]
        BY <2>2, <4>1 DEF Changed, EditedKids, ReplaceAt
      <4>3. Original \in Seq(DOMAIN Heap)
        BY <2>2, <2>3 DEF HeapFits, Original
      <4>4. \A j \in DOMAIN Original : Original[j] \in DOMAIN Heap
        BY <4>3
      <4>5. DOMAIN tree[Parent].kids = DOMAIN Original
        BY <4>2, <4>3
      <4>6. \A j \in DOMAIN Original : tree[Parent].kids[j] \in DOMAIN Heap
        BY <1>1, <4>2, <4>3, <4>4
      <4> QED BY <4>5, <4>6 DEF KidsOf, ToSet
    <3> QED BY <2>6, <2>7, <3>1 DEF Linked, KidsOf
  <2>9. Agree(tree, Heap, BeforeTest)
    BY <2>3, <2>4, <2>6 DEF Agree, HeapFits, ClosedIn, BeforeTest, KidsOf
  <2>10. (\A x \in BeforeTest : x \in 0 .. NextID) /\ edit.other \in BeforeTest
    BY <1>1, <2>3 DEF BeforeTest, HeapFits
  <2>11. NodesOf(tree, edit.other) = NodesOf(Heap, edit.other)
    BY <2>3, <2>7, <2>8, <2>9, <2>10, NodesAgree
  <2>12. NodesOf(Heap, edit.other) \subseteq BeforeTest
    BY <1>1, <2>10, PoolApart
  <2> QED BY <2>4, <2>6, <2>11, <2>12 DEF Nodes, BeforeTest
<1> QED BY <1>2, <1>3

(* What is put in for a symbol contains a node that can do something with a *)
(* symbol of its type or, next to a statement, define one.                  *)
THEOREM GuidedEditsAlwaysFit == Spec => []GuidedEditsFit
<1>1. EditInv /\ AimInv => GuidedEditsFit
  <2> SUFFICES ASSUME EditInv, AimInv, edit.by \in {"replace", "insert"}, edit.aim # {}
               PROVE  Apt(tree, edit.by, edit.other, edit.aim) /\ Nodes(edit.other) = NodesOf(tree, edit.other)
    BY DEF GuidedEditsFit, Apt
  <2>1. Apt(Heap, edit.by, edit.other, edit.aim)
    BY DEF AimInv
  <2>2. /\ Nodes(edit.other) = NodesOf(Heap, edit.other)
        /\ \A m \in NodesOf(Heap, edit.other) : tree[m] = Heap[m]
    BY OtherRests
  <2> QED BY <2>1, <2>2 DEF Apt, Nodes
<1> QED BY <1>1, EditInvAlways, AimInvAlways, PTL

-----------------------------------------------------------------------------
(***************************************************************************)
(* Sequences of whatever.                                                   *)
(***************************************************************************)
IsSeq(s) == \E T : s \in Seq(T)

LEMMA SeqFacts ==
  ASSUME NEW s, IsSeq(s)
  PROVE  Len(s) \in Nat /\ DOMAIN s = 1 .. Len(s) /\ s = [i \in 1 .. Len(s) |-> s[i]]
<1>1. PICK T : s \in Seq(T)
  BY DEF IsSeq
<1> QED BY <1>1

LEMMA MadeSeq ==
  ASSUME NEW k \in Nat, NEW f, f = [i \in 1 .. k |-> f[i]]
  PROVE  IsSeq(f) /\ Len(f) = k /\ DOMAIN f = 1 .. k
<1> DEFINE T == {f[i] : i \in 1 .. k}
<1>1. f \in Seq(T)
  OBVIOUS
<1> QED BY <1>1 DEF IsSeq

LEMMA AppendFacts ==
  ASSUME NEW s, IsSeq(s), NEW x
  PROVE  /\ IsSeq(Append(s, x)) /\ Len(Append(s, x)) = Len(s) + 1
         /\ DOMAIN Append(s, x) = 1 .. Len(s) + 1
         /\ \A i \in DOMAIN s : Append(s, x)[i] = s[i]
         /\ Append(s, x)[Len(s) + 1] = x
<1>1. PICK T : s \in Seq(T)
  BY DEF IsSeq
<1>2. s \in Seq(T \cup {x})
  BY <1>1
<1>3. x \in T \cup {x}
  OBVIOUS
<1>4. /\ Append(s, x) \in Seq(T \cup {x}) /\ Len(Append(s, x)) = Len(s) + 1
      /\ \A i \in 1 .. Len(s) : Append(s, x)[i] = s[i]
      /\ Append(s, x)[Len(s) + 1] = x
  BY <1>2, <1>3
<1> QED BY <1>2, <1>4 DEF IsSeq

LEMMA ExceptFacts ==
  ASSUME NEW s, IsSeq(s), NEW j \in DOMAIN s, NEW x
  PROVE  /\ IsSeq([s EXCEPT ![j] = x]) /\ Len([s EXCEPT ![j] = x]) = Len(s)
         /\ DOMAIN [s EXCEPT ![j] = x] = DOMAIN s
         /\ [s EXCEPT ![j] = x][j] = x
         /\ \A i \in DOMAIN s \ {j} : [s EXCEPT ![j] = x][i] = s[i]
<1>1. Len(s) \in Nat /\ DOMAIN s = 1 .. Len(s)
  BY SeqFacts
<1> DEFINE f == [s EXCEPT ![j] = x]
<1>2. f = [i \in 1 .. Len(s) |-> f[i]]
  BY <1>1
<1>3. IsSeq(f) /\ Len(f) = Len(s)
  <2> HIDE DEF f
  <2> QED BY <1>1, <1>2, MadeSeq
<1> QED BY <1>3

LEMMA FrontFacts ==
  ASSUME NEW s, IsSeq(s), s # << >>
  PROVE  /\ Len(s) \in DOMAIN s /\ Last(s) = s[Len(s)]
         /\ IsSeq(Front(s)) /\ Len(Front(s)) = Len(s) - 1
         /\ DOMAIN Front(s) = 1 .. Len(s) - 1
         /\ \A i \in 1 .. Len(s) - 1 : Front(s)[i] = s[i]
<1>1. PICK T : s \in Seq(T)
  BY DEF IsSeq
<1>2. Len(s) \in Nat \ {0} /\ DOMAIN s = 1 .. Len(s)
  BY <1>1
<1>3. Front(s) = SubSeq(s, 1, Len(s) - 1)
  BY DEF Front
<1>4. /\ SubSeq(s, 1, Len(s) - 1) \in Seq(T) /\ Len(SubSeq(s, 1, Len(s) - 1)) = Len(s) - 1
      /\ \A i \in 1 .. Len(s) - 1 : SubSeq(s, 1, Len(s) - 1)[i] = s[i]
  BY <1>1, <1>2
<1>5. Last(s) = s[Len(s)] /\ Len(s) \in DOMAIN s
  BY <1>2 DEF Last
<1>6. IsSeq(Front(s)) /\ DOMAIN Front(s) = 1 .. Len(Front(s))
  <2>1. IsSeq(Front(s))
    BY <1>3, <1>4 DEF IsSeq
  <2> QED BY <2>1, SeqFacts
<1>7. Len(Front(s)) = Len(s) - 1 /\ \A i \in 1 .. Len(s) - 1 : Front(s)[i] = s[i]
  BY <1>3, <1>4
<1> QED BY <1>5, <1>6, <1>7

LEMMA Elements ==
  ASSUME NEW S, NEW s \in Seq(S)
  PROVE  Len(s) \in Nat /\ DOMAIN s = 1 .. Len(s) /\ \A i \in DOMAIN s : s[i] \in S
OBVIOUS

LEMMA WiderSeq ==
  ASSUME NEW S, NEW T, NEW s \in Seq(S), \A x \in S : x \in T
  PROVE  s \in Seq(T)
OBVIOUS

-----------------------------------------------------------------------------
(***************************************************************************)
(* A clone that is being made: `nodes` is copied, `cl` is the clone so far   *)
(* and `fr` the active calls.                                               *)
(***************************************************************************)
SeqKids(nodes) == \A n \in DOMAIN nodes : nodes[n].kids \in Seq(DOMAIN nodes)

(* A copy of the node n.                                                    *)
Copy(nodes, n, u, k) ==
  [id |-> n, type |-> nodes[n].type, name |-> nodes[n].name, terminal |-> nodes[n].terminal,
   label |-> nodes[n].label, up |-> u, kids |-> k]

LEMMA CopyParts ==
  ASSUME NEW nodes, NEW r, NEW n, NEW u, NEW k, r = Copy(nodes, n, u, k)
  PROVE  r.id = n /\ r.up = u /\ r.kids = k /\ r = Copy(nodes, r.id, r.up, r.kids)
BY DEF Copy

Call(n, p, k) == [of |-> n, copy |-> p, cloned |-> k]

(* The copies of the active calls do not have a parent yet.                 *)
Open(fr, p) == \E i \in DOMAIN fr : fr[i].copy = p

FramesFit(nodes, cl, fr) ==
  /\ IsSeq(fr) /\ fr # << >> /\ fr[1].copy = 1
  /\ \A i \in DOMAIN fr :
       /\ fr[i] = Call(fr[i].of, fr[i].copy, fr[i].cloned)
       /\ fr[i].copy \in DOMAIN cl /\ fr[i].of = cl[fr[i].copy].id
       /\ fr[i].cloned \in 0 .. Len(nodes[fr[i].of].kids)
       /\ i # Len(fr) => fr[i].cloned > 0 /\ fr[i + 1].of = nodes[fr[i].of].kids[fr[i].cloned]
  /\ \A i, j \in DOMAIN fr : i < j => fr[i].copy < fr[j].copy

Nowhere(cl, p) == \A q \in DOMAIN cl : \A i \in DOMAIN cl[q].kids : cl[q].kids[i] # p

Once(cl, p) ==
  /\ cl[p].up \in 1 .. p - 1
  /\ \E j \in DOMAIN cl[cl[p].up].kids :
       /\ cl[cl[p].up].kids[j] = p
       /\ \A q \in DOMAIN cl : \A i \in DOMAIN cl[q].kids :
            cl[q].kids[i] = p => q = cl[p].up /\ i = j

NodeFits(nodes, cl, p) ==
  /\ cl[p].id \in DOMAIN nodes
  /\ cl[p] = Copy(nodes, cl[p].id, cl[p].up, cl[p].kids)
  /\ cl[p].kids \in Seq(DOMAIN cl)

Hanging(cl, fr) ==
  \A p \in DOMAIN cl : IF Open(fr, p) THEN cl[p].up = None /\ Nowhere(cl, p) ELSE Once(cl, p)

(* The first k children have been copied and have come to their parent.     *)
CopiedTo(nodes, cl, p, k) ==
  /\ Len(cl[p].kids) = k
  /\ \A i \in 1 .. k : cl[cl[p].kids[i]].id = nodes[cl[p].id].kids[i]

Done(fr, i) == IF i = Len(fr) THEN fr[i].cloned ELSE fr[i].cloned - 1

Advance(nodes, cl, fr) ==
  /\ \A i \in DOMAIN fr : CopiedTo(nodes, cl, fr[i].copy, Done(fr, i))
  /\ \A p \in DOMAIN cl : ~Open(fr, p) => CopiedTo(nodes, cl, p, Len(nodes[cl[p].id].kids))

Copying(nodes, cl, fr) ==
  /\ SeqKids(nodes) /\ IsSeq(cl)
  /\ FramesFit(nodes, cl, fr) /\ Hanging(cl, fr) /\ Advance(nodes, cl, fr)
  /\ \A p \in DOMAIN cl : NodeFits(nodes, cl, p)

(* The first call has made the first copy.                                  *)
LEMMA CopyingStarts ==
  ASSUME NEW nodes, SeqKids(nodes), NEW n \in DOMAIN nodes
  PROVE  Copying(nodes, <<Copy(nodes, n, None, << >>)>>, <<Call(n, 1, 0)>>)
<1> DEFINE new == Copy(nodes, n, None, << >>)
           top == Call(n, 1, 0)
           cl == <<new>>
           fr == <<top>>
<1>1. /\ new.id = n /\ new.up = None /\ new.kids = << >>
      /\ new = Copy(nodes, new.id, new.up, new.kids)
  BY DEF Copy
<1>2. /\ top.of = n /\ top.copy = 1 /\ top.cloned = 0
      /\ top = Call(top.of, top.copy, top.cloned)
  BY DEF Call
<1>3. /\ IsSeq(cl) /\ Len(cl) = 1 /\ DOMAIN cl = {1} /\ cl[1] = new
      /\ IsSeq(fr) /\ Len(fr) = 1 /\ DOMAIN fr = {1} /\ fr[1] = top /\ fr # << >>
  <2> HIDE DEF new, top
  <2>1. cl \in Seq({new}) /\ fr \in Seq({top})
    OBVIOUS
  <2>2. Len(cl) = 1 /\ DOMAIN cl = {1} /\ cl[1] = new /\ Len(fr) = 1 /\ DOMAIN fr = {1} /\ fr[1] = top /\ fr # << >>
    OBVIOUS
  <2> QED BY <2>1, <2>2 DEF IsSeq
<1> HIDE DEF new, top, cl, fr
<1>4. Len(nodes[n].kids) \in Nat
  BY DEF SeqKids
<1>5. FramesFit(nodes, cl, fr)
  BY <1>1, <1>2, <1>3, <1>4 DEF FramesFit
<1>6. Open(fr, 1)
  BY <1>2, <1>3 DEF Open
<1>7. Hanging(cl, fr)
  BY <1>1, <1>3, <1>6 DEF Hanging, Nowhere
<1>8. Advance(nodes, cl, fr)
  BY <1>1, <1>2, <1>3, <1>6 DEF Advance, CopiedTo, Done
<1>9. \A p \in DOMAIN cl : NodeFits(nodes, cl, p)
  <2>1. << >> \in Seq(DOMAIN cl)
    OBVIOUS
  <2> QED BY <1>1, <1>3, <2>1 DEF NodeFits
<1>10. Copying(nodes, cl, fr)
  BY <1>3, <1>5, <1>7, <1>8, <1>9 DEF Copying
<1> QED BY <1>10 DEF cl, fr, new, top

(* A call goes on with its next child.                                      *)
Descends(nodes, cl, fr, cl2, fr2, c) ==
  /\ fr[Len(fr)].cloned < Len(nodes[fr[Len(fr)].of].kids)
  /\ c = nodes[fr[Len(fr)].of].kids[fr[Len(fr)].cloned + 1]
  /\ cl2 = Append(cl, Copy(nodes, c, None, << >>))
  /\ fr2 = Append([fr EXCEPT ![Len(fr)].cloned = @ + 1], Call(c, Len(cl) + 1, 0))

(* What is known of the active calls.                                       *)
LEMMA CallFacts ==
  ASSUME NEW nodes, NEW cl, NEW fr, Copying(nodes, cl, fr)
  PROVE  /\ Len(cl) \in Nat /\ DOMAIN cl = 1 .. Len(cl)
         /\ Len(fr) \in Nat \ {0} /\ DOMAIN fr = 1 .. Len(fr) /\ fr[1].copy = 1 /\ fr # << >>
         /\ \A i \in 1 .. Len(fr) :
              /\ fr[i] = Call(fr[i].of, fr[i].copy, fr[i].cloned)
              /\ fr[i].copy \in 1 .. Len(cl) /\ fr[i].of = cl[fr[i].copy].id
              /\ fr[i].cloned \in 0 .. Len(nodes[fr[i].of].kids) /\ fr[i].cloned \in Nat
              /\ fr[i].of \in DOMAIN nodes
              /\ i # Len(fr) => fr[i].cloned > 0 /\ fr[i + 1].of = nodes[fr[i].of].kids[fr[i].cloned]
         /\ \A i, j \in 1 .. Len(fr) : i < j => fr[i].copy < fr[j].copy
<1>1. IsSeq(cl) /\ IsSeq(fr) /\ fr # << >> /\ FramesFit(nodes, cl, fr)
  BY DEF Copying, FramesFit
<1>2. /\ Len(cl) \in Nat /\ DOMAIN cl = 1 .. Len(cl)
      /\ Len(fr) \in Nat /\ DOMAIN fr = 1 .. Len(fr) /\ fr = [i \in 1 .. Len(fr) |-> fr[i]]
  BY <1>1, SeqFacts
<1>3. Len(fr) # 0
  BY <1>1, <1>2
<1>4. \A p \in DOMAIN cl : cl[p].id \in DOMAIN nodes
  BY DEF Copying, NodeFits
<1>5. \A n \in DOMAIN nodes : Len(nodes[n].kids) \in Nat
  BY DEF Copying, SeqKids
<1>6. \A i \in DOMAIN fr : fr[i].of \in DOMAIN nodes
  BY <1>1, <1>4 DEF FramesFit
<1>7. \A i \in DOMAIN fr : fr[i].cloned \in Nat
  BY <1>1, <1>5, <1>6 DEF FramesFit
<1>8. /\ \A i \in DOMAIN fr :
           /\ fr[i] = Call(fr[i].of, fr[i].copy, fr[i].cloned)
           /\ fr[i].copy \in DOMAIN cl /\ fr[i].of = cl[fr[i].copy].id
           /\ fr[i].cloned \in 0 .. Len(nodes[fr[i].of].kids)
           /\ i # Len(fr) => fr[i].cloned > 0 /\ fr[i + 1].of = nodes[fr[i].of].kids[fr[i].cloned]
      /\ \A i, j \in DOMAIN fr : i < j => fr[i].copy < fr[j].copy
      /\ fr[1].copy = 1
  BY <1>1 DEF FramesFit
<1> QED BY <1>1, <1>2, <1>3, <1>6, <1>7, <1>8

(* The calls and the nodes after a step to the next child, one by one.      *)
Descended(cl, fr, cl2, fr2, k, L, c, m, new) ==
  /\ IsSeq(cl2) /\ DOMAIN cl2 = 1 .. L + 1 /\ cl2[L + 1] = new
  /\ \A p \in 1 .. L : cl2[p] = cl[p]
  /\ IsSeq(fr2) /\ Len(fr2) = k + 1 /\ DOMAIN fr2 = 1 .. k + 1
  /\ fr2[k + 1] = Call(c, L + 1, 0) /\ fr2[k] = Call(fr[k].of, fr[k].copy, m)
  /\ \A i \in 1 .. k - 1 : fr2[i] = fr[i]

LEMMA DescendFacts ==
  ASSUME NEW nodes, NEW cl, NEW fr, NEW cl2, NEW fr2, NEW c, Copying(nodes, cl, fr),
         Descends(nodes, cl, fr, cl2, fr2, c)
  PROVE  Descended(cl, fr, cl2, fr2, Len(fr), Len(cl), c, fr[Len(fr)].cloned + 1,
                   Copy(nodes, c, None, << >>))
<1>1. PICK k, L, m, top, fr1, last :
        /\ k = Len(fr) /\ L = Len(cl) /\ m = fr[k].cloned + 1 /\ top = Call(fr[k].of, fr[k].copy, m)
        /\ fr1 = [fr EXCEPT ![k] = top] /\ last = Call(c, L + 1, 0)
  OBVIOUS
<1>2. IsSeq(fr) /\ IsSeq(cl)
  BY DEF Copying, FramesFit
<1>3. k \in Nat \ {0} /\ DOMAIN fr = 1 .. k /\ fr[k] = Call(fr[k].of, fr[k].copy, fr[k].cloned)
  BY <1>1, CallFacts
<1>4. fr2 = Append(fr1, last)
  <2>1. [fr[k] EXCEPT !.cloned = @ + 1] = top
    <3>1. \A x, y, z : [Call(x, y, z) EXCEPT !.cloned = @ + 1] = Call(x, y, z + 1)
      BY DEF Call
    <3> QED BY <1>1, <1>3, <3>1
  <2>2. [fr EXCEPT ![k].cloned = @ + 1] = [fr EXCEPT ![k] = [fr[k] EXCEPT !.cloned = @ + 1]]
    OBVIOUS
  <2>3. fr2 = Append([fr EXCEPT ![k].cloned = @ + 1], last)
    BY <1>1 DEF Descends
  <2> QED BY <1>1, <2>1, <2>2, <2>3
<1>5. /\ IsSeq(fr1) /\ Len(fr1) = k /\ DOMAIN fr1 = 1 .. k /\ fr1[k] = top
      /\ \A i \in DOMAIN fr \ {k} : fr1[i] = fr[i]
  <2>1. k \in DOMAIN fr
    BY <1>3
  <2>2. /\ IsSeq([fr EXCEPT ![k] = top]) /\ Len([fr EXCEPT ![k] = top]) = Len(fr)
        /\ DOMAIN [fr EXCEPT ![k] = top] = DOMAIN fr
        /\ [fr EXCEPT ![k] = top][k] = top
        /\ \A i \in DOMAIN fr \ {k} : [fr EXCEPT ![k] = top][i] = fr[i]
    BY <1>2, <2>1, ExceptFacts
  <2>3. IsSeq(fr1) /\ Len(fr1) = Len(fr) /\ DOMAIN fr1 = DOMAIN fr /\ fr1[k] = top
        /\ \A i \in DOMAIN fr \ {k} : fr1[i] = fr[i]
    BY <1>1, <2>2, Zenon
  <2> QED BY <1>1, <1>3, <2>3, Zenon
<1>6. /\ IsSeq(fr2) /\ Len(fr2) = k + 1 /\ DOMAIN fr2 = 1 .. k + 1
      /\ fr2[k + 1] = last /\ \A i \in 1 .. k : fr2[i] = fr1[i]
  BY <1>4, <1>5, AppendFacts
<1>7. /\ IsSeq(cl2) /\ DOMAIN cl2 = 1 .. L + 1 /\ cl2[L + 1] = Copy(nodes, c, None, << >>)
      /\ \A p \in 1 .. L : cl2[p] = cl[p]
  <2>1. cl2 = Append(cl, Copy(nodes, c, None, << >>)) /\ DOMAIN cl = 1 .. L
    BY <1>1, CallFacts DEF Descends
  <2> QED BY <1>1, <1>2, <2>1, AppendFacts
<1>8. fr2[k] = top /\ \A i \in 1 .. k - 1 : fr2[i] = fr[i]
  <2>1. k \in 1 .. k /\ \A i \in 1 .. k - 1 : i \in 1 .. k /\ i \in DOMAIN fr \ {k}
    BY <1>3
  <2> QED BY <1>5, <1>6, <2>1
<1> QED BY <1>1, <1>6, <1>7, <1>8 DEF Descended

LEMMA CopyingDescends ==
  ASSUME NEW nodes, NEW cl, NEW fr, NEW cl2, NEW fr2, NEW c, Copying(nodes, cl, fr),
         Descends(nodes, cl, fr, cl2, fr2, c)
  PROVE  Copying(nodes, cl2, fr2)
<1>0. PICK k, L, m, new, top, last :
        /\ k = Len(fr) /\ L = Len(cl) /\ m = fr[k].cloned + 1 /\ new = Copy(nodes, c, None, << >>)
        /\ top = Call(fr[k].of, fr[k].copy, m) /\ last = Call(c, L + 1, 0)
  OBVIOUS
<1>1. /\ SeqKids(nodes) /\ IsSeq(cl) /\ FramesFit(nodes, cl, fr) /\ Hanging(cl, fr)
      /\ Advance(nodes, cl, fr) /\ \A p \in DOMAIN cl : NodeFits(nodes, cl, p)
  BY DEF Copying
<1>2. /\ L \in Nat /\ DOMAIN cl = 1 .. L /\ k \in Nat \ {0} /\ DOMAIN fr = 1 .. k
  BY <1>0, CallFacts
<1>3. /\ \A i \in 1 .. k :
           /\ fr[i] = Call(fr[i].of, fr[i].copy, fr[i].cloned)
           /\ fr[i].copy \in 1 .. L /\ fr[i].of = cl[fr[i].copy].id
           /\ fr[i].cloned \in 0 .. Len(nodes[fr[i].of].kids) /\ fr[i].cloned \in Nat
           /\ fr[i].of \in DOMAIN nodes
           /\ i # k => fr[i].cloned > 0 /\ fr[i + 1].of = nodes[fr[i].of].kids[fr[i].cloned]
      /\ \A i, j \in 1 .. k : i < j => fr[i].copy < fr[j].copy
      /\ fr[1].copy = 1
  <2>1. /\ \A i \in 1 .. Len(fr) :
             /\ fr[i] = Call(fr[i].of, fr[i].copy, fr[i].cloned)
             /\ fr[i].copy \in 1 .. Len(cl) /\ fr[i].of = cl[fr[i].copy].id
             /\ fr[i].cloned \in 0 .. Len(nodes[fr[i].of].kids) /\ fr[i].cloned \in Nat
             /\ fr[i].of \in DOMAIN nodes
             /\ i # Len(fr) => fr[i].cloned > 0 /\ fr[i + 1].of = nodes[fr[i].of].kids[fr[i].cloned]
        /\ \A i, j \in 1 .. Len(fr) : i < j => fr[i].copy < fr[j].copy
        /\ fr[1].copy = 1
    BY CallFacts
  <2> QED BY <1>0, <2>1, Zenon
<1>4. /\ c \in DOMAIN nodes /\ m \in Nat \ {0} /\ m \in 0 .. Len(nodes[fr[k].of].kids)
      /\ c = nodes[fr[k].of].kids[m]
  <2>1. nodes[fr[k].of].kids \in Seq(DOMAIN nodes) /\ fr[k].cloned \in Nat
    BY <1>1, <1>2, <1>3 DEF SeqKids
  <2>2. m \in 1 .. Len(nodes[fr[k].of].kids) /\ Len(nodes[fr[k].of].kids) \in Nat
        /\ c = nodes[fr[k].of].kids[m]
    BY <1>0, <2>1 DEF Descends
  <2> QED BY <2>1, <2>2
<1>6. /\ top.of = fr[k].of /\ top.copy = fr[k].copy /\ top.cloned = m
      /\ last.of = c /\ last.copy = L + 1 /\ last.cloned = 0
      /\ top = Call(top.of, top.copy, top.cloned) /\ last = Call(last.of, last.copy, last.cloned)
  BY <1>0 DEF Call
<1>7. new.id = c /\ new.up = None /\ new.kids = << >> /\ new = Copy(nodes, new.id, new.up, new.kids)
  BY <1>0 DEF Copy
<1>8. /\ IsSeq(fr2) /\ Len(fr2) = k + 1 /\ DOMAIN fr2 = 1 .. k + 1
      /\ fr2[k + 1] = last /\ fr2[k] = top /\ \A i \in 1 .. k - 1 : fr2[i] = fr[i]
      /\ IsSeq(cl2) /\ DOMAIN cl2 = 1 .. L + 1 /\ cl2[L + 1] = new
      /\ \A p \in 1 .. L : cl2[p] = cl[p]
  BY <1>0, DescendFacts DEF Descended
<1>9. \A i \in 1 .. k : fr2[i].copy = fr[i].copy
  BY <1>2, <1>6, <1>8
<1>10. FramesFit(nodes, cl2, fr2)
  <2>1. fr2 # << >> /\ fr2[1].copy = 1
    <3>1. 1 \in 1 .. k /\ 1 \in 1 .. k + 1
      BY <1>2
    <3>2. fr2 # << >>
      <4>1. DOMAIN << >> = {}
        OBVIOUS
      <4> QED BY <1>8, <3>1, <4>1
    <3> QED BY <1>3, <1>9, <3>1, <3>2
  <2>2. ASSUME NEW i \in 1 .. k + 1
        PROVE  /\ fr2[i] = Call(fr2[i].of, fr2[i].copy, fr2[i].cloned)
               /\ fr2[i].copy \in 1 .. L + 1 /\ fr2[i].of = cl2[fr2[i].copy].id
               /\ fr2[i].cloned \in 0 .. Len(nodes[fr2[i].of].kids)
               /\ i # k + 1 => fr2[i].cloned > 0 /\ fr2[i + 1].of = nodes[fr2[i].of].kids[fr2[i].cloned]
    <3>1. CASE i = k + 1
      <4>1. 0 \in 0 .. Len(nodes[c].kids) /\ L + 1 \in 1 .. L + 1
        <5>1. nodes[c].kids \in Seq(DOMAIN nodes)
          BY <1>1, <1>4 DEF SeqKids
        <5>2. Len(nodes[c].kids) \in Nat
          BY <5>1
        <5> QED BY <1>2, <5>2
      <4> QED BY <1>6, <1>7, <1>8, <3>1, <4>1
    <3>2. CASE i = k
      <4>1. k # k + 1 /\ k \in 1 .. k /\ fr2[i] = top /\ fr2[i + 1] = last
        BY <1>2, <1>8, <3>2
      <4>2. fr[k].copy \in 1 .. L /\ fr[k].of = cl[fr[k].copy].id
        BY <1>3, <4>1
      <4>3. fr[k].copy \in 1 .. L + 1 /\ cl2[fr[k].copy] = cl[fr[k].copy] /\ m > 0
        <5>1. fr[k].copy \in 1 .. L + 1 /\ m > 0
          BY <1>2, <1>4, <4>2
        <5> QED BY <1>8, <4>2, <5>1
      <4> QED BY <1>4, <1>6, <4>1, <4>2, <4>3
    <3>3. CASE i \in 1 .. k - 1
      <4>1. i \in 1 .. k /\ i # k /\ i + 1 \in 1 .. k /\ fr2[i] = fr[i]
        BY <1>2, <1>8, <3>3
      <4>2. fr2[i + 1].of = fr[i + 1].of
        <5>1. CASE i + 1 = k
          BY <1>6, <1>8, <5>1
        <5>2. CASE i + 1 # k
          <6>1. i + 1 \in 1 .. k - 1
            BY <1>2, <4>1, <5>2
          <6> QED BY <1>8, <6>1
        <5> QED BY <5>1, <5>2
      <4>3. fr[i].copy \in 1 .. L /\ fr[i].copy \in 1 .. L + 1 /\ cl2[fr[i].copy] = cl[fr[i].copy]
        BY <1>2, <1>3, <1>8, <4>1
      <4>4. /\ fr[i] = Call(fr[i].of, fr[i].copy, fr[i].cloned) /\ fr[i].of = cl[fr[i].copy].id
            /\ fr[i].cloned \in 0 .. Len(nodes[fr[i].of].kids)
            /\ fr[i].cloned > 0 /\ fr[i + 1].of = nodes[fr[i].of].kids[fr[i].cloned]
        BY <1>3, <4>1
      <4> QED BY <4>1, <4>2, <4>3, <4>4
    <3>4. i = k + 1 \/ i = k \/ i \in 1 .. k - 1
      BY <1>2
    <3> QED BY <3>1, <3>2, <3>3, <3>4
  <2>3. ASSUME NEW i \in 1 .. k + 1, NEW j \in 1 .. k + 1, i < j PROVE fr2[i].copy < fr2[j].copy
    <3>1. i \in 1 .. k /\ fr2[i].copy = fr[i].copy /\ fr[i].copy \in 1 .. L
      <4>1. i \in 1 .. k
        BY <1>2, <2>3
      <4> QED BY <1>3, <1>9, <4>1
    <3>2. CASE j = k + 1
      BY <1>2, <1>6, <1>8, <3>1, <3>2
    <3>3. CASE j \in 1 .. k
      BY <1>3, <1>9, <2>3, <3>1, <3>3
    <3> QED BY <1>2, <3>2, <3>3
  <2> QED BY <1>8, <2>1, <2>2, <2>3 DEF FramesFit
<1>11. \A p \in 1 .. L : Open(fr2, p) <=> Open(fr, p)
  <2>1. \A p \in 1 .. L : p # fr2[k + 1].copy
    BY <1>2, <1>6, <1>8
  <2>2. \A i \in 1 .. k + 1 : i = k + 1 \/ i \in 1 .. k
    BY <1>2
  <2>3. \A i \in 1 .. k : i \in 1 .. k + 1
    BY <1>2
  <2> QED BY <1>2, <1>8, <1>9, <2>1, <2>2, <2>3 DEF Open
<1>12. Open(fr2, L + 1)
  <2>1. k + 1 \in 1 .. k + 1
    BY <1>2
  <2> QED BY <1>6, <1>8, <2>1 DEF Open
<1>13. \A p \in 1 .. L : /\ cl[p].kids \in Seq(1 .. L) /\ DOMAIN cl[p].kids = 1 .. Len(cl[p].kids)
                         /\ \A i \in DOMAIN cl[p].kids : cl[p].kids[i] \in 1 .. L
  <2>1. \A p \in 1 .. L : cl[p].kids \in Seq(1 .. L)
    BY <1>1, <1>2 DEF NodeFits
  <2>2. \A s \in Seq(1 .. L) : DOMAIN s = 1 .. Len(s) /\ \A i \in DOMAIN s : s[i] \in 1 .. L
    BY Elements
  <2> QED BY <2>1, <2>2
<1>14. DOMAIN new.kids = {} /\ Len(new.kids) = 0
  BY <1>7
<1>15. /\ \A p \in 1 .. L + 1 : p = L + 1 \/ p \in 1 .. L
       /\ \A p \in 1 .. L : p \in 1 .. L + 1 /\ p # L + 1
  BY <1>2
<1>16. Hanging(cl2, fr2)
  <2> SUFFICES ASSUME NEW p \in 1 .. L + 1
               PROVE  IF Open(fr2, p) THEN cl2[p].up = None /\ Nowhere(cl2, p) ELSE Once(cl2, p)
    BY <1>8 DEF Hanging
  <2>1. CASE p = L + 1
    <3>1. ASSUME NEW q \in 1 .. L + 1, NEW i \in DOMAIN cl2[q].kids PROVE cl2[q].kids[i] # p
      <4>1. q \in 1 .. L /\ cl2[q] = cl[q]
        BY <1>8, <1>14, <1>15
      <4>2. cl[q].kids[i] \in 1 .. L
        BY <1>13, <4>1
      <4> QED BY <1>15, <2>1, <4>1, <4>2
    <3>2. Nowhere(cl2, p)
      BY <1>8, <3>1 DEF Nowhere
    <3> QED BY <1>7, <1>8, <1>12, <2>1, <3>2
  <2>2. CASE p \in 1 .. L
    <3>1. CASE Open(fr, p)
      <4>1. cl[p].up = None /\ Nowhere(cl, p)
        BY <1>1, <1>2, <2>2, <3>1 DEF Hanging
      <4>2. ASSUME NEW q \in 1 .. L + 1, NEW i \in DOMAIN cl2[q].kids PROVE cl2[q].kids[i] # p
        <5>1. q \in 1 .. L /\ cl2[q] = cl[q]
          BY <1>8, <1>14, <1>15
        <5> QED BY <1>2, <4>1, <5>1 DEF Nowhere
      <4>3. Nowhere(cl2, p)
        BY <1>8, <4>2 DEF Nowhere
      <4> QED BY <1>8, <1>11, <2>2, <3>1, <4>1, <4>3
    <3>2. CASE ~Open(fr, p)
      <4>1. Once(cl, p)
        BY <1>1, <1>2, <2>2, <3>2 DEF Hanging
      <4>2. PICK u : u = cl[p].up
        OBVIOUS
      <4>3. cl2[p] = cl[p] /\ u \in 1 .. p - 1 /\ u \in 1 .. L
        <5>1. u \in 1 .. p - 1
          BY <4>1, <4>2 DEF Once
        <5> QED BY <1>2, <1>8, <2>2, <5>1
      <4>4. cl2[u] = cl[u] /\ cl2[p].up = u
        BY <1>8, <4>2, <4>3
      <4>5. PICK j \in DOMAIN cl[u].kids :
              /\ cl[u].kids[j] = p
              /\ \A q \in 1 .. L : \A i \in DOMAIN cl[q].kids : cl[q].kids[i] = p => q = u /\ i = j
        BY <1>2, <4>1, <4>2 DEF Once
      <4>6. ASSUME NEW q \in 1 .. L + 1, NEW i \in DOMAIN cl2[q].kids, cl2[q].kids[i] = p
            PROVE  q = u /\ i = j
        <5>1. q \in 1 .. L /\ cl2[q] = cl[q]
          BY <1>8, <1>14, <1>15
        <5> QED BY <4>5, <4>6, <5>1
      <4>7. Once(cl2, p)
        BY <1>8, <4>3, <4>4, <4>5, <4>6 DEF Once
      <4> QED BY <1>11, <2>2, <3>2, <4>7
    <3> QED BY <3>1, <3>2
  <2> QED BY <1>15, <2>1, <2>2
<1>17. \A p \in 1 .. L : \A h : CopiedTo(nodes, cl, p, h) => CopiedTo(nodes, cl2, p, h)
  <2> SUFFICES ASSUME NEW p \in 1 .. L, NEW h, CopiedTo(nodes, cl, p, h)
               PROVE  CopiedTo(nodes, cl2, p, h)
    OBVIOUS
  <2>1. cl2[p] = cl[p] /\ DOMAIN cl[p].kids = 1 .. h /\ Len(cl[p].kids) = h
    BY <1>8, <1>13 DEF CopiedTo
  <2>2. \A i \in 1 .. h : cl[p].kids[i] \in 1 .. L
    BY <1>13, <2>1
  <2> QED BY <1>8, <2>1, <2>2 DEF CopiedTo
<1>18. Advance(nodes, cl2, fr2)
  <2>1. ASSUME NEW i \in 1 .. k + 1 PROVE CopiedTo(nodes, cl2, fr2[i].copy, Done(fr2, i))
    <3>1. CASE i = k + 1
      <4>1. fr2[i].copy = L + 1 /\ Done(fr2, i) = 0
        BY <1>6, <1>8, <3>1 DEF Done
      <4>2. \A j : j \notin 1 .. 0
        OBVIOUS
      <4> QED BY <1>8, <1>14, <4>1, <4>2 DEF CopiedTo
    <3>2. CASE i \in 1 .. k
      <4>1. CopiedTo(nodes, cl, fr[i].copy, Done(fr, i)) /\ fr[i].copy \in 1 .. L
        BY <1>1, <1>2, <1>3, <3>2 DEF Advance
      <4>2. fr2[i].copy = fr[i].copy
        BY <1>9, <3>2
      <4>3. Done(fr2, i) = Done(fr, i)
        <5>1. i # k + 1
          BY <1>2, <3>2
        <5>2. Done(fr2, i) = fr2[i].cloned - 1
          BY <1>8, <5>1 DEF Done
        <5>3. CASE i = k
          <6>1. Done(fr, i) = fr[k].cloned /\ fr2[i].cloned = fr[k].cloned + 1 /\ fr[k].cloned \in Nat
            BY <1>0, <1>3, <1>6, <1>8, <3>2, <5>3 DEF Done
          <6> QED BY <5>2, <6>1
        <5>4. CASE i # k
          <6>1. i \in 1 .. k - 1
            BY <1>2, <3>2, <5>4
          <6> QED BY <1>0, <1>8, <5>2, <5>4, <6>1 DEF Done
        <5> QED BY <5>3, <5>4
      <4> QED BY <1>17, <4>1, <4>2, <4>3
    <3> QED BY <1>2, <3>1, <3>2
  <2>2. ASSUME NEW p \in 1 .. L + 1, ~Open(fr2, p)
        PROVE  CopiedTo(nodes, cl2, p, Len(nodes[cl2[p].id].kids))
    <3>1. p \in 1 .. L /\ ~Open(fr, p)
      BY <1>11, <1>12, <1>15, <2>2
    <3>2. CopiedTo(nodes, cl, p, Len(nodes[cl[p].id].kids)) /\ cl2[p] = cl[p]
      BY <1>1, <1>2, <1>8, <3>1 DEF Advance
    <3> QED BY <1>17, <3>1, <3>2
  <2> QED BY <1>8, <2>1, <2>2 DEF Advance
<1>19. ASSUME NEW p \in 1 .. L + 1 PROVE NodeFits(nodes, cl2, p)
  <2>1. CASE p = L + 1
    <3>1. << >> \in Seq(DOMAIN cl2)
      OBVIOUS
    <3> QED BY <1>4, <1>7, <1>8, <2>1, <3>1 DEF NodeFits
  <2>2. CASE p \in 1 .. L
    <3>1. NodeFits(nodes, cl, p) /\ cl2[p] = cl[p]
      BY <1>1, <1>2, <1>8, <2>2
    <3>2. cl[p].kids \in Seq(1 .. L + 1)
      <4>1. cl[p].kids \in Seq(1 .. L) /\ \A i \in 1 .. L : i \in 1 .. L + 1
        BY <1>13, <1>15, <2>2
      <4> QED BY <4>1, WiderSeq
    <3> QED BY <1>8, <3>1, <3>2 DEF NodeFits
  <2> QED BY <1>15, <2>1, <2>2
<1> QED BY <1>1, <1>8, <1>10, <1>16, <1>18, <1>19 DEF Copying

(* A call that is not the first returns: its copy comes to its parent.      *)
Ascends(nodes, cl, fr, cl2, fr2) ==
  /\ Len(fr) # 1 /\ fr[Len(fr)].cloned = Len(nodes[fr[Len(fr)].of].kids)
  /\ cl2 = Adopted(cl, fr[Len(fr)].copy, fr[Len(fr) - 1].copy)
  /\ fr2 = Front(fr)

(* The calls and the nodes afterwards, one by one.                          *)
Ascended(cl, fr, cl2, fr2, k, child, parent) ==
  /\ IsSeq(cl2) /\ DOMAIN cl2 = DOMAIN cl
  /\ cl2[child] = [cl[child] EXCEPT !.up = parent]
  /\ cl2[parent] = [cl[parent] EXCEPT !.kids = Append(@, child)]
  /\ \A p \in DOMAIN cl : p # child /\ p # parent => cl2[p] = cl[p]
  /\ IsSeq(fr2) /\ Len(fr2) = k - 1 /\ DOMAIN fr2 = 1 .. k - 1
  /\ \A i \in 1 .. k - 1 : fr2[i] = fr[i]

LEMMA AscendFacts ==
  ASSUME NEW nodes, NEW cl, NEW fr, NEW cl2, NEW fr2, Copying(nodes, cl, fr),
         Ascends(nodes, cl, fr, cl2, fr2)
  PROVE  Ascended(cl, fr, cl2, fr2, Len(fr), fr[Len(fr)].copy, fr[Len(fr) - 1].copy)
<1>1. PICK k, child, parent : k = Len(fr) /\ child = fr[k].copy /\ parent = fr[k - 1].copy
  OBVIOUS
<1>2. IsSeq(fr) /\ IsSeq(cl) /\ fr # << >>
  BY DEF Copying, FramesFit
<1>3. k \in Nat \ {0} /\ k # 1 /\ Len(cl) \in Nat /\ DOMAIN cl = 1 .. Len(cl)
  BY <1>1, CallFacts DEF Ascends
<1>4. child \in DOMAIN cl /\ parent \in DOMAIN cl /\ child # parent
  <2>1. k \in 1 .. k /\ k - 1 \in 1 .. k /\ k - 1 < k
    BY <1>3
  <2>2. /\ \A i \in 1 .. k : fr[i].copy \in 1 .. Len(cl)
        /\ \A i, j \in 1 .. k : i < j => fr[i].copy < fr[j].copy
    BY <1>1, CallFacts
  <2>3. child \in 1 .. Len(cl) /\ parent \in 1 .. Len(cl) /\ parent < child
    BY <1>1, <2>1, <2>2
  <2> QED BY <1>3, <2>3
<1>5. PICK cl1 : cl1 = [cl EXCEPT ![child] = [cl[child] EXCEPT !.up = parent]]
  OBVIOUS
<1>6. /\ IsSeq(cl1) /\ DOMAIN cl1 = DOMAIN cl /\ cl1[child] = [cl[child] EXCEPT !.up = parent]
      /\ \A p \in DOMAIN cl \ {child} : cl1[p] = cl[p]
  <2> DEFINE x == [cl[child] EXCEPT !.up = parent]
  <2>1. /\ IsSeq([cl EXCEPT ![child] = x]) /\ DOMAIN [cl EXCEPT ![child] = x] = DOMAIN cl
        /\ [cl EXCEPT ![child] = x][child] = x
        /\ \A i \in DOMAIN cl \ {child} : [cl EXCEPT ![child] = x][i] = cl[i]
    <3> HIDE DEF x
    <3> QED BY <1>2, <1>4, ExceptFacts
  <2> QED BY <1>5, <2>1
<1>7. cl2 = [cl1 EXCEPT ![parent] = [cl[parent] EXCEPT !.kids = Append(@, child)]]
  <2>1. cl2 = Adopted(cl, child, parent)
    BY <1>1 DEF Ascends
  <2>2. cl2 = [cl1 EXCEPT ![parent] = [cl1[parent] EXCEPT !.kids = Append(@, child)]]
    BY <1>5, <2>1 DEF Adopted
  <2>3. cl1[parent] = cl[parent]
    BY <1>4, <1>6
  <2> QED BY <2>2, <2>3
<1>8. /\ IsSeq(cl2) /\ DOMAIN cl2 = DOMAIN cl1
      /\ cl2[parent] = [cl[parent] EXCEPT !.kids = Append(@, child)]
      /\ \A p \in DOMAIN cl1 \ {parent} : cl2[p] = cl1[p]
  <2> DEFINE x == [cl[parent] EXCEPT !.kids = Append(@, child)]
  <2>1. /\ IsSeq([cl1 EXCEPT ![parent] = x]) /\ DOMAIN [cl1 EXCEPT ![parent] = x] = DOMAIN cl1
        /\ [cl1 EXCEPT ![parent] = x][parent] = x
        /\ \A i \in DOMAIN cl1 \ {parent} : [cl1 EXCEPT ![parent] = x][i] = cl1[i]
    <3> HIDE DEF x
    <3> QED BY <1>4, <1>6, ExceptFacts
  <2> QED BY <1>7, <2>1
<1>9. /\ IsSeq(fr2) /\ Len(fr2) = k - 1 /\ DOMAIN fr2 = 1 .. k - 1
      /\ \A i \in 1 .. k - 1 : fr2[i] = fr[i]
  BY <1>1, <1>2, FrontFacts DEF Ascends
<1>10. cl2[child] = [cl[child] EXCEPT !.up = parent]
  BY <1>4, <1>6, <1>8
<1>11. \A p \in DOMAIN cl : p # child /\ p # parent => cl2[p] = cl[p]
  BY <1>6, <1>8
<1> QED BY <1>1, <1>6, <1>8, <1>9, <1>10, <1>11 DEF Ascended

(* What comes to the children of the parent, and what does not.             *)
LEMMA AdoptedNodes ==
  ASSUME NEW nodes, NEW cl, NEW fr, NEW cl2, NEW fr2, Copying(nodes, cl, fr),
         Ascends(nodes, cl, fr, cl2, fr2),
         NEW child, child = fr[Len(fr)].copy, NEW parent, parent = fr[Len(fr) - 1].copy
  PROVE  /\ child \in DOMAIN cl /\ parent \in DOMAIN cl /\ parent \in 1 .. child - 1
         /\ cl[child].up = None /\ Nowhere(cl, child)
         /\ cl2[child] = Copy(nodes, cl[child].id, parent, cl[child].kids)
         /\ cl2[parent] = Copy(nodes, cl[parent].id, cl[parent].up, Append(cl[parent].kids, child))
         /\ \A p \in DOMAIN cl : p # child /\ p # parent => cl2[p] = cl[p]
<1>1. PICK k, L : k = Len(fr) /\ L = Len(cl)
  OBVIOUS
<1>2. /\ k \in Nat \ {0} /\ k # 1 /\ L \in Nat /\ DOMAIN cl = 1 .. L /\ DOMAIN fr = 1 .. k
      /\ k \in 1 .. k /\ k - 1 \in 1 .. k /\ k - 1 < k
  <2>1. k \in Nat \ {0} /\ k # 1 /\ L \in Nat /\ DOMAIN cl = 1 .. L /\ DOMAIN fr = 1 .. k
    BY <1>1, CallFacts DEF Ascends
  <2> QED BY <2>1
<1>3. child \in 1 .. L /\ parent \in 1 .. L /\ parent < child
  <2>1. /\ \A i \in 1 .. k : fr[i].copy \in 1 .. L
        /\ \A i, j \in 1 .. k : i < j => fr[i].copy < fr[j].copy
    BY <1>1, CallFacts
  <2> QED BY <1>1, <1>2, <2>1
<1>4. Ascended(cl, fr, cl2, fr2, k, child, parent)
  BY <1>1, AscendFacts
<1>5. \A p \in DOMAIN cl : cl[p] = Copy(nodes, cl[p].id, cl[p].up, cl[p].kids)
  BY DEF Copying, NodeFits
<1>6. \A n, u, s, v : [Copy(nodes, n, u, s) EXCEPT !.up = v] = Copy(nodes, n, v, s)
  BY DEF Copy
<1>7. \A n, u, s, c : [Copy(nodes, n, u, s) EXCEPT !.kids = Append(@, c)] = Copy(nodes, n, u, Append(s, c))
  BY DEF Copy
<1>8. Open(fr, child)
  BY <1>1, <1>2 DEF Open
<1>9. cl[child].up = None /\ Nowhere(cl, child)
  BY <1>2, <1>3, <1>8 DEF Copying, Hanging
<1>10. cl2[child] = Copy(nodes, cl[child].id, parent, cl[child].kids)
  <2>1. cl2[child] = [cl[child] EXCEPT !.up = parent]
    BY <1>4 DEF Ascended
  <2> QED BY <1>2, <1>3, <1>5, <1>6, <2>1
<1>11. cl2[parent] = Copy(nodes, cl[parent].id, cl[parent].up, Append(cl[parent].kids, child))
  <2>1. cl2[parent] = [cl[parent] EXCEPT !.kids = Append(@, child)]
    BY <1>4 DEF Ascended
  <2>2. cl[parent] = Copy(nodes, cl[parent].id, cl[parent].up, cl[parent].kids)
    BY <1>2, <1>3, <1>5
  <2> QED BY <1>7, <2>1, <2>2
<1>12. parent \in 1 .. child - 1
  BY <1>2, <1>3
<1>13. \A p \in DOMAIN cl : p # child /\ p # parent => cl2[p] = cl[p]
  BY <1>4 DEF Ascended
<1> QED BY <1>2, <1>3, <1>9, <1>10, <1>11, <1>12, <1>13

LEMMA CopyingAscends ==
  ASSUME NEW nodes, NEW cl, NEW fr, NEW cl2, NEW fr2, Copying(nodes, cl, fr),
         Ascends(nodes, cl, fr, cl2, fr2)
  PROVE  Copying(nodes, cl2, fr2)
<1>0. PICK k, L, child, parent, H :
        /\ k = Len(fr) /\ L = Len(cl) /\ child = fr[k].copy /\ parent = fr[k - 1].copy
        /\ H = Len(cl[parent].kids)
  OBVIOUS
<1>1. /\ SeqKids(nodes) /\ IsSeq(cl) /\ FramesFit(nodes, cl, fr) /\ Hanging(cl, fr)
      /\ Advance(nodes, cl, fr) /\ \A p \in DOMAIN cl : NodeFits(nodes, cl, p)
  BY DEF Copying
<1>2. /\ k \in Nat \ {0} /\ k # 1 /\ L \in Nat /\ DOMAIN cl = 1 .. L /\ DOMAIN fr = 1 .. k
      /\ k \in 1 .. k /\ k - 1 \in 1 .. k /\ k - 1 \in 1 .. k - 1 /\ k - 1 < k /\ 1 \in 1 .. k - 1
      /\ \A i \in 1 .. k - 1 : i \in 1 .. k /\ i # k /\ i < k
      /\ \A i \in 1 .. k - 1 : i = k - 1 \/ (i < k - 1 /\ i + 1 \in 1 .. k - 1)
      /\ \A i \in 1 .. k : i = k \/ i \in 1 .. k - 1
  <2>1. k \in Nat \ {0} /\ k # 1 /\ L \in Nat /\ DOMAIN cl = 1 .. L /\ DOMAIN fr = 1 .. k
    BY <1>0, CallFacts DEF Ascends
  <2> QED BY <2>1
<1>3. /\ \A i \in 1 .. k :
           /\ fr[i] = Call(fr[i].of, fr[i].copy, fr[i].cloned)
           /\ fr[i].copy \in 1 .. L /\ fr[i].of = cl[fr[i].copy].id
           /\ fr[i].cloned \in 0 .. Len(nodes[fr[i].of].kids) /\ fr[i].cloned \in Nat
           /\ fr[i].of \in DOMAIN nodes
           /\ i # k => fr[i].cloned > 0 /\ fr[i + 1].of = nodes[fr[i].of].kids[fr[i].cloned]
      /\ \A i, j \in 1 .. k : i < j => fr[i].copy < fr[j].copy
      /\ fr[1].copy = 1
  <2>1. /\ \A i \in 1 .. Len(fr) :
             /\ fr[i] = Call(fr[i].of, fr[i].copy, fr[i].cloned)
             /\ fr[i].copy \in 1 .. Len(cl) /\ fr[i].of = cl[fr[i].copy].id
             /\ fr[i].cloned \in 0 .. Len(nodes[fr[i].of].kids) /\ fr[i].cloned \in Nat
             /\ fr[i].of \in DOMAIN nodes
             /\ i # Len(fr) => fr[i].cloned > 0 /\ fr[i + 1].of = nodes[fr[i].of].kids[fr[i].cloned]
        /\ \A i, j \in 1 .. Len(fr) : i < j => fr[i].copy < fr[j].copy
        /\ fr[1].copy = 1
    BY CallFacts
  <2> QED BY <1>0, <2>1, Zenon
<1>4. /\ child \in 1 .. L /\ parent \in 1 .. L /\ parent \in 1 .. child - 1 /\ parent # child
      /\ Nowhere(cl, child)
      /\ cl2[child] = Copy(nodes, cl[child].id, parent, cl[child].kids)
      /\ cl2[parent] = Copy(nodes, cl[parent].id, cl[parent].up, Append(cl[parent].kids, child))
      /\ \A p \in 1 .. L : p # child /\ p # parent => cl2[p] = cl[p]
  <2>1. child = fr[Len(fr)].copy /\ parent = fr[Len(fr) - 1].copy
    BY <1>0
  <2>2. /\ child \in DOMAIN cl /\ parent \in DOMAIN cl /\ parent \in 1 .. child - 1
        /\ Nowhere(cl, child)
        /\ cl2[child] = Copy(nodes, cl[child].id, parent, cl[child].kids)
        /\ cl2[parent] = Copy(nodes, cl[parent].id, cl[parent].up, Append(cl[parent].kids, child))
        /\ \A p \in DOMAIN cl : p # child /\ p # parent => cl2[p] = cl[p]
    BY <2>1, AdoptedNodes
  <2>3. child \in Nat /\ parent # child
    BY <1>2, <2>2
  <2> QED BY <1>2, <2>2, <2>3
<1>5. /\ IsSeq(cl2) /\ DOMAIN cl2 = 1 .. L
      /\ IsSeq(fr2) /\ Len(fr2) = k - 1 /\ DOMAIN fr2 = 1 .. k - 1
      /\ \A i \in 1 .. k - 1 : fr2[i] = fr[i]
  <2>1. Ascended(cl, fr, cl2, fr2, Len(fr), fr[Len(fr)].copy, fr[Len(fr) - 1].copy)
    BY AscendFacts
  <2>2. Ascended(cl, fr, cl2, fr2, k, child, parent)
    BY <1>0, <2>1, Zenon
  <2> QED BY <1>2, <2>2 DEF Ascended
<1>6. \A n, u, s : Copy(nodes, n, u, s).id = n /\ Copy(nodes, n, u, s).up = u /\ Copy(nodes, n, u, s).kids = s
  BY DEF Copy
<1>7. /\ \A p \in 1 .. L : cl2[p].id = cl[p].id
      /\ \A p \in 1 .. L : p # child => cl2[p].up = cl[p].up
      /\ \A p \in 1 .. L : p # parent => cl2[p].kids = cl[p].kids
      /\ cl2[child].up = parent /\ cl2[parent].kids = Append(cl[parent].kids, child)
      /\ \A p \in 1 .. L : cl2[p] = Copy(nodes, cl2[p].id, cl2[p].up, cl2[p].kids)
  <2>1. \A p \in 1 .. L : cl[p] = Copy(nodes, cl[p].id, cl[p].up, cl[p].kids)
    BY <1>1, <1>2 DEF NodeFits
  <2>2. /\ cl2[child].id = cl[child].id /\ cl2[child].up = parent /\ cl2[child].kids = cl[child].kids
        /\ cl2[child] = Copy(nodes, cl2[child].id, cl2[child].up, cl2[child].kids)
    <3>1. cl2[child] = Copy(nodes, cl[child].id, parent, cl[child].kids)
      BY <1>4
    <3> QED BY <3>1, CopyParts
  <2>3. /\ cl2[parent].id = cl[parent].id /\ cl2[parent].up = cl[parent].up
        /\ cl2[parent].kids = Append(cl[parent].kids, child)
        /\ cl2[parent] = Copy(nodes, cl2[parent].id, cl2[parent].up, cl2[parent].kids)
    <3>1. PICK r, s : r = cl2[parent] /\ s = Append(cl[parent].kids, child)
      OBVIOUS
    <3>2. r = Copy(nodes, cl[parent].id, cl[parent].up, s)
      BY <1>4, <3>1
    <3>3. r.id = cl[parent].id /\ r.up = cl[parent].up /\ r.kids = s /\ r = Copy(nodes, r.id, r.up, r.kids)
      BY <3>2, CopyParts
    <3> QED BY <3>1, <3>3, Zenon
  <2>4. ASSUME NEW p \in 1 .. L, p # child, p # parent
        PROVE  /\ cl2[p].id = cl[p].id /\ cl2[p].up = cl[p].up /\ cl2[p].kids = cl[p].kids
               /\ cl2[p] = Copy(nodes, cl2[p].id, cl2[p].up, cl2[p].kids)
    <3>1. cl2[p] = cl[p] /\ cl[p] = Copy(nodes, cl[p].id, cl[p].up, cl[p].kids)
      BY <1>4, <2>1, <2>4
    <3> QED BY <3>1, Zenon
  <2>5. parent # child
    BY <1>4
  <2> QED BY <2>2, <2>3, <2>4, <2>5, Zenon
<1>8. /\ \A p \in 1 .. L : /\ cl[p].kids \in Seq(1 .. L) /\ DOMAIN cl[p].kids = 1 .. Len(cl[p].kids)
                           /\ \A i \in DOMAIN cl[p].kids : cl[p].kids[i] \in 1 .. L
      /\ H \in Nat /\ DOMAIN cl[parent].kids = 1 .. H
  <2>1. \A p \in 1 .. L : cl[p].kids \in Seq(1 .. L)
    BY <1>1, <1>2 DEF NodeFits
  <2>2. \A s \in Seq(1 .. L) : Len(s) \in Nat /\ DOMAIN s = 1 .. Len(s) /\ \A i \in DOMAIN s : s[i] \in 1 .. L
    BY Elements
  <2> QED BY <1>0, <1>4, <2>1, <2>2
<1>9. /\ Len(cl2[parent].kids) = H + 1 /\ DOMAIN cl2[parent].kids = 1 .. H + 1
      /\ \A i \in 1 .. H : cl2[parent].kids[i] = cl[parent].kids[i]
      /\ cl2[parent].kids[H + 1] = child
      /\ cl2[parent].kids \in Seq(1 .. L)
  <2>1. PICK s : s = cl[parent].kids
    OBVIOUS
  <2>2. s \in Seq(1 .. L) /\ Len(s) = H /\ DOMAIN s = 1 .. H
    BY <1>0, <1>4, <1>8, <2>1
  <2>3. IsSeq(s)
    BY <2>2 DEF IsSeq
  <2>4. /\ Len(Append(s, child)) = Len(s) + 1 /\ DOMAIN Append(s, child) = 1 .. Len(s) + 1
        /\ \A i \in DOMAIN s : Append(s, child)[i] = s[i]
        /\ Append(s, child)[Len(s) + 1] = child
    BY <2>3, AppendFacts
  <2>5. Append(s, child) \in Seq(1 .. L)
    BY <1>4, <2>2
  <2> QED BY <1>7, <2>1, <2>2, <2>4, <2>5
(* Where a node hangs now it hung before, except for the child.             *)
<1>10. /\ \A q \in 1 .. L : \A i \in DOMAIN cl2[q].kids :
            \/ i \in DOMAIN cl[q].kids /\ cl2[q].kids[i] = cl[q].kids[i]
            \/ q = parent /\ i = H + 1 /\ cl2[q].kids[i] = child
       /\ \A q \in 1 .. L : \A i \in DOMAIN cl[q].kids :
            i \in DOMAIN cl2[q].kids /\ cl2[q].kids[i] = cl[q].kids[i]
  <2>1. \A i \in 1 .. H + 1 : i \in 1 .. H \/ i = H + 1
    BY <1>8
  <2>2. \A i \in 1 .. H : i \in 1 .. H + 1
    BY <1>8
  <2> QED BY <1>7, <1>8, <1>9, <2>1, <2>2
<1>11. Open(fr, child) /\ Open(fr, parent)
  BY <1>0, <1>2 DEF Open
<1>12. \A p \in 1 .. L : Open(fr2, p) <=> Open(fr, p) /\ p # child
  <2>1. \A i \in 1 .. k - 1 : fr[i].copy # child
    <3> SUFFICES ASSUME NEW i \in 1 .. k - 1 PROVE fr[i].copy # child
      OBVIOUS
    <3>1. fr[i].copy < fr[k].copy /\ fr[i].copy \in 1 .. L
      BY <1>2, <1>3
    <3>2. PICK x : x = fr[i].copy
      OBVIOUS
    <3>3. x < child
      BY <1>0, <3>1, <3>2, Zenon
    <3>4. x \in Nat /\ child \in Nat
      BY <1>2, <1>4, <3>1, <3>2
    <3> QED BY <3>2, <3>3, <3>4
  <2> QED BY <1>0, <1>2, <1>5, <2>1 DEF Open
<1>13. Hanging(cl2, fr2)
  <2> SUFFICES ASSUME NEW p \in 1 .. L
               PROVE  IF Open(fr2, p) THEN cl2[p].up = None /\ Nowhere(cl2, p) ELSE Once(cl2, p)
    BY <1>5 DEF Hanging
  <2>1. CASE Open(fr, p) /\ p # child
    <3>1. cl[p].up = None /\ Nowhere(cl, p)
      BY <1>1, <1>2, <2>1 DEF Hanging
    <3>2. ASSUME NEW q \in 1 .. L, NEW i \in DOMAIN cl2[q].kids PROVE cl2[q].kids[i] # p
      BY <1>2, <1>10, <2>1, <3>1 DEF Nowhere
    <3>3. Nowhere(cl2, p)
      BY <1>5, <3>2 DEF Nowhere
    <3> QED BY <1>7, <1>12, <2>1, <3>1, <3>3
  <2>2. CASE p = child
    <3>1. ASSUME NEW q \in 1 .. L, NEW i \in DOMAIN cl2[q].kids, cl2[q].kids[i] = p
          PROVE  q = parent /\ i = H + 1
      BY <1>2, <1>4, <1>10, <2>2, <3>1 DEF Nowhere
    <3>2. H + 1 \in DOMAIN cl2[parent].kids /\ cl2[parent].kids[H + 1] = p
      BY <1>8, <1>9, <2>2
    <3>3. Once(cl2, p)
      BY <1>4, <1>5, <1>7, <2>2, <3>1, <3>2 DEF Once
    <3> QED BY <1>12, <2>2, <3>3
  <2>3. CASE ~Open(fr, p)
    <3>1. p # child /\ Once(cl, p)
      BY <1>1, <1>2, <1>11, <2>3 DEF Hanging
    <3>2. PICK u : u = cl[p].up
      OBVIOUS
    <3>3. u \in 1 .. p - 1 /\ u \in 1 .. L /\ cl2[p].up = u
      <4>1. u \in 1 .. p - 1
        BY <3>1, <3>2 DEF Once
      <4> QED BY <1>2, <1>7, <3>1, <3>2, <4>1
    <3>4. PICK j \in DOMAIN cl[u].kids :
            /\ cl[u].kids[j] = p
            /\ \A q \in 1 .. L : \A i \in DOMAIN cl[q].kids : cl[q].kids[i] = p => q = u /\ i = j
      BY <1>2, <3>1, <3>2 DEF Once
    <3>5. j \in DOMAIN cl2[u].kids /\ cl2[u].kids[j] = p
      BY <1>10, <3>3, <3>4
    <3>6. ASSUME NEW q \in 1 .. L, NEW i \in DOMAIN cl2[q].kids, cl2[q].kids[i] = p
          PROVE  q = u /\ i = j
      BY <1>10, <3>1, <3>4, <3>6
    <3>7. Once(cl2, p)
      BY <1>5, <3>3, <3>5, <3>6 DEF Once
    <3> QED BY <1>12, <2>3, <3>7
  <2> QED BY <2>1, <2>2, <2>3
<1>14. FramesFit(nodes, cl2, fr2)
  <2>1. fr2 # << >> /\ fr2[1].copy = 1
    <3>1. fr2 # << >>
      <4>1. DOMAIN << >> = {}
        OBVIOUS
      <4> QED BY <1>2, <1>5, <4>1
    <3> QED BY <1>2, <1>3, <1>5, <3>1
  <2>2. ASSUME NEW i \in 1 .. k - 1
        PROVE  /\ fr2[i] = Call(fr2[i].of, fr2[i].copy, fr2[i].cloned)
               /\ fr2[i].copy \in 1 .. L /\ fr2[i].of = cl2[fr2[i].copy].id
               /\ fr2[i].cloned \in 0 .. Len(nodes[fr2[i].of].kids)
               /\ i # k - 1 => fr2[i].cloned > 0 /\ fr2[i + 1].of = nodes[fr2[i].of].kids[fr2[i].cloned]
    <3>1. i \in 1 .. k /\ i # k /\ fr2[i] = fr[i]
      BY <1>2, <1>5
    <3>2. i # k - 1 => fr2[i + 1] = fr[i + 1]
      BY <1>2, <1>5
    <3> QED BY <1>3, <1>7, <3>1, <3>2
  <2>3. ASSUME NEW i \in 1 .. k - 1, NEW j \in 1 .. k - 1, i < j PROVE fr2[i].copy < fr2[j].copy
    BY <1>2, <1>3, <1>5, <2>3
  <2> QED BY <1>5, <2>1, <2>2, <2>3 DEF FramesFit
<1>15. \A p \in 1 .. L : \A h : p # parent /\ CopiedTo(nodes, cl, p, h) => CopiedTo(nodes, cl2, p, h)
  <2> SUFFICES ASSUME NEW p \in 1 .. L, NEW h, p # parent, CopiedTo(nodes, cl, p, h)
               PROVE  CopiedTo(nodes, cl2, p, h)
    OBVIOUS
  <2>1. cl2[p].kids = cl[p].kids /\ DOMAIN cl[p].kids = 1 .. h /\ Len(cl[p].kids) = h
    BY <1>7, <1>8 DEF CopiedTo
  <2>2. \A i \in 1 .. h : cl[p].kids[i] \in 1 .. L
    BY <1>8, <2>1
  <2> QED BY <1>7, <2>1, <2>2 DEF CopiedTo
<1>16. CopiedTo(nodes, cl2, parent, fr[k - 1].cloned)
  <2>1. CopiedTo(nodes, cl, parent, Done(fr, k - 1))
    BY <1>0, <1>1, <1>2 DEF Advance
  <2>2. Done(fr, k - 1) = fr[k - 1].cloned - 1
    BY <1>0, <1>2 DEF Done
  <2>3. /\ fr[k - 1].cloned \in Nat /\ fr[k].of = cl[child].id /\ fr[k - 1].of = cl[parent].id
        /\ fr[k].of = nodes[fr[k - 1].of].kids[fr[k - 1].cloned]
    <3>1. k - 1 # k /\ (k - 1) + 1 = k
      BY <1>2
    <3>2. fr[(k - 1) + 1].of = nodes[fr[k - 1].of].kids[fr[k - 1].cloned]
      BY <1>2, <1>3, <3>1
    <3> QED BY <1>0, <1>2, <1>3, <3>1, <3>2
  <2>4. H + 1 = fr[k - 1].cloned
    <3>1. PICK z : z = fr[k - 1].cloned
      OBVIOUS
    <3>2. H = Done(fr, k - 1)
      BY <1>0, <2>1 DEF CopiedTo
    <3>3. H = z - 1 /\ z \in Nat
      BY <2>2, <2>3, <3>1, <3>2
    <3> QED BY <1>8, <3>1, <3>3
  <2>5. ASSUME NEW i \in 1 .. H + 1
        PROVE  cl2[cl2[parent].kids[i]].id = nodes[cl2[parent].id].kids[i]
    <3>1. CASE i = H + 1
      BY <1>4, <1>7, <1>9, <2>3, <2>4, <3>1
    <3>2. CASE i \in 1 .. H
      <4>1. 1 .. Done(fr, k - 1) = 1 .. H
        BY <1>8, <2>2, <2>3, <2>4
      <4>2. cl[cl[parent].kids[i]].id = nodes[cl[parent].id].kids[i]
        BY <2>1, <3>2, <4>1 DEF CopiedTo
      <4>3. cl[parent].kids[i] \in 1 .. L /\ cl2[parent].kids[i] = cl[parent].kids[i]
        BY <1>4, <1>8, <1>9, <3>2
      <4> QED BY <1>4, <1>7, <4>2, <4>3
    <3> QED BY <1>8, <3>1, <3>2
  <2> QED BY <1>9, <2>4, <2>5 DEF CopiedTo
<1>17. Advance(nodes, cl2, fr2)
  <2>1. ASSUME NEW i \in 1 .. k - 1 PROVE CopiedTo(nodes, cl2, fr2[i].copy, Done(fr2, i))
    <3>1. CASE i = k - 1
      BY <1>0, <1>2, <1>5, <1>16, <3>1 DEF Done
    <3>2. CASE i # k - 1
      <4>1. i \in 1 .. k /\ fr2[i] = fr[i] /\ i < k - 1 /\ i # k
        BY <1>2, <1>5, <3>2
      <4>2. CopiedTo(nodes, cl, fr[i].copy, Done(fr, i)) /\ fr[i].copy \in 1 .. L
        BY <1>1, <1>2, <1>3, <4>1 DEF Advance
      <4>3. fr[i].copy < fr[k - 1].copy
        BY <1>2, <1>3, <4>1
      <4>4. fr[i].copy # parent
        <5>1. PICK x : x = fr[i].copy
          OBVIOUS
        <5>2. x < parent
          BY <1>0, <4>3, <5>1, Zenon
        <5>3. x \in Nat /\ parent \in Nat
          BY <1>2, <1>4, <4>2, <5>1
        <5> QED BY <5>1, <5>2, <5>3
      <4>5. Done(fr2, i) = Done(fr, i)
        BY <1>0, <1>5, <3>2, <4>1 DEF Done
      <4> QED BY <1>15, <4>1, <4>2, <4>4, <4>5
    <3> QED BY <3>1, <3>2
  <2>2. ASSUME NEW p \in 1 .. L, ~Open(fr2, p)
        PROVE  CopiedTo(nodes, cl2, p, Len(nodes[cl2[p].id].kids))
    <3>1. CASE p = child
      <4>1. CopiedTo(nodes, cl, child, Done(fr, k))
        BY <1>0, <1>1, <1>2 DEF Advance
      <4>2. Done(fr, k) = fr[k].cloned
        BY <1>0 DEF Done
      <4>3. fr[k].cloned = Len(nodes[fr[k].of].kids)
        BY <1>0 DEF Ascends
      <4>4. fr[k].of = cl[child].id /\ cl2[child].id = cl[child].id
        BY <1>0, <1>2, <1>3, <1>4, <1>7
      <4> QED BY <1>4, <1>15, <3>1, <4>1, <4>2, <4>3, <4>4
    <3>2. CASE p # child
      <4>1. ~Open(fr, p) /\ p # parent
        BY <1>11, <1>12, <2>2, <3>2
      <4>2. CopiedTo(nodes, cl, p, Len(nodes[cl[p].id].kids)) /\ cl2[p].id = cl[p].id
        BY <1>1, <1>2, <1>7, <4>1 DEF Advance
      <4> QED BY <1>15, <4>1, <4>2
    <3> QED BY <3>1, <3>2
  <2> QED BY <1>5, <2>1, <2>2 DEF Advance
<1>18. ASSUME NEW p \in 1 .. L PROVE NodeFits(nodes, cl2, p)
  <2>1. cl2[p].id \in DOMAIN nodes
    BY <1>1, <1>2, <1>7 DEF NodeFits
  <2>2. cl2[p].kids \in Seq(1 .. L)
    BY <1>7, <1>8, <1>9
  <2> QED BY <1>5, <1>7, <2>1, <2>2 DEF NodeFits
<1> QED BY <1>1, <1>5, <1>13, <1>14, <1>17, <1>18 DEF Copying

-----------------------------------------------------------------------------
(***************************************************************************)
(* When the first call returns.                                             *)
(***************************************************************************)
LEMMA CopyingEnds ==
  ASSUME NEW nodes, NEW cl, NEW fr, Copying(nodes, cl, fr), Len(fr) = 1
  PROVE  /\ Len(cl) \in Nat /\ DOMAIN cl = 1 .. Len(cl) /\ 1 \in DOMAIN cl
         /\ cl[1].up = None
         /\ \A p \in DOMAIN cl : IF p = 1 THEN Nowhere(cl, p) ELSE Once(cl, p)
<1>1. /\ Len(cl) \in Nat /\ DOMAIN cl = 1 .. Len(cl) /\ DOMAIN fr = {1} /\ fr[1].copy = 1
      /\ 1 \in DOMAIN cl
  <2>1. /\ Len(cl) \in Nat /\ DOMAIN cl = 1 .. Len(cl) /\ DOMAIN fr = 1 .. 1 /\ fr[1].copy = 1
        /\ fr[1].copy \in 1 .. Len(cl)
    BY CallFacts
  <2> QED BY <2>1
<1>2. \A p : Open(fr, p) <=> p = 1
  BY <1>1 DEF Open
<1>3. Hanging(cl, fr)
  BY DEF Copying
<1> QED BY <1>1, <1>2, <1>3 DEF Hanging

LEMMA CopyingCopies ==
  ASSUME NEW nodes, NEW cl, NEW fr, Copying(nodes, cl, fr), Len(fr) = 1,
         fr[1].cloned = Len(nodes[fr[1].of].kids), NEW p \in DOMAIN cl
  PROVE  /\ cl[p].type = nodes[cl[p].id].type /\ cl[p].name = nodes[cl[p].id].name
         /\ cl[p].terminal = nodes[cl[p].id].terminal /\ cl[p].label = nodes[cl[p].id].label
         /\ [i \in DOMAIN cl[p].kids |-> cl[cl[p].kids[i]].id] = nodes[cl[p].id].kids
<1>1. /\ DOMAIN fr = {1} /\ fr[1].copy = 1 /\ fr[1].of = cl[1].id
  <2>1. DOMAIN fr = 1 .. 1 /\ fr[1].copy = 1 /\ 1 \in 1 .. 1
    BY CallFacts
  <2>2. fr[1].of = cl[fr[1].copy].id
    BY <2>1, CallFacts
  <2> QED BY <2>1, <2>2
<1>2. PICK n, u, s : n = cl[p].id /\ s = cl[p].kids /\ u = cl[p].up
  OBVIOUS
<1>3. n \in DOMAIN nodes /\ cl[p] = Copy(nodes, n, u, s) /\ s \in Seq(DOMAIN cl)
  BY <1>2 DEF Copying, NodeFits
<1>4. nodes[n].kids \in Seq(DOMAIN nodes)
  BY <1>3 DEF Copying, SeqKids
<1>5. CopiedTo(nodes, cl, p, Len(nodes[n].kids))
  <2>1. Advance(nodes, cl, fr)
    BY DEF Copying
  <2>2. CASE p = 1
    <3>1. Done(fr, 1) = Len(nodes[n].kids)
      BY <1>1, <1>2, <2>2 DEF Done
    <3> QED BY <1>1, <2>1, <2>2, <3>1 DEF Advance
  <2>3. CASE p # 1
    <3>1. ~Open(fr, p)
      BY <1>1, <2>3 DEF Open
    <3> QED BY <1>2, <2>1, <3>1 DEF Advance
  <2> QED BY <2>2, <2>3
<1>6. /\ Len(s) = Len(nodes[n].kids) /\ DOMAIN s = 1 .. Len(s)
      /\ \A i \in 1 .. Len(s) : cl[s[i]].id = nodes[n].kids[i]
  BY <1>2, <1>3, <1>5, Elements DEF CopiedTo
<1>7. nodes[n].kids = [i \in 1 .. Len(s) |-> nodes[n].kids[i]]
  BY <1>4, <1>6
<1>8. [i \in DOMAIN s |-> cl[s[i]].id] = nodes[n].kids
  BY <1>6, <1>7
<1>9. /\ cl[p].type = nodes[n].type /\ cl[p].name = nodes[n].name
      /\ cl[p].terminal = nodes[n].terminal /\ cl[p].label = nodes[n].label
  BY <1>3 DEF Copy
<1> QED BY <1>2, <1>8, <1>9

-----------------------------------------------------------------------------
(***************************************************************************)
(* The clone of the edited tree.                                            *)
(***************************************************************************)
CloneInv == phase = "cloning" => Copying(tree, clone, frames)

LEMMA TreeSeqKids == EditInv /\ AimInv => SeqKids(tree)
<1> SUFFICES ASSUME EditInv, AimInv PROVE SeqKids(tree)
  OBVIOUS
<1>1. ReadFits /\ \A n \in DOMAIN Heap : Heap[n].kids \in Seq(DOMAIN Heap)
  BY HeapFacts DEF EditInv, HeapFits
<1>2. CASE tree = Heap
  BY <1>1, <1>2 DEF SeqKids
<1>3. CASE tree # Heap
  <2>1. Unfinished /\ edit.node # test /\ tree = EditedHeap
    BY <1>3 DEF EditInv, TreeFits
  <2>2. /\ edit.by \in {"replace", "delete"} /\ Parent \in DOMAIN Heap
        /\ edit.at \in DOMAIN Original
        /\ edit.by = "delete" => Len(removed) \in Nat /\ edit.at + Len(removed) - 1 <= Len(Original)
    BY <2>1 DEF EditInv, EditFits
  <2>3. Original \in Seq(DOMAIN Heap)
    BY <1>1, <2>2 DEF Original
  <2>4. EditedKids \in Seq(DOMAIN Heap)
    <3>1. CASE edit.by = "replace"
      <4>1. edit.other \in DOMAIN Heap
        BY <3>1 DEF AimInv
      <4>2. EditedKids = [Original EXCEPT ![edit.at] = edit.other]
        BY <3>1 DEF EditedKids, ReplaceAt
      <4> QED BY <2>2, <2>3, <4>1, <4>2
    <3>2. CASE edit.by = "delete"
      <4>1. edit.at \in 1 .. Len(Original)
        BY <2>2, <2>3
      <4>2. Without(Original, edit.at, Len(removed)) \in Seq(DOMAIN Heap)
        BY <2>2, <2>3, <3>2, <4>1, WithoutFacts
      <4> QED BY <3>2, <4>2 DEF EditedKids
    <3> QED BY <2>2, <3>1, <3>2
  <2>5. tree = [Heap EXCEPT ![Parent].kids = EditedKids]
    BY <2>1 DEF EditedHeap
  <2>6. DOMAIN tree = DOMAIN Heap /\ \A m \in DOMAIN Heap \ {Parent} : tree[m] = Heap[m]
    BY <2>5 DEF Heap
  <2>7. tree[Parent].kids = EditedKids
    <3>1. Changed(tree, Heap, Parent, EditedKids)
      BY <1>1, <2>2, <2>5, ChangedAgain
    <3> QED BY <3>1 DEF Changed
  <2> QED BY <1>1, <2>4, <2>6, <2>7 DEF SeqKids
<1> QED BY <1>2, <1>3

LEMMA TreeSeqKidsNext == EditInv' /\ AimInv' => SeqKids(tree)'
BY TreeSeqKids, PTL

(* A change of the children of a node changes nothing else.                 *)
LEMMA SameCopy ==
  ASSUME ReadFits, NEW p \in DOMAIN Heap, NEW K, NEW tr, tr = [Heap EXCEPT ![p].kids = K],
         NEW n \in DOMAIN Heap
  PROVE  n \in DOMAIN tr /\ Copy(tr, n, None, << >>) = Copy(Heap, n, None, << >>)
<1>1. DOMAIN tr = DOMAIN Heap /\ \A m \in DOMAIN Heap \ {p} : tr[m] = Heap[m]
  BY DEF Heap
<1>2. CASE n # p
  BY <1>1, <1>2 DEF Copy
<1>3. CASE n = p
  <2>1. PICK t, x, b, l, u, s : Heap[n] = [type |-> t, name |-> x, terminal |-> b,
                                           label |-> l, up |-> u, kids |-> s]
    BY NodeRecord
  <2>2. tr[n] = [Heap[n] EXCEPT !.kids = K]
    BY <1>3 DEF Heap
  <2>3. /\ tr[n].type = Heap[n].type /\ tr[n].name = Heap[n].name
        /\ tr[n].terminal = Heap[n].terminal /\ tr[n].label = Heap[n].label
    BY <2>1, <2>2
  <2> QED BY <1>1, <2>3 DEF Copy
<1> QED BY <1>2, <1>3

LEMMA CloneInvStarts ==
  ASSUME SeqKids(tree)', NEW n \in DOMAIN tree', StartClone(n),
         Copy(tree', n, None, << >>) = Copy(tree, n, None, << >>)
  PROVE  CloneInv'
<1>1. Copying(tree', <<Copy(tree', n, None, << >>)>>, <<Call(n, 1, 0)>>)
  <2>1. PICK nodes : nodes = tree'
    OBVIOUS
  <2>2. SeqKids(nodes) /\ n \in DOMAIN nodes
    BY <2>1 DEF SeqKids
  <2>3. Copying(nodes, <<Copy(nodes, n, None, << >>)>>, <<Call(n, 1, 0)>>)
    BY <2>2, CopyingStarts
  <2> QED BY <2>1, <2>3, Zenon
<1>2. clone' = <<Copy(tree, n, None, << >>)>> /\ frames' = <<Call(n, 1, 0)>>
  BY DEF StartClone, Clone, Copy, Call
<1>3. Copying(tree', clone', frames')
  BY <1>1, <1>2, Zenon
<1> QED BY <1>3 DEF CloneInv

LEMMA TestInHeap ==
  ASSUME EditInv, test # None
  PROVE  test \in DOMAIN Heap
<1>1. /\ ReadFits /\ read # << >> /\ test = Last(read).root /\ HeapIsParsed
      /\ read \in Seq([parse : Trees, root : Nat])
  BY HeapFacts DEF EditInv, TestFits, ReadFits
<1> DEFINE last == Len(read)
<1>2. last \in DOMAIN read /\ Last(read) = read[last]
  <2> DEFINE R == [parse : Trees, root : Nat]
  <2>1. \A s \in Seq(R) : s # << >> => Len(s) \in DOMAIN s
    <3> HIDE DEF R
    <3> QED OBVIOUS
  <2> QED BY <1>1, <2>1 DEF Last
<1>3. /\ read[last].root \in Nat /\ SizeOf(read[last]) \in Nat \ {0}
      /\ DOMAIN Parsed(read[last]) = read[last].root .. read[last].root + SizeOf(read[last]) - 1
  BY <1>1, <1>2, ReadFacts
<1>4. test \in DOMAIN Parsed(read[last])
  BY <1>1, <1>2, <1>3
<1> QED BY <1>1, <1>2, <1>4 DEF HeapIsParsed

LEMMA CloneInvReplace ==
  ASSUME EditInv, SeqKids(tree)', test # None, NEW n \in Nodes(test), NEW c \in DOMAIN Heap, NEW aim,
         Replace(n, c, aim)
  PROVE  CloneInv'
<1>1. phase = "idle" /\ ReadFits
  BY DEF Replace, EditInv
<1>2. CASE n = test
  <2>1. tree' = tree /\ StartClone(c) /\ tree = Heap
    BY <1>1, <1>2, BeginFacts DEF Replace
  <2> QED BY <2>1, CloneInvStarts
<1>3. CASE n # test
  <2>1. /\ tree' = WithKids(ParentOf(n), ReplaceAt(tree[ParentOf(n)].kids, IndexOf(n), c))
        /\ StartClone(test)
    BY <1>3 DEF Replace
  <2>2. tree = Heap /\ ParentOf(n) \in DOMAIN Heap
    BY <1>1, <1>3, BeginFacts
  <2>3. PICK K : tree' = [Heap EXCEPT ![ParentOf(n)].kids = K]
    BY <2>1, <2>2 DEF WithKids
  <2>4. test \in DOMAIN Heap
    BY TestInHeap
  <2>5. test \in DOMAIN tree' /\ Copy(tree', test, None, << >>) = Copy(Heap, test, None, << >>)
    BY <1>1, <2>2, <2>3, <2>4, SameCopy
  <2> QED BY <2>1, <2>2, <2>5, CloneInvStarts
<1> QED BY <1>2, <1>3

LEMMA CloneInvDelete ==
  ASSUME EditInv, SeqKids(tree)', test # None, NEW n \in Nodes(test), Delete(n)
  PROVE  CloneInv'
<1>1. phase = "idle" /\ ReadFits /\ ParentOf(n) # None /\ StartClone(test)
  BY DEF Delete, EditInv
<1>2. n # test
  BY <1>1, BeginFacts DEF ParentOf
<1>3. tree = Heap /\ ParentOf(n) \in DOMAIN Heap
  BY <1>1, <1>2, BeginFacts
<1>4. PICK K : tree' = [Heap EXCEPT ![ParentOf(n)].kids = K]
  BY <1>3 DEF Delete, WithKids
<1>5. test \in DOMAIN Heap
  BY TestInHeap
<1>6. test \in DOMAIN tree' /\ Copy(tree', test, None, << >>) = Copy(Heap, test, None, << >>)
  BY <1>1, <1>3, <1>4, <1>5, SameCopy
<1> QED BY <1>1, <1>3, <1>6, CloneInvStarts

LEMMA CloneInvChild ==
  ASSUME CloneInv, CloneChild
  PROVE  CloneInv'
<1>1. Copying(tree, clone, frames) /\ tree' = tree
  BY DEF CloneInv, CloneChild
<1>2. Frame = frames[Len(frames)]
  BY DEF Frame, Last
<1> DEFINE c == tree[frames[Len(frames)].of].kids[frames[Len(frames)].cloned + 1]
<1>3. Descends(tree, clone, frames, clone', frames', c)
  BY <1>2 DEF CloneChild, KidsOfFrame, Descends, Clone, Copy, Call
<1>4. Copying(tree, clone', frames')
  <2> HIDE DEF c
  <2> QED BY <1>1, <1>3, CopyingDescends
<1> QED BY <1>1, <1>4 DEF CloneInv

LEMMA CloneInvReturn ==
  ASSUME CloneInv, ReturnClone
  PROVE  CloneInv'
<1>1. Copying(tree, clone, frames) /\ tree' = tree
  BY DEF CloneInv, ReturnClone
<1>2. CASE Len(frames) = 1
  BY <1>2 DEF ReturnClone, CloneInv
<1>3. CASE Len(frames) # 1
  <2>1. Frame = frames[Len(frames)]
    BY DEF Frame, Last
  <2>2. Ascends(tree, clone, frames, clone', frames')
    BY <1>3, <2>1 DEF ReturnClone, KidsOfFrame, Ascends
  <2>3. Copying(tree, clone', frames')
    BY <1>1, <2>2, CopyingAscends
  <2> QED BY <1>1, <2>3 DEF CloneInv
<1> QED BY <1>2, <1>3

LEMMA CloneInvStep ==
  EditInv /\ PoolInv /\ CloneInv /\ [Next]_vars /\ EditInv' /\ AimInv' => CloneInv'
<1> SUFFICES ASSUME EditInv, PoolInv, CloneInv, [Next]_vars, EditInv', AimInv' PROVE CloneInv'
  OBVIOUS
<1>1. SeqKids(tree)'
  BY TreeSeqKidsNext
<1>2. CASE (\E pt \in Corpus : Save(pt)) \/ (\E pt \in TestCases : Load(pt))
  <2>1. test = None /\ phase' = phase
    BY <1>2 DEF Save, Load, editVars
  <2>2. phase' # "cloning"
    BY <2>1 DEF EditInv, TestFits
  <2> QED BY <2>2 DEF CloneInv
<1>3. CASE GuidedReplace \/ RandomReplace
  <2>1. PICK n \in Nodes(test) : \E c, aim, l : c \in Pooled(tree[n].type, l) /\ Replace(n, c, aim)
    BY <1>3 DEF GuidedReplace, RandomReplace, Replaceable, GuidedCandidates
  <2>2. PICK c, aim, l : c \in Pooled(tree[n].type, l) /\ Replace(n, c, aim)
    BY <2>1
  <2>3. test # None
    BY <1>3 DEF GuidedReplace, RandomReplace
  <2>4. c \in DOMAIN Heap
    BY <2>2, <2>3, PooledPlace
  <2> QED BY <1>1, <2>2, <2>3, <2>4, CloneInvReplace
<1>4. CASE GuidedInsert \/ RandomInsert
  <2>1. PICK n, c, before, sep, aim : Insert(n, c, before, sep, aim)
    BY <1>4 DEF GuidedInsert, RandomInsert
  <2>2. phase' = "done"
    BY <2>1 DEF Insert
  <2> QED BY <2>2 DEF CloneInv
<1>5. CASE DeleteAny
  <2>1. PICK n \in Nodes(test) : Delete(n)
    BY <1>5 DEF DeleteAny
  <2>2. test # None
    BY <1>5 DEF DeleteAny
  <2> QED BY <1>1, <2>1, <2>2, CloneInvDelete
<1>6. CASE CloneChild
  BY <1>6, CloneInvChild
<1>7. CASE ReturnClone
  BY <1>7, CloneInvReturn
<1>8. CASE Revert \/ Reinsert \/ ParseEdit \/ EndEdit
  <2>1. phase' # "cloning"
    BY <1>8 DEF Revert, Reinsert, ParseEdit, EndEdit
  <2> QED BY <2>1 DEF CloneInv
<1>9. CASE UNCHANGED vars
  BY <1>9 DEF vars, editVars, CloneInv
<1> QED BY <1>2, <1>3, <1>4, <1>5, <1>6, <1>7, <1>8, <1>9 DEF Next, EditNext

LEMMA CloneInvAlways == Spec => []CloneInv
<1>1. Init => CloneInv
  BY DEF Init, EditInit, CloneInv
<1>2. EditInv /\ PoolInv /\ CloneInv /\ [Next]_vars /\ EditInv' /\ AimInv' => CloneInv'
  BY CloneInvStep
<1> QED BY <1>1, <1>2, EditInvAlways, PoolInvAlways, AimInvAlways, PTL DEF Spec

(* When the first call of DeepClone is about to return, the clone has what  *)
(* the edited tree has, node by node and with the children in their order.  *)
THEOREM ClonesAreAlwaysCopies == Spec => []ClonesAreCopies
<1>1. CloneInv => ClonesAreCopies
  <2> SUFFICES ASSUME CloneInv, phase = "cloning", Len(frames) = 1, Frame.cloned = Len(KidsOfFrame),
                      NEW p \in DOMAIN clone
               PROVE  /\ clone[p].type = tree[clone[p].id].type
                      /\ clone[p].name = tree[clone[p].id].name
                      /\ clone[p].terminal = tree[clone[p].id].terminal
                      /\ clone[p].label = tree[clone[p].id].label
                      /\ [i \in DOMAIN clone[p].kids |-> clone[clone[p].kids[i]].id]
                           = tree[clone[p].id].kids
    BY DEF ClonesAreCopies
  <2>1. Copying(tree, clone, frames)
    BY DEF CloneInv
  <2>2. frames[1].cloned = Len(tree[frames[1].of].kids)
    BY DEF Frame, KidsOfFrame, Last
  <2> QED BY <2>1, <2>2, CopyingCopies
<1> QED BY <1>1, CloneInvAlways, PTL

-----------------------------------------------------------------------------
(***************************************************************************)
(* A finished clone is a tree.                                              *)
(***************************************************************************)
Finished(cl) ==
  /\ cl[1].up = None
  /\ \A p \in 2 .. Len(cl) :
       /\ cl[p].up \in 1 .. p - 1
       /\ \A q \in DOMAIN cl : Cardinality({i \in DOMAIN cl[q].kids : cl[q].kids[i] = p})
                               = IF q = cl[p].up THEN 1 ELSE 0

LEMMA FinishedAtReturn ==
  ASSUME NEW nodes, NEW cl, NEW fr, Copying(nodes, cl, fr), Len(fr) = 1
  PROVE  Finished(cl)
<1>1. /\ Len(cl) \in Nat /\ DOMAIN cl = 1 .. Len(cl) /\ cl[1].up = None
      /\ \A p \in DOMAIN cl : p # 1 => Once(cl, p)
  BY CopyingEnds
<1>2. ASSUME NEW p \in 2 .. Len(cl)
      PROVE  /\ cl[p].up \in 1 .. p - 1
             /\ \A q \in DOMAIN cl : Cardinality({i \in DOMAIN cl[q].kids : cl[q].kids[i] = p})
                                     = IF q = cl[p].up THEN 1 ELSE 0
  <2>1. Once(cl, p)
    BY <1>1
  <2>2. PICK u, j : /\ u = cl[p].up /\ u \in 1 .. p - 1 /\ j \in DOMAIN cl[u].kids /\ cl[u].kids[j] = p
                    /\ \A q \in DOMAIN cl : \A i \in DOMAIN cl[q].kids :
                         cl[q].kids[i] = p => q = u /\ i = j
    BY <2>1 DEF Once
  <2>3. ASSUME NEW q \in DOMAIN cl
        PROVE  Cardinality({i \in DOMAIN cl[q].kids : cl[q].kids[i] = p}) = IF q = u THEN 1 ELSE 0
    <3>1. CASE q = u
      <4>1. {i \in DOMAIN cl[q].kids : cl[q].kids[i] = p} = {j}
        BY <2>2, <3>1
      <4>2. Cardinality({j}) = 1
        BY FS_Singleton
      <4> QED BY <3>1, <4>1, <4>2
    <3>2. CASE q # u
      <4>1. {i \in DOMAIN cl[q].kids : cl[q].kids[i] = p} = {}
        BY <2>2, <3>2
      <4>2. Cardinality({}) = 0
        BY FS_EmptySet
      <4> QED BY <3>2, <4>1, <4>2
    <3> QED BY <3>1, <3>2
  <2> QED BY <2>2, <2>3
<1> QED BY <1>1, <1>2 DEF Finished

LEMMA ClonesAreTreesStep ==
  EditInv /\ CloneInv /\ ClonesAreTrees /\ [Next]_vars => ClonesAreTrees'
<1> SUFFICES ASSUME EditInv, CloneInv, ClonesAreTrees, [Next]_vars PROVE ClonesAreTrees'
  OBVIOUS
<1>0. /\ phase \in {"restoring", "parsing", "done"} /\ edit.by # "insert" => Finished(clone)
      /\ (phase' \in {"restoring", "parsing", "done"} /\ edit'.by # "insert" => Finished(clone'))
           => ClonesAreTrees'
  BY DEF ClonesAreTrees, Finished
<1>1. CASE phase' \in {"idle", "cloning"}
  BY <1>0, <1>1
<1>2. ASSUME UNCHANGED <<clone, edit>>, phase \in {"restoring", "parsing", "done"} PROVE ClonesAreTrees'
  BY <1>0, <1>2, Zenon
<1>3. CASE (\E pt \in Corpus : Save(pt)) \/ (\E pt \in TestCases : Load(pt))
  <2>1. test = None /\ phase' = phase
    BY <1>3 DEF Save, Load, editVars
  <2> QED BY <1>1, <2>1 DEF EditInv, TestFits
<1>4. CASE GuidedReplace \/ RandomReplace \/ DeleteAny
  <2>1. phase' = "cloning"
    BY <1>4 DEF GuidedReplace, RandomReplace, DeleteAny, Replace, Delete, StartClone
  <2> QED BY <1>1, <2>1
<1>5. CASE GuidedInsert \/ RandomInsert
  <2>1. PICK n, c, before, sep, aim : Insert(n, c, before, sep, aim)
    BY <1>5 DEF GuidedInsert, RandomInsert
  <2>2. edit'.by = "insert"
    BY <2>1 DEF Insert
  <2> QED BY <1>0, <2>2
<1>6. CASE CloneChild \/ EndEdit
  <2>1. phase' \in {"idle", "cloning"}
    BY <1>6 DEF CloneChild, EndEdit
  <2> QED BY <1>1, <2>1
<1>7. CASE ReturnClone
  <2>1. CASE Len(frames) # 1
    <3>1. phase' = "cloning"
      BY <1>7, <2>1 DEF ReturnClone
    <3> QED BY <1>1, <3>1
  <2>2. CASE Len(frames) = 1
    <3>1. clone' = clone /\ Copying(tree, clone, frames)
      BY <1>7, <2>2 DEF ReturnClone, CloneInv
    <3>2. Finished(clone)
      BY <2>2, <3>1, FinishedAtReturn
    <3> QED BY <1>0, <3>1, <3>2, Zenon
  <2> QED BY <2>1, <2>2
<1>8. CASE Revert \/ Reinsert \/ ParseEdit
  <2>1. UNCHANGED <<clone, edit>> /\ phase \in {"restoring", "parsing", "done"}
    BY <1>8 DEF Revert, Reinsert, ParseEdit
  <2> QED BY <1>2, <2>1
<1>9. CASE UNCHANGED vars
  BY <1>9 DEF vars, editVars, ClonesAreTrees
<1> QED BY <1>3, <1>4, <1>5, <1>6, <1>7, <1>8, <1>9 DEF Next, EditNext

(* A finished clone is a tree of its own: every node but the first is once  *)
(* among the children of the node it has for a parent, and of no other.     *)
THEOREM ClonesAreAlwaysTrees == Spec => []ClonesAreTrees
<1>1. Init => ClonesAreTrees
  BY DEF Init, EditInit, ClonesAreTrees
<1>2. EditInv /\ CloneInv /\ ClonesAreTrees /\ [Next]_vars => ClonesAreTrees'
  BY ClonesAreTreesStep
<1> QED BY <1>1, <1>2, EditInvAlways, CloneInvAlways, PTL DEF Spec
=============================================================================
