--------------------------- MODULE EditTextProofs ---------------------------
(***************************************************************************)
(* What an edit gives to the parser is the text of the test case, exact to  *)
(* the word but for what was edited: EditsAreExact. The text of a tree is   *)
(* that of its terminals in the order of their IDs, because the parser      *)
(* numbers the nodes in preorder; a change of the children of one node      *)
(* leaves the terminals before and behind it as they were.                  *)
(***************************************************************************)
EXTENDS GuidedEditProofs

-----------------------------------------------------------------------------
(***************************************************************************)
(* Sets of numbers in ascending order.                                      *)
(***************************************************************************)
(* An ascending sequence.                                                   *)
Rising(s) == \A i, j \in 1 .. Len(s) : i < j => s[i] < s[j]

(* A larger element has more elements below it.                             *)
LEMMA BelowGrows ==
  ASSUME NEW S, S \subseteq Int, IsFiniteSet(S), NEW x \in S, NEW z \in S
  PROVE  /\ Cardinality({y \in S : y < x}) \in Nat
         /\ x < z => Cardinality({y \in S : y < x}) < Cardinality({y \in S : y < z})
<1> DEFINE A == {y \in S : y < x}
           B == {y \in S : y < z}
<1>1. A \in SUBSET S /\ B \in SUBSET S
  OBVIOUS
<1> HIDE DEF A, B
<1>2. IsFiniteSet(A) /\ IsFiniteSet(B) /\ Cardinality(A) \in Nat /\ Cardinality(B) \in Nat
  BY <1>1, FS_Subset, FS_CardinalityType
<1>3. ASSUME x < z PROVE Cardinality(A) < Cardinality(B)
  <2>1. A \in SUBSET B
    <3>1. \A y \in S : y \in Int /\ x \in Int /\ z \in Int
      OBVIOUS
    <3>2. \A y \in S : y < x => y < z
      BY <1>3, <3>1
    <3> QED BY <3>2 DEF A, B
  <2>2. A # B
    <3>1. x \in B
      BY <1>3 DEF B
    <3>2. x \notin A
      BY DEF A
    <3> QED BY <3>1, <3>2
  <2>3. Cardinality(A) <= Cardinality(B) /\ Cardinality(A) # Cardinality(B)
    BY <1>2, <2>1, <2>2, FS_Subset
  <2> QED BY <1>2, <2>3
<1> QED BY <1>2, <1>3 DEF A, B

(* The enumeration has as many elements as the set, and ascends.            *)
LEMMA InOrderRises ==
  ASSUME NEW S, S \subseteq Int, IsFiniteSet(S)
  PROVE  /\ Cardinality(S) \in Nat /\ Len(InOrder(S)) = Cardinality(S)
         /\ DOMAIN InOrder(S) = 1 .. Cardinality(S)
         /\ Rising(InOrder(S))
<1> DEFINE a == InOrder(S)
           below(x) == Cardinality({y \in S : y < x})
<1>1. Cardinality(S) \in Nat
  BY FS_CardinalityType
<1>2. a \in Seq(S) /\ ToSet(a) = S
  BY InOrderFacts
<1>3. a = [i \in 1 .. Cardinality(S) |-> CHOOSE x \in S : below(x) = i - 1]
  BY DEF InOrder
<1>4. Len(a) = Cardinality(S) /\ DOMAIN a = 1 .. Cardinality(S)
  <2> HIDE DEF a, below
  <2>1. DOMAIN a = 1 .. Cardinality(S)
    BY <1>3
  <2> QED BY <1>1, <1>2, <2>1
<1>5. ASSUME NEW i \in 1 .. Cardinality(S) PROVE a[i] \in S /\ below(a[i]) = i - 1
  <2>1. \E x \in S : below(x) = i - 1
    <3> DEFINE f == [x \in S |-> below(x) + 1]
               k == Cardinality(S)
    <3>1. \A x \in S : below(x) \in Nat /\ below(x) < k
      <4> SUFFICES ASSUME NEW x \in S PROVE below(x) \in Nat /\ below(x) < k
        OBVIOUS
      <4> DEFINE A == {y \in S : y < x}
      <4>1. A \in SUBSET S /\ x \notin A
        OBVIOUS
      <4> HIDE DEF A
      <4>2. Cardinality(A) <= k /\ Cardinality(A) # k /\ Cardinality(A) \in Nat
        BY <4>1, FS_Subset, FS_CardinalityType
      <4>3. Cardinality(A) < k
        BY <1>1, <4>2
      <4> QED BY <4>2, <4>3 DEF A
    <3>2. \A x, z \in S : f[x] = f[z] => x = z
      <4> SUFFICES ASSUME NEW x \in S, NEW z \in S, f[x] = f[z], x # z PROVE FALSE
        OBVIOUS
      <4>1. below(x) \in Nat /\ below(z) \in Nat /\ below(x) + 1 = below(z) + 1
        BY <3>1
      <4>2. x < z \/ z < x
        OBVIOUS
      <4>3. x < z => below(x) < below(z)
        BY BelowGrows
      <4>4. z < x => below(z) < below(x)
        BY BelowGrows
      <4> HIDE DEF below
      <4> QED BY <4>1, <4>2, <4>3, <4>4
    <3>3. f \in [S -> 1 .. k]
      <4> HIDE DEF below
      <4> QED BY <1>1, <3>1
    <3>4. f \in Injection(S, 1 .. k)
      <4> HIDE DEF f
      <4> QED BY <3>2, <3>3 DEF Injection, IsInjective
    <3>5. f \in Surjection(S, 1 .. k)
      <4>1. IsFiniteSet(1 .. k) /\ Cardinality(1 .. k) = k
        BY <1>1, FS_Interval
      <4> HIDE DEF f
      <4> QED BY <3>4, <4>1, FS_Injection
    <3>6. PICK x \in S : f[x] = i
      <4> HIDE DEF f
      <4> QED BY <3>5 DEF Surjection
    <3>7. below(x) = i - 1
      <4>1. f[x] = below(x) + 1 /\ below(x) \in Nat
        BY <3>1
      <4> HIDE DEF f, below
      <4> QED BY <3>6, <4>1
    <3> QED BY <3>7
  <2>2. a[i] = CHOOSE x \in S : below(x) = i - 1
    <3> HIDE DEF a, below
    <3> QED BY <1>3
  <2> HIDE DEF a, below
  <2> QED BY <2>1, <2>2
<1>6. ASSUME NEW i \in 1 .. Len(a), NEW j \in 1 .. Len(a), i < j PROVE a[i] < a[j]
  <2>1. /\ a[i] \in S /\ below(a[i]) = i - 1 /\ a[j] \in S /\ below(a[j]) = j - 1
        /\ a[i] \in Int /\ a[j] \in Int /\ i \in Int /\ j \in Int
    <3>1. i \in 1 .. Cardinality(S) /\ j \in 1 .. Cardinality(S)
      BY <1>4
    <3>2. /\ a[i] \in S /\ below(a[i]) = i - 1 /\ a[j] \in S /\ below(a[j]) = j - 1
      BY <1>5, <3>1
    <3>3. i \in Int /\ j \in Int
      BY <1>1, <3>1
    <3>4. a[i] \in Int /\ a[j] \in Int
      <4> HIDE DEF a, below
      <4> QED BY <3>2
    <3> QED BY <3>2, <3>3, <3>4
  <2>2. ~(a[j] < a[i]) /\ a[i] # a[j]
    <3>1. a[j] < a[i] => below(a[j]) < below(a[i])
      <4> HIDE DEF a
      <4> QED BY <2>1, BelowGrows
    <3> HIDE DEF a, below
    <3> QED BY <1>6, <2>1, <3>1
  <2> HIDE DEF a
  <2> QED BY <2>1, <2>2
<1> QED BY <1>1, <1>4, <1>6 DEF Rising

(* There is no other: whatever ascends and has these elements is it.        *)
LEMMA InOrderIsUnique ==
  ASSUME NEW S, S \subseteq Int, NEW s \in Seq(S), ToSet(s) = S, Rising(s)
  PROVE  IsFiniteSet(S) /\ s = InOrder(S)
<1> DEFINE below(x) == {y \in S : y < x}
<1>1. Len(s) \in Nat /\ DOMAIN s = 1 .. Len(s) /\ \A i \in 1 .. Len(s) : s[i] \in S /\ s[i] \in Int
  BY Elements
<1>2. \A i, j \in 1 .. Len(s) : s[i] < s[j] <=> i < j
  <2> SUFFICES ASSUME NEW i \in 1 .. Len(s), NEW j \in 1 .. Len(s) PROVE s[i] < s[j] <=> i < j
    OBVIOUS
  <2>1. s[i] \in Int /\ s[j] \in Int /\ (i < j \/ i = j \/ j < i)
    BY <1>1
  <2>2. (i < j => s[i] < s[j]) /\ (j < i => s[j] < s[i])
    BY DEF Rising
  <2> QED BY <2>1, <2>2
<1>3. \A x \in S : \E i \in 1 .. Len(s) : s[i] = x
  BY <1>1 DEF ToSet
<1>4. ASSUME NEW k \in 0 .. Len(s), NEW T, T = {s[i] : i \in 1 .. k}
      PROVE  IsFiniteSet(T) /\ Cardinality(T) = k
  <2> DEFINE f == [i \in 1 .. k |-> s[i]]
  <2>1. \A i \in 1 .. k : i \in 1 .. Len(s)
    BY <1>1
  <2>2. f \in Surjection(1 .. k, T)
    <3>1. f \in [1 .. k -> T]
      BY <1>4
    <3>2. \A t \in T : \E i \in 1 .. k : f[i] = t
      BY <1>4
    <3> HIDE DEF f
    <3> QED BY <3>1, <3>2 DEF Surjection
  <2>3. f \in Injection(1 .. k, T)
    <3>1. \A i, j \in 1 .. k : f[i] = f[j] => i = j
      <4> SUFFICES ASSUME NEW i \in 1 .. k, NEW j \in 1 .. k, f[i] = f[j] PROVE i = j
        OBVIOUS
      <4>1. ~(s[i] < s[j]) /\ ~(s[j] < s[i])
        BY <1>1, <2>1
      <4>2. ~(i < j) /\ ~(j < i)
        BY <1>2, <2>1, <4>1
      <4> QED BY <4>2
    <3>2. f \in [1 .. k -> T]
      BY <1>4
    <3> HIDE DEF f
    <3> QED BY <3>1, <3>2 DEF Injection, IsInjective
  <2>4. IsFiniteSet(1 .. k) /\ Cardinality(1 .. k) = k
    BY FS_Interval
  <2> HIDE DEF f
  <2> QED BY <2>2, <2>3, <2>4, FS_Surjection
<1>5. IsFiniteSet(S) /\ Cardinality(S) = Len(s)
  <2>1. S = {s[i] : i \in 1 .. Len(s)} /\ Len(s) \in 0 .. Len(s)
    BY <1>1, <1>3
  <2> QED BY <1>4, <2>1
<1>6. ASSUME NEW i \in 1 .. Len(s) PROVE Cardinality(below(s[i])) = i - 1
  <2> DEFINE T == {s[j] : j \in 1 .. i - 1}
  <2>1. \A j \in 1 .. i - 1 : j \in 1 .. Len(s) /\ s[j] \in S /\ s[j] < s[i]
    BY <1>1, <1>2
  <2>2. \A y \in below(s[i]) : \E j \in 1 .. i - 1 : y = s[j]
    <3> SUFFICES ASSUME NEW y \in S, y < s[i] PROVE \E j \in 1 .. i - 1 : y = s[j]
      OBVIOUS
    <3>1. PICK j \in 1 .. Len(s) : y = s[j]
      BY <1>3
    <3>2. j < i
      BY <1>2, <3>1
    <3> QED BY <3>1, <3>2
  <2>3. below(s[i]) = T
    BY <2>1, <2>2
  <2>4. i - 1 \in 0 .. Len(s)
    BY <1>1
  <2>5. Cardinality(T) = i - 1
    <3> HIDE DEF below
    <3> QED BY <1>4, <2>4
  <2> QED BY <2>3, <2>5
<1>7. ASSUME NEW i \in 1 .. Len(s), NEW x \in S, Cardinality(below(x)) = i - 1 PROVE x = s[i]
  <2>1. PICK j \in 1 .. Len(s) : x = s[j]
    BY <1>3
  <2>2. j - 1 = i - 1
    <3> HIDE DEF below
    <3> QED BY <1>6, <1>7, <2>1
  <2>3. j = i
    BY <2>2
  <2> QED BY <2>1, <2>3
<1>8. InOrder(S) = [i \in 1 .. Len(s) |-> CHOOSE x \in S : Cardinality(below(x)) = i - 1]
  BY <1>5 DEF InOrder
<1>9. \A i \in 1 .. Len(s) : (CHOOSE x \in S : Cardinality(below(x)) = i - 1) = s[i]
  <2> HIDE DEF below
  <2> QED BY <1>1, <1>6, <1>7
<1>10. InOrder(S) = [i \in 1 .. Len(s) |-> s[i]]
  <2> HIDE DEF below
  <2> QED BY <1>8, <1>9
<1>11. s = [i \in 1 .. Len(s) |-> s[i]]
  BY <1>1
<1> QED BY <1>5, <1>10, <1>11

(* Two sets, all of the first before all of the second.                     *)
Precedes(S, T) == \A x \in S, y \in T : x < y

LEMMA InOrderSplits ==
  ASSUME NEW S, S \subseteq Int, IsFiniteSet(S), NEW T, T \subseteq Int, IsFiniteSet(T),
         Precedes(S, T)
  PROVE  InOrder(S \cup T) = InOrder(S) \o InOrder(T)
<1> DEFINE a == InOrder(S)
           b == InOrder(T)
           U == S \cup T
<1>1. a \in Seq(S) /\ ToSet(a) = S /\ Rising(a) /\ b \in Seq(T) /\ ToSet(b) = T /\ Rising(b)
  BY InOrderFacts, InOrderRises
<1> HIDE DEF a, b
<1>2. PICK m, n \in Nat : m = Len(a) /\ n = Len(b)
  BY <1>1
<1>3. /\ DOMAIN a = 1 .. m /\ \A i \in 1 .. m : a[i] \in S /\ a[i] \in Int
      /\ DOMAIN b = 1 .. n /\ \A i \in 1 .. n : b[i] \in T /\ b[i] \in Int
  BY <1>1, <1>2, Elements
<1>4. /\ a \o b \in Seq(U) /\ Len(a \o b) = m + n /\ DOMAIN (a \o b) = 1 .. m + n
      /\ \A i \in 1 .. m : (a \o b)[i] = a[i]
      /\ \A i \in 1 .. n : (a \o b)[m + i] = b[i]
  <2>1. a \in Seq(U) /\ b \in Seq(U)
    <3>1. (\A x \in S : x \in U) /\ (\A x \in T : x \in U)
      OBVIOUS
    <3> HIDE DEF U
    <3> QED BY <1>1, <3>1, WiderSeq
  <2> HIDE DEF U
  <2> QED BY <1>2, <2>1
<1>5. \A i \in 1 .. m + n : i \in 1 .. m \/ \E j \in 1 .. n : i = m + j
  <2> SUFFICES ASSUME NEW i \in 1 .. m + n, ~(i \in 1 .. m) PROVE \E j \in 1 .. n : i = m + j
    OBVIOUS
  <2>1. i - m \in 1 .. n /\ i = m + (i - m)
    OBVIOUS
  <2> QED BY <2>1
<1>6. ToSet(a \o b) = U
  <2>1. ASSUME NEW x \in U PROVE \E i \in 1 .. m + n : (a \o b)[i] = x
    <3>1. CASE x \in S
      <4>1. PICK i \in 1 .. m : a[i] = x
        BY <1>1, <1>3, <3>1 DEF ToSet
      <4>2. i \in 1 .. m + n
        OBVIOUS
      <4> QED BY <1>4, <4>1, <4>2
    <3>2. CASE x \in T
      <4>1. PICK i \in 1 .. n : b[i] = x
        BY <1>1, <1>3, <3>2 DEF ToSet
      <4>2. m + i \in 1 .. m + n
        OBVIOUS
      <4> QED BY <1>4, <4>1, <4>2
    <3> QED BY <3>1, <3>2
  <2>2. \A i \in 1 .. m + n : (a \o b)[i] \in U
    BY <1>3, <1>4, <1>5
  <2> QED BY <1>4, <2>1, <2>2 DEF ToSet
<1>7. Rising(a \o b)
  <2> SUFFICES ASSUME NEW i \in 1 .. m + n, NEW j \in 1 .. m + n, i < j
               PROVE  (a \o b)[i] < (a \o b)[j]
    BY <1>4 DEF Rising
  <2>1. CASE i \in 1 .. m /\ j \in 1 .. m
    BY <1>1, <1>2, <1>4, <2>1 DEF Rising
  <2>2. CASE i \in 1 .. m /\ ~(j \in 1 .. m)
    <3>1. PICK l \in 1 .. n : j = m + l
      BY <1>5, <2>2
    <3>2. (a \o b)[i] = a[i] /\ (a \o b)[j] = b[l]
      BY <1>4, <2>2, <3>1
    <3> QED BY <1>3, <2>2, <3>2 DEF Precedes
  <2>3. CASE ~(i \in 1 .. m)
    <3>1. PICK k \in 1 .. n : i = m + k
      BY <1>5, <2>3
    <3>2. ~(j \in 1 .. m)
      BY <2>3
    <3>3. PICK l \in 1 .. n : j = m + l
      BY <1>5, <3>2
    <3>4. k < l
      BY <3>1, <3>3
    <3>5. b[k] < b[l]
      BY <1>1, <1>2, <3>4 DEF Rising
    <3> QED BY <1>4, <3>1, <3>3, <3>5
  <2> QED BY <2>1, <2>2, <2>3
<1>8. U \subseteq Int
  OBVIOUS
<1>9. a \o b = InOrder(U)
  <2> HIDE DEF U
  <2> QED BY <1>4, <1>6, <1>7, <1>8, InOrderIsUnique
<1> QED BY <1>9 DEF a, b

-----------------------------------------------------------------------------
(***************************************************************************)
(* Texts put together.                                                      *)
(***************************************************************************)
FlattenTo(f, s, i) == IF i = 1 THEN s[i] ELSE f[i - 1] \o s[i]

(* The concatenations up to each place, as a function of the place.         *)
LEMMA FlattenExists ==
  ASSUME NEW V, NEW s \in Seq(Seq(V))
  PROVE  \E f : f = [i \in 1 .. Len(s) |-> FlattenTo(f, s, i)]
<1> DEFINE solves(f, k) == f = [i \in 1 .. k |-> FlattenTo(f, s, i)]
           T == {k \in 0 .. Len(s) : ~(\E f : solves(f, k))}
<1>1. Len(s) \in Nat
  OBVIOUS
<1>2. SUFFICES ASSUME T # {} PROVE FALSE
  <2>1. Len(s) \in 0 .. Len(s)
    BY <1>1
  <2> QED BY <2>1
<1>3. PICK k \in T : \A y \in T : k <= y
  <2>1. T \subseteq Nat
    OBVIOUS
  <2> HIDE DEF T
  <2> QED BY <1>2, <2>1, LeastOf
<1>4. k # 0
  <2>1. solves(<< >>, 0)
    OBVIOUS
  <2> HIDE DEF solves
  <2> QED BY <2>1
<1>5. k \in 1 .. Len(s) /\ k - 1 \in 0 .. Len(s) /\ ~(k <= k - 1)
  BY <1>1, <1>4
<1>6. k - 1 \notin T
  <2> HIDE DEF T
  <2> QED BY <1>3, <1>5
<1>7. PICK f : solves(f, k - 1)
  <2> HIDE DEF solves
  <2> QED BY <1>5, <1>6
<1> DEFINE g == [i \in 1 .. k |-> IF i = k THEN FlattenTo(f, s, i) ELSE f[i]]
<1>8. ASSUME NEW i \in 1 .. k PROVE g[i] = FlattenTo(g, s, i)
  <2>1. FlattenTo(f, s, i) = FlattenTo(g, s, i)
    <3>1. CASE i = 1
      BY <3>1 DEF FlattenTo
    <3>2. CASE i # 1
      <4>1. i - 1 \in 1 .. k /\ i - 1 # k
        BY <1>5, <3>2
      <4>2. g[i - 1] = f[i - 1]
        BY <4>1
      <4> HIDE DEF g
      <4> QED BY <4>2 DEF FlattenTo
    <3> QED BY <3>1, <3>2
  <2>2. CASE i = k
    <3>1. g[i] = FlattenTo(f, s, i)
      BY <2>2
    <3> QED BY <2>1, <3>1
  <2>3. CASE i # k
    <3>1. i \in 1 .. k - 1
      BY <1>5, <2>3
    <3>2. f[i] = FlattenTo(f, s, i)
      BY <1>7, <3>1
    <3>3. g[i] = f[i]
      BY <2>3
    <3> QED BY <2>1, <3>2, <3>3
  <2> QED BY <2>2, <2>3
<1>9. solves(g, k)
  <2>1. g = [i \in 1 .. k |-> g[i]]
    OBVIOUS
  <2> HIDE DEF g
  <2> QED BY <1>8, <2>1
<1> HIDE DEF solves, g
<1> QED BY <1>9

(* Concatenations one after the other lead to the flattened sequence.       *)
Runs(F, s) == F[0] = << >> /\ \A i \in 1 .. Len(s) : F[i] = F[i - 1] \o s[i]

LEMMA FlattenRuns ==
  ASSUME NEW V, NEW s \in Seq(Seq(V))
  PROVE  \E F : /\ Runs(F, s) /\ F[Len(s)] = FlattenSeq(s)
                /\ \A i \in 0 .. Len(s) : F[i] \in Seq(V)
<1> DEFINE n == Len(s)
           f == CHOOSE f : f = [i \in 1 .. n |-> FlattenTo(f, s, i)]
<1>1. n \in Nat /\ \A i \in 1 .. n : s[i] \in Seq(V)
  OBVIOUS
<1>2. f = [i \in 1 .. n |-> FlattenTo(f, s, i)]
  <2> DEFINE Q(f_) == f_ = [i \in 1 .. n |-> FlattenTo(f_, s, i)]
  <2>1. \E h : Q(h)
    BY FlattenExists
  <2>2. f = CHOOSE h : Q(h)
    OBVIOUS
  <2> HIDE DEF Q, f
  <2>3. Q(f)
    BY <2>1, <2>2, Zenon
  <2> QED BY <2>3 DEF Q
<1>3. FlattenSeq(s) = IF n = 0 THEN s ELSE f[n]
  BY Zenon DEF FlattenSeq, FlattenTo
<1> HIDE DEF f
<1> DEFINE F == [i \in 0 .. n |-> IF i = 0 THEN << >> ELSE f[i]]
<1>4. \A i \in 1 .. n : f[i] = IF i = 1 THEN s[i] ELSE f[i - 1] \o s[i]
  BY <1>2 DEF FlattenTo
<1>5. F[0] = << >>
  BY <1>1
<1>6. ASSUME NEW i \in 1 .. n PROVE F[i] = F[i - 1] \o s[i]
  <2>1. i \in 0 .. n /\ i - 1 \in 0 .. n /\ i # 0
    BY <1>1
  <2>2. F[i] = f[i]
    BY <2>1
  <2>3. CASE i = 1
    <3>1. F[i - 1] = << >>
      BY <1>1, <2>3
    <3>2. << >> \o s[i] = s[i]
      BY <1>1
    <3> QED BY <1>4, <2>2, <2>3, <3>1, <3>2
  <2>4. CASE i # 1
    <3>1. F[i - 1] = f[i - 1]
      BY <2>1, <2>4
    <3> QED BY <1>4, <2>2, <2>4, <3>1
  <2> QED BY <2>3, <2>4
<1>7. F[n] = FlattenSeq(s)
  <2>1. CASE n = 0
    <3>1. s = << >>
      BY <2>1
    <3> QED BY <1>3, <1>5, <2>1, <3>1
  <2>2. CASE n # 0
    <3>1. n \in 0 .. n
      BY <1>1
    <3>2. F[n] = f[n]
      BY <2>2, <3>1
    <3> QED BY <1>3, <2>2, <3>2
  <2> QED BY <2>1, <2>2
<1> HIDE DEF F, n
<1>8. \A i \in 0 .. n : F[i] \in Seq(V)
  <2> DEFINE T == {i \in 0 .. n : F[i] \notin Seq(V)}
  <2>1. SUFFICES ASSUME T # {} PROVE FALSE
    OBVIOUS
  <2>2. PICK i \in T : \A y \in T : i <= y
    <3>1. T \subseteq Nat
      BY <1>1
    <3> HIDE DEF T
    <3> QED BY <2>1, <3>1, LeastOf
  <2>3. i # 0
    <3>1. << >> \in Seq(V)
      OBVIOUS
    <3> QED BY <1>5, <3>1
  <2>4. i \in 1 .. n /\ i - 1 \in 0 .. n /\ ~(i <= i - 1)
    BY <1>1, <2>3
  <2>5. F[i - 1] \in Seq(V)
    BY <2>2, <2>4
  <2>6. F[i] = F[i - 1] \o s[i] /\ s[i] \in Seq(V)
    BY <1>1, <1>6, <2>4
  <2>7. F[i] \in Seq(V)
    BY <2>5, <2>6
  <2> QED BY <2>7
<1>9. Runs(F, s)
  BY <1>5, <1>6 DEF Runs, n
<1> QED BY <1>7, <1>8, <1>9 DEF n

(* There is only one way.                                                   *)
LEMMA FlattenIs ==
  ASSUME NEW V, NEW s \in Seq(Seq(V)), NEW F, Runs(F, s)
  PROVE  FlattenSeq(s) = F[Len(s)]
<1>1. PICK G : Runs(G, s) /\ G[Len(s)] = FlattenSeq(s)
  BY FlattenRuns
<1> DEFINE n == Len(s)
           T == {i \in 0 .. n : F[i] # G[i]}
<1>2. n \in Nat
  OBVIOUS
<1>3. SUFFICES ASSUME T # {} PROVE FALSE
  <2>1. n \in 0 .. n
    BY <1>2
  <2> QED BY <1>1, <1>2, <2>1
<1>4. PICK i \in T : \A y \in T : i <= y
  <2>1. T \subseteq Nat
    BY <1>2
  <2> HIDE DEF T
  <2> QED BY <1>3, <2>1, LeastOf
<1>5. i # 0
  BY <1>1 DEF Runs
<1>6. i \in 1 .. n /\ i - 1 \in 0 .. n /\ ~(i <= i - 1)
  BY <1>2, <1>5
<1>7. F[i - 1] = G[i - 1]
  BY <1>4, <1>6
<1>8. F[i] = G[i]
  BY <1>1, <1>6, <1>7 DEF Runs
<1> QED BY <1>8

(* Flattening sequences over V leads to a sequence over V.                  *)
LEMMA FlattenTyped ==
  ASSUME NEW V, NEW s \in Seq(Seq(V))
  PROVE  FlattenSeq(s) \in Seq(V)
<1>1. PICK F : F[Len(s)] = FlattenSeq(s) /\ \A i \in 0 .. Len(s) : F[i] \in Seq(V)
  BY FlattenRuns
<1>2. Len(s) \in 0 .. Len(s)
  OBVIOUS
<1> QED BY <1>1, <1>2

(* Nothing flattened is nothing.                                            *)
LEMMA FlattenNone == FlattenSeq(<< >>) = << >>
BY DEF FlattenSeq

(* The elements of a concatenation.                                         *)
LEMMA ConcatFacts ==
  ASSUME NEW V, NEW a \in Seq(V), NEW b \in Seq(V)
  PROVE  /\ a \o b \in Seq(V) /\ Len(a \o b) = Len(a) + Len(b)
         /\ \A i \in 1 .. Len(a) : (a \o b)[i] = a[i]
         /\ \A i \in 1 .. Len(b) : (a \o b)[Len(a) + i] = b[i]
         /\ << >> \o a = a /\ a \o << >> = a
OBVIOUS

JoinIs(V, a, b, m, n) ==
  /\ a \o b \in Seq(V) /\ Len(a \o b) = m + n
  /\ \A i \in 1 .. m : (a \o b)[i] = a[i]
  /\ \A i \in 1 .. n : (a \o b)[m + i] = b[i]

(* The same for known lengths, as one fact.                                 *)
LEMMA ConcatIs ==
  ASSUME NEW V, NEW a \in Seq(V), NEW b \in Seq(V), NEW m, m = Len(a), NEW n, n = Len(b)
  PROVE  JoinIs(V, a, b, m, n)
BY ConcatFacts DEF JoinIs

(* Concatenation is associative.                                            *)
LEMMA ConcatAgain ==
  ASSUME NEW V, NEW a \in Seq(V), NEW b \in Seq(V), NEW c \in Seq(V)
  PROVE  (a \o b) \o c = a \o (b \o c)
<1> DEFINE l == (a \o b) \o c
           r == a \o (b \o c)
<1>1. l \in Seq(V) /\ r \in Seq(V) /\ Len(l) = Len(r)
  OBVIOUS
<1>2. ASSUME NEW i \in 1 .. Len(l) PROVE l[i] = r[i]
  OBVIOUS
<1> HIDE DEF l, r
<1>3. l = r
  BY <1>1, <1>2, SameSeq
<1> QED BY <1>3 DEF l, r

(* Flattening two lists of texts one after the other.                       *)
LEMMA FlattenConcat ==
  ASSUME NEW V, NEW a \in Seq(Seq(V)), NEW b \in Seq(Seq(V))
  PROVE  FlattenSeq(a \o b) = FlattenSeq(a) \o FlattenSeq(b)
<1>1. PICK A : /\ Runs(A, a) /\ A[Len(a)] = FlattenSeq(a)
               /\ \A i \in 0 .. Len(a) : A[i] \in Seq(V)
  BY FlattenRuns
<1>2. PICK B : /\ Runs(B, b) /\ B[Len(b)] = FlattenSeq(b)
               /\ \A i \in 0 .. Len(b) : B[i] \in Seq(V)
  BY FlattenRuns
<1>3. PICK m, n \in Nat : m = Len(a) /\ n = Len(b)
  OBVIOUS
<1> DEFINE F == [i \in 0 .. m + n |-> IF i <= m THEN A[i] ELSE A[m] \o B[i - m]]
           s == a \o b
<1>4. /\ s \in Seq(Seq(V)) /\ Len(s) = m + n
      /\ \A i \in 1 .. m : s[i] = a[i]
      /\ \A i \in 1 .. n : s[m + i] = b[i]
      /\ \A i \in 1 .. m : a[i] \in Seq(V)
      /\ \A i \in 1 .. n : b[i] \in Seq(V)
  <2> DEFINE W == Seq(V)
  <2>1. a \in Seq(W) /\ b \in Seq(W)
    OBVIOUS
  <2> HIDE DEF W
  <2>2. /\ s \in Seq(W) /\ Len(s) = m + n
        /\ \A i \in 1 .. m : s[i] = a[i]
        /\ \A i \in 1 .. n : s[m + i] = b[i]
    BY <1>3, <2>1, ConcatFacts
  <2>3. (\A i \in 1 .. m : a[i] \in W) /\ (\A i \in 1 .. n : b[i] \in W)
    BY <1>3, <2>1
  <2> QED BY <2>2, <2>3 DEF W
<1>5. F[0] = << >>
  BY <1>1 DEF Runs
<1>6. ASSUME NEW i \in 1 .. m + n PROVE F[i] = F[i - 1] \o s[i]
  <2>1. CASE i <= m
    <3>1. i \in 1 .. m /\ i - 1 \in 0 .. m + n /\ i - 1 <= m /\ i \in 0 .. m + n
      BY <2>1
    <3>2. F[i] = A[i] /\ F[i - 1] = A[i - 1]
      BY <2>1, <3>1
    <3>3. A[i] = A[i - 1] \o a[i]
      BY <1>1, <1>3, <3>1 DEF Runs
    <3> HIDE DEF F, s
    <3> QED BY <1>4, <3>1, <3>2, <3>3
  <2>2. CASE ~(i <= m)
    <3>1. PICK j \in 1 .. n : i = m + j
      <4>1. i - m \in 1 .. n /\ i = m + (i - m)
        BY <2>2
      <4> QED BY <4>1
    <3>2. /\ i \in 0 .. m + n /\ i - 1 \in 0 .. m + n /\ i - m = j
          /\ j - 1 \in 0 .. n /\ m \in 0 .. m
      BY <3>1
    <3>3. F[i] = A[m] \o B[j]
      BY <2>2, <3>2
    <3>4. B[j] = B[j - 1] \o b[j]
      BY <1>2, <1>3 DEF Runs
    <3>5. A[m] \in Seq(V) /\ B[j - 1] \in Seq(V) /\ b[j] \in Seq(V)
      BY <1>1, <1>2, <1>3, <1>4, <3>2
    <3>6. F[i - 1] = A[m] \o B[j - 1]
      <4>1. CASE j = 1
        <5>1. i - 1 = m
          BY <3>1, <4>1
        <5>2. F[i - 1] = A[m]
          <6>1. m \in 0 .. m + n /\ m <= m
            OBVIOUS
          <6> QED BY <5>1, <6>1
        <5>3. B[j - 1] = << >>
          BY <1>2, <4>1 DEF Runs
        <5> HIDE DEF F
        <5> QED BY <3>5, <5>2, <5>3, ConcatFacts
      <4>2. CASE j # 1
        <5>1. ~(i - 1 <= m) /\ i - 1 - m = j - 1
          BY <3>1, <4>2
        <5> QED BY <3>2, <5>1
      <4> QED BY <4>1, <4>2
    <3>7. s[i] = b[j]
      BY <1>4, <3>1
    <3> HIDE DEF F, s
    <3>8. A[m] \o (B[j - 1] \o b[j]) = (A[m] \o B[j - 1]) \o b[j]
      <4>1. \A x, y, z \in Seq(V) : (x \o y) \o z = x \o (y \o z)
        BY ConcatAgain
      <4> QED BY <3>5, <4>1
    <3> QED BY <3>3, <3>4, <3>6, <3>7, <3>8
  <2> QED BY <2>1, <2>2
<1>7. F[m + n] = A[m] \o B[n]
  <2>1. m + n \in 0 .. m + n
    OBVIOUS
  <2>2. CASE n = 0
    <3>1. F[m + n] = A[m]
      BY <2>1, <2>2
    <3>2. B[n] = << >> /\ A[m] \in Seq(V)
      <4>1. m \in 0 .. m
        OBVIOUS
      <4> QED BY <1>1, <1>2, <1>3, <2>2, <4>1 DEF Runs
    <3> HIDE DEF F
    <3> QED BY <3>1, <3>2, ConcatFacts
  <2>3. CASE n # 0
    <3>1. PICK k \in 0 .. m + n : k = m + n
      BY <2>1
    <3>2. ~(k <= m) /\ k - m = n
      BY <2>3, <3>1
    <3>3. F[k] = A[m] \o B[k - m]
      BY <3>2
    <3>4. F[k] = A[m] \o B[n]
      <4> HIDE DEF F
      <4> QED BY <3>2, <3>3
    <3> HIDE DEF F
    <3> QED BY <3>1, <3>4
  <2> QED BY <2>2, <2>3
<1>8. Runs(F, s)
  <2> HIDE DEF F, s
  <2> QED BY <1>4, <1>5, <1>6 DEF Runs
<1>9. FlattenSeq(s) = F[m + n]
  <2> HIDE DEF F, s
  <2> QED BY <1>4, <1>8, FlattenIs
<1> QED BY <1>1, <1>2, <1>3, <1>7, <1>9

-----------------------------------------------------------------------------
(***************************************************************************)
(* The text of a set of places, each with a text of its own.                *)
(***************************************************************************)
(* tau has a text for each place; the wording of a set of places is made of *)
(* the texts of its elements in ascending order.                            *)
Texted(tau, S) == [i \in DOMAIN InOrder(S) |-> tau[InOrder(S)[i]]]

Wording(tau, S) == FlattenSeq(Texted(tau, S))

(* There is a text over V for every element of the finite set S.            *)
Says(tau, S, V) == S \subseteq Int /\ IsFiniteSet(S) /\ \A x \in S : tau[x] \in Seq(V)

(* The texts of a set, one for each element in ascending order.             *)
LEMMA TextedFacts ==
  ASSUME NEW V, NEW tau, NEW S, Says(tau, S, V)
  PROVE  /\ Texted(tau, S) \in Seq(Seq(V)) /\ Len(Texted(tau, S)) = Len(InOrder(S))
         /\ Len(InOrder(S)) \in Nat /\ DOMAIN InOrder(S) = 1 .. Len(InOrder(S))
         /\ \A i \in 1 .. Len(InOrder(S)) : /\ InOrder(S)[i] \in S
                                            /\ Texted(tau, S)[i] = tau[InOrder(S)[i]]
<1>1. PICK a \in Seq(S) : a = InOrder(S)
  BY InOrderFacts DEF Says
<1>2. Len(a) \in Nat /\ DOMAIN a = 1 .. Len(a) /\ \A i \in 1 .. Len(a) : a[i] \in S
  BY Elements
<1>3. Texted(tau, S) = [i \in 1 .. Len(a) |-> tau[a[i]]]
  BY <1>1, <1>2 DEF Texted
<1>4. \A i \in 1 .. Len(a) : tau[a[i]] \in Seq(V)
  BY <1>2 DEF Says
<1> DEFINE W == Seq(V)
           t == Texted(tau, S)
<1>5. t \in Seq(W) /\ Len(t) = Len(a) /\ \A i \in 1 .. Len(a) : t[i] = tau[a[i]]
  <2> HIDE DEF W, t
  <2> QED BY <1>2, <1>3, <1>4 DEF W, t
<1> QED BY <1>1, <1>2, <1>5

(* The wording of a set is a text.                                          *)
LEMMA WordingTyped ==
  ASSUME NEW V, NEW tau, NEW S, Says(tau, S, V)
  PROVE  Wording(tau, S) \in Seq(V)
BY TextedFacts, FlattenTyped DEF Wording

(* Only the texts of these places matter.                                   *)
LEMMA WordingAgrees ==
  ASSUME NEW tau, NEW rho, NEW S, S \subseteq Int, IsFiniteSet(S), \A x \in S : tau[x] = rho[x]
  PROVE  Wording(tau, S) = Wording(rho, S)
<1>1. InOrder(S) \in Seq(S)
  BY InOrderFacts
<1>2. \A i \in DOMAIN InOrder(S) : InOrder(S)[i] \in S
  BY <1>1
<1>3. Texted(tau, S) = Texted(rho, S)
  BY <1>2 DEF Texted
<1> QED BY <1>3 DEF Wording

(* The wording of no place is empty.                                        *)
LEMMA WordingNone ==
  ASSUME NEW tau
  PROVE  Wording(tau, {}) = << >>
<1>1. InOrder({}) \in Seq({})
  BY InOrderFacts, FS_EmptySet
<1>2. InOrder({}) = << >>
  BY <1>1
<1>3. Texted(tau, {}) = << >>
  BY <1>2 DEF Texted
<1> QED BY <1>3, FlattenNone DEF Wording

(* The wording of one place is its text.                                    *)
LEMMA WordingOne ==
  ASSUME NEW V, NEW tau, NEW x \in Int, tau[x] \in Seq(V)
  PROVE  Wording(tau, {x}) = tau[x]
<1> DEFINE s == <<x>>
           t == <<tau[x]>>
           F == [i \in 0 .. 1 |-> IF i = 0 THEN << >> ELSE tau[x]]
<1>1. s \in Seq({x}) /\ ToSet(s) = {x} /\ Rising(s) /\ {x} \subseteq Int
  BY DEF ToSet, Rising
<1>2. s = InOrder({x})
  <2> HIDE DEF s
  <2> QED BY <1>1, InOrderIsUnique
<1>3. Texted(tau, {x}) = t
  <2>1. DOMAIN s = 1 .. 1 /\ s[1] = x
    OBVIOUS
  <2>2. [i \in DOMAIN s |-> tau[s[i]]] = [i \in 1 .. 1 |-> tau[x]]
    BY <2>1
  <2>3. t = [i \in 1 .. 1 |-> tau[x]]
    OBVIOUS
  <2> HIDE DEF s, t
  <2> QED BY <1>2, <2>2, <2>3 DEF Texted
<1>4. t \in Seq(Seq(V)) /\ Len(t) = 1 /\ t[1] = tau[x]
  OBVIOUS
<1>5. << >> \o tau[x] = tau[x]
  BY ConcatFacts
<1>6. Runs(F, t)
  BY <1>5 DEF Runs
<1>7. FlattenSeq(t) = F[1]
  <2> HIDE DEF t, F
  <2> QED BY <1>4, <1>6, FlattenIs
<1> QED BY <1>3, <1>7 DEF Wording

(* Two sets, all of the first before all of the second.                     *)
LEMMA WordingSplits ==
  ASSUME NEW V, NEW tau, NEW S, Says(tau, S, V), NEW T, Says(tau, T, V), Precedes(S, T)
  PROVE  /\ Says(tau, S \cup T, V)
         /\ Wording(tau, S \cup T) = Wording(tau, S) \o Wording(tau, T)
<1>1. Says(tau, S \cup T, V)
  <2>1. IsFiniteSet(S \cup T)
    BY FS_Union DEF Says
  <2> QED BY <2>1 DEF Says
<1>2. InOrder(S \cup T) = InOrder(S) \o InOrder(T)
  BY InOrderSplits DEF Says
<1> DEFINE W == Seq(V)
           a == Texted(tau, S)
           b == Texted(tau, T)
           c == Texted(tau, S \cup T)
<1>3. PICK m, n \in Nat : m = Len(InOrder(S)) /\ n = Len(InOrder(T))
  BY TextedFacts
<1>4. /\ a \in Seq(W) /\ Len(a) = m /\ \A i \in 1 .. m : a[i] = tau[InOrder(S)[i]]
      /\ b \in Seq(W) /\ Len(b) = n /\ \A i \in 1 .. n : b[i] = tau[InOrder(T)[i]]
  BY <1>3, TextedFacts
<1>5. /\ Len(InOrder(S \cup T)) = m + n
      /\ \A i \in 1 .. m : InOrder(S \cup T)[i] = InOrder(S)[i]
      /\ \A i \in 1 .. n : InOrder(S \cup T)[m + i] = InOrder(T)[i]
  <2>1. PICK p \in Seq(Int), q \in Seq(Int) : p = InOrder(S) /\ q = InOrder(T)
    BY InOrderFacts, WiderSeq DEF Says
  <2>2. /\ Len(p \o q) = m + n
        /\ \A i \in 1 .. m : (p \o q)[i] = p[i]
        /\ \A i \in 1 .. n : (p \o q)[m + i] = q[i]
    BY <1>3, <2>1, ConcatFacts
  <2> QED BY <1>2, <2>1, <2>2
<1>6. c \in Seq(W) /\ Len(c) = m + n /\ \A i \in 1 .. m + n : c[i] = tau[InOrder(S \cup T)[i]]
  <2> DEFINE R == S \cup T
             o == InOrder(R)
  <2>1. /\ Texted(tau, R) \in Seq(Seq(V)) /\ Len(Texted(tau, R)) = Len(o)
        /\ \A i \in 1 .. Len(o) : Texted(tau, R)[i] = tau[o[i]]
    <3>1. Says(tau, R, V)
      BY <1>1
    <3> HIDE DEF R
    <3> QED BY <3>1, TextedFacts
  <2>2. Len(o) = m + n
    BY <1>5
  <2>3. c = Texted(tau, R)
    OBVIOUS
  <2> HIDE DEF R, o, c
  <2> QED BY <2>1, <2>2, <2>3 DEF o, R
<1> HIDE DEF a, b, c, W
<1>7. /\ a \o b \in Seq(W) /\ Len(a \o b) = m + n
      /\ \A i \in 1 .. m : (a \o b)[i] = a[i]
      /\ \A i \in 1 .. n : (a \o b)[m + i] = b[i]
  <2>1. a \in Seq(W) /\ b \in Seq(W) /\ Len(a) = m /\ Len(b) = n
    BY <1>4
  <2>2. JoinIs(W, a, b, m, n)
    BY <2>1, ConcatIs
  <2> QED BY <2>2 DEF JoinIs
<1>8. ASSUME NEW i \in 1 .. m + n PROVE c[i] = (a \o b)[i]
  <2>1. c[i] = tau[InOrder(S \cup T)[i]]
    BY <1>6
  <2>2. CASE i <= m
    <3>1. i \in 1 .. m
      BY <2>2
    <3>2. InOrder(S \cup T)[i] = InOrder(S)[i]
      BY <1>5, <3>1
    <3>3. (a \o b)[i] = tau[InOrder(S)[i]]
      BY <1>4, <1>7, <3>1
    <3> QED BY <2>1, <3>2, <3>3
  <2>3. CASE ~(i <= m)
    <3>1. i - m \in 1 .. n /\ i = m + (i - m)
      BY <2>3
    <3>2. PICK j \in 1 .. n : i = m + j
      BY <3>1
    <3>3. InOrder(S \cup T)[i] = InOrder(T)[j]
      BY <1>5, <3>2
    <3>4. (a \o b)[i] = tau[InOrder(T)[j]]
      BY <1>4, <1>7, <3>2
    <3> QED BY <2>1, <3>3, <3>4
  <2> QED BY <2>2, <2>3
<1>9. c = a \o b
  BY <1>6, <1>7, <1>8, SameSeq
<1>10. FlattenSeq(a \o b) = FlattenSeq(a) \o FlattenSeq(b)
  BY <1>4, FlattenConcat DEF W
<1> QED BY <1>1, <1>9, <1>10 DEF Wording, a, b, c

(* The same as one fact of all sets.                                        *)
LEMMA WordingJoins ==
  ASSUME NEW V, NEW tau
  PROVE  \A X, Y : Says(tau, X, V) /\ Says(tau, Y, V) /\ Precedes(X, Y)
                   => Wording(tau, X \cup Y) = Wording(tau, X) \o Wording(tau, Y)
<1> SUFFICES ASSUME NEW X, NEW Y, Says(tau, X, V), Says(tau, Y, V), Precedes(X, Y)
             PROVE  Wording(tau, X \cup Y) = Wording(tau, X) \o Wording(tau, Y)
  OBVIOUS
<1> QED BY WordingSplits

(* Texts of sets that come one after the other.                             *)
Parts(S, k) ==
  \A i, j \in 1 .. k : i < j => Precedes(S[i], S[j])

Together(S, k) == UNION {S[i] : i \in 1 .. k}

Pieces(tau, t, S, V) ==
  /\ t \in Seq(Seq(V))
  /\ \A i \in 1 .. Len(t) : Says(tau, S[i], V) /\ t[i] = Wording(tau, S[i])

LEMMA WordingParts ==
  ASSUME NEW V, NEW tau, NEW t, NEW S, Parts(S, Len(t)), Pieces(tau, t, S, V)
  PROVE  Says(tau, Together(S, Len(t)), V) /\ FlattenSeq(t) = Wording(tau, Together(S, Len(t)))
<1> DEFINE n == Len(t)
           U(k) == UNION {S[i] : i \in 1 .. k}
           F == [k \in 0 .. n |-> Wording(tau, U(k))]
<1>1. n \in Nat
  BY DEF Pieces
<1>2. U(0) = {}
  OBVIOUS
<1>3. ASSUME NEW k \in 1 .. n PROVE U(k) = U(k - 1) \cup S[k]
  <2>1. \A x : x \in U(k) <=> \E i \in 1 .. k : x \in S[i]
    OBVIOUS
  <2>2. \A x : x \in U(k - 1) <=> \E i \in 1 .. k - 1 : x \in S[i]
    OBVIOUS
  <2>3. \A i : i \in 1 .. k <=> i \in 1 .. k - 1 \/ i = k
    BY <1>1
  <2> HIDE DEF U
  <2> QED BY <2>1, <2>2, <2>3
<1>4. ASSUME NEW k \in 1 .. n, Says(tau, U(k - 1), V)
      PROVE  Says(tau, U(k), V) /\ Wording(tau, U(k)) = Wording(tau, U(k - 1)) \o t[k]
  <2>1. Precedes(U(k - 1), S[k])
    <3> SUFFICES ASSUME NEW i \in 1 .. k - 1, NEW x \in S[i], NEW y \in S[k] PROVE x < y
      BY DEF Precedes
    <3>1. i \in 1 .. n /\ i < k
      BY <1>1
    <3> QED BY <3>1 DEF Parts, Precedes
  <2> HIDE DEF U
  <2>2. Says(tau, S[k], V) /\ t[k] = Wording(tau, S[k])
    BY DEF Pieces
  <2>3. /\ Says(tau, U(k - 1) \cup S[k], V)
        /\ Wording(tau, U(k - 1) \cup S[k]) = Wording(tau, U(k - 1)) \o Wording(tau, S[k])
    <3>1. PICK A, B : A = U(k - 1) /\ B = S[k]
      OBVIOUS
    <3>2. Says(tau, A, V) /\ Says(tau, B, V) /\ Precedes(A, B)
      BY <1>4, <2>1, <2>2, <3>1
    <3>3. Says(tau, A \cup B, V)
      BY <3>2, WordingSplits
    <3>4. Wording(tau, A \cup B) = Wording(tau, A) \o Wording(tau, B)
      BY <3>2, WordingJoins
    <3> QED BY <3>1, <3>3, <3>4
  <2> QED BY <1>3, <2>2, <2>3
<1> HIDE DEF U
<1>5. \A k \in 0 .. n : Says(tau, U(k), V)
  <2> DEFINE T == {k \in 0 .. n : ~Says(tau, U(k), V)}
  <2>1. SUFFICES ASSUME T # {} PROVE FALSE
    OBVIOUS
  <2>2. PICK k \in T : \A y \in T : k <= y
    <3>1. T \subseteq Nat
      BY <1>1
    <3> HIDE DEF T
    <3> QED BY <2>1, <3>1, LeastOf
  <2>3. k # 0
    <3>1. Says(tau, {}, V)
      BY FS_EmptySet DEF Says
    <3> QED BY <1>2, <3>1
  <2>4. k \in 1 .. n /\ k - 1 \in 0 .. n /\ ~(k <= k - 1)
    BY <1>1, <2>3
  <2>5. Says(tau, U(k - 1), V)
    BY <2>2, <2>4
  <2>6. Says(tau, U(k), V)
    BY <1>4, <2>4, <2>5
  <2> QED BY <2>6
<1>6. F[0] = << >>
  <2>1. F[0] = Wording(tau, U(0))
    BY <1>1
  <2> QED BY <1>2, <2>1, WordingNone
<1>7. ASSUME NEW k \in 1 .. n PROVE F[k] = F[k - 1] \o t[k]
  <2>1. k \in 0 .. n /\ k - 1 \in 0 .. n
    BY <1>1
  <2> QED BY <1>4, <1>5, <2>1
<1>8. Runs(F, t)
  <2> HIDE DEF F
  <2> QED BY <1>6, <1>7 DEF Runs
<1>9. FlattenSeq(t) = F[n]
  <2> HIDE DEF F
  <2> QED BY <1>8, FlattenIs DEF Pieces
<1>10. n \in 0 .. n
  BY <1>1
<1> QED BY <1>5, <1>9, <1>10 DEF U, Together

-----------------------------------------------------------------------------
(***************************************************************************)
(* Trees in preorder: the subtrees of children come one after the other.    *)
(***************************************************************************)
(* The subtrees of K come one after the other, and so do those of the       *)
(* children of every node in a tree in preorder.                            *)
Sorted(nodes, K) ==
  /\ K \in Seq(DOMAIN nodes)
  /\ \A i, j \in 1 .. Len(K) : i < j => Precedes(NodesOf(nodes, K[i]), NodesOf(nodes, K[j]))

Ordered(nodes, k) ==
  /\ k \in Nat /\ HeapFits(nodes, k)
  /\ \A m \in DOMAIN nodes : /\ Sorted(nodes, nodes[m].kids)
                             /\ nodes[m].terminal => nodes[m].kids = << >>

LeavesOf(nodes, m) == {x \in NodesOf(nodes, m) : nodes[x].terminal}

(* A node below another comes after it.                                     *)
LEMMA NodesFollow ==
  ASSUME NEW k \in Nat, NEW nodes, HeapFits(nodes, k), NEW m \in DOMAIN nodes,
         NEW x \in NodesOf(nodes, m)
  PROVE  x \in Int /\ m \in Int /\ x >= m
<1> DEFINE C == {y \in DOMAIN nodes : y >= m}
<1>1. \A y \in C : \A c \in KidsOf(nodes, y) : c \in C
  <2> SUFFICES ASSUME NEW y \in C, NEW c \in KidsOf(nodes, y) PROVE c \in C
    OBVIOUS
  <2>1. c \in DOMAIN nodes /\ c > y /\ c \in Int /\ y \in Int /\ y >= m /\ m \in Int
    BY DEF HeapFits
  <2> QED BY <2>1
<1>2. C \in SUBSET DOMAIN nodes /\ m \in C /\ m \in Int /\ \A y \in C : y \in Int /\ y >= m
  BY DEF HeapFits
<1> HIDE DEF C
<1>3. ClosedIn(nodes, C)
  BY <1>1 DEF ClosedIn
<1>4. NodesOf(nodes, m) \subseteq C
  BY <1>2, <1>3, NodesWithin
<1> QED BY <1>2, <1>4

(* No node of a subtree comes before its root.                              *)
LEMMA NodesFrom ==
  ASSUME NEW k, NEW nodes, Ordered(nodes, k), NEW m \in DOMAIN nodes, NEW x \in NodesOf(nodes, m)
  PROVE  /\ x \in DOMAIN nodes /\ x \in Int /\ m \in Int /\ x \in 0 .. k /\ x >= m
         /\ NodesOf(nodes, x) \subseteq NodesOf(nodes, m)
         /\ x # m => \E i \in 1 .. Len(nodes[m].kids) :
                       nodes[m].kids[i] \in DOMAIN nodes /\ x \in NodesOf(nodes, nodes[m].kids[i])
<1>1. k \in Nat /\ HeapFits(nodes, k)
  BY DEF Ordered
<1>2. x \in DOMAIN nodes /\ m \in NodesOf(nodes, m) /\ ClosedIn(nodes, NodesOf(nodes, m))
      /\ NodesOf(nodes, m) \subseteq DOMAIN nodes
  BY <1>1, NodesClosed
<1>3. x \in Int /\ m \in Int /\ x \in 0 .. k
  BY <1>1, <1>2 DEF HeapFits
<1>4. x >= m
  BY <1>1, NodesFollow
<1>5. NodesOf(nodes, x) \subseteq NodesOf(nodes, m)
  <2>1. NodesOf(nodes, m) \in SUBSET DOMAIN nodes
    BY <1>2
  <2> QED BY <1>1, <1>2, <2>1, NodesWithin
<1>6. ASSUME x # m
      PROVE  \E i \in 1 .. Len(nodes[m].kids) :
               nodes[m].kids[i] \in DOMAIN nodes /\ x \in NodesOf(nodes, nodes[m].kids[i])
  <2>1. NodesOf(nodes, m) = {m} \cup UNION {NodesOf(nodes, c) : c \in KidsOf(nodes, m)}
    BY <1>1, NodesUnfold DEF HeapFits, Linked
  <2>2. PICK c \in KidsOf(nodes, m) : x \in NodesOf(nodes, c)
    BY <1>6, <2>1
  <2>3. PICK K \in Seq(DOMAIN nodes) : K = nodes[m].kids
    BY <1>1 DEF HeapFits
  <2>4. Len(K) \in Nat /\ DOMAIN K = 1 .. Len(K) /\ \A i \in DOMAIN K : K[i] \in DOMAIN nodes
    BY <2>3, Elements
  <2>5. PICK i \in DOMAIN K : K[i] = c
    BY <2>2, <2>3 DEF KidsOf, ToSet
  <2> QED BY <2>2, <2>3, <2>4, <2>5
<1> QED BY <1>2, <1>3, <1>4, <1>5, <1>6

(* The children of a node.                                                  *)
LEMMA KidsFacts ==
  ASSUME NEW k, NEW nodes, Ordered(nodes, k), NEW m \in DOMAIN nodes, NEW K, K = nodes[m].kids
  PROVE  /\ Sorted(nodes, K) /\ K \in Seq(DOMAIN nodes) /\ Len(K) \in Nat /\ DOMAIN K = 1 .. Len(K)
         /\ m \in NodesOf(nodes, m) /\ NodesOf(nodes, m) \subseteq DOMAIN nodes
         /\ \A i \in 1 .. Len(K) :
              /\ K[i] \in DOMAIN nodes /\ K[i] > m /\ K[i] \in Int /\ m \in Int
              /\ K[i] \in NodesOf(nodes, K[i])
              /\ NodesOf(nodes, K[i]) \subseteq NodesOf(nodes, m)
         /\ \A i, j \in 1 .. Len(K) :
              i # j => NodesOf(nodes, K[i]) \cap NodesOf(nodes, K[j]) = {}
         /\ NodesOf(nodes, m) = {m} \cup UNION {NodesOf(nodes, K[i]) : i \in 1 .. Len(K)}
<1>1. k \in Nat /\ HeapFits(nodes, k) /\ Sorted(nodes, K) /\ K \in Seq(DOMAIN nodes)
  BY DEF Ordered, HeapFits
<1>2. Len(K) \in Nat /\ DOMAIN K = 1 .. Len(K) /\ \A i \in DOMAIN K : K[i] \in DOMAIN nodes
  BY <1>1, Elements
<1>3. m \in NodesOf(nodes, m) /\ NodesOf(nodes, m) \subseteq DOMAIN nodes
      /\ ClosedIn(nodes, NodesOf(nodes, m))
  BY <1>1, NodesClosed
<1>4. ASSUME NEW i \in 1 .. Len(K)
      PROVE  /\ K[i] \in DOMAIN nodes /\ K[i] > m /\ K[i] \in Int /\ m \in Int
             /\ K[i] \in NodesOf(nodes, K[i]) /\ NodesOf(nodes, K[i]) \subseteq NodesOf(nodes, m)
  <2>1. K[i] \in DOMAIN nodes /\ K[i] \in KidsOf(nodes, m)
    BY <1>2 DEF KidsOf, ToSet
  <2>2. K[i] \in NodesOf(nodes, m)
    BY <1>3, <2>1 DEF ClosedIn
  <2>3. K[i] \in NodesOf(nodes, K[i])
    BY <1>1, <2>1, NodesClosed
  <2>4. K[i] > m /\ K[i] \in Int /\ m \in Int
    BY <1>1, <2>1 DEF HeapFits
  <2>5. NodesOf(nodes, K[i]) \subseteq NodesOf(nodes, m)
    BY <2>2, NodesFrom
  <2> QED BY <2>1, <2>3, <2>4, <2>5
<1>5. ASSUME NEW i \in 1 .. Len(K), NEW j \in 1 .. Len(K), i # j,
             NEW x \in NodesOf(nodes, K[i]), x \in NodesOf(nodes, K[j])
      PROVE  FALSE
  <2>1. x \in Int
    BY <1>4, NodesFrom
  <2>2. i < j \/ j < i
    BY <1>2, <1>5
  <2>3. x < x
    BY <1>1, <1>5, <2>2 DEF Sorted, Precedes
  <2> QED BY <2>1, <2>3
<1>6. NodesOf(nodes, m) = {m} \cup UNION {NodesOf(nodes, K[i]) : i \in 1 .. Len(K)}
  <2>1. NodesOf(nodes, m) = {m} \cup UNION {NodesOf(nodes, c) : c \in KidsOf(nodes, m)}
    BY <1>1, NodesUnfold DEF HeapFits, Linked
  <2>2. KidsOf(nodes, m) = {K[i] : i \in 1 .. Len(K)}
    BY <1>2 DEF KidsOf, ToSet
  <2> QED BY <2>1, <2>2
<1> QED BY <1>1, <1>2, <1>3, <1>4, <1>5, <1>6

(* A terminal is its own leaf; the others have those of their children.     *)
LEMMA LeavesUnfold ==
  ASSUME NEW k, NEW nodes, Ordered(nodes, k), NEW m \in DOMAIN nodes, NEW K, K = nodes[m].kids
  PROVE  /\ LeavesOf(nodes, m) \subseteq NodesOf(nodes, m)
         /\ nodes[m].terminal => LeavesOf(nodes, m) = {m}
         /\ ~nodes[m].terminal => LeavesOf(nodes, m) = UNION {LeavesOf(nodes, K[i]) : i \in 1 .. Len(K)}
<1>1. NodesOf(nodes, m) = {m} \cup UNION {NodesOf(nodes, K[i]) : i \in 1 .. Len(K)}
  BY KidsFacts
<1>2. ASSUME nodes[m].terminal PROVE LeavesOf(nodes, m) = {m}
  <2>1. K = << >>
    BY <1>2 DEF Ordered
  <2>2. NodesOf(nodes, m) = {m}
    BY <1>1, <2>1
  <2> QED BY <1>2, <2>2 DEF LeavesOf
<1>3. ASSUME ~nodes[m].terminal
      PROVE  LeavesOf(nodes, m) = UNION {LeavesOf(nodes, K[i]) : i \in 1 .. Len(K)}
  <2>1. \A x : x \in NodesOf(nodes, m)
                 <=> x = m \/ \E i \in 1 .. Len(K) : x \in NodesOf(nodes, K[i])
    BY <1>1
  <2>2. \A x : x \in LeavesOf(nodes, m)
                 <=> \E i \in 1 .. Len(K) : x \in NodesOf(nodes, K[i]) /\ nodes[x].terminal
    BY <1>3, <2>1 DEF LeavesOf
  <2>3. \A x : x \in UNION {LeavesOf(nodes, K[i]) : i \in 1 .. Len(K)}
                 <=> \E i \in 1 .. Len(K) : x \in NodesOf(nodes, K[i]) /\ nodes[x].terminal
    BY DEF LeavesOf
  <2> QED BY <2>2, <2>3
<1> QED BY <1>2, <1>3 DEF LeavesOf

(* A subtree has everything from its root to its last node.                 *)
LEMMA NodesBetween ==
  ASSUME NEW k, NEW nodes, Ordered(nodes, k), NEW r \in DOMAIN nodes,
         NEW n \in NodesOf(nodes, r), NEW x \in NodesOf(nodes, r), NEW y \in NodesOf(nodes, n),
         n <= x, x <= y
  PROVE  x \in NodesOf(nodes, n)
<1> SUFFICES ASSUME x \notin NodesOf(nodes, n) PROVE FALSE
  OBVIOUS
<1> DEFINE T == {m \in DOMAIN nodes : n \in NodesOf(nodes, m) /\ x \in NodesOf(nodes, m)}
<1>1. k \in Nat /\ T \subseteq 0 .. k /\ T # {}
  BY DEF Ordered, HeapFits
<1>2. PICK m \in T : \A z \in T : z <= m
  <2> HIDE DEF T
  <2> QED BY <1>1, GreatestOf
<1>3. m \in DOMAIN nodes /\ n \in NodesOf(nodes, m) /\ x \in NodesOf(nodes, m)
  OBVIOUS
<1>4. n \in DOMAIN nodes /\ n \in Int /\ x \in Int /\ m \in Int /\ n >= m /\ y \in Int
  <2>1. n \in DOMAIN nodes /\ n \in Int /\ x \in Int /\ m \in Int /\ n >= m
    BY <1>3, NodesFrom
  <2>2. y \in Int
    BY <2>1, NodesFrom
  <2> QED BY <2>1, <2>2
<1>5. x # m /\ n # m
  <2>1. x = m => x = n
    BY <1>4
  <2>2. n \in NodesOf(nodes, n)
    BY <1>4, KidsFacts
  <2> QED BY <1>3, <2>1, <2>2
<1> DEFINE K == nodes[m].kids
<1>6. PICK i \in 1 .. Len(K) : n \in NodesOf(nodes, K[i])
  BY <1>3, <1>5, NodesFrom
<1>7. PICK j \in 1 .. Len(K) : x \in NodesOf(nodes, K[j])
  BY <1>3, <1>5, NodesFrom
<1>8. Sorted(nodes, K) /\ Len(K) \in Nat /\ K[i] \in DOMAIN nodes /\ K[i] > m /\ K[i] \in Int
  BY <1>3, KidsFacts
<1>9. y \in NodesOf(nodes, K[i])
  BY <1>6, <1>8, NodesFrom
<1> HIDE DEF K
<1>10. CASE i = j
  <2>1. K[i] \in T
    BY <1>6, <1>7, <1>8, <1>10
  <2>2. K[i] <= m
    BY <1>2, <2>1
  <2> QED BY <1>4, <1>8, <2>2
<1>11. CASE i < j
  <2>1. y < x
    BY <1>7, <1>8, <1>9, <1>11 DEF Sorted, Precedes
  <2> QED BY <1>4, <2>1
<1>12. CASE j < i
  <2>1. x < n
    BY <1>6, <1>7, <1>8, <1>12 DEF Sorted, Precedes
  <2> QED BY <1>4, <2>1
<1> QED BY <1>8, <1>10, <1>11, <1>12

(* The subtrees of the i-th to the l-th child.                              *)
Block(nodes, K, i, l) == UNION {NodesOf(nodes, K[j]) : j \in i .. l}

(* Blocks lie below their parent, from their first root to the next child.  *)
LEMMA BlockFacts ==
  ASSUME NEW k, NEW nodes, Ordered(nodes, k), NEW u \in DOMAIN nodes, NEW K, K = nodes[u].kids,
         NEW i \in 1 .. Len(K), NEW l \in i .. Len(K)
  PROVE  /\ Block(nodes, K, i, l) \subseteq NodesOf(nodes, u) /\ u \notin Block(nodes, K, i, l)
         /\ K[i] \in Block(nodes, K, i, l)
         /\ \A x \in Block(nodes, K, i, l) : x \in Int /\ x >= K[i]
         /\ \A x \in Block(nodes, K, i, l) : \A j \in l + 1 .. Len(K) : x < K[j]
<1> DEFINE B == Block(nodes, K, i, l)
<1>1. /\ Sorted(nodes, K) /\ Len(K) \in Nat
      /\ \A j \in 1 .. Len(K) : /\ K[j] \in DOMAIN nodes /\ K[j] > u /\ K[j] \in Int /\ u \in Int
                                /\ K[j] \in NodesOf(nodes, K[j])
                                /\ NodesOf(nodes, K[j]) \subseteq NodesOf(nodes, u)
  BY KidsFacts
<1>2. \A j \in i .. l : j \in 1 .. Len(K) /\ j \in Int /\ i \in Int /\ (i = j \/ i < j)
  BY <1>1
<1>3. i \in i .. l /\ l \in Int
  BY <1>1
<1>4. \A x : x \in B <=> \E j \in i .. l : x \in NodesOf(nodes, K[j])
  BY DEF Block
<1> HIDE DEF B
<1>5. B \subseteq NodesOf(nodes, u) /\ K[i] \in B
  BY <1>1, <1>2, <1>3, <1>4
<1>6. ASSUME NEW x \in B PROVE x \in Int /\ x >= K[i] /\ x > u
  <2>1. PICK j \in i .. l : x \in NodesOf(nodes, K[j])
    BY <1>4
  <2>2. j \in 1 .. Len(K) /\ (i = j \/ i < j)
    BY <1>2
  <2>3. K[j] \in DOMAIN nodes /\ K[i] \in Int /\ K[i] > u /\ u \in Int /\ K[i] \in NodesOf(nodes, K[i])
    BY <1>1, <2>2
  <2>4. x \in Int /\ x >= K[j]
    BY <2>1, <2>3, NodesFrom
  <2>5. i < j => K[i] < x
    BY <1>1, <2>1, <2>2, <2>3 DEF Sorted, Precedes
  <2> QED BY <2>2, <2>3, <2>4, <2>5
<1>7. u \notin B
  <2> SUFFICES ASSUME u \in B PROVE FALSE
    OBVIOUS
  <2>1. u > u /\ u \in Int
    BY <1>6
  <2> QED BY <2>1
<1>8. ASSUME NEW x \in B, NEW m \in l + 1 .. Len(K) PROVE x < K[m]
  <2>1. PICK j \in i .. l : x \in NodesOf(nodes, K[j])
    BY <1>4
  <2>2. j \in 1 .. Len(K) /\ m \in 1 .. Len(K) /\ j < m
    BY <1>1, <1>2, <1>3
  <2>3. K[m] \in NodesOf(nodes, K[m])
    BY <1>1, <2>2
  <2> QED BY <1>1, <2>1, <2>2, <2>3 DEF Sorted, Precedes
<1> QED BY <1>5, <1>6, <1>7, <1>8 DEF B

(* They have everything from the first root to the last node.               *)
LEMMA BlockBetween ==
  ASSUME NEW k, NEW nodes, Ordered(nodes, k), NEW r \in DOMAIN nodes, NEW u \in NodesOf(nodes, r),
         NEW K, K = nodes[u].kids, NEW i \in 1 .. Len(K), NEW l \in i .. Len(K),
         NEW x \in NodesOf(nodes, r), NEW y \in Block(nodes, K, i, l), K[i] <= x, x <= y
  PROVE  x \in Block(nodes, K, i, l)
<1>1. u \in DOMAIN nodes
  BY NodesFrom
<1>2. /\ y \in NodesOf(nodes, u) /\ y \in Int /\ Len(K) \in Nat
      /\ K[i] > u /\ K[i] \in Int /\ u \in Int /\ x \in Int
  BY <1>1, BlockFacts, KidsFacts, NodesFrom
<1>3. x \in NodesOf(nodes, u) /\ x # u
  <2>1. u <= x /\ x # u
    BY <1>2
  <2>2. x \in NodesOf(nodes, u)
    BY <1>2, <2>1, NodesBetween
  <2> QED BY <2>1, <2>2
<1>4. PICK j \in 1 .. Len(K) : x \in NodesOf(nodes, K[j])
  BY <1>1, <1>3, NodesFrom
<1>5. Sorted(nodes, K) /\ K[i] \in NodesOf(nodes, K[i]) /\ K[j] \in DOMAIN nodes
  BY <1>1, KidsFacts
<1>6. ~(j < i)
  <2> SUFFICES ASSUME j < i PROVE FALSE
    OBVIOUS
  <2>1. x < K[i]
    BY <1>4, <1>5 DEF Sorted, Precedes
  <2> QED BY <1>2, <2>1
<1>7. ~(j > l)
  <2> SUFFICES ASSUME j > l PROVE FALSE
    OBVIOUS
  <2>1. j \in l + 1 .. Len(K)
    BY <1>2
  <2>2. y < K[j]
    BY <1>1, <2>1, BlockFacts
  <2>3. x >= K[j] /\ K[j] \in Int
    BY <1>4, <1>5, NodesFrom
  <2> QED BY <1>2, <2>2, <2>3
<1>8. j \in i .. l
  BY <1>2, <1>6, <1>7
<1> QED BY <1>4, <1>8 DEF Block

-----------------------------------------------------------------------------
(***************************************************************************)
(* The text of a tree is the only one that fits all its nodes.              *)
(***************************************************************************)
(* Children have smaller ranks; E has for each node the text that those of  *)
(* its children make up.                                                    *)
Ranked(nodes, rank) ==
  \A m \in DOMAIN nodes :
    /\ rank[m] \in Nat
    /\ \A i \in DOMAIN nodes[m].kids :
         nodes[m].kids[i] \in DOMAIN nodes /\ rank[nodes[m].kids[i]] < rank[m]

Solves(nodes, E) == \A m \in DOMAIN nodes : E[m] = TextFrom(nodes, E, m)

(* Two texts that fit all nodes are the same.                               *)
LEMMA SolvedOnce ==
  ASSUME NEW nodes, NEW rank, Ranked(nodes, rank), NEW E, Solves(nodes, E), NEW F, Solves(nodes, F),
         NEW m \in DOMAIN nodes
  PROVE  E[m] = F[m]
<1> DEFINE D == DOMAIN nodes
           T == {r \in Nat : \E x \in D : rank[x] = r /\ E[x] # F[x]}
<1>1. SUFFICES ASSUME E[m] # F[m] PROVE FALSE
  OBVIOUS
<1>2. T \subseteq Nat /\ T # {}
  <2>1. rank[m] \in Nat
    BY DEF Ranked
  <2> QED BY <1>1, <2>1
<1>3. PICK r \in T : \A y \in T : r <= y
  <2> HIDE DEF T
  <2> QED BY <1>2, LeastOf
<1>4. PICK x \in D : rank[x] = r /\ E[x] # F[x]
  OBVIOUS
<1> DEFINE K == nodes[x].kids
<1>5. ASSUME NEW i \in DOMAIN K PROVE E[K[i]] = F[K[i]]
  <2>1. K[i] \in D /\ rank[K[i]] \in Nat /\ rank[K[i]] < r /\ r \in Nat
    BY <1>4 DEF Ranked
  <2>2. rank[K[i]] \notin T
    <3> SUFFICES ASSUME rank[K[i]] \in T PROVE FALSE
      OBVIOUS
    <3>1. r <= rank[K[i]]
      <4> HIDE DEF T
      <4> QED BY <1>3
    <3> QED BY <2>1, <3>1
  <2> QED BY <2>1, <2>2
<1>6. [i \in DOMAIN K |-> E[K[i]]] = [i \in DOMAIN K |-> F[K[i]]]
  BY <1>5
<1>7. TextFrom(nodes, E, x) = TextFrom(nodes, F, x)
  BY <1>6 DEF TextFrom
<1> HIDE DEF T
<1> QED BY <1>4, <1>7 DEF Solves

(* TextOf is the text that fits.                                            *)
LEMMA TextIs ==
  ASSUME NEW nodes, NEW rank, Ranked(nodes, rank), NEW E, Solves(nodes, E), NEW n \in DOMAIN nodes
  PROVE  TextOf(nodes, n) = E[n]
<1> DEFINE D == DOMAIN nodes
           text == CHOOSE f : f = [m \in D |-> TextFrom(nodes, f, m)]
<1>1. \E h : h = [m \in D |-> TextFrom(nodes, h, m)]
  <2> DEFINE h == [m \in D |-> E[m]]
  <2>1. ASSUME NEW m \in D PROVE E[m] = TextFrom(nodes, h, m)
    <3>1. \A i \in DOMAIN nodes[m].kids : nodes[m].kids[i] \in D
      BY DEF Ranked
    <3>2. [i \in DOMAIN nodes[m].kids |-> E[nodes[m].kids[i]]]
          = [i \in DOMAIN nodes[m].kids |-> h[nodes[m].kids[i]]]
      BY <3>1
    <3>3. TextFrom(nodes, E, m) = TextFrom(nodes, h, m)
      BY <3>2 DEF TextFrom
    <3> HIDE DEF h
    <3> QED BY <3>3 DEF Solves
  <2>2. h = [m \in D |-> TextFrom(nodes, h, m)]
    BY <2>1
  <2> HIDE DEF h
  <2> QED BY <2>2
<1>2. text = [m \in D |-> TextFrom(nodes, text, m)]
  <2> DEFINE Q(f_) == f_ = [m \in D |-> TextFrom(nodes, f_, m)]
  <2>1. \E h : Q(h)
    BY <1>1
  <2>2. text = CHOOSE h : Q(h)
    OBVIOUS
  <2> HIDE DEF Q, text
  <2>3. Q(text)
    BY <2>1, <2>2, Zenon
  <2> QED BY <2>3 DEF Q
<1>3. \A m : TextOf(nodes, m) = text[m]
  BY Zenon DEF TextOf, TextFrom
<1> HIDE DEF text
<1>4. Solves(nodes, text)
  BY <1>2 DEF Solves
<1>5. text[n] = E[n]
  BY <1>4, SolvedOnce
<1> QED BY <1>3, <1>5

-----------------------------------------------------------------------------
(***************************************************************************)
(* The text of a tree is that of its terminals, in the order of their IDs.  *)
(***************************************************************************)
(* Each node has its name for a text.                                       *)
Plain(nodes) == [x \in DOMAIN nodes |-> <<nodes[x].name>>]

Names(nodes) == {nodes[x].name : x \in DOMAIN nodes}

TextAt(nodes, S) == LET ids == InOrder(S) IN [i \in DOMAIN ids |-> nodes[ids[i]].name]

(* Every node has its name for a text.                                      *)
LEMMA PlainSays ==
  ASSUME NEW k, NEW nodes, Ordered(nodes, k), NEW W, Names(nodes) \subseteq W,
         NEW S, S \subseteq DOMAIN nodes
  PROVE  Says(Plain(nodes), S, W)
<1>1. k \in Nat /\ DOMAIN nodes = 0 .. k - 1
  BY DEF Ordered, HeapFits
<1>2. IsFiniteSet(0 .. k - 1)
  BY <1>1, FS_Interval
<1>3. IsFiniteSet(S) /\ S \subseteq Int
  BY <1>1, <1>2, FS_Subset
<1>4. ASSUME NEW x \in S PROVE Plain(nodes)[x] \in Seq(W)
  <2>1. x \in DOMAIN nodes /\ nodes[x].name \in W
    BY DEF Names
  <2>2. <<nodes[x].name>> \in Seq(W)
    BY <2>1
  <2> QED BY <2>1, <2>2 DEF Plain
<1> QED BY <1>3, <1>4 DEF Says

(* The names in the order of the IDs are the wording of these nodes.        *)
LEMMA TextAtIsWording ==
  ASSUME NEW k, NEW nodes, Ordered(nodes, k), NEW S, S \subseteq DOMAIN nodes
  PROVE  TextAt(nodes, S) = Wording(Plain(nodes), S)
<1> DEFINE W == Names(nodes)
           t == Texted(Plain(nodes), S)
           s == TextAt(nodes, S)
<1>1. Says(Plain(nodes), S, W)
  BY PlainSays
<1>2. PICK a \in Seq(S) : a = InOrder(S)
  BY <1>1, InOrderFacts DEF Says
<1>3. PICK n \in Nat : n = Len(a) /\ DOMAIN a = 1 .. n /\ \A i \in 1 .. n : a[i] \in S
  BY Elements
<1>4. s = [i \in 1 .. n |-> nodes[a[i]].name]
  BY <1>2, <1>3 DEF TextAt
<1>5. \A i \in 1 .. n : a[i] \in DOMAIN nodes /\ nodes[a[i]].name \in W
  BY <1>3 DEF Names
<1>6. t \in Seq(Seq(W)) /\ Len(t) = n /\ \A i \in 1 .. n : t[i] = <<nodes[a[i]].name>>
  <2>1. t \in Seq(Seq(W)) /\ Len(t) = n /\ \A i \in 1 .. n : t[i] = Plain(nodes)[a[i]]
    <3> HIDE DEF W
    <3> QED BY <1>1, <1>2, <1>3, TextedFacts
  <2>2. \A i \in 1 .. n : Plain(nodes)[a[i]] = <<nodes[a[i]].name>>
    BY <1>5 DEF Plain
  <2> HIDE DEF t
  <2> QED BY <2>1, <2>2
<1> DEFINE F == [j \in 0 .. n |-> [i \in 1 .. j |-> nodes[a[i]].name]]
<1> HIDE DEF W, t
<1>7. ASSUME NEW j \in 1 .. n PROVE F[j] = F[j - 1] \o t[j]
  <2> DEFINE p == F[j - 1]
             q == F[j]
             x == nodes[a[j]].name
  <2>1. j \in 0 .. n /\ j - 1 \in 0 .. n /\ j - 1 \in Nat /\ j \in Nat
    BY <1>3
  <2>2. p = [i \in 1 .. j - 1 |-> nodes[a[i]].name] /\ q = [i \in 1 .. j |-> nodes[a[i]].name]
    BY <2>1
  <2>3. x \in W /\ t[j] = <<x>>
    BY <1>5, <1>6
  <2>4. \A i \in 1 .. j : nodes[a[i]].name \in W
    BY <1>3, <1>5
  <2>5. p \in Seq(W) /\ Len(p) = j - 1 /\ q \in Seq(W) /\ Len(q) = j
    <3> HIDE DEF p, q
    <3> QED BY <2>1, <2>2, <2>4
  <2>6. /\ p \o <<x>> \in Seq(W) /\ Len(p \o <<x>>) = j
        /\ \A i \in 1 .. j - 1 : (p \o <<x>>)[i] = p[i]
        /\ (p \o <<x>>)[j] = x
    <3>1. x \in W
      BY <2>3
    <3> HIDE DEF p, x
    <3> QED BY <2>1, <2>5, <3>1
  <2>7. ASSUME NEW i \in 1 .. j PROVE q[i] = (p \o <<x>>)[i]
    <3>1. q[i] = nodes[a[i]].name
      BY <2>2
    <3>2. CASE i = j
      BY <2>6, <3>1, <3>2
    <3>3. CASE i # j
      <4>1. i \in 1 .. j - 1
        BY <2>1, <3>3
      <4>2. p[i] = nodes[a[i]].name
        BY <2>2, <4>1
      <4> QED BY <2>6, <3>1, <4>1, <4>2
    <3> QED BY <3>2, <3>3
  <2>8. q = p \o <<x>>
    <3> HIDE DEF p, q, x
    <3> QED BY <2>5, <2>6, <2>7, SameSeq
  <2> QED BY <2>3, <2>8
<1>8. F[0] = << >>
  BY <1>3
<1>9. Runs(F, t)
  <2> HIDE DEF F
  <2> QED BY <1>6, <1>7, <1>8 DEF Runs
<1>10. FlattenSeq(t) = F[n]
  <2> HIDE DEF F
  <2> QED BY <1>6, <1>9, FlattenIs
<1>11. F[n] = s
  BY <1>3, <1>4
<1> QED BY <1>10, <1>11 DEF Wording, t

(* The subtrees of two children have nothing in common.                     *)
LEMMA KidsApart ==
  ASSUME NEW k, NEW nodes, Ordered(nodes, k), NEW m \in DOMAIN nodes,
         NEW i \in 1 .. Len(nodes[m].kids), NEW j \in 1 .. Len(nodes[m].kids), i # j
  PROVE  NodesOf(nodes, nodes[m].kids[i]) \cap NodesOf(nodes, nodes[m].kids[j]) = {}
BY KidsFacts

(* Texts of parts of the subtrees of the children, put together.            *)
Within(nodes, K, S) == \A i \in 1 .. Len(K) : S[i] \subseteq NodesOf(nodes, K[i])

LEMMA PiecesJoin ==
  ASSUME NEW nodes, NEW K, Sorted(nodes, K), NEW W, NEW tau, NEW t, NEW S, Pieces(tau, t, S, W),
         Len(t) = Len(K), Within(nodes, K, S)
  PROVE  Says(tau, Together(S, Len(K)), W) /\ FlattenSeq(t) = Wording(tau, Together(S, Len(K)))
<1>1. Parts(S, Len(t))
  <2> SUFFICES ASSUME NEW i \in 1 .. Len(K), NEW j \in 1 .. Len(K), i < j, NEW x \in S[i], NEW y \in S[j]
               PROVE  x < y
    BY DEF Parts, Precedes
  <2>1. x \in NodesOf(nodes, K[i]) /\ y \in NodesOf(nodes, K[j])
    BY DEF Within
  <2> QED BY <2>1 DEF Sorted, Precedes
<1> QED BY <1>1, WordingParts

(* Leaves are nodes.                                                        *)
LEMMA LeavesFacts ==
  ASSUME NEW k, NEW nodes, Ordered(nodes, k), NEW W, Names(nodes) \subseteq W, NEW m \in DOMAIN nodes
  PROVE  LeavesOf(nodes, m) \subseteq DOMAIN nodes /\ Says(Plain(nodes), LeavesOf(nodes, m), W)
<1>1. LeavesOf(nodes, m) \subseteq DOMAIN nodes
  BY LeavesUnfold, KidsFacts
<1> QED BY <1>1, PlainSays

(* The rank of a node when the children come after their parent.            *)
LEMMA OrderedRanked ==
  ASSUME NEW k, NEW nodes, Ordered(nodes, k)
  PROVE  Ranked(nodes, [m \in DOMAIN nodes |-> k - m])
<1> DEFINE rank == [m \in DOMAIN nodes |-> k - m]
<1> SUFFICES ASSUME NEW m \in DOMAIN nodes
             PROVE  /\ rank[m] \in Nat
                    /\ \A i \in DOMAIN nodes[m].kids :
                         /\ nodes[m].kids[i] \in DOMAIN nodes
                         /\ rank[nodes[m].kids[i]] < rank[m]
  BY DEF Ranked
<1>1. k \in Nat /\ m \in 0 .. k - 1 /\ rank[m] = k - m
  BY DEF Ordered, HeapFits
<1>2. ASSUME NEW i \in DOMAIN nodes[m].kids
      PROVE  nodes[m].kids[i] \in DOMAIN nodes /\ rank[nodes[m].kids[i]] < rank[m]
  <2>1. PICK c : c = nodes[m].kids[i]
    OBVIOUS
  <2>2. c \in DOMAIN nodes /\ c > m /\ c \in Int
    BY <2>1, KidsFacts
  <2>3. rank[c] = k - c
    BY <2>2
  <2> HIDE DEF rank
  <2> QED BY <1>1, <2>1, <2>2, <2>3
<1> QED BY <1>1, <1>2

(* The wordings of the leaves fit all nodes.                                *)
LEMMA PlainSolves ==
  ASSUME NEW k, NEW nodes, Ordered(nodes, k)
  PROVE  Solves(nodes, [m \in DOMAIN nodes |-> Wording(Plain(nodes), LeavesOf(nodes, m))])
<1> DEFINE tau == Plain(nodes)
           E == [m \in DOMAIN nodes |-> Wording(tau, LeavesOf(nodes, m))]
           W == Names(nodes)
<1> SUFFICES ASSUME NEW m \in DOMAIN nodes PROVE E[m] = TextFrom(nodes, E, m)
  BY DEF Solves
<1>1. E[m] = Wording(tau, LeavesOf(nodes, m))
  OBVIOUS
<1>2. CASE nodes[m].terminal
  <2>1. LeavesOf(nodes, m) = {m}
    BY <1>2, LeavesUnfold
  <2>2. Says(tau, {m}, W)
    BY PlainSays
  <2>3. m \in Int /\ tau[m] \in Seq(W) /\ tau[m] = <<nodes[m].name>>
    BY <2>2 DEF Says, Plain
  <2>4. Wording(tau, {m}) = tau[m]
    <3> HIDE DEF tau, W
    <3> QED BY <2>3, WordingOne
  <2> QED BY <1>1, <1>2, <2>1, <2>3, <2>4 DEF TextFrom
<1>3. CASE ~nodes[m].terminal
  <2> DEFINE K == nodes[m].kids
             t == [i \in DOMAIN K |-> E[K[i]]]
             S == [i \in DOMAIN K |-> LeavesOf(nodes, K[i])]
  <2>1. /\ Sorted(nodes, K) /\ Len(K) \in Nat /\ DOMAIN K = 1 .. Len(K)
        /\ \A i \in 1 .. Len(K) : K[i] \in DOMAIN nodes
    BY KidsFacts
  <2>2. \A i \in 1 .. Len(K) : /\ t[i] = Wording(tau, S[i]) /\ S[i] \subseteq NodesOf(nodes, K[i])
                               /\ Says(tau, S[i], W) /\ S[i] = LeavesOf(nodes, K[i])
    <3> SUFFICES ASSUME NEW i \in 1 .. Len(K)
                 PROVE  /\ t[i] = Wording(tau, S[i]) /\ S[i] \subseteq NodesOf(nodes, K[i])
                        /\ Says(tau, S[i], W) /\ S[i] = LeavesOf(nodes, K[i])
      OBVIOUS
    <3>1. K[i] \in DOMAIN nodes /\ S[i] = LeavesOf(nodes, K[i]) /\ t[i] = E[K[i]]
      BY <2>1
    <3>2. E[K[i]] = Wording(tau, LeavesOf(nodes, K[i]))
      BY <3>1
    <3>3. S[i] \subseteq NodesOf(nodes, K[i]) /\ Says(tau, S[i], W)
      <4> HIDE DEF K, S, t, E
      <4> QED BY <3>1, LeavesUnfold, LeavesFacts
    <3> QED BY <3>1, <3>2, <3>3
  <2>3. \A i \in 1 .. Len(K) : t[i] \in Seq(W)
    <3> SUFFICES ASSUME NEW i \in 1 .. Len(K) PROVE t[i] \in Seq(W)
      OBVIOUS
    <3>1. Says(tau, S[i], W) /\ t[i] = Wording(tau, S[i])
      BY <2>2
    <3> HIDE DEF t, S, tau, W
    <3> QED BY <3>1, WordingTyped
  <2>4. t \in Seq(Seq(W)) /\ Len(t) = Len(K)
    <3> DEFINE Z == Seq(W)
    <3>1. t = [i \in 1 .. Len(K) |-> t[i]] /\ \A i \in 1 .. Len(K) : t[i] \in Z
      BY <2>1, <2>3
    <3> HIDE DEF t, Z
    <3>2. t \in Seq(Z) /\ Len(t) = Len(K)
      BY <2>1, <3>1
    <3> QED BY <3>2 DEF Z
  <2>5. Pieces(tau, t, S, W)
    <3> HIDE DEF t, S, tau, W, K
    <3> QED BY <2>2, <2>4 DEF Pieces
  <2>a. Within(nodes, K, S)
    <3> HIDE DEF t, S, tau, W, K
    <3> QED BY <2>2 DEF Within
  <2>6. LeavesOf(nodes, m) = Together(S, Len(K))
    <3>1. LeavesOf(nodes, m) = UNION {LeavesOf(nodes, K[i]) : i \in 1 .. Len(K)}
      BY <1>3, LeavesUnfold
    <3>2. \A i \in 1 .. Len(K) : S[i] = LeavesOf(nodes, K[i])
      BY <2>2
    <3> HIDE DEF S, K
    <3> QED BY <3>1, <3>2 DEF Together
  <2>7. FlattenSeq(t) = Wording(tau, LeavesOf(nodes, m))
    <3> HIDE DEF t, S, tau, W, K
    <3>1. FlattenSeq(t) = Wording(tau, Together(S, Len(K)))
      <4>1. Len(t) = Len(K) /\ Sorted(nodes, K)
        BY <2>1, <2>4
      <4> QED BY <4>1, <2>5, <2>a, PiecesJoin
    <3> QED BY <2>6, <3>1
  <2>8. TextFrom(nodes, E, m) = FlattenSeq(t)
    BY <1>3 DEF TextFrom
  <2> QED BY <1>1, <2>7, <2>8
<1> QED BY <1>2, <1>3

(* The text of a node is the wording of its leaves.                         *)
LEMMA TextIsWording ==
  ASSUME NEW k, NEW nodes, Ordered(nodes, k), NEW m \in DOMAIN nodes
  PROVE  TextOf(nodes, m) = Wording(Plain(nodes), LeavesOf(nodes, m))
<1> DEFINE E == [x \in DOMAIN nodes |-> Wording(Plain(nodes), LeavesOf(nodes, x))]
           rank == [x \in DOMAIN nodes |-> k - x]
<1>1. Solves(nodes, E) /\ Ranked(nodes, rank)
  BY PlainSolves, OrderedRanked
<1>2. E[m] = Wording(Plain(nodes), LeavesOf(nodes, m))
  OBVIOUS
<1> HIDE DEF E, rank
<1> QED BY <1>1, <1>2, TextIs

-----------------------------------------------------------------------------
(***************************************************************************)
(* A tree in which the children of u from the at-th to the l-th are gone,   *)
(* with or without a text X where the at-th, n, was.                        *)
(***************************************************************************)
Changes(nodes, k, W, u, n, at, l, X, A) ==
  /\ Ordered(nodes, k) /\ Names(nodes) \subseteq W /\ X \in Seq(W)
  /\ u \in DOMAIN nodes /\ at \in 1 .. Len(nodes[u].kids) /\ l \in at .. Len(nodes[u].kids)
  /\ n = nodes[u].kids[at] /\ (A = {} \/ A = {n})

(* n has the text X; Left are the places of a subtree after the change and  *)
(* TextLeft their text.                                                     *)
Altered(nodes, n, X) == [Plain(nodes) EXCEPT ![n] = X]

Left(nodes, u, at, l, A, m) ==
  IF u \in NodesOf(nodes, m)
  THEN (LeavesOf(nodes, m) \ Block(nodes, nodes[u].kids, at, l)) \cup A
  ELSE LeavesOf(nodes, m)

TextLeft(nodes, u, n, at, l, X, A, m) ==
  IF u \in NodesOf(nodes, m)
  THEN Wording(Altered(nodes, n, X), Left(nodes, u, at, l, A, m))
  ELSE Wording(Plain(nodes), LeavesOf(nodes, m))

(* What a change takes out lies below u, and only the text of n is another. *)
LEMMA ChangesFacts ==
  ASSUME NEW nodes, NEW k, NEW W, NEW u, NEW n, NEW at, NEW l, NEW X, NEW A,
         Changes(nodes, k, W, u, n, at, l, X, A)
  PROVE  /\ Ordered(nodes, k) /\ u \in DOMAIN nodes /\ n \in DOMAIN nodes /\ n \in NodesOf(nodes, u)
         /\ n \in Block(nodes, nodes[u].kids, at, l)
         /\ Block(nodes, nodes[u].kids, at, l) \subseteq NodesOf(nodes, u)
         /\ u \notin Block(nodes, nodes[u].kids, at, l)
         /\ A \subseteq NodesOf(nodes, u) /\ u \notin A
         /\ \A m \in DOMAIN nodes : m # n => Altered(nodes, n, X)[m] = Plain(nodes)[m]
         /\ Altered(nodes, n, X)[n] = X
         /\ \A S : S \subseteq DOMAIN nodes => Says(Altered(nodes, n, X), S, W)
<1> DEFINE K == nodes[u].kids
           tau == Altered(nodes, n, X)
<1>1. /\ Ordered(nodes, k) /\ Names(nodes) \subseteq W /\ X \in Seq(W) /\ u \in DOMAIN nodes
      /\ at \in 1 .. Len(K) /\ l \in at .. Len(K) /\ n = K[at] /\ (A = {} \/ A = {n})
  BY DEF Changes
<1>2. n \in DOMAIN nodes
  BY <1>1, KidsFacts
<1>3. /\ Block(nodes, K, at, l) \subseteq NodesOf(nodes, u) /\ u \notin Block(nodes, K, at, l)
      /\ n \in Block(nodes, K, at, l)
  BY <1>1, BlockFacts
<1>4. A \subseteq NodesOf(nodes, u) /\ u \notin A /\ n \in NodesOf(nodes, u)
  BY <1>1, <1>3
<1>5. DOMAIN Plain(nodes) = DOMAIN nodes
  BY DEF Plain
<1>6. tau[n] = X /\ \A m \in DOMAIN nodes : m # n => tau[m] = Plain(nodes)[m]
  BY <1>2, <1>5 DEF Altered
<1>7. ASSUME NEW S, S \subseteq DOMAIN nodes PROVE Says(tau, S, W)
  <2>1. Says(Plain(nodes), S, W)
    BY <1>1, <1>7, PlainSays
  <2>2. ASSUME NEW x \in S PROVE tau[x] \in Seq(W)
    <3>1. CASE x = n
      BY <1>1, <1>6, <3>1
    <3>2. CASE x # n
      <4>1. tau[x] = Plain(nodes)[x]
        BY <1>6, <1>7, <3>2
      <4> QED BY <2>1, <4>1 DEF Says
    <3> QED BY <3>1, <3>2
  <2> HIDE DEF tau
  <2> QED BY <2>1, <2>2 DEF Says
<1> QED BY <1>1, <1>2, <1>3, <1>4, <1>6, <1>7

(* What a change leaves of a subtree.                                       *)
LEMMA LeftFacts ==
  ASSUME NEW nodes, NEW k, NEW W, NEW u, NEW n, NEW at, NEW l, NEW X, NEW A,
         Changes(nodes, k, W, u, n, at, l, X, A), NEW m \in DOMAIN nodes
  PROVE  /\ Left(nodes, u, at, l, A, m) \subseteq NodesOf(nodes, m)
         /\ Left(nodes, u, at, l, A, m) \subseteq DOMAIN nodes
         /\ Says(Altered(nodes, n, X), Left(nodes, u, at, l, A, m), W)
<1> DEFINE S == Left(nodes, u, at, l, A, m)
<1>1. Ordered(nodes, k) /\ A \subseteq NodesOf(nodes, u)
  BY ChangesFacts
<1>2. LeavesOf(nodes, m) \subseteq NodesOf(nodes, m) /\ NodesOf(nodes, m) \subseteq DOMAIN nodes
  BY <1>1, LeavesUnfold, KidsFacts
<1>3. S \subseteq NodesOf(nodes, m)
  <2>1. CASE u \in NodesOf(nodes, m)
    <3>1. NodesOf(nodes, u) \subseteq NodesOf(nodes, m)
      BY <1>1, <2>1, NodesFrom
    <3> QED BY <1>1, <1>2, <2>1, <3>1 DEF Left
  <2>2. CASE u \notin NodesOf(nodes, m)
    BY <1>2, <2>2 DEF Left
  <2> QED BY <2>1, <2>2
<1>4. S \subseteq DOMAIN nodes
  BY <1>2, <1>3
<1>5. Says(Altered(nodes, n, X), S, W)
  <2> HIDE DEF S
  <2> QED BY <1>4, ChangesFacts
<1> QED BY <1>3, <1>4, <1>5

(* A subtree without n is as it was.                                        *)
LEMMA LeftAlone ==
  ASSUME NEW nodes, NEW k, NEW W, NEW u, NEW n, NEW at, NEW l, NEW X, NEW A,
         Changes(nodes, k, W, u, n, at, l, X, A), NEW m \in DOMAIN nodes, n \notin NodesOf(nodes, m)
  PROVE  /\ u \notin NodesOf(nodes, m)
         /\ Left(nodes, u, at, l, A, m) = LeavesOf(nodes, m)
         /\ TextLeft(nodes, u, n, at, l, X, A, m) = Wording(Altered(nodes, n, X), LeavesOf(nodes, m))
<1> DEFINE L == LeavesOf(nodes, m)
<1>1. /\ Ordered(nodes, k) /\ n \in NodesOf(nodes, u)
      /\ \A x \in DOMAIN nodes : x # n => Altered(nodes, n, X)[x] = Plain(nodes)[x]
  BY ChangesFacts
<1>2. u \notin NodesOf(nodes, m)
  <2>1. u \in NodesOf(nodes, m) => NodesOf(nodes, u) \subseteq NodesOf(nodes, m)
    BY <1>1, NodesFrom
  <2> QED BY <1>1, <2>1
<1>3. Says(Plain(nodes), L, W) /\ L \subseteq DOMAIN nodes /\ L \subseteq NodesOf(nodes, m)
  <2>1. Names(nodes) \subseteq W
    BY DEF Changes
  <2> QED BY <1>1, <2>1, LeavesFacts, LeavesUnfold
<1>4. \A x \in L : Plain(nodes)[x] = Altered(nodes, n, X)[x]
  BY <1>1, <1>3
<1> HIDE DEF L
<1>5. Wording(Plain(nodes), L) = Wording(Altered(nodes, n, X), L)
  BY <1>3, <1>4, WordingAgrees DEF Says
<1>6. Left(nodes, u, at, l, A, m) = L
  BY <1>2 DEF Left, L
<1>7. TextLeft(nodes, u, n, at, l, X, A, m) = Wording(Altered(nodes, n, X), L)
  BY <1>2, <1>5 DEF TextLeft, L
<1> QED BY <1>2, <1>6, <1>7 DEF L

(* Texts that are the wordings of sets, one by one.                         *)
LEMMA PiecesMade ==
  ASSUME NEW W, NEW tau, NEW k \in Nat, NEW t, t = [i \in 1 .. k |-> t[i]], NEW S,
         \A i \in 1 .. k : Says(tau, S[i], W) /\ t[i] = Wording(tau, S[i])
  PROVE  Pieces(tau, t, S, W) /\ Len(t) = k
<1> DEFINE Z == Seq(W)
<1>1. \A i \in 1 .. k : t[i] \in Z
  <2> SUFFICES ASSUME NEW i \in 1 .. k PROVE t[i] \in Z
    OBVIOUS
  <2>1. Says(tau, S[i], W) /\ t[i] = Wording(tau, S[i])
    OBVIOUS
  <2>2. Wording(tau, S[i]) \in Seq(W)
    BY <2>1, WordingTyped
  <2> QED BY <2>1, <2>2
<1>2. t \in Seq(Z) /\ Len(t) = k
  <2> HIDE DEF Z
  <2> QED BY <1>1
<1>3. t \in Seq(Seq(W))
  BY <1>2
<1> HIDE DEF Z
<1> QED BY <1>2, <1>3 DEF Pieces

(* A child of a node above the change.                                      *)
LEMMA LeftInKid ==
  ASSUME NEW nodes, NEW k, NEW W, NEW u, NEW n, NEW at, NEW l, NEW X, NEW A,
         Changes(nodes, k, W, u, n, at, l, X, A), NEW c \in DOMAIN nodes,
         u \in NodesOf(nodes, c) \/ n \notin NodesOf(nodes, c)
  PROVE  TextLeft(nodes, u, n, at, l, X, A, c)
           = Wording(Altered(nodes, n, X), Left(nodes, u, at, l, A, c))
<1>1. CASE u \in NodesOf(nodes, c)
  BY <1>1 DEF TextLeft
<1>2. CASE n \notin NodesOf(nodes, c)
  <2>1. TextLeft(nodes, u, n, at, l, X, A, c) = Wording(Altered(nodes, n, X), LeavesOf(nodes, c))
    BY <1>2, LeftAlone
  <2>2. Left(nodes, u, at, l, A, c) = LeavesOf(nodes, c)
    BY <1>2, LeftAlone
  <2> QED BY <2>1, <2>2
<1> QED BY <1>1, <1>2

(* The text of a node above the change is that of its children.             *)
LEMMA TextAbove ==
  ASSUME NEW nodes, NEW k, NEW W, NEW u, NEW n, NEW at, NEW l, NEW X, NEW A,
         Changes(nodes, k, W, u, n, at, l, X, A), NEW m \in DOMAIN nodes, m # u,
         u \in NodesOf(nodes, m), NEW K, K = nodes[m].kids
  PROVE  /\ ~nodes[m].terminal
         /\ FlattenSeq([i \in 1 .. Len(K) |-> TextLeft(nodes, u, n, at, l, X, A, K[i])])
              = TextLeft(nodes, u, n, at, l, X, A, m)
<1> DEFINE tau == Altered(nodes, n, X)
           t == [i \in 1 .. Len(K) |-> TextLeft(nodes, u, n, at, l, X, A, K[i])]
           S == [i \in 1 .. Len(K) |-> Left(nodes, u, at, l, A, K[i])]
           B == Block(nodes, nodes[u].kids, at, l)
           V == Left(nodes, u, at, l, A, m)
<1>1. /\ Ordered(nodes, k) /\ u \in DOMAIN nodes /\ n \in NodesOf(nodes, u)
      /\ B \subseteq NodesOf(nodes, u) /\ A \subseteq NodesOf(nodes, u)
  BY ChangesFacts
<1>2. /\ Sorted(nodes, K) /\ Len(K) \in Nat /\ \A i \in 1 .. Len(K) : K[i] \in DOMAIN nodes
      /\ \A i, j \in 1 .. Len(K) : i # j => NodesOf(nodes, K[i]) \cap NodesOf(nodes, K[j]) = {}
  <2>1. Sorted(nodes, K) /\ Len(K) \in Nat /\ \A i \in 1 .. Len(K) : K[i] \in DOMAIN nodes
    BY <1>1, KidsFacts
  <2>2. \A i, j \in 1 .. Len(K) : i # j => NodesOf(nodes, K[i]) \cap NodesOf(nodes, K[j]) = {}
    BY <1>1, KidsApart
  <2> QED BY <2>1, <2>2
<1>3. PICK j \in 1 .. Len(K) : u \in NodesOf(nodes, K[j])
  BY <1>1, NodesFrom
<1>4. NodesOf(nodes, u) \subseteq NodesOf(nodes, K[j])
  BY <1>1, <1>2, <1>3, NodesFrom
<1>5. \A i \in 1 .. Len(K) : i # j => n \notin NodesOf(nodes, K[i]) /\ u \notin NodesOf(nodes, K[i])
  BY <1>1, <1>2, <1>3, <1>4
<1>6. ~nodes[m].terminal
  BY <1>1, <1>3 DEF Ordered
<1> HIDE DEF tau, B
<1>7. \A i \in 1 .. Len(K) : /\ t[i] = Wording(tau, S[i]) /\ S[i] \subseteq NodesOf(nodes, K[i])
                             /\ Says(tau, S[i], W)
  <2> SUFFICES ASSUME NEW i \in 1 .. Len(K)
               PROVE  /\ t[i] = Wording(tau, S[i]) /\ S[i] \subseteq NodesOf(nodes, K[i])
                      /\ Says(tau, S[i], W)
    OBVIOUS
  <2>1. /\ t[i] = TextLeft(nodes, u, n, at, l, X, A, K[i]) /\ S[i] = Left(nodes, u, at, l, A, K[i])
        /\ K[i] \in DOMAIN nodes
    BY <1>2
  <2>2. u \in NodesOf(nodes, K[i]) \/ n \notin NodesOf(nodes, K[i])
    BY <1>3, <1>5
  <2> HIDE DEF t, S
  <2>3. t[i] = Wording(tau, S[i])
    BY <2>1, <2>2, LeftInKid DEF tau
  <2>4. S[i] \subseteq NodesOf(nodes, K[i]) /\ Says(tau, S[i], W)
    BY <2>1, LeftFacts DEF tau
  <2> QED BY <2>3, <2>4
<1>8. t = [i \in 1 .. Len(K) |-> t[i]]
  OBVIOUS
<1>9. V = Together(S, Len(K))
  <2> DEFINE L == LeavesOf(nodes, m)
  <2>1. V = (L \ B) \cup A
    BY DEF Left, B
  <2>2. L = UNION {LeavesOf(nodes, K[i]) : i \in 1 .. Len(K)}
    BY <1>1, <1>6, LeavesUnfold
  <2>3. S[j] = (LeavesOf(nodes, K[j]) \ B) \cup A
    BY <1>3 DEF Left, B
  <2>4. \A i \in 1 .. Len(K) : i # j => S[i] = LeavesOf(nodes, K[i])
    BY <1>5 DEF Left
  <2>5. \A i \in 1 .. Len(K) : i # j => LeavesOf(nodes, K[i]) \cap B = {}
    <3> SUFFICES ASSUME NEW i \in 1 .. Len(K), i # j PROVE LeavesOf(nodes, K[i]) \cap B = {}
      OBVIOUS
    <3>1. LeavesOf(nodes, K[i]) \subseteq NodesOf(nodes, K[i])
      BY DEF LeavesOf
    <3> QED BY <1>1, <1>2, <1>4, <3>1
  <2>6. \A x : x \in L <=> \E i \in 1 .. Len(K) : x \in LeavesOf(nodes, K[i])
    BY <2>2
  <2>7. \A x : x \in Together(S, Len(K)) <=> \E i \in 1 .. Len(K) : x \in S[i]
    BY DEF Together
  <2> HIDE DEF S, L, V
  <2>8. ASSUME NEW x, x \in V PROVE \E i \in 1 .. Len(K) : x \in S[i]
    <3>1. CASE x \in A
      BY <2>3, <3>1
    <3>2. CASE x \notin A
      <4>1. x \in L /\ x \notin B
        BY <2>1, <2>8, <3>2
      <4>2. PICK i \in 1 .. Len(K) : x \in LeavesOf(nodes, K[i])
        BY <2>6, <4>1
      <4> QED BY <2>3, <2>4, <4>1, <4>2
    <3> QED BY <3>1, <3>2
  <2>9. ASSUME NEW x, NEW i \in 1 .. Len(K), x \in S[i] PROVE x \in V
    <3>1. CASE i = j
      <4>1. x \in A \/ (x \in LeavesOf(nodes, K[j]) /\ x \notin B)
        BY <2>3, <2>9, <3>1
      <4> QED BY <2>1, <2>6, <4>1
    <3>2. CASE i # j
      <4>1. x \in LeavesOf(nodes, K[i]) /\ x \notin B
        BY <2>4, <2>5, <2>9, <3>2
      <4> QED BY <2>1, <2>6, <4>1
    <3> QED BY <3>1, <3>2
  <2> QED BY <2>7, <2>8, <2>9
<1>10. Within(nodes, K, S)
  <2> HIDE DEF S, t
  <2> QED BY <1>7 DEF Within
<1>11. Pieces(tau, t, S, W) /\ Len(t) = Len(K)
  <2> HIDE DEF S, t
  <2>1. Len(K) \in Nat /\ \A i \in 1 .. Len(K) : Says(tau, S[i], W) /\ t[i] = Wording(tau, S[i])
    BY <1>2, <1>7
  <2>2. Pieces(tau, t, S, W)
    BY <1>8, <2>1, PiecesMade
  <2>3. Len(t) = Len(K)
    BY <1>8, <2>1, PiecesMade
  <2> QED BY <2>2, <2>3
<1>12. FlattenSeq(t) = Wording(tau, V)
  <2>1. FlattenSeq(t) = Wording(tau, Together(S, Len(K)))
    <3> HIDE DEF S, t, V
    <3> QED BY <1>2, <1>10, <1>11, PiecesJoin
  <2> HIDE DEF S, t, V
  <2> QED BY <1>9, <2>1
<1>13. TextLeft(nodes, u, n, at, l, X, A, m) = Wording(tau, V)
  BY DEF TextLeft, tau
<1> HIDE DEF t, V
<1> QED BY <1>6, <1>12, <1>13 DEF t

(* A node that has children is not a terminal.                              *)
LEMMA HoleInside ==
  ASSUME NEW nodes, NEW k, NEW W, NEW u, NEW n, NEW at, NEW l, NEW X, NEW A,
         Changes(nodes, k, W, u, n, at, l, X, A)
  PROVE  ~nodes[u].terminal
<1>1. nodes[u].kids # << >>
  BY DEF Changes
<1> QED BY <1>1 DEF Changes, Ordered

(* The texts of the children with X for the at-th are what is left of u.    *)
HoleIs(nodes, u, n, at, X, K) ==
  FlattenSeq([i \in 1 .. Len(K) |-> IF i = at THEN X
                                    ELSE TextLeft(nodes, u, n, at, at, X, {n}, K[i])])
    = TextLeft(nodes, u, n, at, at, X, {n}, u)

(* The text of u, with X for the subtree of n.                              *)
LEMMA TextWithHole ==
  ASSUME NEW nodes, NEW k, NEW W, NEW u, NEW n, NEW at, NEW X,
         Changes(nodes, k, W, u, n, at, at, X, {n}), NEW K, K = nodes[u].kids
  PROVE  HoleIs(nodes, u, n, at, X, K)
<1> DEFINE tau == Altered(nodes, n, X)
           t == [i \in 1 .. Len(K) |-> IF i = at THEN X
                                       ELSE TextLeft(nodes, u, n, at, at, X, {n}, K[i])]
           S == [i \in 1 .. Len(K) |-> IF i = at THEN {n} ELSE LeavesOf(nodes, K[i])]
           V == Left(nodes, u, at, at, {n}, u)
<1>1. /\ Ordered(nodes, k) /\ u \in DOMAIN nodes /\ n \in NodesOf(nodes, u) /\ n \in DOMAIN nodes
      /\ tau[n] = X /\ X \in Seq(W) /\ at \in 1 .. Len(K) /\ n = K[at]
  <2>1. /\ Ordered(nodes, k) /\ u \in DOMAIN nodes /\ n \in NodesOf(nodes, u) /\ n \in DOMAIN nodes
        /\ tau[n] = X
    BY ChangesFacts
  <2>2. X \in Seq(W) /\ at \in 1 .. Len(K) /\ n = K[at]
    BY DEF Changes
  <2> QED BY <2>1, <2>2
<1>2. /\ Sorted(nodes, K) /\ Len(K) \in Nat /\ \A i \in 1 .. Len(K) : K[i] \in DOMAIN nodes
      /\ \A i, j \in 1 .. Len(K) : i # j => NodesOf(nodes, K[i]) \cap NodesOf(nodes, K[j]) = {}
      /\ u \in NodesOf(nodes, u) /\ n \in NodesOf(nodes, n) /\ n \in Int
  <2>1. Sorted(nodes, K) /\ Len(K) \in Nat /\ \A i \in 1 .. Len(K) : K[i] \in DOMAIN nodes
    BY <1>1, KidsFacts
  <2>2. \A i, j \in 1 .. Len(K) : i # j => NodesOf(nodes, K[i]) \cap NodesOf(nodes, K[j]) = {}
    BY <1>1, KidsApart
  <2>3. u \in NodesOf(nodes, u) /\ n \in NodesOf(nodes, n) /\ n \in Int
    BY <1>1, KidsFacts, NodesFrom
  <2> QED BY <2>1, <2>2, <2>3
<1>3. \A i \in 1 .. Len(K) : i # at => n \notin NodesOf(nodes, K[i])
  BY <1>1, <1>2
<1>4. ~nodes[u].terminal
  BY HoleInside
<1> HIDE DEF tau
<1>a. Wording(tau, {n}) = tau[n]
  <2>1. n \in Int /\ tau[n] \in Seq(W)
    BY <1>1, <1>2
  <2> HIDE DEF t, S, V
  <2> QED BY <2>1, WordingOne
<1>5. \A i \in 1 .. Len(K) : /\ t[i] = Wording(tau, S[i]) /\ S[i] \subseteq NodesOf(nodes, K[i])
                             /\ Says(tau, S[i], W)
  <2> SUFFICES ASSUME NEW i \in 1 .. Len(K)
               PROVE  /\ t[i] = Wording(tau, S[i]) /\ S[i] \subseteq NodesOf(nodes, K[i])
                      /\ Says(tau, S[i], W)
    OBVIOUS
  <2>1. CASE i = at
    <3>1. t[i] = X /\ S[i] = {n} /\ K[i] = n
      BY <1>1, <2>1
    <3>2. Wording(tau, {n}) = tau[n]
      BY <1>a
    <3>3. {n} \subseteq DOMAIN nodes
      BY <1>1
    <3>4. Says(tau, {n}, W)
      BY <3>3, ChangesFacts DEF tau
    <3> HIDE DEF t, S
    <3> QED BY <1>1, <1>2, <3>1, <3>2, <3>4
  <2>2. CASE i # at
    <3>1. t[i] = TextLeft(nodes, u, n, at, at, X, {n}, K[i]) /\ S[i] = LeavesOf(nodes, K[i])
      BY <2>2
    <3>2. n \notin NodesOf(nodes, K[i]) /\ K[i] \in DOMAIN nodes
      BY <1>2, <1>3, <2>2
    <3> HIDE DEF t, S
    <3>3. t[i] = Wording(tau, S[i])
      BY <3>1, <3>2, LeftAlone DEF tau
    <3>4. S[i] \subseteq NodesOf(nodes, K[i]) /\ NodesOf(nodes, K[i]) \subseteq DOMAIN nodes
      BY <1>1, <3>1, <3>2, LeavesUnfold, KidsFacts
    <3>5. S[i] \subseteq DOMAIN nodes
      BY <3>4
    <3>6. Says(tau, S[i], W)
      BY <3>5, ChangesFacts DEF tau
    <3> QED BY <3>3, <3>4, <3>6
  <2> QED BY <2>1, <2>2
<1>6. t = [i \in 1 .. Len(K) |-> t[i]]
  OBVIOUS
<1>7. V = Together(S, Len(K))
  <2> DEFINE L == LeavesOf(nodes, u)
             B == Block(nodes, K, at, at)
  <2>1. V = (L \ B) \cup {n}
    BY <1>2 DEF Left
  <2>2. L = UNION {LeavesOf(nodes, K[i]) : i \in 1 .. Len(K)}
    BY <1>1, <1>4, LeavesUnfold
  <2>3. B = NodesOf(nodes, n)
    <3>1. at .. at = {at}
      BY <1>1
    <3> QED BY <1>1, <3>1 DEF Block
  <2>4. S[at] = {n} /\ \A i \in 1 .. Len(K) : i # at => S[i] = LeavesOf(nodes, K[i])
    BY <1>1
  <2>5. \A i \in 1 .. Len(K) : i # at => LeavesOf(nodes, K[i]) \cap B = {}
    <3> SUFFICES ASSUME NEW i \in 1 .. Len(K), i # at PROVE LeavesOf(nodes, K[i]) \cap B = {}
      OBVIOUS
    <3>1. LeavesOf(nodes, K[i]) \subseteq NodesOf(nodes, K[i])
      BY DEF LeavesOf
    <3>2. NodesOf(nodes, K[i]) \cap NodesOf(nodes, K[at]) = {}
      BY <1>1, <1>2
    <3> HIDE DEF B
    <3> QED BY <1>1, <2>3, <3>1, <3>2
  <2>6. \A x : x \in L <=> \E i \in 1 .. Len(K) : x \in LeavesOf(nodes, K[i])
    BY <2>2
  <2>7. \A x : x \in Together(S, Len(K)) <=> \E i \in 1 .. Len(K) : x \in S[i]
    BY DEF Together
  <2>8. LeavesOf(nodes, K[at]) \subseteq B
    BY <1>1, <2>3 DEF LeavesOf
  <2> HIDE DEF S, L, V, B
  <2>9. ASSUME NEW x, x \in V PROVE \E i \in 1 .. Len(K) : x \in S[i]
    <3>1. CASE x = n
      BY <1>1, <2>4, <3>1
    <3>2. CASE x # n
      <4>1. x \in L /\ x \notin B
        BY <2>1, <2>9, <3>2
      <4>2. PICK i \in 1 .. Len(K) : x \in LeavesOf(nodes, K[i])
        BY <2>6, <4>1
      <4> QED BY <2>4, <2>8, <4>1, <4>2
    <3> QED BY <3>1, <3>2
  <2>10. ASSUME NEW x, NEW i \in 1 .. Len(K), x \in S[i] PROVE x \in V
    <3>1. CASE i = at
      BY <2>1, <2>4, <2>10, <3>1
    <3>2. CASE i # at
      <4>1. x \in LeavesOf(nodes, K[i]) /\ x \notin B
        BY <2>4, <2>5, <2>10, <3>2
      <4> QED BY <2>1, <2>6, <4>1
    <3> QED BY <3>1, <3>2
  <2> QED BY <2>7, <2>9, <2>10
<1>8. Within(nodes, K, S)
  <2> HIDE DEF S, t
  <2> QED BY <1>5 DEF Within
<1>9. Pieces(tau, t, S, W) /\ Len(t) = Len(K)
  <2> HIDE DEF S, t
  <2>1. Len(K) \in Nat /\ \A i \in 1 .. Len(K) : Says(tau, S[i], W) /\ t[i] = Wording(tau, S[i])
    BY <1>2, <1>5
  <2>2. Pieces(tau, t, S, W)
    BY <1>6, <2>1, PiecesMade
  <2>3. Len(t) = Len(K)
    BY <1>6, <2>1, PiecesMade
  <2> QED BY <2>2, <2>3
<1>10. FlattenSeq(t) = Wording(tau, V)
  <2>1. FlattenSeq(t) = Wording(tau, Together(S, Len(K)))
    <3> HIDE DEF S, t, V
    <3> QED BY <1>2, <1>8, <1>9, PiecesJoin
  <2> HIDE DEF S, t, V
  <2> QED BY <1>7, <2>1
<1>11. TextLeft(nodes, u, n, at, at, X, {n}, u) = Wording(tau, V)
  BY <1>2 DEF TextLeft, tau
<1> HIDE DEF t, V
<1> QED BY <1>10, <1>11 DEF t, HoleIs

(* The text of u, without its children from the at-th to the l-th.          *)
LEMMA TextWithGap ==
  ASSUME NEW nodes, NEW k, NEW W, NEW u, NEW n, NEW at, NEW l, NEW X,
         Changes(nodes, k, W, u, n, at, l, X, {}),
         NEW K, K = Without(nodes[u].kids, at, l - at + 1)
  PROVE  FlattenSeq([i \in 1 .. Len(K) |-> TextLeft(nodes, u, n, at, l, X, {}, K[i])])
           = TextLeft(nodes, u, n, at, l, X, {}, u)
<1> DEFINE tau == Altered(nodes, n, X)
           O == nodes[u].kids
           e == l - at + 1
           t == [i \in 1 .. Len(K) |-> TextLeft(nodes, u, n, at, l, X, {}, K[i])]
           S == [i \in 1 .. Len(K) |-> LeavesOf(nodes, K[i])]
           V == Left(nodes, u, at, l, {}, u)
           B == Block(nodes, O, at, l)
<1>1. /\ Ordered(nodes, k) /\ u \in DOMAIN nodes /\ n \in DOMAIN nodes /\ n \in B
      /\ at \in 1 .. Len(O) /\ l \in at .. Len(O) /\ n = O[at]
  <2>1. Ordered(nodes, k) /\ u \in DOMAIN nodes /\ n \in DOMAIN nodes /\ n \in B
    BY ChangesFacts
  <2>2. at \in 1 .. Len(O) /\ l \in at .. Len(O) /\ n = O[at]
    BY DEF Changes
  <2> QED BY <2>1, <2>2
<1>2. /\ Sorted(nodes, O) /\ O \in Seq(DOMAIN nodes) /\ Len(O) \in Nat /\ DOMAIN O = 1 .. Len(O)
      /\ \A i \in 1 .. Len(O) : O[i] \in DOMAIN nodes
      /\ \A i, j \in 1 .. Len(O) : i # j => NodesOf(nodes, O[i]) \cap NodesOf(nodes, O[j]) = {}
      /\ u \in NodesOf(nodes, u)
  <2>1. Sorted(nodes, O) /\ O \in Seq(DOMAIN nodes) /\ Len(O) \in Nat /\ DOMAIN O = 1 .. Len(O)
    BY <1>1, KidsFacts
  <2>2. \A i \in 1 .. Len(O) : O[i] \in DOMAIN nodes
    BY <1>1, KidsFacts
  <2>3. \A i, j \in 1 .. Len(O) : i # j => NodesOf(nodes, O[i]) \cap NodesOf(nodes, O[j]) = {}
    BY <1>1, KidsApart
  <2>4. u \in NodesOf(nodes, u)
    BY <1>1, KidsFacts
  <2> QED BY <2>1, <2>2, <2>3, <2>4
<1>3. PICK z \in Nat : z = Len(O) - e /\ e \in Nat /\ at + e - 1 <= Len(O) /\ at + e - 1 = l
                       /\ at \in Nat /\ l \in Nat
  <2>1. /\ Len(O) - e \in Nat /\ e \in Nat /\ at + e - 1 <= Len(O) /\ at + e - 1 = l
        /\ at \in Nat /\ l \in Nat
    BY <1>1, <1>2
  <2> HIDE DEF e, O
  <2> QED BY <2>1
<1> HIDE DEF tau, O, B, e
<1>4. /\ K \in Seq(DOMAIN nodes) /\ Len(K) = z
      /\ \A j \in 1 .. z : K[j] = IF j < at THEN O[j] ELSE O[j + e]
  <2>1. at \in 1 .. Len(O) /\ O \in Seq(DOMAIN nodes) /\ K = Without(O, at, e)
    BY <1>1, <1>2 DEF O, e
  <2>2. K \in Seq(DOMAIN nodes)
    BY <1>3, <2>1, WithoutFacts
  <2>3. Len(K) = z
    BY <1>3, <2>1, WithoutFacts
  <2>4. \A j \in 1 .. z : K[j] = IF j < at THEN O[j] ELSE O[j + e]
    BY <1>3, <2>1, WithoutFacts
  <2> QED BY <2>2, <2>3, <2>4
<1>5. \A j \in 1 .. z : \E i \in 1 .. Len(O) : K[j] = O[i] /\ i = (IF j < at THEN j ELSE j + e)
                          /\ i \notin at .. l
  <2> SUFFICES ASSUME NEW j \in 1 .. z
               PROVE  \E i \in 1 .. Len(O) : K[j] = O[i] /\ i = (IF j < at THEN j ELSE j + e)
                                             /\ i \notin at .. l
    OBVIOUS
  <2>1. CASE j < at
    <3>1. j \in 1 .. Len(O) /\ j \notin at .. l /\ K[j] = O[j]
      BY <1>1, <1>2, <1>3, <1>4, <2>1
    <3> QED BY <2>1, <3>1
  <2>2. CASE ~(j < at)
    <3>1. j + e \in 1 .. Len(O) /\ j + e \notin at .. l /\ K[j] = O[j + e]
      BY <1>1, <1>2, <1>3, <1>4, <2>2
    <3> QED BY <2>2, <3>1
  <2> QED BY <2>1, <2>2
<1>6. \A i \in 1 .. Len(O) : i \notin at .. l => \E j \in 1 .. z : K[j] = O[i]
  <2> SUFFICES ASSUME NEW i \in 1 .. Len(O), i \notin at .. l PROVE \E j \in 1 .. z : K[j] = O[i]
    OBVIOUS
  <2>1. CASE i < at
    <3>1. i \in 1 .. z /\ K[i] = O[i]
      BY <1>1, <1>2, <1>3, <1>4, <2>1
    <3> QED BY <3>1
  <2>2. CASE ~(i < at)
    <3>1. i - e \in 1 .. z /\ ~(i - e < at) /\ (i - e) + e = i
      BY <1>1, <1>2, <1>3, <2>2
    <3>2. PICK j \in 1 .. z : j = i - e /\ ~(j < at) /\ j + e = i
      BY <3>1
    <3> QED BY <1>4, <3>2
  <2> QED BY <2>1, <2>2
<1>7. Sorted(nodes, K)
  <2> SUFFICES ASSUME NEW i \in 1 .. z, NEW j \in 1 .. z, i < j
               PROVE  Precedes(NodesOf(nodes, K[i]), NodesOf(nodes, K[j]))
    BY <1>4 DEF Sorted
  <2>1. PICK p \in 1 .. Len(O) : K[i] = O[p] /\ p = (IF i < at THEN i ELSE i + e)
    BY <1>5
  <2>2. PICK q \in 1 .. Len(O) : K[j] = O[q] /\ q = (IF j < at THEN j ELSE j + e)
    BY <1>5
  <2>3. p < q
    BY <1>3, <2>1, <2>2
  <2> QED BY <1>2, <2>1, <2>2, <2>3 DEF Sorted
<1>8. \A i \in 1 .. z : K[i] \in DOMAIN nodes /\ NodesOf(nodes, K[i]) \cap B = {}
  <2> SUFFICES ASSUME NEW i \in 1 .. z
               PROVE  K[i] \in DOMAIN nodes /\ NodesOf(nodes, K[i]) \cap B = {}
    OBVIOUS
  <2>1. PICK p \in 1 .. Len(O) : K[i] = O[p] /\ p \notin at .. l
    BY <1>5
  <2>2. K[i] \in DOMAIN nodes
    BY <1>2, <2>1
  <2>3. ASSUME NEW x \in NodesOf(nodes, K[i]), x \in B PROVE FALSE
    <3>1. PICK j \in at .. l : x \in NodesOf(nodes, O[j])
      BY <2>3 DEF B, Block
    <3>2. j \in 1 .. Len(O) /\ j # p
      BY <1>1, <1>2, <2>1, <3>1
    <3>3. NodesOf(nodes, O[p]) \cap NodesOf(nodes, O[j]) = {}
      BY <1>2, <3>2
    <3> QED BY <2>1, <2>3, <3>1, <3>3
  <2> QED BY <2>2, <2>3
<1>9. ~nodes[u].terminal
  BY HoleInside
<1>10. \A i \in 1 .. z : /\ t[i] = Wording(tau, S[i]) /\ S[i] \subseteq NodesOf(nodes, K[i])
                         /\ Says(tau, S[i], W)
  <2> SUFFICES ASSUME NEW i \in 1 .. z
               PROVE  /\ t[i] = Wording(tau, S[i]) /\ S[i] \subseteq NodesOf(nodes, K[i])
                      /\ Says(tau, S[i], W)
    OBVIOUS
  <2>1. t[i] = TextLeft(nodes, u, n, at, l, X, {}, K[i]) /\ S[i] = LeavesOf(nodes, K[i])
    BY <1>4
  <2>2. n \notin NodesOf(nodes, K[i]) /\ K[i] \in DOMAIN nodes
    BY <1>1, <1>8
  <2> HIDE DEF t, S
  <2>3. t[i] = Wording(tau, S[i])
    BY <2>1, <2>2, LeftAlone DEF tau
  <2>4. S[i] \subseteq NodesOf(nodes, K[i]) /\ NodesOf(nodes, K[i]) \subseteq DOMAIN nodes
    BY <1>1, <2>1, <2>2, LeavesUnfold, KidsFacts
  <2>5. S[i] \subseteq DOMAIN nodes
    BY <2>4
  <2>6. Says(tau, S[i], W)
    BY <2>5, ChangesFacts DEF tau
  <2> QED BY <2>3, <2>4, <2>6
<1>11. t = [i \in 1 .. z |-> t[i]]
  BY <1>4
<1>12. V = Together(S, z)
  <2> DEFINE L == LeavesOf(nodes, u)
  <2>1. V = L \ B
    BY <1>2 DEF Left, B, O
  <2>2. \A x : x \in L <=> \E i \in 1 .. Len(O) : x \in LeavesOf(nodes, O[i])
    <3>1. L = UNION {LeavesOf(nodes, O[i]) : i \in 1 .. Len(O)}
      BY <1>1, <1>9, LeavesUnfold DEF O
    <3> QED BY <3>1
  <2>3. \A x : x \in Together(S, z) <=> \E i \in 1 .. z : x \in LeavesOf(nodes, K[i])
    <3>1. \A i \in 1 .. z : S[i] = LeavesOf(nodes, K[i])
      BY <1>4
    <3> HIDE DEF S
    <3> QED BY <3>1 DEF Together
  <2>4. \A i \in 1 .. Len(O) : i \in at .. l => LeavesOf(nodes, O[i]) \subseteq B
    BY DEF LeavesOf, B, Block
  <2>5. \A i \in 1 .. z : LeavesOf(nodes, K[i]) \cap B = {}
    <3> SUFFICES ASSUME NEW i \in 1 .. z PROVE LeavesOf(nodes, K[i]) \cap B = {}
      OBVIOUS
    <3>1. LeavesOf(nodes, K[i]) \subseteq NodesOf(nodes, K[i])
      BY DEF LeavesOf
    <3> QED BY <1>8, <3>1
  <2> HIDE DEF S, L, V
  <2>6. ASSUME NEW x, x \in V PROVE \E i \in 1 .. z : x \in LeavesOf(nodes, K[i])
    <3>1. PICK i \in 1 .. Len(O) : x \in LeavesOf(nodes, O[i]) /\ x \notin B
      BY <2>1, <2>2, <2>6
    <3>2. i \notin at .. l
      BY <2>4, <3>1
    <3>3. PICK j \in 1 .. z : K[j] = O[i]
      BY <1>6, <3>2
    <3> QED BY <3>1, <3>3
  <2>7. ASSUME NEW x, NEW i \in 1 .. z, x \in LeavesOf(nodes, K[i]) PROVE x \in V
    <3>1. PICK p \in 1 .. Len(O) : K[i] = O[p]
      BY <1>5
    <3>2. x \in L /\ x \notin B
      BY <2>2, <2>5, <2>7, <3>1
    <3> QED BY <2>1, <3>2
  <2> QED BY <2>3, <2>6, <2>7
<1>13. Within(nodes, K, S)
  <2> HIDE DEF S, t
  <2> QED BY <1>4, <1>10 DEF Within
<1>14. Pieces(tau, t, S, W) /\ Len(t) = z
  <2> HIDE DEF S, t
  <2>1. z \in Nat /\ \A i \in 1 .. z : Says(tau, S[i], W) /\ t[i] = Wording(tau, S[i])
    BY <1>10
  <2>2. Pieces(tau, t, S, W)
    BY <1>11, <2>1, PiecesMade
  <2>3. Len(t) = z
    BY <1>11, <2>1, PiecesMade
  <2> QED BY <2>2, <2>3
<1>15. FlattenSeq(t) = Wording(tau, V)
  <2>1. FlattenSeq(t) = Wording(tau, Together(S, Len(K)))
    <3>1. Len(t) = Len(K)
      BY <1>4, <1>14
    <3> HIDE DEF S, t, V
    <3> QED BY <1>7, <1>13, <1>14, <3>1, PiecesJoin
  <2> HIDE DEF S, t, V
  <2> QED BY <1>4, <1>12, <2>1
<1>16. TextLeft(nodes, u, n, at, l, X, {}, u) = Wording(tau, V)
  BY <1>2 DEF TextLeft, tau
<1> HIDE DEF t, V
<1> QED BY <1>15, <1>16 DEF t

(* Max is the greatest element.                                             *)
LEMMA MaxFacts ==
  ASSUME NEW k \in Nat, NEW S, S \subseteq 0 .. k, S # {}
  PROVE  Max(S) \in S /\ \A y \in S : y <= Max(S)
<1>1. PICK x \in S : \A y \in S : y <= x
  BY GreatestOf
<1>2. \A y \in S : x >= y
  BY <1>1
<1>3. Max(S) \in S /\ \A y \in S : Max(S) >= y
  BY <1>2 DEF Max
<1> QED BY <1>3

LeavesBefore(nodes, r, n) == {x \in LeavesOf(nodes, r) : x < n}
LeavesBehind(nodes, r, n) == {x \in LeavesOf(nodes, r) : x > n}

(* What is to the left and to the right of the change, and Y between them.  *)
RestIs(nodes, u, n, at, l, X, A, r, Y) ==
  TextLeft(nodes, u, n, at, l, X, A, r)
    = (TextAt(nodes, LeavesBefore(nodes, r, n)) \o Y)
      \o TextAt(nodes, LeavesBehind(nodes, r, Max(Block(nodes, nodes[u].kids, at, l))))

(* The text of the whole tree: what is before, X if it is there, and what   *)
(* is behind.                                                               *)
LEMMA TextOfRest ==
  ASSUME NEW nodes, NEW k, NEW W, NEW u, NEW n, NEW at, NEW l, NEW X, NEW A,
         Changes(nodes, k, W, u, n, at, l, X, A), NEW r \in DOMAIN nodes, u \in NodesOf(nodes, r),
         NEW Y, Y = IF A = {} THEN << >> ELSE X
  PROVE  RestIs(nodes, u, n, at, l, X, A, r, Y)
<1> DEFINE B == Block(nodes, nodes[u].kids, at, l)
           Lo == LeavesBefore(nodes, r, n)
           Hi == LeavesBehind(nodes, r, Max(B))
           tau == Altered(nodes, n, X)
           K == nodes[u].kids
           L == LeavesOf(nodes, r)
           V == Left(nodes, u, at, l, A, r)
<1>1. /\ Ordered(nodes, k) /\ u \in DOMAIN nodes /\ n \in DOMAIN nodes /\ n \in B
      /\ B \subseteq NodesOf(nodes, u) /\ tau[n] = X
      /\ at \in 1 .. Len(K) /\ l \in at .. Len(K) /\ n = K[at] /\ X \in Seq(W) /\ (A = {} \/ A = {n})
      /\ Names(nodes) \subseteq W /\ k \in Nat /\ DOMAIN nodes = 0 .. k - 1
  <2>1. /\ Ordered(nodes, k) /\ u \in DOMAIN nodes /\ n \in DOMAIN nodes /\ n \in B
        /\ B \subseteq NodesOf(nodes, u) /\ tau[n] = X
    BY ChangesFacts
  <2>2. /\ at \in 1 .. Len(K) /\ l \in at .. Len(K) /\ n = K[at] /\ X \in Seq(W)
        /\ (A = {} \/ A = {n}) /\ Names(nodes) \subseteq W
    BY DEF Changes
  <2>3. k \in Nat /\ DOMAIN nodes = 0 .. k - 1
    BY <2>1 DEF Ordered, HeapFits
  <2> QED BY <2>1, <2>2, <2>3
<1> HIDE DEF K, tau, B
<1>2. /\ \A x \in DOMAIN nodes : x \in Int /\ x \in 0 .. k
      /\ \A x \in NodesOf(nodes, r) : x \in DOMAIN nodes
      /\ \A x \in NodesOf(nodes, u) : x \in DOMAIN nodes
      /\ \A x \in L : x \in NodesOf(nodes, r) /\ x \in DOMAIN nodes
  <2>1. NodesOf(nodes, r) \subseteq DOMAIN nodes
    BY <1>1, KidsFacts
  <2>2. NodesOf(nodes, u) \subseteq DOMAIN nodes
    BY <1>1, KidsFacts
  <2> QED BY <1>1, <2>1, <2>2 DEF LeavesOf
<1>3. PICK z \in B : z = Max(B) /\ \A y \in B : y <= z
  <2>1. B \subseteq 0 .. k /\ B # {}
    BY <1>1, <1>2
  <2> QED BY <1>1, <2>1, MaxFacts
<1>4. \A x \in B : x >= n
  BY <1>1, BlockFacts DEF K, B
<1>5. n \in Int /\ z \in Int /\ n <= z
  BY <1>1, <1>2, <1>3
<1>6. \A x \in L : x >= n /\ x <= z => x \in B
  <2> SUFFICES ASSUME NEW x \in L, x >= n, x <= z PROVE x \in B
    OBVIOUS
  <2>1. x \in NodesOf(nodes, r) /\ x \in Int /\ n <= x
    BY <1>2, <1>5
  <2> QED BY <1>1, <1>3, <2>1, BlockBetween DEF K, B
<1>7. L \ B = Lo \cup Hi
  <2>1. \A x \in L : x \in Int
    BY <1>2
  <2>2. ASSUME NEW x \in L, x \notin B PROVE x < n \/ x > z
    BY <1>5, <1>6, <2>1, <2>2
  <2>3. ASSUME NEW x \in L, x < n \/ x > z PROVE x \notin B
    <3> SUFFICES ASSUME x \in B PROVE FALSE
      OBVIOUS
    <3>1. x <= z /\ x >= n
      BY <1>3, <1>4
    <3> QED BY <1>5, <2>1, <2>3, <3>1
  <2> HIDE DEF L
  <2> QED BY <1>3, <2>2, <2>3 DEF L, LeavesBefore, LeavesBehind
<1>8. V = (Lo \cup A) \cup Hi
  <2>1. V = (L \ B) \cup A
    BY DEF Left, B
  <2> HIDE DEF V, L
  <2> QED BY <1>7, <2>1
<1>9. /\ Lo \subseteq DOMAIN nodes /\ Hi \subseteq DOMAIN nodes /\ A \subseteq DOMAIN nodes
      /\ Precedes(Lo, A) /\ Precedes(Lo \cup A, Hi) /\ n \notin Lo /\ n \notin Hi
  <2>1. Lo \subseteq DOMAIN nodes /\ Hi \subseteq DOMAIN nodes /\ A \subseteq DOMAIN nodes
    BY <1>1, <1>2 DEF LeavesBefore, LeavesBehind
  <2>2. Precedes(Lo, A)
    BY <1>1 DEF Precedes, LeavesBefore
  <2>3. \A x \in Lo \cup A : x <= n /\ x \in Int
    BY <1>1, <1>2, <1>5 DEF LeavesBefore
  <2>4. \A x \in Hi : x > z /\ x \in Int
    BY <1>2, <1>3 DEF LeavesBehind
  <2>5. Precedes(Lo \cup A, Hi)
    <3> SUFFICES ASSUME NEW x \in Lo \cup A, NEW y \in Hi PROVE x < y
      BY DEF Precedes
    <3>1. x <= n /\ x \in Int /\ y > z /\ y \in Int
      BY <2>3, <2>4
    <3> QED BY <1>5, <3>1
  <2>6. n \notin Lo
    BY <1>5 DEF LeavesBefore
  <2>7. n \notin Hi
    BY <1>5, <2>4
  <2> QED BY <2>1, <2>2, <2>5, <2>6, <2>7
<1> HIDE DEF Lo, Hi
<1>10. Says(tau, Lo, W) /\ Says(tau, Hi, W) /\ Says(tau, A, W) /\ Says(tau, Lo \cup A, W)
  <2>1. Lo \cup A \subseteq DOMAIN nodes
    BY <1>9
  <2> QED BY <1>9, <2>1, ChangesFacts DEF tau
<1>11. Wording(tau, Lo \cup A) = Wording(tau, Lo) \o Wording(tau, A)
  <2>1. Says(tau, Lo, W) /\ Says(tau, A, W) /\ Precedes(Lo, A)
    BY <1>9, <1>10
  <2> HIDE DEF V, L
  <2> QED BY <2>1, WordingJoins
<1>12. Wording(tau, (Lo \cup A) \cup Hi) = Wording(tau, Lo \cup A) \o Wording(tau, Hi)
  <2>1. PICK R : R = Lo \cup A
    OBVIOUS
  <2>2. Says(tau, R, W) /\ Says(tau, Hi, W) /\ Precedes(R, Hi)
    BY <1>9, <1>10, <2>1
  <2> HIDE DEF V, L
  <2>3. Wording(tau, R \cup Hi) = Wording(tau, R) \o Wording(tau, Hi)
    BY <2>2, WordingJoins
  <2> QED BY <2>1, <2>3
<1>13. Wording(tau, A) = Y
  <2>1. CASE A = {}
    BY <2>1, WordingNone
  <2>2. CASE A # {}
    <3>1. A = {n} /\ n \in Int /\ tau[n] \in Seq(W)
      BY <1>1, <1>5, <2>2
    <3>2. Wording(tau, {n}) = tau[n]
      BY <3>1, WordingOne
    <3> QED BY <1>1, <2>2, <3>1, <3>2
  <2> QED BY <2>1, <2>2
<1>14. Wording(tau, Lo) = TextAt(nodes, Lo) /\ Wording(tau, Hi) = TextAt(nodes, Hi)
  <2> SUFFICES ASSUME NEW S, S \subseteq DOMAIN nodes, n \notin S, Says(tau, S, W)
               PROVE  Wording(tau, S) = TextAt(nodes, S)
    BY <1>9, <1>10
  <2>1. TextAt(nodes, S) = Wording(Plain(nodes), S)
    BY <1>1, TextAtIsWording
  <2>2. \A x \in S : tau[x] = Plain(nodes)[x]
    <3>1. \A x \in DOMAIN nodes : x # n => tau[x] = Plain(nodes)[x]
      BY ChangesFacts DEF tau
    <3> QED BY <3>1
  <2>3. S \subseteq Int /\ IsFiniteSet(S)
    BY DEF Says
  <2>4. Wording(tau, S) = Wording(Plain(nodes), S)
    <3> HIDE DEF V, L
    <3> QED BY <2>2, <2>3, WordingAgrees
  <2> QED BY <2>1, <2>4
<1>15. TextLeft(nodes, u, n, at, l, X, A, r) = Wording(tau, V)
  BY DEF TextLeft, tau
<1> HIDE DEF V
<1>16. TextLeft(nodes, u, n, at, l, X, A, r) = (TextAt(nodes, Lo) \o Y) \o TextAt(nodes, Hi)
  BY <1>8, <1>11, <1>12, <1>13, <1>14, <1>15
<1> QED BY <1>16 DEF Lo, Hi, B, RestIs

(* A subtree without u has the text of the tree before the change.          *)
LEMMA TextElsewhere ==
  ASSUME NEW nodes, NEW k, NEW W, NEW u, NEW n, NEW at, NEW l, NEW X, NEW A,
         Changes(nodes, k, W, u, n, at, l, X, A), NEW m \in DOMAIN nodes, u \notin NodesOf(nodes, m),
         NEW K, K = nodes[m].kids
  PROVE  /\ ~nodes[m].terminal =>
              FlattenSeq([i \in 1 .. Len(K) |-> TextLeft(nodes, u, n, at, l, X, A, K[i])])
                = TextLeft(nodes, u, n, at, l, X, A, m)
<1> DEFINE P == [x \in DOMAIN nodes |-> Wording(Plain(nodes), LeavesOf(nodes, x))]
           t == [i \in 1 .. Len(K) |-> TextLeft(nodes, u, n, at, l, X, A, K[i])]
           s == [i \in DOMAIN K |-> P[K[i]]]
<1>1. Ordered(nodes, k)
  BY DEF Changes
<1>2. Len(K) \in Nat /\ DOMAIN K = 1 .. Len(K)
      /\ \A i \in 1 .. Len(K) : K[i] \in DOMAIN nodes /\ NodesOf(nodes, K[i]) \subseteq NodesOf(nodes, m)
  BY <1>1, KidsFacts
<1>3. TextLeft(nodes, u, n, at, l, X, A, m) = P[m]
  BY DEF TextLeft
<1>4. P[m] = TextFrom(nodes, P, m)
  BY <1>1, PlainSolves DEF Solves
<1>5. t = s
  <2>1. ASSUME NEW i \in 1 .. Len(K) PROVE TextLeft(nodes, u, n, at, l, X, A, K[i]) = P[K[i]]
    <3>1. u \notin NodesOf(nodes, K[i]) /\ K[i] \in DOMAIN nodes
      BY <1>2
    <3> QED BY <3>1 DEF TextLeft
  <2> HIDE DEF P
  <2> QED BY <1>2, <2>1
<1> HIDE DEF P, t
<1>7. ASSUME ~nodes[m].terminal PROVE TextFrom(nodes, P, m) = FlattenSeq(s)
  BY <1>7 DEF TextFrom
<1> HIDE DEF s
<1>8. ~nodes[m].terminal => FlattenSeq(t) = TextLeft(nodes, u, n, at, l, X, A, m)
  BY <1>3, <1>4, <1>5, <1>7
<1> QED BY <1>8 DEF t

(* Its text is that of the tree.                                            *)
LEMMA SameElsewhere ==
  ASSUME NEW nodes, NEW k, NEW W, NEW u, NEW n, NEW at, NEW l, NEW X, NEW A,
         Changes(nodes, k, W, u, n, at, l, X, A), NEW m \in DOMAIN nodes, u \notin NodesOf(nodes, m)
  PROVE  TextLeft(nodes, u, n, at, l, X, A, m) = TextOf(nodes, m)
<1>1. Ordered(nodes, k)
  BY DEF Changes
<1>2. TextLeft(nodes, u, n, at, l, X, A, m) = Wording(Plain(nodes), LeavesOf(nodes, m))
  BY DEF TextLeft
<1> QED BY <1>1, <1>2, TextIsWording

(* A terminal has its name.                                                 *)
LEMMA TerminalElsewhere ==
  ASSUME NEW nodes, NEW k, NEW W, NEW u, NEW n, NEW at, NEW l, NEW X, NEW A,
         Changes(nodes, k, W, u, n, at, l, X, A), NEW m \in DOMAIN nodes, u \notin NodesOf(nodes, m),
         nodes[m].terminal
  PROVE  TextLeft(nodes, u, n, at, l, X, A, m) = <<nodes[m].name>>
<1> DEFINE P == [x \in DOMAIN nodes |-> Wording(Plain(nodes), LeavesOf(nodes, x))]
<1>1. Ordered(nodes, k)
  BY DEF Changes
<1>2. TextLeft(nodes, u, n, at, l, X, A, m) = P[m]
  BY DEF TextLeft
<1>3. P[m] = TextFrom(nodes, P, m)
  BY <1>1, PlainSolves DEF Solves
<1> HIDE DEF P
<1>4. TextFrom(nodes, P, m) = <<nodes[m].name>>
  BY DEF TextFrom
<1> QED BY <1>2, <1>3, <1>4

(* The nodes are the same, but u has other children.                        *)
Reparented(more, nodes, u, K) ==
  /\ DOMAIN more = DOMAIN nodes
  /\ \A m \in DOMAIN nodes : m # u => more[m] = nodes[m]
  /\ more[u].kids = K /\ more[u].terminal = nodes[u].terminal

(* There are texts of all nodes that fit, and this is the one of n.         *)
Told(nodes, n, text) == \E E : Solves(nodes, E) /\ E[n] = text

(* If the new children make up the new text of u, all new texts fit.        *)
LEMMA TextReparented ==
  ASSUME NEW nodes, NEW k, NEW W, NEW u, NEW n, NEW at, NEW l, NEW X, NEW A,
         Changes(nodes, k, W, u, n, at, l, X, A),
         NEW more, NEW K \in Seq(DOMAIN nodes), Reparented(more, nodes, u, K), ~nodes[u].terminal,
         NEW t, FlattenSeq(t) = TextLeft(nodes, u, n, at, l, X, A, u),
         t = [i \in 1 .. Len(K) |-> TextLeft(nodes, u, n, at, l, X, A, K[i])],
         NEW r \in DOMAIN nodes
  PROVE  Told(more, r, TextLeft(nodes, u, n, at, l, X, A, r))
<1> DEFINE E == [m \in DOMAIN nodes |-> TextLeft(nodes, u, n, at, l, X, A, m)]
<1>1. Ordered(nodes, k) /\ u \in DOMAIN nodes
  BY DEF Changes
<1>2. ASSUME NEW m \in DOMAIN nodes PROVE E[m] = TextFrom(more, E, m)
  <2>1. E[m] = TextLeft(nodes, u, n, at, l, X, A, m)
    OBVIOUS
  <2>2. CASE m = u
    <3> DEFINE s == [i \in DOMAIN more[m].kids |-> E[more[m].kids[i]]]
    <3>1. more[m].kids = K /\ ~more[m].terminal
      BY <2>2 DEF Reparented
    <3>2. DOMAIN K = 1 .. Len(K) /\ \A i \in 1 .. Len(K) : K[i] \in DOMAIN nodes
      BY Elements
    <3>3. \A i \in 1 .. Len(K) : E[K[i]] = TextLeft(nodes, u, n, at, l, X, A, K[i])
      BY <3>2
    <3>4. s = t
      <4> HIDE DEF E
      <4> QED BY <3>1, <3>2, <3>3
    <3>5. TextFrom(more, E, m) = FlattenSeq(s)
      BY <3>1 DEF TextFrom
    <3> HIDE DEF E, s
    <3> QED BY <2>1, <2>2, <3>4, <3>5
  <2>3. CASE m # u
    <3> DEFINE O == nodes[m].kids
               s == [i \in DOMAIN O |-> E[O[i]]]
               q == [i \in 1 .. Len(O) |-> TextLeft(nodes, u, n, at, l, X, A, O[i])]
    <3>1. more[m] = nodes[m]
      BY <2>3 DEF Reparented
    <3>2. DOMAIN O = 1 .. Len(O) /\ \A i \in 1 .. Len(O) : O[i] \in DOMAIN nodes
      BY <1>1, KidsFacts
    <3>3. \A i \in 1 .. Len(O) : E[O[i]] = TextLeft(nodes, u, n, at, l, X, A, O[i])
      BY <3>2
    <3>4. s = q
      <4> HIDE DEF E, O
      <4> QED BY <3>2, <3>3
    <3>5. ~nodes[m].terminal => TextFrom(more, E, m) = FlattenSeq(q)
      <4>1. ~nodes[m].terminal => TextFrom(more, E, m) = FlattenSeq(s)
        BY <3>1 DEF TextFrom
      <4> HIDE DEF E, s, q
      <4> QED BY <3>4, <4>1
    <3>6. nodes[m].terminal => TextFrom(more, E, m) = <<nodes[m].name>>
      BY <3>1 DEF TextFrom
    <3>7. ~nodes[m].terminal => FlattenSeq(q) = TextLeft(nodes, u, n, at, l, X, A, m)
      <4>1. CASE u \in NodesOf(nodes, m)
        <5> HIDE DEF E, s
        <5> QED BY <2>3, <4>1, TextAbove
      <4>2. CASE u \notin NodesOf(nodes, m)
        <5> HIDE DEF E, s
        <5> QED BY <4>2, TextElsewhere
      <4> QED BY <4>1, <4>2
    <3>8. nodes[m].terminal => TextLeft(nodes, u, n, at, l, X, A, m) = <<nodes[m].name>>
      <4>1. CASE u \in NodesOf(nodes, m)
        <5>1. ~nodes[m].terminal
          <6> HIDE DEF E, s, q
          <6> QED BY <2>3, <4>1, TextAbove
        <5> QED BY <5>1
      <4>2. CASE u \notin NodesOf(nodes, m)
        <5> HIDE DEF E, s, q
        <5> QED BY <4>2, TerminalElsewhere
      <4> QED BY <4>1, <4>2
    <3> HIDE DEF E, s, q
    <3> QED BY <2>1, <3>5, <3>6, <3>7, <3>8
  <2> QED BY <2>2, <2>3
<1>3. Solves(more, E)
  <2>1. DOMAIN more = DOMAIN nodes
    BY DEF Reparented
  <2> HIDE DEF E
  <2> QED BY <1>2, <2>1 DEF Solves
<1>4. E[r] = TextLeft(nodes, u, n, at, l, X, A, r)
  OBVIOUS
<1> HIDE DEF E
<1> QED BY <1>3, <1>4 DEF Told

(* A pooled tree hangs where n was.                                         *)
LEMMA TextReplaced ==
  ASSUME NEW nodes, NEW k, Ordered(nodes, k), NEW u \in DOMAIN nodes, NEW O, O = nodes[u].kids,
         NEW at \in 1 .. Len(O), NEW n, n = O[at], NEW other \in DOMAIN nodes,
         u \notin NodesOf(nodes, other), NEW more, Reparented(more, nodes, u, ReplaceAt(O, at, other)),
         NEW r \in DOMAIN nodes, u \in NodesOf(nodes, r)
  PROVE  Told(more, r, (TextAt(nodes, LeavesBefore(nodes, r, n)) \o TextOf(nodes, other))
                       \o TextAt(nodes, LeavesBehind(nodes, r, Max(NodesOf(nodes, n)))))
<1> DEFINE W == Names(nodes)
           X == TextOf(nodes, other)
           K == ReplaceAt(O, at, other)
           a == [i \in 1 .. Len(K) |-> TextLeft(nodes, u, n, at, at, X, {n}, K[i])]
           b == [i \in 1 .. Len(O) |-> IF i = at THEN X
                                       ELSE TextLeft(nodes, u, n, at, at, X, {n}, O[i])]
           text == TextLeft(nodes, u, n, at, at, X, {n}, r)
<1>1. O \in Seq(DOMAIN nodes) /\ Len(O) \in Nat /\ DOMAIN O = 1 .. Len(O)
      /\ \A i \in 1 .. Len(O) : O[i] \in DOMAIN nodes
  BY KidsFacts
<1>2. /\ K \in Seq(DOMAIN nodes) /\ Len(K) = Len(O)
      /\ \A i \in 1 .. Len(O) : K[i] = IF i = at THEN other ELSE O[i]
  BY <1>1 DEF ReplaceAt
<1>3. X \in Seq(W)
  <2>1. X = Wording(Plain(nodes), LeavesOf(nodes, other))
    BY TextIsWording
  <2>2. Says(Plain(nodes), LeavesOf(nodes, other), W)
    BY LeavesFacts
  <2> HIDE DEF X, W
  <2> QED BY <2>1, <2>2, WordingTyped
<1> HIDE DEF X, W, K
<1>4. Changes(nodes, k, W, u, n, at, at, X, {n})
  <2>1. at \in at .. Len(O)
    BY <1>1
  <2> QED BY <1>3, <2>1 DEF Changes, W
<1>5. ~nodes[u].terminal
  BY <1>4, HoleInside
<1>6. FlattenSeq(b) = TextLeft(nodes, u, n, at, at, X, {n}, u)
  <2>1. HoleIs(nodes, u, n, at, X, O)
    BY <1>4, TextWithHole
  <2> QED BY <2>1 DEF HoleIs
<1>7. TextLeft(nodes, u, n, at, at, X, {n}, other) = X
  BY <1>4, SameElsewhere DEF X
<1>8. a = b
  BY <1>2, <1>7
<1> HIDE DEF b
<1>9. Told(more, r, text)
  <2>1. FlattenSeq(a) = TextLeft(nodes, u, n, at, at, X, {n}, u)
    <3> HIDE DEF a
    <3> QED BY <1>6, <1>8
  <2>2. Reparented(more, nodes, u, K)
    BY DEF K
  <2>3. a = [i \in 1 .. Len(K) |-> TextLeft(nodes, u, n, at, at, X, {n}, K[i])]
    OBVIOUS
  <2>4. PICK s : s = a
    OBVIOUS
  <2> HIDE DEF a
  <2> QED BY <1>2, <1>4, <1>5, <2>1, <2>2, <2>3, TextReparented
<1>10. Block(nodes, O, at, at) = NodesOf(nodes, n)
  <2>1. at .. at = {at}
    BY <1>1
  <2> QED BY <2>1 DEF Block
<1>11. text = (TextAt(nodes, LeavesBefore(nodes, r, n)) \o X)
              \o TextAt(nodes, LeavesBehind(nodes, r, Max(NodesOf(nodes, n))))
  <2>1. text = (TextAt(nodes, LeavesBefore(nodes, r, n)) \o X)
               \o TextAt(nodes, LeavesBehind(nodes, r, Max(Block(nodes, nodes[u].kids, at, at))))
    <3>1. X = IF {n} = {} THEN << >> ELSE X
      OBVIOUS
    <3>2. RestIs(nodes, u, n, at, at, X, {n}, r, X)
      BY <1>4, <3>1, TextOfRest
    <3> QED BY <3>2 DEF RestIs
  <2> QED BY <1>10, <2>1
<1> HIDE DEF text
<1> QED BY <1>9, <1>11 DEF X

(* Some children are gone.                                                  *)
LEMMA TextDeleted ==
  ASSUME NEW nodes, NEW k, Ordered(nodes, k), NEW u \in DOMAIN nodes, NEW O, O = nodes[u].kids,
         NEW at \in 1 .. Len(O), NEW l \in at .. Len(O), NEW n, n = O[at],
         NEW more, Reparented(more, nodes, u, Without(O, at, l - at + 1)),
         NEW r \in DOMAIN nodes, u \in NodesOf(nodes, r)
  PROVE  Told(more, r, TextAt(nodes, LeavesBefore(nodes, r, n))
                       \o TextAt(nodes, LeavesBehind(nodes, r, Max(Block(nodes, O, at, l)))))
<1> DEFINE W == Names(nodes)
           X == << >>
           K == Without(O, at, l - at + 1)
           a == [i \in 1 .. Len(K) |-> TextLeft(nodes, u, n, at, l, X, {}, K[i])]
           text == TextLeft(nodes, u, n, at, l, X, {}, r)
           Lo == LeavesBefore(nodes, r, n)
           left == TextAt(nodes, Lo)
           right == TextAt(nodes, LeavesBehind(nodes, r, Max(Block(nodes, O, at, l))))
<1>1. X \in Seq(W)
  OBVIOUS
<1> HIDE DEF X, W, K
<1>2. Changes(nodes, k, W, u, n, at, l, X, {})
  BY <1>1 DEF Changes, W
<1>3. ~nodes[u].terminal
  BY <1>2, HoleInside
<1>4. K \in Seq(DOMAIN nodes)
  <2>1. O \in Seq(DOMAIN nodes) /\ Len(O) \in Nat
    BY KidsFacts
  <2>2. l - at + 1 \in Nat /\ at + (l - at + 1) - 1 <= Len(O)
    BY <2>1
  <2> QED BY <2>1, <2>2, WithoutFacts DEF K
<1>5. FlattenSeq(a) = TextLeft(nodes, u, n, at, l, X, {}, u)
  <2>1. K = Without(nodes[u].kids, at, l - at + 1)
    BY DEF K
  <2> QED BY <1>2, <2>1, TextWithGap
<1>6. Told(more, r, text)
  <2>1. Reparented(more, nodes, u, K)
    BY DEF K
  <2>2. a = [i \in 1 .. Len(K) |-> TextLeft(nodes, u, n, at, l, X, {}, K[i])]
    OBVIOUS
  <2> HIDE DEF a
  <2> QED BY <1>2, <1>3, <1>4, <1>5, <2>1, <2>2, TextReparented
<1>7. text = (left \o << >>) \o right
  <2>1. << >> = IF {} = {} THEN << >> ELSE X
    OBVIOUS
  <2>2. RestIs(nodes, u, n, at, l, X, {}, r, << >>)
    BY <1>2, <2>1, TextOfRest
  <2> QED BY <2>2 DEF RestIs
<1>8. left \o << >> = left
  <2>1. Lo \subseteq LeavesOf(nodes, r)
    BY DEF LeavesBefore
  <2>2. Lo \subseteq DOMAIN nodes
    BY <2>1, LeavesFacts
  <2>3. left = Wording(Plain(nodes), Lo)
    BY <2>2, TextAtIsWording
  <2>4. Says(Plain(nodes), Lo, Names(nodes))
    BY <2>2, PlainSays
  <2> HIDE DEF left, Lo
  <2>5. left \in Seq(Names(nodes))
    BY <2>3, <2>4, WordingTyped
  <2> QED BY <2>5, ConcatFacts
<1>9. text = left \o right
  <2> HIDE DEF text, left, right
  <2> QED BY <1>7, <1>8
<1> HIDE DEF text, left, right
<1> QED BY <1>6, <1>9 DEF left, right

(* A finished clone tells what the tree tells.                              *)
LEMMA TextCloned ==
  ASSUME NEW nodes, NEW cl, NEW fr, Copying(nodes, cl, fr), Len(fr) = 1,
         fr[1].cloned = Len(nodes[fr[1].of].kids), NEW text, Told(nodes, fr[1].of, text)
  PROVE  TextOf(cl, 1) = text
<1>1. PICK E : Solves(nodes, E) /\ E[fr[1].of] = text
  BY DEF Told
<1> DEFINE F == [p \in DOMAIN cl |-> E[cl[p].id]]
           rank == [p \in DOMAIN cl |-> Len(cl) - p]
<1>2. /\ Len(cl) \in Nat /\ DOMAIN cl = 1 .. Len(cl) /\ 1 \in DOMAIN cl
      /\ \A p \in DOMAIN cl : IF p = 1 THEN Nowhere(cl, p) ELSE Once(cl, p)
  BY CopyingEnds
<1>3. \A p \in DOMAIN cl : cl[p].id \in DOMAIN nodes /\ cl[p].kids \in Seq(DOMAIN cl)
  BY DEF Copying, NodeFits
<1>4. Ranked(cl, rank)
  <2> SUFFICES ASSUME NEW p \in DOMAIN cl
               PROVE  /\ rank[p] \in Nat
                      /\ \A i \in DOMAIN cl[p].kids :
                           cl[p].kids[i] \in DOMAIN cl /\ rank[cl[p].kids[i]] < rank[p]
    BY DEF Ranked
  <2>1. rank[p] = Len(cl) - p /\ rank[p] \in Nat /\ p \in Nat
    BY <1>2
  <2>2. ASSUME NEW i \in DOMAIN cl[p].kids
        PROVE  cl[p].kids[i] \in DOMAIN cl /\ rank[cl[p].kids[i]] < rank[p]
    <3>1. PICK q : q = cl[p].kids[i]
      OBVIOUS
    <3>2. q \in DOMAIN cl
      BY <1>3, <3>1
    <3>3. q # 1
      <4>1. Nowhere(cl, 1)
        BY <1>2
      <4> QED BY <3>1, <4>1 DEF Nowhere
    <3>4. Once(cl, q)
      BY <1>2, <3>2, <3>3
    <3>5. cl[q].up = p /\ cl[q].up \in 1 .. q - 1
      BY <3>1, <3>4 DEF Once
    <3>6. rank[q] = Len(cl) - q
      BY <3>2
    <3> HIDE DEF rank
    <3> QED BY <1>2, <2>1, <3>1, <3>2, <3>5, <3>6
  <2> QED BY <2>1, <2>2
<1>5. Solves(cl, F)
  <2> SUFFICES ASSUME NEW p \in DOMAIN cl PROVE F[p] = TextFrom(cl, F, p)
    BY DEF Solves
  <2>1. PICK n : n = cl[p].id
    OBVIOUS
  <2>2. n \in DOMAIN nodes /\ F[p] = E[n]
    BY <1>3, <2>1
  <2>3. E[n] = TextFrom(nodes, E, n)
    BY <1>1, <2>2 DEF Solves
  <2>4. /\ cl[p].name = nodes[n].name /\ cl[p].terminal = nodes[n].terminal
        /\ [i \in DOMAIN cl[p].kids |-> cl[cl[p].kids[i]].id] = nodes[n].kids
    BY <2>1, CopyingCopies
  <2>5. PICK K \in Seq(DOMAIN cl) : K = cl[p].kids
    BY <1>3
  <2>6. DOMAIN nodes[n].kids = DOMAIN K /\ \A i \in DOMAIN K : nodes[n].kids[i] = cl[K[i]].id
    BY <2>4, <2>5
  <2>7. \A i \in DOMAIN K : K[i] \in DOMAIN cl
    BY Elements
  <2>8. [i \in DOMAIN nodes[n].kids |-> E[nodes[n].kids[i]]] = [i \in DOMAIN K |-> F[K[i]]]
    <3>1. \A i \in DOMAIN K : E[nodes[n].kids[i]] = F[K[i]]
      BY <2>6, <2>7
    <3> HIDE DEF F
    <3> QED BY <2>6, <3>1
  <2>9. TextFrom(nodes, E, n) = TextFrom(cl, F, p)
    <3> HIDE DEF F
    <3> QED BY <2>4, <2>5, <2>8 DEF TextFrom
  <2> HIDE DEF F
  <2> QED BY <2>2, <2>3, <2>9
<1>6. F[1] = text
  <2>1. fr[1].copy = 1 /\ fr[1].of = cl[fr[1].copy].id
    BY DEF Copying, FramesFit
  <2> QED BY <1>1, <1>2, <2>1
<1> HIDE DEF F, rank
<1>7. TextOf(cl, 1) = F[1]
  BY <1>2, <1>4, <1>5, TextIs
<1> QED BY <1>6, <1>7

-----------------------------------------------------------------------------
(***************************************************************************)
(* The trees of the heap are in preorder.                                   *)
(***************************************************************************)
(* Children are in ascending order, and what lies between a node and its    *)
(* parent is below that parent.                                             *)
IRsRise(pt, base) ==
  LET nodes == IRs(pt, base) IN
  /\ \A n \in DOMAIN nodes : Rising(nodes[n].kids) /\ (nodes[n].terminal => nodes[n].kids = << >>)
  /\ \A c, x \in DOMAIN nodes : c # base /\ nodes[c].up < x /\ x < c => nodes[x].up >= nodes[c].up

(* The IR of a parse tree is in preorder.                                   *)
LEMMA IRsRiseFacts ==
  ASSUME NEW pt \in Trees, NEW base \in Nat
  PROVE  IRsRise(pt, base)
<1> DEFINE nodes == IRs(pt, base)
           id(p) == IF p = 0 THEN None ELSE base + p - 1
           kidsOf(p) == {id(c) : c \in {c \in DOMAIN pt.up : pt.up[c] = p}}
           len == Len(pt.up)
<1>1. /\ len \in Nat \ {0} /\ pt.up \in Seq(Nat) /\ DOMAIN pt.up = 1 .. len /\ pt.up[1] = 0
      /\ \A p \in 2 .. len : /\ pt.up[p] \in 1 .. p - 1 /\ pt.up[p] \in pt.rules
                             /\ \A q \in pt.up[p] + 1 .. p - 1 : pt.up[q] >= pt.up[p]
  BY ParseTreesAssumption DEF Trees
<1>2. IRsFit(pt, base)
  BY IRsFacts
<1>3. DOMAIN nodes = base .. base + len - 1
  BY <1>2 DEF IRsFit
<1>4. \A n \in DOMAIN nodes : /\ n - base + 1 \in 1 .. len
                              /\ nodes[n].up = id(pt.up[n - base + 1])
                              /\ nodes[n].terminal = (n - base + 1 \notin pt.rules)
                              /\ nodes[n].kids = InOrder(kidsOf(n - base + 1))
  <2> SUFFICES ASSUME NEW n \in DOMAIN nodes
               PROVE  /\ n - base + 1 \in 1 .. len
                      /\ nodes[n].up = id(pt.up[n - base + 1])
                      /\ nodes[n].terminal = (n - base + 1 \notin pt.rules)
                      /\ nodes[n].kids = InOrder(kidsOf(n - base + 1))
    OBVIOUS
  <2>1. n - base + 1 \in 1 .. len
    BY <1>1, <1>3
  <2>2. nodes[n].up = id(pt.up[n - base + 1])
    BY <1>1 DEF IRs
  <2>3. nodes[n].kids = InOrder(kidsOf(n - base + 1))
    BY <1>1 DEF IRs
  <2>4. nodes[n].terminal = (n - base + 1 \notin pt.rules)
    BY <1>1 DEF IRs
  <2> QED BY <2>1, <2>2, <2>3, <2>4
<1> HIDE DEF nodes
<1>5. ASSUME NEW n \in DOMAIN nodes PROVE Rising(nodes[n].kids)
  <2> DEFINE K == kidsOf(n - base + 1)
  <2>1. K \subseteq DOMAIN nodes
    <3>1. \A p \in 1 .. len : p # 0 /\ base + p - 1 \in base .. base + len - 1
      BY <1>1
    <3> QED BY <1>1, <1>3, <3>1
  <2>2. IsFiniteSet(DOMAIN nodes) /\ DOMAIN nodes \subseteq Int
    BY <1>1, <1>3, FS_Interval
  <2>3. nodes[n].kids = InOrder(K)
    BY <1>4
  <2> HIDE DEF K
  <2>4. IsFiniteSet(K) /\ K \subseteq Int
    BY <2>1, <2>2, FS_Subset
  <2>5. Rising(InOrder(K))
    BY <2>4, InOrderRises
  <2> QED BY <2>3, <2>5
<1>6. ASSUME NEW n \in DOMAIN nodes, nodes[n].terminal PROVE nodes[n].kids = << >>
  <2> DEFINE p == n - base + 1
             K == kidsOf(p)
  <2>1. p \in 1 .. len /\ p \notin pt.rules
    BY <1>4, <1>6
  <2>2. K = {}
    <3> SUFFICES ASSUME NEW c \in 1 .. len, pt.up[c] = p PROVE FALSE
      BY <1>1
    <3>1. c # 1
      <4> HIDE DEF p
      <4> QED BY <1>1, <2>1
    <3>2. c \in 2 .. len
      BY <1>1, <3>1
    <3> HIDE DEF p
    <3> QED BY <1>1, <2>1, <3>2
  <2>3. nodes[n].kids = InOrder(K)
    BY <1>4
  <2> HIDE DEF K
  <2>4. InOrder({}) \in Seq({})
    BY InOrderFacts, FS_EmptySet
  <2>5. InOrder({}) = << >>
    BY <2>4
  <2> QED BY <2>2, <2>3, <2>5
<1>7. ASSUME NEW c \in DOMAIN nodes, NEW x \in DOMAIN nodes, c # base, nodes[c].up < x, x < c
      PROVE  nodes[x].up >= nodes[c].up
  <2>1. PICK p \in 1 .. len, q \in 1 .. len : p = c - base + 1 /\ q = x - base + 1
    BY <1>4
  <2>2. c \in Int /\ x \in Int /\ len \in Nat /\ p \in Int /\ q \in Int /\ p # 1 /\ q < p
    <3>1. c \in Int /\ x \in Int /\ len \in Nat
      BY <1>1, <1>3
    <3> HIDE DEF len, id, kidsOf
    <3> QED BY <1>7, <2>1, <3>1
  <2>3. p \in 2 .. len
    BY <2>2
  <2>4. PICK u \in 1 .. p - 1 : u = pt.up[p] /\ \A y \in u + 1 .. p - 1 : pt.up[y] >= u
    BY <1>1, <2>3
  <2>5. nodes[c].up = base + u - 1
    <3>1. nodes[c].up = id(u)
      BY <1>4, <2>1, <2>4
    <3>2. u # 0
      BY <2>2
    <3> QED BY <3>1, <3>2
  <2>6. q \in u + 1 .. p - 1
    <3>1. base + u - 1 < base + q - 1
      <4>1. x = base + q - 1
        BY <2>1, <2>2
      <4> HIDE DEF len, id, kidsOf
      <4> QED BY <1>7, <2>5, <4>1
    <3> QED BY <2>2, <3>1
  <2>7. pt.up[q] >= u /\ u \in Nat /\ u >= 1
    BY <2>2, <2>4, <2>6
  <2>8. q \in 2 .. len
    BY <2>2, <2>6, <2>7
  <2>9. pt.up[q] \in Nat
    BY <1>1, <2>8
  <2>10. nodes[x].up = base + pt.up[q] - 1
    <3>1. nodes[x].up = id(pt.up[q])
      BY <1>4, <2>1
    <3>2. pt.up[q] # 0
      BY <2>7, <2>9
    <3> QED BY <3>1, <3>2
  <2> HIDE DEF len, id, kidsOf
  <2> QED BY <2>5, <2>7, <2>9, <2>10
<1> QED BY <1>5, <1>6, <1>7 DEF IRsRise, nodes

(* So are all nodes of the heap.                                            *)
LEMMA HeapOrdered == ReadFits => Ordered(Heap, NextID)
<1> SUFFICES ASSUME ReadFits PROVE Ordered(Heap, NextID)
  OBVIOUS
<1>1. HeapFits(Heap, NextID) /\ HeapIsParsed /\ NextID \in Nat
  BY HeapFacts DEF ReadFits
<1>2. ASSUME NEW m \in DOMAIN Heap
      PROVE  Sorted(Heap, Heap[m].kids) /\ (Heap[m].terminal => Heap[m].kids = << >>)
  <2>1. PICK i \in DOMAIN read : m \in DOMAIN Parsed(read[i])
    BY DEF ReadFits, Heap
  <2>2. PICK pt, base, nodes : pt = read[i].parse /\ base = read[i].root /\ nodes = IRs(pt, base)
    OBVIOUS
  <2>3. /\ pt \in Trees /\ base \in Nat /\ IRsFit(pt, base) /\ IRsRise(pt, base)
        /\ nodes = Parsed(read[i])
    BY <2>2, ReadFacts, IRsRiseFacts DEF Parsed
  <2>4. /\ Len(pt.up) \in Nat /\ DOMAIN nodes = base .. base + Len(pt.up) - 1
        /\ \A n \in DOMAIN nodes :
             /\ nodes[n].kids \in Seq(DOMAIN nodes)
             /\ \A c \in ToSet(nodes[n].kids) : c > n /\ nodes[c].up = n
    BY <2>2, <2>3 DEF IRsFit
  <2>5. /\ \A n \in DOMAIN nodes : Rising(nodes[n].kids)
                                  /\ (nodes[n].terminal => nodes[n].kids = << >>)
        /\ \A c, x \in DOMAIN nodes : c # base /\ nodes[c].up < x /\ x < c
                                       => nodes[x].up >= nodes[c].up
    BY <2>2, <2>3 DEF IRsRise
  <2>6. \A n \in DOMAIN nodes : n \in DOMAIN Heap /\ Heap[n] = nodes[n]
    BY <1>1, <2>3 DEF HeapIsParsed
  <2>7. PICK K \in Seq(DOMAIN nodes) : K = Heap[m].kids /\ K = nodes[m].kids /\ m \in DOMAIN nodes
    BY <2>1, <2>3, <2>4, <2>6
  <2>8. Len(K) \in Nat /\ DOMAIN K = 1 .. Len(K) /\ \A j \in 1 .. Len(K) : K[j] \in DOMAIN nodes
    BY Elements
  <2>9. K \in Seq(DOMAIN Heap)
    BY <1>1, <2>7 DEF HeapFits
  <2>10. ASSUME NEW a \in 1 .. Len(K), NEW b \in 1 .. Len(K), a < b
         PROVE  Precedes(NodesOf(Heap, K[a]), NodesOf(Heap, K[b]))
    <3>1. PICK p \in DOMAIN nodes, q \in DOMAIN nodes : p = K[a] /\ q = K[b]
      BY <2>8
    <3>2. p < q /\ nodes[p].up = m /\ nodes[q].up = m /\ p > m /\ m \in Int /\ p \in Int /\ q \in Int
          /\ base \in Int /\ base <= m /\ p \in DOMAIN Heap /\ q \in DOMAIN Heap
      <4>1. p \in ToSet(nodes[m].kids) /\ q \in ToSet(nodes[m].kids)
        BY <2>7, <2>8, <3>1 DEF ToSet
      <4>2. nodes[p].up = m /\ nodes[q].up = m /\ p > m
        BY <2>4, <2>7, <4>1
      <4>3. p < q
        BY <2>5, <2>7, <2>10, <3>1 DEF Rising
      <4>4. m \in Int /\ p \in Int /\ q \in Int /\ base \in Int /\ base <= m
        BY <2>3, <2>4, <2>7
      <4> QED BY <2>6, <4>2, <4>3, <4>4
    <3> DEFINE C == {x \in DOMAIN nodes : p <= x /\ x < q}
    <3>3. ASSUME NEW x \in C, NEW c \in KidsOf(Heap, x) PROVE c \in C
      <4>1. x \in DOMAIN nodes /\ x \in Int /\ p <= x /\ x < q
        BY <2>3, <2>4
      <4>2. c \in ToSet(nodes[x].kids) /\ nodes[x].kids \in Seq(DOMAIN nodes)
        BY <2>4, <2>6, <4>1 DEF KidsOf
      <4>3. c > x /\ nodes[c].up = x /\ c \in DOMAIN nodes /\ c \in Int
        <5>1. c > x /\ nodes[c].up = x
          BY <2>4, <4>1, <4>2
        <5>2. c \in DOMAIN nodes
          BY <4>2 DEF ToSet
        <5> QED BY <2>3, <2>4, <5>1, <5>2
      <4>4. ~(c >= q)
        <5> SUFFICES ASSUME c >= q PROVE FALSE
          OBVIOUS
        <5>1. c # q
          <6>1. x # m
            BY <3>2, <4>1
          <6> QED BY <3>2, <4>3, <6>1
        <5>2. c # base /\ nodes[c].up < q /\ q < c
          BY <3>2, <4>1, <4>3, <5>1
        <5>3. nodes[q].up >= nodes[c].up
          BY <2>5, <4>3, <5>2
        <5>4. m >= x
          BY <3>2, <4>3, <5>3
        <5> QED BY <3>2, <4>1, <5>4
      <4>5. p <= c /\ c < q
        BY <3>2, <4>1, <4>3, <4>4
      <4> QED BY <4>3, <4>5
    <3>4. C \in SUBSET DOMAIN Heap /\ p \in C /\ \A x \in C : x < q /\ x \in Int
      BY <2>3, <2>4, <2>6, <3>2
    <3> HIDE DEF C
    <3>5. ClosedIn(Heap, C)
      BY <3>3 DEF ClosedIn
    <3>6. NodesOf(Heap, p) \subseteq C
      BY <1>1, <3>4, <3>5, NodesWithin
    <3>7. ASSUME NEW x \in NodesOf(Heap, p), NEW y \in NodesOf(Heap, q) PROVE x < y
      <4>1. x < q /\ x \in Int
        BY <3>4, <3>6
      <4>2. y >= q /\ y \in Int
        BY <1>1, <3>2, NodesFollow
      <4> QED BY <3>2, <4>1, <4>2
    <3> QED BY <3>1, <3>7 DEF Precedes
  <2>11. Sorted(Heap, K)
    BY <2>9, <2>10 DEF Sorted
  <2>12. Heap[m].terminal => K = << >>
    BY <2>5, <2>6, <2>7
  <2> QED BY <2>7, <2>11, <2>12
<1> QED BY <1>1, <1>2 DEF Ordered

-----------------------------------------------------------------------------
(***************************************************************************)
(* The text of a tree with another text next to one of its nodes.           *)
(***************************************************************************)
(* The body of GetSourceAndInsert, and texts of all nodes that fit it.      *)
SourceAt(m, own, location, target, before, sep) ==
  LET upto(i) == FlattenSeq(SubSeq(own, 1, i))
      from(i) == FlattenSeq(SubSeq(own, i, Len(own)))
      at      == IndexOf(location)
  IN  IF tree[m].terminal THEN <<tree[m].name>>
      ELSE IF location \notin Kids(m) THEN upto(Len(own))
      ELSE IF before
      THEN EndingWith(upto(at - 1) \o TextOf(tree, target), sep) \o from(at)
      ELSE EndingWith(upto(at), sep) \o TextOf(tree, target) \o from(at + 1)

Own(E, m) == [i \in DOMAIN tree[m].kids |-> E[tree[m].kids[i]]]

Sourced(E, location, target, before, sep) ==
  \A m \in DOMAIN tree : E[m] = SourceAt(m, Own(E, m), location, target, before, sep)

(* Two texts that fit all nodes and the insertion are the same.             *)
LEMMA SourcedOnce ==
  ASSUME NEW rank, Ranked(tree, rank), NEW n, NEW c, NEW before, NEW sep,
         NEW E, Sourced(E, n, c, before, sep), NEW F, Sourced(F, n, c, before, sep),
         NEW m \in DOMAIN tree
  PROVE  E[m] = F[m]
<1> DEFINE D == DOMAIN tree
           T == {r \in Nat : \E x \in D : rank[x] = r /\ E[x] # F[x]}
<1>1. SUFFICES ASSUME E[m] # F[m] PROVE FALSE
  OBVIOUS
<1>2. T # {}
  <2>1. rank[m] \in Nat
    BY DEF Ranked
  <2> QED BY <1>1, <2>1
<1>3. PICK r \in T : \A y \in T : r <= y
  <2>1. T \subseteq Nat
    OBVIOUS
  <2> HIDE DEF T
  <2> QED BY <1>2, <2>1, LeastOf
<1>4. PICK x \in D : rank[x] = r /\ E[x] # F[x] /\ r \in Nat
  OBVIOUS
<1> DEFINE K == tree[x].kids
<1>5. ASSUME NEW i \in DOMAIN K PROVE E[K[i]] = F[K[i]]
  <2>1. K[i] \in D /\ rank[K[i]] < r /\ rank[K[i]] \in Nat
    BY <1>4 DEF Ranked
  <2>2. ~(r <= rank[K[i]])
    BY <1>4, <2>1
  <2>3. rank[K[i]] \notin T
    <3> HIDE DEF T
    <3> QED BY <1>3, <2>2
  <2> QED BY <2>1, <2>3
<1>6. Own(E, x) = Own(F, x)
  BY <1>5 DEF Own
<1> HIDE DEF T
<1> QED BY <1>4, <1>6 DEF Sourced

(* GetSourceAndInsert is the one that fits.                                 *)
LEMMA SourceIs ==
  ASSUME NEW rank, Ranked(tree, rank), NEW n, NEW c, NEW before, NEW sep,
         NEW E, Sourced(E, n, c, before, sep), test \in DOMAIN tree
  PROVE  GetSourceAndInsert(n, c, before, sep) = E[test]
<1> DEFINE D == DOMAIN tree
           source == CHOOSE f : f = [m \in D |-> SourceAt(m, Own(f, m), n, c, before, sep)]
<1>1. \E h : h = [m \in D |-> SourceAt(m, Own(h, m), n, c, before, sep)]
  <2> DEFINE h == [m \in D |-> E[m]]
  <2>1. ASSUME NEW m \in D PROVE E[m] = SourceAt(m, Own(h, m), n, c, before, sep)
    <3>1. \A i \in DOMAIN tree[m].kids : tree[m].kids[i] \in D
      BY DEF Ranked
    <3>2. Own(E, m) = Own(h, m)
      BY <3>1 DEF Own
    <3> HIDE DEF h
    <3> QED BY <3>2 DEF Sourced
  <2>2. h = [m \in D |-> SourceAt(m, Own(h, m), n, c, before, sep)]
    BY <2>1
  <2> HIDE DEF h
  <2> QED BY <2>2
<1>2. source = [m \in D |-> SourceAt(m, Own(source, m), n, c, before, sep)]
  <2> DEFINE Q(f_) == f_ = [m \in D |-> SourceAt(m, Own(f_, m), n, c, before, sep)]
  <2>1. \E h : Q(h)
    BY <1>1
  <2>2. source = CHOOSE h : Q(h)
    OBVIOUS
  <2> HIDE DEF Q, source
  <2>3. Q(source)
    BY <2>1, <2>2, Zenon
  <2> QED BY <2>3 DEF Q
<1>3. GetSourceAndInsert(n, c, before, sep) = source[test]
  BY Zenon DEF GetSourceAndInsert, SourceAt, Own
<1> HIDE DEF source
<1>4. Sourced(source, n, c, before, sep)
  BY <1>2 DEF Sourced
<1>5. source[test] = E[test]
  BY <1>4, SourcedOnce
<1> QED BY <1>3, <1>5

-----------------------------------------------------------------------------
(***************************************************************************)
(* Texts in parts.                                                          *)
(***************************************************************************)
(* One text flattened is that text.                                         *)
LEMMA FlattenOne ==
  ASSUME NEW V, NEW x \in Seq(V)
  PROVE  FlattenSeq(<<x>>) = x
<1> DEFINE t == <<x>>
           F == [i \in 0 .. 1 |-> IF i = 0 THEN << >> ELSE x]
<1>1. t \in Seq(Seq(V)) /\ Len(t) = 1 /\ t[1] = x
  OBVIOUS
<1>2. Runs(F, t)
  <2>1. F[0] = << >> /\ F[1] = x /\ << >> \o x = x
    BY ConcatFacts
  <2> HIDE DEF F, t
  <2>2. \A i \in 1 .. Len(t) : i = 1
    BY <1>1
  <2>3. F[1] = F[1 - 1] \o t[1]
    BY <1>1, <2>1
  <2> QED BY <2>1, <2>2, <2>3 DEF Runs
<1>3. FlattenSeq(t) = F[1]
  <2> HIDE DEF F, t
  <2> QED BY <1>1, <1>2, FlattenIs
<1> QED BY <1>3

(* A flattened sequence in three parts.                                     *)
Upto(t, i) == FlattenSeq(SubSeq(t, 1, i))
Behind(t, i) == FlattenSeq(SubSeq(t, i, Len(t)))

LEMMA FlattenSplits ==
  ASSUME NEW V, NEW t \in Seq(Seq(V)), NEW i \in 0 .. Len(t)
  PROVE  /\ Upto(t, i) \in Seq(V) /\ Behind(t, i + 1) \in Seq(V)
         /\ FlattenSeq(t) = Upto(t, i) \o Behind(t, i + 1)
<1> DEFINE a == SubSeq(t, 1, i)
           b == SubSeq(t, i + 1, Len(t))
           W == Seq(V)
<1>1. a \in Seq(W) /\ b \in Seq(W) /\ t = a \o b
  <2>1. t \in Seq(W) /\ Len(t) \in Nat
    OBVIOUS
  <2> HIDE DEF W
  <2>2. a \in Seq(W) /\ Len(a) = i /\ \A j \in 1 .. i : a[j] = t[j]
    BY <2>1
  <2>3. b \in Seq(W) /\ Len(b) = Len(t) - i /\ \A j \in 1 .. Len(t) - i : b[j] = t[j + i]
    BY <2>1
  <2> HIDE DEF a, b
  <2>4. a \o b \in Seq(W) /\ Len(a \o b) = Len(t)
        /\ \A j \in 1 .. Len(t) : (a \o b)[j] = IF j <= i THEN a[j] ELSE b[j - i]
    BY <2>1, <2>2, <2>3
  <2>5. \A j \in 1 .. Len(t) : (a \o b)[j] = t[j]
    BY <2>1, <2>2, <2>3, <2>4
  <2> QED BY <2>1, <2>2, <2>3, <2>4, <2>5, SameSeq
<1> HIDE DEF a, b
<1>2. FlattenSeq(a) \in Seq(V) /\ FlattenSeq(b) \in Seq(V)
  BY <1>1, FlattenTyped
<1>3. FlattenSeq(a \o b) = FlattenSeq(a) \o FlattenSeq(b)
  BY <1>1, FlattenConcat
<1> QED BY <1>1, <1>2, <1>3 DEF a, b, Upto, Behind

(* A sequence up to and from one of its elements.                           *)
Sliced(t, at, y) ==
  /\ SubSeq(t, 1, at) = SubSeq(t, 1, at - 1) \o y
  /\ SubSeq(t, at, Len(t)) = y \o SubSeq(t, at + 1, Len(t))

(* A sequence up to and from an element, with and without that element.     *)
LEMMA SliceGrows ==
  ASSUME NEW W, NEW t \in Seq(W), NEW at \in 1 .. Len(t), NEW y, y = <<t[at]>>
  PROVE  /\ t[at] \in W /\ y \in Seq(W)
         /\ SubSeq(t, 1, at - 1) \in Seq(W) /\ SubSeq(t, at + 1, Len(t)) \in Seq(W)
         /\ Sliced(t, at, y)
<1> DEFINE x == t[at]
           a == SubSeq(t, 1, at - 1)
           b == SubSeq(t, at + 1, Len(t))
           c == SubSeq(t, 1, at)
           d == SubSeq(t, at, Len(t))
<1>1. /\ x \in W /\ a \in Seq(W) /\ b \in Seq(W) /\ c \in Seq(W) /\ d \in Seq(W) /\ <<x>> \in Seq(W)
      /\ Len(a) = at - 1 /\ Len(b) = Len(t) - at /\ Len(c) = at /\ Len(d) = Len(t) - at + 1
      /\ \A j \in 1 .. at - 1 : a[j] = t[j]
      /\ \A j \in 1 .. at : c[j] = t[j]
      /\ \A j \in 1 .. Len(t) - at : b[j] = t[j + at]
      /\ \A j \in 1 .. Len(t) - at + 1 : d[j] = t[j + at - 1]
      /\ Len(<<x>>) = 1 /\ <<x>>[1] = t[at] /\ Len(t) \in Nat
  <2>1. t \in Seq(W) /\ Len(t) \in Nat
    OBVIOUS
  <2>2. x \in W /\ <<x>> \in Seq(W) /\ Len(<<x>>) = 1 /\ <<x>>[1] = t[at]
    BY <2>1
  <2>3. a \in Seq(W) /\ Len(a) = at - 1 /\ \A j \in 1 .. at - 1 : a[j] = t[j]
    BY <2>1
  <2>4. c \in Seq(W) /\ Len(c) = at /\ \A j \in 1 .. at : c[j] = t[j]
    BY <2>1
  <2>5. b \in Seq(W) /\ Len(b) = Len(t) - at /\ \A j \in 1 .. Len(t) - at : b[j] = t[j + at]
    BY <2>1
  <2>6. d \in Seq(W) /\ Len(d) = Len(t) - at + 1
        /\ \A j \in 1 .. Len(t) - at + 1 : d[j] = t[j + at - 1]
    BY <2>1
  <2> QED BY <2>1, <2>2, <2>3, <2>4, <2>5, <2>6
<1>a. y = <<x>>
  OBVIOUS
<1> HIDE DEF a, b, c, d, x
<1>2. c = a \o y
  <2>1. /\ a \o y \in Seq(W) /\ Len(a \o y) = at
        /\ \A j \in 1 .. at - 1 : (a \o y)[j] = a[j]
        /\ (a \o y)[at] = y[1]
    <3>1. y \in Seq(W) /\ Len(y) = 1 /\ 1 \in 1 .. Len(y) /\ (at - 1) + 1 = at
      BY <1>1, <1>a
    <3>a. a \in Seq(W)
      BY <1>1
    <3>2. /\ a \o y \in Seq(W) /\ Len(a \o y) = Len(a) + Len(y)
          /\ \A j \in 1 .. Len(a) : (a \o y)[j] = a[j]
          /\ \A j \in 1 .. Len(y) : (a \o y)[Len(a) + j] = y[j]
      BY <3>a, <3>1
    <3>3. (a \o y)[Len(a) + 1] = y[1]
      BY <3>1, <3>2
    <3> QED BY <1>1, <3>1, <3>2, <3>3
  <2>2. \A j \in 1 .. at : c[j] = (a \o y)[j]
    <3> SUFFICES ASSUME NEW j \in 1 .. at PROVE c[j] = (a \o y)[j]
      OBVIOUS
    <3>1. j \in 1 .. at - 1 \/ j = at
      OBVIOUS
    <3> QED BY <1>1, <1>a, <2>1, <3>1
  <2> QED BY <1>1, <2>1, <2>2, SameSeq
<1>3. d = y \o b
  <2>1. /\ y \o b \in Seq(W) /\ Len(y \o b) = Len(t) - at + 1
        /\ \A j \in 1 .. Len(t) - at : (y \o b)[1 + j] = b[j]
        /\ (y \o b)[1] = y[1]
    <3>1. y \in Seq(W) /\ Len(y) = 1 /\ 1 \in 1 .. Len(y)
      BY <1>1, <1>a
    <3>a. b \in Seq(W) /\ Len(b) = Len(t) - at
      BY <1>1
    <3>b. at \in Nat /\ Len(t) \in Nat
      BY <1>1
    <3>2. /\ y \o b \in Seq(W) /\ Len(y \o b) = Len(y) + Len(b)
          /\ \A j \in 1 .. Len(y) : (y \o b)[j] = y[j]
          /\ \A j \in 1 .. Len(b) : (y \o b)[Len(y) + j] = b[j]
      BY <3>a, <3>1
    <3> QED BY <3>a, <3>b, <3>1, <3>2
  <2>2. ASSUME NEW j \in 1 .. Len(t) - at + 1 PROVE d[j] = (y \o b)[j]
    <3>1. CASE j = 1
      <4>a. 1 + at - 1 = at /\ 1 \in 1 .. Len(t) - at + 1
        OBVIOUS
      <4>1. d[1] = t[1 + at - 1]
        BY <1>1, <4>a
      <4>2. y[1] = t[at]
        BY <1>1, <1>a
      <4> QED BY <2>1, <3>1, <4>a, <4>1, <4>2
    <3>2. CASE j # 1
      <4>1. PICK i \in 1 .. Len(t) - at : j = 1 + i /\ j + at - 1 = i + at
        <5>1. j - 1 \in 1 .. Len(t) - at /\ j = 1 + (j - 1)
          BY <1>1, <3>2
        <5> QED BY <1>1, <5>1
      <4>2. (y \o b)[j] = b[i] /\ b[i] = t[i + at] /\ d[j] = t[j + at - 1]
        BY <1>1, <2>1, <4>1
      <4> QED BY <4>1, <4>2
    <3> QED BY <3>1, <3>2
  <2>3. Len(d) = Len(y \o b) /\ \A j \in 1 .. Len(d) : d[j] = (y \o b)[j]
    BY <1>1, <2>1, <2>2
  <2>4. d \in Seq(W) /\ y \o b \in Seq(W)
    BY <1>1, <2>1
  <2> QED BY <2>3, <2>4, SameSeq
<1>4. y \in Seq(W)
  BY <1>1, <1>a
<1> QED BY <1>1, <1>2, <1>3, <1>4 DEF Sliced, a, b, c, d, x

(* The same for flattened texts.                                            *)
LEMMA FlattenStep ==
  ASSUME NEW V, NEW t \in Seq(Seq(V)), NEW at \in 1 .. Len(t)
  PROVE  /\ t[at] \in Seq(V)
         /\ Upto(t, at) = Upto(t, at - 1) \o t[at]
         /\ Behind(t, at) = t[at] \o Behind(t, at + 1)
<1> DEFINE W == Seq(V)
           x == t[at]
           a == SubSeq(t, 1, at - 1)
           b == SubSeq(t, at + 1, Len(t))
           c == SubSeq(t, 1, at)
           d == SubSeq(t, at, Len(t))
<1>a. PICK y : y = <<x>>
  OBVIOUS
<1>1. /\ x \in W /\ y \in Seq(W) /\ a \in Seq(W) /\ b \in Seq(W)
      /\ Sliced(t, at, y)
  <2>1. t \in Seq(W)
    OBVIOUS
  <2> HIDE DEF W
  <2> QED BY <1>a, <2>1, SliceGrows
<1>2. c = a \o y
  BY <1>1 DEF Sliced
<1>3. d = y \o b
  BY <1>1 DEF Sliced
<1> HIDE DEF W, a, b, c, d, x
<1>4. FlattenSeq(y) = x
  BY <1>1, <1>a, FlattenOne DEF W
<1>5. y \in Seq(Seq(V)) /\ a \in Seq(Seq(V)) /\ b \in Seq(Seq(V))
  BY <1>1, <1>a DEF W
<1>6. FlattenSeq(a \o y) = FlattenSeq(a) \o FlattenSeq(y)
  BY <1>5, FlattenConcat
<1>7. FlattenSeq(y \o b) = FlattenSeq(y) \o FlattenSeq(b)
  BY <1>5, FlattenConcat
<1>8. x \in Seq(V)
  BY <1>1 DEF W
<1>9. FlattenSeq(c) = FlattenSeq(a) \o x
  BY <1>2, <1>4, <1>6
<1>10. FlattenSeq(d) = x \o FlattenSeq(b)
  BY <1>3, <1>4, <1>7
<1> QED BY <1>8, <1>9, <1>10 DEF Upto, Behind, a, b, c, d, x

(* Two texts behind another, with a separator where it belongs.             *)
JoinedAs(a, first, second, sep, J) == EndingWith(a \o first, sep) \o second = a \o J

LEMMA Separated ==
  ASSUME NEW V, NEW a \in Seq(V), NEW first \in Seq(V), NEW second \in Seq(V), NEW sep \in V
  PROVE  \E J \in Joins(first, second, sep) : J \in Seq(V) /\ JoinedAs(a, first, second, sep, J)
<1>c. PICK s : s = <<sep>>
  OBVIOUS
<1>a. s = <<sep>> /\ s \in Seq(V)
  BY <1>c
<1>b. ASSUME NEW x \in Seq(V) PROVE Append(x, sep) = x \o s
  BY <1>a
<1>1. CASE first = << >>
  <2>1. a \o first = a
    BY <1>1, ConcatFacts
  <2>2. Joins(first, second, sep) = {second, s \o second}
    BY <1>1, <1>a DEF Joins
  <2>3. CASE a = << >> \/ Last(a) = sep
    <3>1. EndingWith(a \o first, sep) = a
      BY <2>1, <2>3 DEF EndingWith
    <3>2. JoinedAs(a, first, second, sep, second)
      BY <3>1 DEF JoinedAs
    <3> QED BY <2>2, <3>2
  <2>4. CASE ~(a = << >> \/ Last(a) = sep)
    <3>1. EndingWith(a \o first, sep) = a \o s
      BY <2>1, <2>4, <1>b DEF EndingWith
    <3>2. (a \o s) \o second = a \o (s \o second)
      BY <1>a, ConcatAgain
    <3>3. JoinedAs(a, first, second, sep, s \o second)
      BY <3>1, <3>2 DEF JoinedAs
    <3>4. s \o second \in Seq(V)
      BY <1>a
    <3> QED BY <2>2, <3>3, <3>4
  <2> QED BY <2>3, <2>4
<1>2. CASE first # << >>
  <2>1. a \o first \in Seq(V) /\ a \o first # << >> /\ Last(a \o first) = Last(first)
    <3>1. Len(first) \in Nat \ {0}
      BY <1>2
    <3>2. /\ a \o first \in Seq(V) /\ Len(a \o first) = Len(a) + Len(first)
          /\ \A i \in 1 .. Len(first) : (a \o first)[Len(a) + i] = first[i]
      BY ConcatFacts
    <3>3. (a \o first)[Len(a) + Len(first)] = first[Len(first)]
      BY <3>1, <3>2
    <3>4. Len(a \o first) # 0
      BY <3>1, <3>2
    <3>5. a \o first # << >>
      BY <3>4
    <3> QED BY <3>2, <3>3, <3>5 DEF Last
  <2>2. CASE Last(first) = sep
    <3>1. EndingWith(a \o first, sep) = a \o first
      BY <2>1, <2>2 DEF EndingWith
    <3>2. (a \o first) \o second = a \o (first \o second)
      BY ConcatAgain
    <3>3. JoinedAs(a, first, second, sep, first \o second)
      BY <3>1, <3>2 DEF JoinedAs
    <3>4. first \o second \in Seq(V)
      OBVIOUS
    <3>5. first \o second \in Joins(first, second, sep)
      BY <1>2, <2>2 DEF Joins
    <3> QED BY <3>3, <3>4, <3>5
  <2>3. CASE Last(first) # sep
    <3>1. EndingWith(a \o first, sep) = (a \o first) \o s
      BY <2>1, <2>3, <1>b DEF EndingWith
    <3>2. first \o s \in Seq(V) /\ (first \o s) \o second \in Seq(V)
      BY <1>a
    <3>3. (a \o first) \o s = a \o (first \o s)
      BY <1>a, ConcatAgain
    <3>4. (a \o (first \o s)) \o second = a \o ((first \o s) \o second)
      BY <3>2, ConcatAgain
    <3>5. JoinedAs(a, first, second, sep, (first \o s) \o second)
      BY <3>1, <3>3, <3>4 DEF JoinedAs
    <3>6. (first \o s) \o second \in Joins(first, second, sep)
      BY <1>2, <1>a, <2>3 DEF Joins
    <3> QED BY <3>2, <3>5, <3>6
  <2> QED BY <2>2, <2>3
<1> QED BY <1>1, <1>2

(* One of the texts in a sequence is another.                               *)
Hung(t, at, J) == FlattenSeq([t EXCEPT ![at] = J]) = (Upto(t, at - 1) \o J) \o Behind(t, at + 1)

LEMMA FlattenExcept ==
  ASSUME NEW V, NEW t \in Seq(Seq(V)), NEW at \in 1 .. Len(t), NEW J \in Seq(V)
  PROVE  Hung(t, at, J)
<1> DEFINE W == Seq(V)
           s == [t EXCEPT ![at] = J]
<1>1. t \in Seq(W) /\ J \in W /\ Len(t) \in Nat
  OBVIOUS
<1>2. s \in Seq(W) /\ Len(s) = Len(t) /\ s[at] = J /\ \A i \in 1 .. Len(t) : i # at => s[i] = t[i]
  <2> HIDE DEF W
  <2> QED BY <1>1
<1>3. SubSeq(s, 1, at - 1) = SubSeq(t, 1, at - 1)
  <2> HIDE DEF W, s
  <2> QED BY <1>1, <1>2
<1>4. SubSeq(s, at + 1, Len(s)) = SubSeq(t, at + 1, Len(t))
  <2> HIDE DEF W, s
  <2> QED BY <1>1, <1>2
<1>5. s \in Seq(Seq(V)) /\ at \in 1 .. Len(s) /\ at \in 0 .. Len(s)
  BY <1>2
<1> HIDE DEF W, s
<1>6. Upto(s, at) = Upto(s, at - 1) \o s[at]
  BY <1>5, FlattenStep
<1>7. FlattenSeq(s) = Upto(s, at) \o Behind(s, at + 1)
  BY <1>5, FlattenSplits
<1>8. Upto(s, at - 1) = Upto(t, at - 1) /\ Behind(s, at + 1) = Behind(t, at + 1)
  BY <1>3, <1>4 DEF Upto, Behind
<1>9. FlattenSeq(s) = (Upto(t, at - 1) \o J) \o Behind(t, at + 1)
  BY <1>2, <1>6, <1>7, <1>8
<1> QED BY <1>9 DEF Hung, s

Regroups(a, b, c) == (a \o b) \o c = a \o (b \o c)

(* Concatenation is associative, as one fact.                               *)
LEMMA ConcatRegroups ==
  ASSUME NEW V, NEW a \in Seq(V), NEW b \in Seq(V), NEW c \in Seq(V)
  PROVE  Regroups(a, b, c)
BY ConcatAgain DEF Regroups

(* Above and beside the change, the text of a node is that of its children. *)
UnderIs(nodes, u, n, at, l, X, A, m) ==
  IF nodes[m].terminal THEN TextLeft(nodes, u, n, at, l, X, A, m) = <<nodes[m].name>>
  ELSE FlattenSeq([i \in 1 .. Len(nodes[m].kids) |->
                     TextLeft(nodes, u, n, at, l, X, A, nodes[m].kids[i])])
         = TextLeft(nodes, u, n, at, l, X, A, m)

LEMMA TextOfParents ==
  ASSUME NEW nodes, NEW k, NEW W, NEW u, NEW n, NEW at, NEW l, NEW X, NEW A,
         Changes(nodes, k, W, u, n, at, l, X, A), NEW m \in DOMAIN nodes, m # u
  PROVE  UnderIs(nodes, u, n, at, l, X, A, m)
<1> DEFINE K == nodes[m].kids
           q == [i \in 1 .. Len(K) |-> TextLeft(nodes, u, n, at, l, X, A, K[i])]
<1>1. ~nodes[m].terminal => FlattenSeq(q) = TextLeft(nodes, u, n, at, l, X, A, m)
  <2>1. CASE u \in NodesOf(nodes, m)
    BY <2>1, TextAbove
  <2>2. CASE u \notin NodesOf(nodes, m)
    BY <2>2, TextElsewhere
  <2> QED BY <2>1, <2>2
<1>2. nodes[m].terminal => TextLeft(nodes, u, n, at, l, X, A, m) = <<nodes[m].name>>
  <2>1. CASE u \in NodesOf(nodes, m)
    <3>1. ~nodes[m].terminal
      BY <2>1, TextAbove
    <3> QED BY <3>1
  <2>2. CASE u \notin NodesOf(nodes, m)
    BY <2>2, TerminalElsewhere
  <2> QED BY <2>1, <2>2
<1> QED BY <1>1, <1>2 DEF UnderIs

(* The texts of the children with a new one next to that of the at-th are   *)
(* as if the at-th had a text made of both.                                 *)
Grown(t, at, new, before, sep) ==
  IF before
  THEN EndingWith(Upto(t, at - 1) \o new, sep) \o Behind(t, at)
  ELSE EndingWith(Upto(t, at), sep) \o new \o Behind(t, at + 1)

Either(own, new, before, sep) ==
  IF before THEN Joins(new, own, sep) ELSE Joins(own, new, sep)

GrownBy(t, at, new, before, sep, J) ==
  Grown(t, at, new, before, sep) = FlattenSeq([t EXCEPT ![at] = J])

LEMMA GrownIs ==
  ASSUME NEW V, NEW t \in Seq(Seq(V)), NEW at \in 1 .. Len(t), NEW new \in Seq(V), NEW sep \in V,
         NEW before
  PROVE  \E J \in Either(t[at], new, before, sep) :
           J \in Seq(V) /\ GrownBy(t, at, new, before, sep, J)
<1> DEFINE own == t[at]
           a == Upto(t, at - 1)
           f == Behind(t, at + 1)
<1>1. own \in Seq(V) /\ Upto(t, at) = a \o own /\ Behind(t, at) = own \o f
  BY FlattenStep
<1>2. a \in Seq(V)
  <2>1. at - 1 \in 0 .. Len(t)
    OBVIOUS
  <2> QED BY <2>1, FlattenSplits
<1>3. f \in Seq(V)
  <2>1. at \in 0 .. Len(t)
    OBVIOUS
  <2> QED BY <2>1, FlattenSplits
<1>4. ASSUME NEW J \in Seq(V) PROVE FlattenSeq([t EXCEPT ![at] = J]) = (a \o J) \o f
  BY FlattenExcept DEF Hung
<1> HIDE DEF a, f, own
<1>5. CASE before
  <2>1. PICK J \in Joins(new, own, sep) : J \in Seq(V) /\ JoinedAs(a, new, own, sep, J)
    BY <1>1, <1>2, Separated
  <2>2. EndingWith(a \o new, sep) \in Seq(V)
    <3>1. a \o new \in Seq(V) /\ Append(a \o new, sep) \in Seq(V)
      BY <1>2
    <3> QED BY <3>1 DEF EndingWith
  <2>3. Grown(t, at, new, before, sep) = EndingWith(a \o new, sep) \o (own \o f)
    BY <1>1, <1>5 DEF Grown, a
  <2>4. EndingWith(a \o new, sep) \o (own \o f) = (EndingWith(a \o new, sep) \o own) \o f
    <3>1. PICK x : x = EndingWith(a \o new, sep)
      OBVIOUS
    <3>2. x \in Seq(V)
      BY <2>2, <3>1
    <3>3. Regroups(x, own, f)
      BY <1>1, <1>3, <3>2, ConcatRegroups
    <3> QED BY <3>1, <3>3 DEF Regroups
  <2>5. Grown(t, at, new, before, sep) = (a \o J) \o f
    BY <2>1, <2>3, <2>4 DEF JoinedAs
  <2>6. J \in Either(own, new, before, sep)
    BY <1>5, <2>1 DEF Either
  <2> QED BY <1>4, <2>1, <2>5, <2>6 DEF own, GrownBy
<1>6. CASE ~before
  <2>1. PICK J \in Joins(own, new, sep) : J \in Seq(V) /\ JoinedAs(a, own, new, sep, J)
    BY <1>1, <1>2, Separated
  <2>2. Grown(t, at, new, before, sep) = (EndingWith(a \o own, sep) \o new) \o f
    BY <1>1, <1>6 DEF Grown, f
  <2>3. Grown(t, at, new, before, sep) = (a \o J) \o f
    BY <2>1, <2>2 DEF JoinedAs
  <2>4. J \in Either(own, new, before, sep)
    BY <1>6, <2>1 DEF Either
  <2> QED BY <1>4, <2>1, <2>3, <2>4 DEF own, GrownBy
<1> QED BY <1>5, <1>6

(* Where the location is.                                                   *)
Located(n, u, O, at) ==
  /\ u \in DOMAIN tree /\ O = tree[u].kids /\ at = IndexOf(n) /\ at \in 1 .. Len(O) /\ O[at] = n
  /\ \A m \in DOMAIN tree : n \in Kids(m) <=> m = u

(* All texts are made of names, and no node is below its own children.      *)
LEMMA TextsOfKids ==
  ASSUME NEW nodes, NEW k, Ordered(nodes, k), NEW W, Names(nodes) \subseteq W
  PROVE  /\ \A m \in DOMAIN nodes : TextOf(nodes, m) \in Seq(W)
         /\ \A m \in DOMAIN nodes : /\ Len(nodes[m].kids) \in Nat
                                    /\ \A i \in 1 .. Len(nodes[m].kids) :
                                         /\ nodes[m].kids[i] \in DOMAIN nodes
                                         /\ m \notin NodesOf(nodes, nodes[m].kids[i])
<1>1. ASSUME NEW m \in DOMAIN nodes PROVE TextOf(nodes, m) \in Seq(W)
  <2>1. TextOf(nodes, m) = Wording(Plain(nodes), LeavesOf(nodes, m))
    BY TextIsWording
  <2>2. Says(Plain(nodes), LeavesOf(nodes, m), W)
    BY LeavesFacts
  <2> QED BY <2>1, <2>2, WordingTyped
<1>2. ASSUME NEW m \in DOMAIN nodes, NEW i \in 1 .. Len(nodes[m].kids)
      PROVE  nodes[m].kids[i] \in DOMAIN nodes /\ m \notin NodesOf(nodes, nodes[m].kids[i])
  <2>1. /\ nodes[m].kids[i] \in DOMAIN nodes /\ nodes[m].kids[i] > m
        /\ nodes[m].kids[i] \in Int /\ m \in Int
    BY KidsFacts
  <2>2. SUFFICES ASSUME m \in NodesOf(nodes, nodes[m].kids[i]) PROVE FALSE
    BY <2>1
  <2>3. m >= nodes[m].kids[i]
    BY <2>1, <2>2, NodesFrom
  <2> QED BY <2>1, <2>3
<1>3. ASSUME NEW m \in DOMAIN nodes PROVE Len(nodes[m].kids) \in Nat
  BY KidsFacts
<1> QED BY <1>1, <1>2, <1>3

TextsBelow(t, O) == t = [i \in 1 .. Len(O) |-> TextOf(tree, O[i])]

AllLeft(E, u, n, at, J) == E = [m \in DOMAIN tree |-> TextLeft(tree, u, n, at, at, J, {n}, m)]

(* The texts with J for that of the location fit the insertion.             *)
LEMMA InsertedSourced ==
  ASSUME NEW k, Ordered(tree, k), NEW n, NEW u, NEW O, NEW at, Located(n, u, O, at),
         NEW W, NEW J, Changes(tree, k, W, u, n, at, at, J, {n}),
         NEW c, NEW before, NEW sep,
         NEW t, TextsBelow(t, O),
         GrownBy(t, at, TextOf(tree, c), before, sep, J),
         NEW E, AllLeft(E, u, n, at, J)
  PROVE  Sourced(E, n, c, before, sep)
<1> DEFINE new == TextOf(tree, c)
           X(m) == TextLeft(tree, u, n, at, at, J, {n}, m)
<1>a. E = [m \in DOMAIN tree |-> X(m)]
  BY DEF AllLeft
<1>b. t = [i \in 1 .. Len(O) |-> TextOf(tree, O[i])]
  BY DEF TextsBelow
<1>1. /\ u \in DOMAIN tree /\ O = tree[u].kids /\ at = IndexOf(n) /\ at \in 1 .. Len(O)
      /\ \A m \in DOMAIN tree : n \in Kids(m) <=> m = u
  BY DEF Located
<1>2. \A m \in DOMAIN tree : Len(tree[m].kids) \in Nat /\ DOMAIN tree[m].kids = 1 .. Len(tree[m].kids)
  <2> SUFFICES ASSUME NEW m \in DOMAIN tree
               PROVE  Len(tree[m].kids) \in Nat /\ DOMAIN tree[m].kids = 1 .. Len(tree[m].kids)
    OBVIOUS
  <2> QED BY KidsFacts
<1>3. \A m \in DOMAIN tree : \A i \in 1 .. Len(tree[m].kids) :
        tree[m].kids[i] \in DOMAIN tree /\ m \notin NodesOf(tree, tree[m].kids[i])
  BY TextsOfKids
<1>4. ASSUME NEW m \in DOMAIN tree PROVE Own(E, m) = [i \in 1 .. Len(tree[m].kids) |-> X(tree[m].kids[i])]
  <2>1. \A i \in 1 .. Len(tree[m].kids) : E[tree[m].kids[i]] = X(tree[m].kids[i])
    BY <1>a, <1>3
  <2> HIDE DEF X
  <2> QED BY <1>2, <2>1 DEF Own
<1>5. ASSUME NEW m \in DOMAIN tree, m # u
      PROVE  E[m] = SourceAt(m, Own(E, m), n, c, before, sep)
  <2> DEFINE own == Own(E, m)
             K == tree[m].kids
             q == [i \in 1 .. Len(K) |-> TextLeft(tree, u, n, at, at, J, {n}, K[i])]
  <2>1. E[m] = X(m)
    BY <1>a
  <2>2. own = q
    BY <1>4
  <2>3. SubSeq(q, 1, Len(q)) = q /\ Len(q) = Len(K)
    <3>1. IsSeq(q)
      <4>1. Len(K) \in Nat /\ q = [i \in 1 .. Len(K) |-> q[i]]
        BY <1>2
      <4> HIDE DEF q, K
      <4> QED BY <4>1, MadeSeq
    <3>2. PICK T : q \in Seq(T)
      <4> HIDE DEF q
      <4> QED BY <3>1 DEF IsSeq
    <3>3. SubSeq(q, 1, Len(q)) = q
      <4> HIDE DEF q
      <4> QED BY <3>2
    <3>4. Len(q) = Len(K)
      <4>1. Len(K) \in Nat
        BY <1>2
      <4> HIDE DEF K
      <4> QED BY <4>1
    <3> QED BY <3>3, <3>4
  <2>4. ~tree[m].terminal => SourceAt(m, own, n, c, before, sep) = FlattenSeq(q)
    <3>1. n \notin Kids(m)
      BY <1>1, <1>5
    <3> HIDE DEF own, q
    <3> QED BY <2>2, <2>3, <3>1 DEF SourceAt
  <2>5. tree[m].terminal => SourceAt(m, own, n, c, before, sep) = <<tree[m].name>>
    <3> HIDE DEF own
    <3> QED BY DEF SourceAt
  <2>6. UnderIs(tree, u, n, at, at, J, {n}, m)
    BY <1>5, TextOfParents
  <2>7. IF tree[m].terminal THEN X(m) = <<tree[m].name>> ELSE FlattenSeq(q) = X(m)
    BY <2>6 DEF UnderIs
  <2> HIDE DEF own, q, K, X
  <2> QED BY <2>1, <2>4, <2>5, <2>6, <2>7 DEF own
<1>6. E[u] = SourceAt(u, Own(E, u), n, c, before, sep)
  <2> DEFINE b == [i \in 1 .. Len(O) |-> IF i = at THEN J ELSE TextLeft(tree, u, n, at, at, J, {n}, O[i])]
             s == [t EXCEPT ![at] = J]
  <2>1. ASSUME NEW i \in 1 .. Len(O) PROVE X(O[i]) = TextOf(tree, O[i])
    <3>1. O[i] \in DOMAIN tree /\ u \notin NodesOf(tree, O[i])
      BY <1>1, <1>3
    <3> QED BY <3>1, SameElsewhere
  <2>2. Own(E, u) = t
    <3> HIDE DEF X
    <3> QED BY <1>1, <1>4, <1>b, <2>1
  <2>3. s = b
    BY <1>b, <2>1
  <2>4. FlattenSeq(b) = TextLeft(tree, u, n, at, at, J, {n}, u)
    <3>1. HoleIs(tree, u, n, at, J, O)
      BY <1>1, TextWithHole
    <3> QED BY <3>1 DEF HoleIs
  <2>5. ~tree[u].terminal
    BY HoleInside
  <2>6. SourceAt(u, t, n, c, before, sep) = Grown(t, at, new, before, sep)
    BY <1>1, <2>5 DEF SourceAt, Grown, Upto, Behind
  <2>7. E[u] = X(u)
    BY <1>1, <1>a
  <2>8. X(u) = FlattenSeq(s)
    <3> HIDE DEF s, b
    <3> QED BY <2>3, <2>4
  <2>9. Grown(t, at, new, before, sep) = FlattenSeq(s)
    BY DEF GrownBy
  <2> HIDE DEF s, b, X, new
  <2> QED BY <2>2, <2>6, <2>7, <2>8, <2>9
<1> QED BY <1>5, <1>6 DEF Sourced

(* A text is the one before n, another and the one behind the subtree of n. *)
Around(nodes, r, n, text, J) ==
  text = (TextAt(nodes, LeavesBefore(nodes, r, n)) \o J)
         \o TextAt(nodes, LeavesBehind(nodes, r, Max(NodesOf(nodes, n))))

LEMMA TextInserted ==
  ASSUME NEW k, Ordered(tree, k), NEW n, NEW u, NEW O, NEW at, Located(n, u, O, at),
         NEW c \in DOMAIN tree, NEW before, NEW sep, test \in DOMAIN tree, u \in NodesOf(tree, test)
  PROVE  \E J \in Either(TextOf(tree, n), TextOf(tree, c), before, sep) :
           Around(tree, test, n, GetSourceAndInsert(n, c, before, sep), J)
<1> DEFINE W == Names(tree) \cup {sep}
           t == [i \in 1 .. Len(O) |-> TextOf(tree, O[i])]
           new == TextOf(tree, c)
           V == Seq(W)
<1>1. /\ u \in DOMAIN tree /\ O = tree[u].kids /\ at \in 1 .. Len(O) /\ O[at] = n
  BY DEF Located
<1>2. Names(tree) \subseteq W /\ sep \in W
  OBVIOUS
<1> HIDE DEF W
<1>3. /\ \A m \in DOMAIN tree : TextOf(tree, m) \in V
      /\ Len(O) \in Nat /\ \A i \in 1 .. Len(O) : O[i] \in DOMAIN tree
  BY <1>1, <1>2, TextsOfKids
<1> HIDE DEF V
<1>4. t \in Seq(V) /\ Len(t) = Len(O) /\ t[at] = TextOf(tree, n)
  <2>1. \A i \in 1 .. Len(O) : t[i] \in V
    BY <1>3
  <2>2. t \in Seq(V) /\ Len(t) = Len(O)
    BY <1>3, <2>1
  <2> QED BY <1>1, <2>2
<1>5. new \in V
  BY <1>3
<1> HIDE DEF t, new
<1>6. PICK J \in Either(t[at], new, before, sep) :
        J \in Seq(W) /\ GrownBy(t, at, new, before, sep, J)
  <2>1. t \in Seq(Seq(W)) /\ new \in Seq(W)
    BY <1>4, <1>5 DEF V
  <2>2. at \in 1 .. Len(t)
    BY <1>1, <1>4
  <2> QED BY <1>2, <2>1, <2>2, GrownIs
<1>7. Changes(tree, k, W, u, n, at, at, J, {n})
  <2>1. at \in at .. Len(O)
    BY <1>1, <1>3
  <2> QED BY <1>1, <1>2, <1>6, <2>1 DEF Changes
<1> DEFINE E == [m \in DOMAIN tree |-> TextLeft(tree, u, n, at, at, J, {n}, m)]
<1>8. Sourced(E, n, c, before, sep)
  <2>1. AllLeft(E, u, n, at, J)
    BY DEF AllLeft
  <2>2. TextsBelow(t, O)
    BY DEF TextsBelow, t
  <2>3. GrownBy(t, at, TextOf(tree, c), before, sep, J)
    BY <1>6 DEF new
  <2> HIDE DEF E
  <2> QED BY <1>7, <2>1, <2>2, <2>3, InsertedSourced
<1>9. GetSourceAndInsert(n, c, before, sep) = E[test]
  <2> DEFINE rank == [m \in DOMAIN tree |-> k - m]
  <2>1. Ranked(tree, rank)
    BY OrderedRanked
  <2> HIDE DEF rank, E
  <2> QED BY <1>8, <2>1, SourceIs
<1>10. E[test] = TextLeft(tree, u, n, at, at, J, {n}, test)
  OBVIOUS
<1>11. Block(tree, O, at, at) = NodesOf(tree, n)
  <2>1. at .. at = {at}
    BY <1>1, <1>3
  <2> QED BY <1>1, <2>1 DEF Block
<1>12. RestIs(tree, u, n, at, at, J, {n}, test, J)
  <2>1. J = IF {n} = {} THEN << >> ELSE J
    OBVIOUS
  <2> HIDE DEF E
  <2> QED BY <1>7, <2>1, TextOfRest
<1> HIDE DEF E
<1>13. Around(tree, test, n, GetSourceAndInsert(n, c, before, sep), J)
  BY <1>1, <1>9, <1>10, <1>11, <1>12 DEF RestIs, Around
<1> QED BY <1>4, <1>6, <1>13 DEF new

(* Where the root is the location, there is no place for anything.          *)
LEMMA TextNotInserted ==
  ASSUME NEW k, Ordered(tree, k), NEW n, NEW c, NEW before, NEW sep, test \in DOMAIN tree,
         \A m \in DOMAIN tree : n \notin Kids(m)
  PROVE  GetSourceAndInsert(n, c, before, sep) = TextOf(tree, test)
<1> DEFINE E == [m \in DOMAIN tree |-> Wording(Plain(tree), LeavesOf(tree, m))]
           rank == [m \in DOMAIN tree |-> k - m]
<1>1. Solves(tree, E) /\ Ranked(tree, rank)
  BY PlainSolves, OrderedRanked
<1>2. \A m \in DOMAIN tree : tree[m].kids \in Seq(DOMAIN tree)
  <2> SUFFICES ASSUME NEW m \in DOMAIN tree PROVE tree[m].kids \in Seq(DOMAIN tree)
    OBVIOUS
  <2> QED BY KidsFacts
<1> HIDE DEF E, rank
<1>3. ASSUME NEW m \in DOMAIN tree PROVE E[m] = SourceAt(m, Own(E, m), n, c, before, sep)
  <2> DEFINE own == Own(E, m)
  <2>1. SubSeq(own, 1, Len(own)) = own
    <3> DEFINE K == tree[m].kids
    <3>1. Len(K) \in Nat /\ DOMAIN K = 1 .. Len(K)
      BY <1>2, Elements
    <3>2. own = [i \in 1 .. Len(K) |-> E[K[i]]]
      BY <3>1 DEF Own
    <3>3. own = [i \in 1 .. Len(K) |-> own[i]]
      BY <3>2
    <3> HIDE DEF own, K
    <3>4. IsSeq(own)
      BY <3>1, <3>3, MadeSeq
    <3> QED BY <3>4 DEF IsSeq
  <2>2. E[m] = TextFrom(tree, E, m)
    BY <1>1 DEF Solves
  <2>3. TextFrom(tree, E, m) = IF tree[m].terminal THEN <<tree[m].name>> ELSE FlattenSeq(own)
    BY DEF TextFrom, Own
  <2> HIDE DEF own
  <2>4. SourceAt(m, own, n, c, before, sep)
          = IF tree[m].terminal THEN <<tree[m].name>> ELSE FlattenSeq(own)
    BY <2>1 DEF SourceAt
  <2> QED BY <2>2, <2>3, <2>4 DEF own
<1>4. Sourced(E, n, c, before, sep)
  BY <1>3 DEF Sourced
<1>5. GetSourceAndInsert(n, c, before, sep) = E[test]
  BY <1>1, <1>4, SourceIs
<1>6. TextOf(tree, test) = E[test]
  BY <1>1, TextIs
<1> QED BY <1>5, <1>6

-----------------------------------------------------------------------------
(***************************************************************************)
(* The nodes of the test case in the heap.                                  *)
(***************************************************************************)
(* In the heap the children of a node have it for a parent.                 *)
LEMMA KidsKnowParents ==
  ASSUME ReadFits, NEW m \in DOMAIN Heap, NEW c \in KidsOf(Heap, m)
  PROVE  c \in DOMAIN Heap /\ Heap[c].up = m
<1>1. PICK i \in DOMAIN read : m \in DOMAIN Parsed(read[i])
  BY DEF Heap, ReadFits
<1> DEFINE nodes == Parsed(read[i])
<1>2. HeapIsParsed /\ IRsFit(read[i].parse, read[i].root)
  BY <1>1, HeapFacts, ReadFacts
<1>3. nodes[m].kids \in Seq(DOMAIN nodes) /\ \A x \in ToSet(nodes[m].kids) : nodes[x].up = m
  BY <1>1, <1>2 DEF IRsFit, Parsed
<1>4. Heap[m] = nodes[m] /\ \A x \in DOMAIN nodes : x \in DOMAIN Heap /\ Heap[x] = nodes[x]
  BY <1>1, <1>2 DEF HeapIsParsed
<1> HIDE DEF nodes
<1>5. c \in ToSet(nodes[m].kids)
  BY <1>4 DEF KidsOf
<1>6. c \in DOMAIN nodes
  BY <1>3, <1>5 DEF ToSet
<1> QED BY <1>3, <1>4, <1>5, <1>6

(* The parent of a node of the test case is one, and the only parent.       *)
LEMMA ParentInTest ==
  ASSUME EditInv, test # None, NEW n \in NodesOf(Heap, test), n # test
  PROVE  /\ Heap[n].up \in NodesOf(Heap, test)
         /\ \A m \in DOMAIN Heap : n \in KidsOf(Heap, m) <=> m = Heap[n].up
<1>1. /\ ReadFits /\ NextID \in Nat /\ HeapFits(Heap, NextID) /\ test \in DOMAIN Heap
      /\ test = Last(read).root /\ read # << >>
  BY HeapFacts, TestInHeap DEF EditInv, ReadFits, TestFits
<1> DEFINE N == NodesOf(Heap, test)
           S == {m \in N : m = test \/ Heap[m].up \in N}
<1>2. test \in N /\ N \subseteq DOMAIN Heap /\ ClosedIn(Heap, N)
  BY <1>1, NodesClosed
<1>3. ClosedIn(Heap, S)
  <2> SUFFICES ASSUME NEW m \in S, NEW c \in KidsOf(Heap, m) PROVE c \in S
    BY DEF ClosedIn
  <2>1. m \in N /\ m \in DOMAIN Heap
    BY <1>2
  <2>2. c \in N
    BY <1>2, <2>1 DEF ClosedIn
  <2>3. Heap[c].up = m
    BY <1>1, <2>1, KidsKnowParents
  <2> QED BY <2>1, <2>2, <2>3
<1>4. N \subseteq S
  <2>1. test \in S /\ S \in SUBSET DOMAIN Heap
    BY <1>2
  <2> HIDE DEF S
  <2> QED BY <1>1, <1>3, <2>1, NodesWithin
<1>5. n \in KidsOf(Heap, Heap[n].up)
  BY <1>1, TestFacts
<1>6. \A m \in DOMAIN Heap : n \in KidsOf(Heap, m) => Heap[n].up = m
  BY <1>1, KidsKnowParents
<1> QED BY <1>4, <1>5, <1>6

(* An assignment to the children of one node.                               *)
LEMMA ReparentedIs ==
  ASSUME ReadFits, NEW u \in DOMAIN Heap, NEW K, NEW tr, tr = [Heap EXCEPT ![u].kids = K]
  PROVE  Reparented(tr, Heap, u, K)
<1>1. Changed(tr, Heap, u, K)
  BY ChangedAgain
<1>2. DOMAIN tr = DOMAIN Heap /\ \A m \in DOMAIN Heap : m # u => tr[m] = Heap[m]
  BY DEF Heap
<1>3. tr[u].terminal = Heap[u].terminal
  <2>1. PICK t, x, b, l, p, s : Heap[u] = [type |-> t, name |-> x, terminal |-> b,
                                           label |-> l, up |-> p, kids |-> s]
    BY NodeRecord
  <2>2. tr[u] = [Heap[u] EXCEPT !.kids = K]
    BY DEF Heap
  <2> QED BY <2>1, <2>2
<1> QED BY <1>1, <1>2, <1>3 DEF Changed, Reparented

-----------------------------------------------------------------------------
(***************************************************************************)
(* The separators behind a node.                                            *)
(***************************************************************************)
(* An initial segment of an interval is known by its size.                  *)
LEMMA InitialSegment ==
  ASSUME NEW i \in Nat, NEW m \in Nat, NEW J, J \subseteq i + 1 .. m,
         \A j \in J : \A x \in i + 1 .. j : x \in J
  PROVE  Cardinality(J) \in Nat /\ J = i + 1 .. i + Cardinality(J)
<1>1. CASE J = {}
  <2>1. Cardinality(J) = 0
    BY <1>1, FS_EmptySet
  <2> QED BY <1>1, <2>1
<1>2. CASE J # {}
  <2>1. PICK g \in J : \A y \in J : y <= g
    <3>1. J \subseteq 0 .. m
      OBVIOUS
    <3> QED BY <1>2, <3>1, GreatestOf
  <2>2. g \in i + 1 .. m /\ g \in Nat
    OBVIOUS
  <2>3. J = i + 1 .. g
    <3>1. \A j \in J : j \in i + 1 .. g
      <4> SUFFICES ASSUME NEW j \in J PROVE j \in i + 1 .. g
        OBVIOUS
      <4>1. j \in i + 1 .. m /\ j <= g
        BY <2>1
      <4> QED BY <2>2, <4>1
    <3>2. \A j \in i + 1 .. g : j \in J
      OBVIOUS
    <3> QED BY <3>1, <3>2
  <2>4. Cardinality(i + 1 .. g) = IF i + 1 > g THEN 0 ELSE g - (i + 1) + 1
    BY <2>2, FS_Interval
  <2>5. Cardinality(J) = g - i
    BY <2>2, <2>3, <2>4
  <2> QED BY <2>2, <2>3, <2>5
<1> QED BY <1>1, <1>2

(* The node and what is removed with it.                                    *)
GoneIn(nodes, n) ==
  LET strip    == removable_types[nodes[n].type]
      siblings == {s \in KidsOf(nodes, nodes[n].up) : s > n}
  IN  NodesOf(nodes, n) \cup UNION {NodesOf(nodes, s) : s \in {s \in siblings :
        \A r \in siblings : r <= s => nodes[r].type \in strip}}

LEMMA GoneIs ==
  ASSUME NEW k, Ordered(Heap, k), tree = Heap, NEW n, NEW u \in DOMAIN Heap, u = Heap[n].up,
         NEW K, K = Heap[u].kids, NEW i \in 1 .. Len(K), K[i] = n,
         NEW l, l = i + Stripped(K, i, removable_types[Heap[n].type])
  PROVE  l \in i .. Len(K) /\ GoneIn(Heap, n) = Block(Heap, K, i, l)
<1> DEFINE strip == removable_types[Heap[n].type]
           siblings == {s \in KidsOf(Heap, u) : s > n}
           J == {j \in i + 1 .. Len(K) : \A x \in i + 1 .. j : Heap[K[x]].type \in strip}
           S == {s \in siblings : \A r \in siblings : r <= s => Heap[r].type \in strip}
<1>1. /\ Sorted(Heap, K) /\ Len(K) \in Nat /\ DOMAIN K = 1 .. Len(K)
      /\ \A j \in 1 .. Len(K) : K[j] \in Int /\ K[j] \in NodesOf(Heap, K[j])
  BY KidsFacts
<1>2. \A a, b \in 1 .. Len(K) : a < b => K[a] < K[b]
  BY <1>1 DEF Sorted, Precedes
<1>3. \A a, b \in 1 .. Len(K) : K[a] <= K[b] <=> a <= b
  <2> SUFFICES ASSUME NEW a \in 1 .. Len(K), NEW b \in 1 .. Len(K) PROVE K[a] <= K[b] <=> a <= b
    OBVIOUS
  <2>1. a < b \/ a = b \/ b < a
    OBVIOUS
  <2> QED BY <1>1, <1>2, <2>1
<1>4. siblings = {K[j] : j \in i + 1 .. Len(K)}
  <2>1. KidsOf(Heap, u) = {K[j] : j \in 1 .. Len(K)}
    BY <1>1 DEF KidsOf, ToSet
  <2>2. \A j \in 1 .. Len(K) : K[j] > n <=> j > i
    BY <1>1, <1>3
  <2> QED BY <1>1, <2>1, <2>2
<1>5. Cardinality(J) \in Nat /\ J = i + 1 .. i + Cardinality(J)
  <2>1. J \subseteq i + 1 .. Len(K) /\ i \in Nat
    OBVIOUS
  <2>2. \A j \in J : \A x \in i + 1 .. j : x \in J
    BY <1>1
  <2>3. Len(K) \in Nat
    BY <1>1
  <2> HIDE DEF J
  <2> QED BY <2>1, <2>2, <2>3, InitialSegment
<1>6. Stripped(K, i, strip) = Cardinality(J)
  BY DEF Stripped
<1>7. S = {K[j] : j \in J}
  <2>1. ASSUME NEW j \in i + 1 .. Len(K)
        PROVE  (\A r \in siblings : r <= K[j] => Heap[r].type \in strip) <=> j \in J
    <3>1. \A x \in i + 1 .. Len(K) : K[x] <= K[j] <=> x \in i + 1 .. j
      BY <1>1, <1>3
    <3>2. \A x \in i + 1 .. j : x \in i + 1 .. Len(K)
      BY <1>1
    <3>3. (\A r \in siblings : r <= K[j] => Heap[r].type \in strip)
           <=> \A x \in i + 1 .. Len(K) : K[x] <= K[j] => Heap[K[x]].type \in strip
      <4> HIDE DEF siblings, strip
      <4> QED BY <1>4
    <3> HIDE DEF siblings, strip
    <3> QED BY <3>1, <3>2, <3>3
  <2>2. \A j \in J : j \in i + 1 .. Len(K)
    OBVIOUS
  <2> HIDE DEF siblings, J
  <2> QED BY <1>4, <2>1, <2>2
<1>8. l \in i .. Len(K) /\ i .. l = {i} \cup J
  <2>1. \A j \in J : j \in i + 1 .. Len(K)
    OBVIOUS
  <2> HIDE DEF J
  <2>2. l = i + Cardinality(J)
    BY <1>6
  <2>3. l \in i .. Len(K)
    <3>1. CASE Cardinality(J) = 0
      BY <1>1, <2>2, <3>1
    <3>2. CASE Cardinality(J) # 0
      <4>1. l \in J
        BY <1>5, <2>2, <3>2
      <4> QED BY <1>1, <2>1, <4>1
    <3> QED BY <3>1, <3>2
  <2> QED BY <1>5, <2>2, <2>3
<1>9. GoneIn(Heap, n) = NodesOf(Heap, n) \cup UNION {NodesOf(Heap, s) : s \in S}
  BY DEF GoneIn
<1> HIDE DEF S, J, strip, siblings
<1>10. Block(Heap, K, i, l) = NodesOf(Heap, K[i]) \cup UNION {NodesOf(Heap, K[j]) : j \in J}
  BY <1>8 DEF Block
<1> QED BY <1>7, <1>8, <1>9, <1>10

-----------------------------------------------------------------------------
(***************************************************************************)
(* What an edit has to lead to.                                             *)
(***************************************************************************)
(* The text of the tree with another for that of n.                         *)
Replaced(nodes, r, n, other) ==
  (TextAt(nodes, LeavesBefore(nodes, r, n)) \o TextOf(nodes, other))
  \o TextAt(nodes, LeavesBehind(nodes, r, Max(NodesOf(nodes, n))))

(* The text of the tree without n and the separators behind it.             *)
Deleted(nodes, r, n) ==
  TextAt(nodes, LeavesBefore(nodes, r, n))
  \o TextAt(nodes, LeavesBehind(nodes, r, Max(GoneIn(nodes, n))))

(* The text of the clone when it is finished.                               *)
Outcome == IF edit.by = "replace" THEN Replaced(Heap, test, edit.node, edit.other)
           ELSE Deleted(Heap, test, edit.node)

(* A text of the tree with another next to that of n.                       *)
InsertedIn(nodes, r, n, other, before, sep, text) ==
  IF n = r THEN text = TextOf(nodes, n)
  ELSE \E J \in Either(TextOf(nodes, n), TextOf(nodes, other), before, sep) :
         Around(nodes, r, n, text, J)

(* The edited tree tells the outcome, then its clone does.                  *)
ExactInv ==
  /\ phase = "parsing" => edit.by \in {"replace", "delete"}
  /\ edit.by \in {"replace", "delete"} =>
       /\ phase = "cloning" => Told(tree, clone[1].id, Outcome)
       /\ phase \in {"restoring", "parsing", "done"} => TextOf(clone, 1) = Outcome
       /\ phase = "done" /\ edit.by = "replace" => parsed = Outcome
  /\ edit.by = "insert" /\ phase = "done" =>
       InsertedIn(Heap, test, edit.node, edit.other, edit.before, edit.sep, parsed)

(* Where the root is replaced, the text is that of the pooled tree.         *)
LEMMA ReplacedRoot ==
  ASSUME NEW nodes, NEW k, Ordered(nodes, k), NEW r \in DOMAIN nodes, NEW c \in DOMAIN nodes
  PROVE  Told(nodes, c, Replaced(nodes, r, r, c))
<1> DEFINE L == LeavesOf(nodes, r)
           W == Names(nodes)
           X == TextOf(nodes, c)
           E == [m \in DOMAIN nodes |-> Wording(Plain(nodes), LeavesOf(nodes, m))]
<1>1. k \in Nat /\ DOMAIN nodes = 0 .. k - 1
  BY DEF Ordered, HeapFits
<1>2. NodesOf(nodes, r) \subseteq DOMAIN nodes /\ r \in NodesOf(nodes, r) /\ L \subseteq NodesOf(nodes, r)
  BY KidsFacts, LeavesUnfold
<1>3. LeavesBefore(nodes, r, r) = {}
  <2>1. \A x \in NodesOf(nodes, r) : x >= r /\ x \in Int /\ r \in Int
    <3> SUFFICES ASSUME NEW x \in NodesOf(nodes, r) PROVE x >= r /\ x \in Int /\ r \in Int
      OBVIOUS
    <3> QED BY NodesFrom
  <2>2. \A x \in L : ~(x < r)
    BY <1>2, <2>1
  <2> QED BY <2>2 DEF LeavesBefore
<1>4. LeavesBehind(nodes, r, Max(NodesOf(nodes, r))) = {}
  <2>1. NodesOf(nodes, r) \subseteq 0 .. k /\ NodesOf(nodes, r) # {}
    BY <1>1, <1>2
  <2>2. /\ Max(NodesOf(nodes, r)) \in NodesOf(nodes, r)
        /\ \A y \in NodesOf(nodes, r) : y <= Max(NodesOf(nodes, r))
    BY <1>1, <2>1, MaxFacts
  <2>3. \A x \in L : ~(x > Max(NodesOf(nodes, r)))
    BY <1>2, <2>1, <2>2
  <2> QED BY <2>3 DEF LeavesBehind
<1>5. TextAt(nodes, {}) = << >>
  <2>1. {} \subseteq DOMAIN nodes
    OBVIOUS
  <2>2. TextAt(nodes, {}) = Wording(Plain(nodes), {})
    BY <2>1, TextAtIsWording
  <2> QED BY <2>2, WordingNone
<1>6. X \in Seq(W)
  <2>1. \A m \in DOMAIN nodes : TextOf(nodes, m) \in Seq(W)
    BY TextsOfKids
  <2> QED BY <2>1
<1>7. Replaced(nodes, r, r, c) = X
  <2>1. << >> \o X = X /\ X \o << >> = X
    BY <1>6, ConcatFacts
  <2> QED BY <1>3, <1>4, <1>5, <2>1 DEF Replaced
<1>8. Solves(nodes, E)
  BY PlainSolves
<1>9. E[c] = X
  <2>1. X = Wording(Plain(nodes), LeavesOf(nodes, c))
    BY TextIsWording
  <2> QED BY <2>1
<1> HIDE DEF E
<1> QED BY <1>7, <1>8, <1>9 DEF Told

(* The edits begin, or are done at once.                                    *)
LEMMA ExactReplace ==
  ASSUME EditInv, test # None, NEW n \in Nodes(test), NEW c \in DOMAIN Heap, c < test, NEW aim,
         Replace(n, c, aim), UNCHANGED read
  PROVE  ExactInv'
<1>1. Heap' = Heap /\ ReadFits /\ Ordered(Heap, NextID)
  BY HeapRests, HeapOrdered DEF EditInv
<1>2. phase = "idle" /\ phase' = "cloning" /\ test' = test
  BY DEF Replace, StartClone
<1>3. edit'.by = "replace" /\ edit'.node = n /\ edit'.other = c
  BY DEF Replace
<1>4. Outcome' = Replaced(Heap, test, n, c)
  BY <1>1, <1>2, <1>3 DEF Outcome
<1>5. SUFFICES Told(tree', clone'[1].id, Replaced(Heap, test, n, c))
  BY <1>2, <1>3, <1>4 DEF ExactInv
<1>6. test \in DOMAIN Heap /\ tree = Heap /\ n \in NodesOf(Heap, test)
  BY <1>2, TestInHeap, BeginFacts DEF Nodes
<1>7. CASE n = test
  <2>1. tree' = Heap /\ clone' = <<Clone(c)>>
    BY <1>6, <1>7 DEF Replace, StartClone
  <2>2. clone'[1].id = c
    BY <2>1 DEF Clone
  <2> QED BY <1>1, <1>6, <1>7, <2>1, <2>2, ReplacedRoot
<1>8. CASE n # test
  <2> DEFINE u == Heap[n].up
             O == Heap[u].kids
             at == IndexOf(n)
  <2>1. /\ ParentOf(n) = u /\ u \in DOMAIN Heap /\ O \in Seq(DOMAIN Heap) /\ at \in DOMAIN O /\ O[at] = n
    BY <1>2, <1>8, BeginFacts
  <2>2. at \in 1 .. Len(O)
    <3> HIDE DEF O, at
    <3> QED BY <2>1
  <2>3. tree' = [Heap EXCEPT ![u].kids = ReplaceAt(O, at, c)] /\ clone' = <<Clone(test)>>
    BY <1>6, <1>8, <2>1 DEF Replace, StartClone, WithKids
  <2>4. clone'[1].id = test
    BY <2>3 DEF Clone
  <2>5. u \in NodesOf(Heap, test)
    BY <1>6, <1>8, ParentInTest
  <2>6. u \notin NodesOf(Heap, c)
    <3>1. c \in BeforeTest
      BY DEF BeforeTest
    <3> QED BY <2>5, <3>1, PoolApart
  <2> HIDE DEF u, O, at
  <2>7. Reparented(tree', Heap, u, ReplaceAt(O, at, c))
    BY <1>1, <2>1, <2>3, ReparentedIs
  <2>8. Told(tree', test, Replaced(Heap, test, n, c))
    <3>1. n = O[at] /\ O = Heap[u].kids
      BY <2>1 DEF O
    <3> QED BY <1>1, <1>6, <2>1, <2>2, <2>5, <2>6, <2>7, <3>1, TextReplaced DEF Replaced
  <2> QED BY <2>4, <2>8
<1> QED BY <1>7, <1>8

LEMMA ExactDelete ==
  ASSUME EditInv, test # None, NEW n \in Nodes(test), Delete(n), UNCHANGED read
  PROVE  ExactInv'
<1>1. Heap' = Heap /\ ReadFits /\ Ordered(Heap, NextID)
  BY HeapRests, HeapOrdered DEF EditInv
<1>2. phase = "idle" /\ phase' = "cloning" /\ test' = test /\ ParentOf(n) # None
  BY DEF Delete, StartClone
<1>3. edit'.by = "delete" /\ edit'.node = n
  BY DEF Delete
<1>4. Outcome' = Deleted(Heap, test, n)
  BY <1>1, <1>2, <1>3 DEF Outcome
<1>5. SUFFICES Told(tree', clone'[1].id, Deleted(Heap, test, n))
  BY <1>2, <1>3, <1>4 DEF ExactInv
<1>6. test \in DOMAIN Heap /\ tree = Heap /\ n \in NodesOf(Heap, test) /\ n # test
  BY <1>2, TestInHeap, BeginFacts DEF Nodes, ParentOf
<1> DEFINE u == Heap[n].up
           O == Heap[u].kids
           at == IndexOf(n)
           l == at + Stripped(O, at, removable_types[Heap[n].type])
           K == SubSeq(O, 1, at - 1) \o SubSeq(O, l + 1, Len(O))
<1>7. /\ ParentOf(n) = u /\ u \in DOMAIN Heap /\ O \in Seq(DOMAIN Heap) /\ at \in DOMAIN O /\ O[at] = n
  BY <1>2, <1>6, BeginFacts
<1>8. at \in 1 .. Len(O) /\ Len(O) \in Nat
  <2> HIDE DEF O, at
  <2> QED BY <1>7
<1>9. tree' = [Heap EXCEPT ![u].kids = K] /\ clone' = <<Clone(test)>>
  BY <1>6, <1>7 DEF Delete, StartClone, WithKids
<1>10. clone'[1].id = test
  BY <1>9 DEF Clone
<1>11. u \in NodesOf(Heap, test)
  BY <1>6, ParentInTest
<1>12. l \in at .. Len(O) /\ GoneIn(Heap, n) = Block(Heap, O, at, l)
  <2>1. l = at + Stripped(O, at, removable_types[Heap[n].type])
    OBVIOUS
  <2> HIDE DEF l, at
  <2> QED BY <1>1, <1>6, <1>7, <1>8, <2>1, GoneIs
<1> HIDE DEF l, at, u, O
<1>13. K = Without(O, at, l - at + 1)
  <2>1. at + (l - at + 1) = l + 1
    BY <1>8, <1>12
  <2> QED BY <2>1 DEF Without
<1>14. Reparented(tree', Heap, u, Without(O, at, l - at + 1))
  <2> HIDE DEF K
  <2> QED BY <1>1, <1>7, <1>9, <1>13, ReparentedIs
<1>15. Told(tree', test, Deleted(Heap, test, n))
  <2>1. n = O[at] /\ O = Heap[u].kids
    BY <1>7 DEF O
  <2>2. Told(tree', test, TextAt(Heap, LeavesBefore(Heap, test, n))
                          \o TextAt(Heap, LeavesBehind(Heap, test, Max(Block(Heap, O, at, l)))))
    BY <1>1, <1>6, <1>7, <1>8, <1>11, <1>12, <1>14, <2>1, TextDeleted
  <2> QED BY <1>12, <2>2 DEF Deleted
<1> QED BY <1>10, <1>15

LEMMA ExactInsert ==
  ASSUME EditInv, test # None, NEW n \in Nodes(test), NEW c \in DOMAIN Heap, NEW before, NEW sep,
         NEW aim, Insert(n, c, before, sep, aim), UNCHANGED read
  PROVE  ExactInv'
<1>1. Heap' = Heap /\ ReadFits /\ Ordered(Heap, NextID)
  BY HeapRests, HeapOrdered DEF EditInv
<1>2. phase = "idle" /\ phase' = "done" /\ test' = test
  BY DEF Insert
<1>3. /\ edit'.by = "insert" /\ edit'.node = n /\ edit'.other = c /\ edit'.before = before
      /\ edit'.sep = sep /\ parsed' = GetSourceAndInsert(n, c, before, sep)
  BY DEF Insert
<1> DEFINE text == GetSourceAndInsert(n, c, before, sep)
<1>4. SUFFICES InsertedIn(Heap, test, n, c, before, sep, text)
  <2> HIDE DEF text
  <2> QED BY <1>1, <1>2, <1>3 DEF ExactInv, text
<1>5. test \in DOMAIN Heap /\ tree = Heap /\ n \in NodesOf(Heap, test) /\ Heap[test].up = None
  BY <1>2, TestInHeap, BeginFacts DEF Nodes
<1>6. Ordered(tree, NextID) /\ test \in DOMAIN tree /\ \A m : Kids(m) = KidsOf(Heap, m)
  BY <1>1, <1>5 DEF Kids, KidsOf
<1>7. CASE n = test
  <2>1. ASSUME NEW m \in DOMAIN tree, n \in Kids(m) PROVE FALSE
    <3>1. Heap[n].up = m /\ m \in DOMAIN Heap
      BY <1>1, <1>5, <1>6, <2>1, KidsKnowParents
    <3>2. m \in Nat
      BY <1>1, <3>1 DEF Ordered, HeapFits
    <3> QED BY <1>5, <1>7, <3>1, <3>2 DEF None
  <2>2. text = TextOf(tree, test)
    <3> HIDE DEF text
    <3> QED BY <1>6, <2>1, TextNotInserted DEF text
  <2> QED BY <1>5, <1>7, <2>2 DEF InsertedIn
<1>8. CASE n # test
  <2> DEFINE u == Heap[n].up
             O == Heap[u].kids
             at == IndexOf(n)
  <2>1. /\ ParentOf(n) = u /\ u \in DOMAIN Heap /\ O \in Seq(DOMAIN Heap) /\ at \in DOMAIN O /\ O[at] = n
    BY <1>2, <1>8, BeginFacts
  <2>2. at \in 1 .. Len(O)
    <3> HIDE DEF O, at
    <3> QED BY <2>1
  <2>3. u \in NodesOf(Heap, test) /\ \A m \in DOMAIN Heap : n \in KidsOf(Heap, m) <=> m = u
    BY <1>5, <1>8, ParentInTest
  <2>4. Located(n, u, O, at)
    BY <1>5, <1>6, <2>1, <2>2, <2>3 DEF Located
  <2>5. c \in DOMAIN tree /\ u \in NodesOf(tree, test)
    BY <1>5, <2>3
  <2> HIDE DEF u, O, at, text
  <2>6. \E J \in Either(TextOf(tree, n), TextOf(tree, c), before, sep) : Around(tree, test, n, text, J)
    BY <1>6, <2>4, <2>5, TextInserted DEF text
  <2> QED BY <1>5, <1>8, <2>6 DEF InsertedIn
<1> QED BY <1>7, <1>8

(* Between the start of an edit and its end, what it has to lead to stays.  *)
LEMMA OutcomeRests ==
  ASSUME UNCHANGED <<read, test, edit>>
  PROVE  Outcome' = Outcome /\ Heap' = Heap
<1>1. Heap' = Heap
  BY HeapRests
<1> QED BY <1>1 DEF Outcome

(* DeepClone goes on and returns; the first copy stays the first.           *)
LEMMA ExactChild ==
  ASSUME CloneInv, ExactInv, CloneChild, UNCHANGED read
  PROVE  ExactInv'
<1>1. UNCHANGED <<tree, test, edit>> /\ phase = "cloning" /\ phase' = "cloning"
  BY DEF CloneChild
<1>2. Outcome' = Outcome
  BY <1>1, OutcomeRests
<1>3. clone'[1].id = clone[1].id
  <2>1. Copying(tree, clone, frames)
    BY <1>1 DEF CloneInv
  <2>2. PICK x : clone' = Append(clone, x)
    BY DEF CloneChild
  <2>3. 1 \in 1 .. Len(clone)
    <3>1. FramesFit(tree, clone, frames)
      BY <2>1 DEF Copying
    <3>2. /\ Len(frames) \in Nat \ {0} /\ frames[1].copy = 1
          /\ \A i \in 1 .. Len(frames) : frames[i].copy \in 1 .. Len(clone)
      BY <2>1, CallFacts
    <3> QED BY <3>2
  <2>4. IsSeq(clone)
    BY <2>1 DEF Copying
  <2>5. \A i \in 1 .. Len(clone) : clone'[i] = clone[i]
    BY <2>2, <2>4, AppendFacts
  <2> QED BY <2>3, <2>5
<1>4. edit'.by \in {"replace", "delete"} => Told(tree', clone'[1].id, Outcome')
  BY <1>1, <1>2, <1>3 DEF ExactInv
<1> QED BY <1>1, <1>4 DEF ExactInv

LEMMA ExactReturn ==
  ASSUME CloneInv, ExactInv, ReturnClone, UNCHANGED read
  PROVE  ExactInv'
<1>1. UNCHANGED <<tree, test, edit>> /\ phase = "cloning" /\ Copying(tree, clone, frames)
  BY DEF ReturnClone, CloneInv
<1>2. Outcome' = Outcome
  BY <1>1, OutcomeRests
<1>3. /\ Len(frames) \in Nat \ {0} /\ frames[1].copy = 1
      /\ \A i \in 1 .. Len(frames) : /\ frames[i].copy \in 1 .. Len(clone)
                                     /\ frames[i].of = clone[frames[i].copy].id
  BY <1>1, CallFacts
<1>4. edit.by \in {"replace", "delete"} => Told(tree, clone[1].id, Outcome)
  BY <1>1 DEF ExactInv
<1>5. CASE Len(frames) = 1
  <2>1. phase' = "restoring" /\ clone' = clone
    BY <1>5 DEF ReturnClone
  <2>2. frames[1].of = clone[1].id
    BY <1>3, <1>5
  <2>3. frames[1].cloned = Len(tree[frames[1].of].kids)
    BY <1>5 DEF ReturnClone, Frame, KidsOfFrame, Last
  <2>4. edit.by \in {"replace", "delete"} => TextOf(clone, 1) = Outcome
    <3> SUFFICES ASSUME edit.by \in {"replace", "delete"} PROVE TextOf(clone, 1) = Outcome
      OBVIOUS
    <3>1. Told(tree, frames[1].of, Outcome)
      BY <1>4, <2>2
    <3>2. PICK text : text = Outcome
      OBVIOUS
    <3>3. Told(tree, frames[1].of, text)
      BY <3>1, <3>2
    <3>4. TextOf(clone, 1) = text
      BY <1>1, <1>5, <2>3, <3>3, TextCloned
    <3> QED BY <3>2, <3>4
  <2>5. TextOf(clone', 1) = TextOf(clone, 1)
    BY <2>1
  <2>6. edit'.by \in {"replace", "delete"} => TextOf(clone', 1) = Outcome'
    BY <1>1, <1>2, <2>4, <2>5
  <2> QED BY <2>1, <2>6 DEF ExactInv
<1>6. CASE Len(frames) # 1
  <2>1. phase' = "cloning"
    BY <1>1, <1>6 DEF ReturnClone
  <2>2. Frame = frames[Len(frames)]
    BY DEF Frame, Last
  <2>3. Ascends(tree, clone, frames, clone', frames')
    BY <1>6, <2>2 DEF ReturnClone, KidsOfFrame, Ascends
  <2>4. Ascended(clone, frames, clone', frames', Len(frames), frames[Len(frames)].copy,
                 frames[Len(frames) - 1].copy)
    BY <1>1, <2>3, AscendFacts
  <2>5. DOMAIN clone = 1 .. Len(clone) /\ Len(clone) \in Nat /\ 1 \in DOMAIN clone
    <3>1. Len(clone) \in Nat /\ DOMAIN clone = 1 .. Len(clone)
      BY <1>1, CallFacts
    <3> QED BY <1>3, <3>1
  <2>6. clone'[1].id = clone[1].id
    <3>1. PICK child, parent : child = frames[Len(frames)].copy /\ parent = frames[Len(frames) - 1].copy
      OBVIOUS
    <3>2. /\ clone'[child] = [clone[child] EXCEPT !.up = parent]
          /\ clone'[parent] = [clone[parent] EXCEPT !.kids = Append(@, child)]
          /\ \A p \in DOMAIN clone : p # child /\ p # parent => clone'[p] = clone[p]
      BY <2>4, <3>1 DEF Ascended
    <3>3. PICK a, u, x : clone[1] = Copy(tree, a, u, x)
      BY <1>1, <2>5 DEF Copying, NodeFits
    <3>4. CASE 1 = child
      <4>1. clone'[1] = [clone[1] EXCEPT !.up = parent]
        BY <3>2, <3>4
      <4> QED BY <3>3, <4>1 DEF Copy
    <3>5. CASE 1 = parent
      <4>1. clone'[1] = [clone[1] EXCEPT !.kids = Append(@, child)]
        BY <3>2, <3>5
      <4>2. PICK y : clone'[1] = [clone[1] EXCEPT !.kids = y]
        BY <4>1
      <4> QED BY <3>3, <4>2 DEF Copy
    <3>6. CASE 1 # child /\ 1 # parent
      BY <2>5, <3>2, <3>6
    <3> QED BY <3>4, <3>5, <3>6
  <2>7. edit'.by \in {"replace", "delete"} => Told(tree', clone'[1].id, Outcome')
    BY <1>1, <1>2, <1>4, <2>6
  <2> QED BY <2>1, <2>7 DEF ExactInv
<1> QED BY <1>5, <1>6

(* The original is restored and the text goes to the parser.                *)
LEMMA ExactParses ==
  ASSUME ExactInv, Revert \/ Reinsert \/ ParseEdit, UNCHANGED read
  PROVE  ExactInv'
<1>1. /\ UNCHANGED <<test, edit, clone>> /\ phase \in {"restoring", "parsing"}
      /\ phase' \in {"restoring", "parsing", "done"}
      /\ edit.by \in {"replace", "delete"}
      /\ phase' = "done" /\ edit.by = "replace" => parsed' = TextOf(clone, 1)
  BY DEF Revert, Reinsert, ParseEdit, ExactInv
<1>2. Outcome' = Outcome
  BY <1>1, OutcomeRests
<1>3. TextOf(clone', 1) = Outcome'
  <2>1. TextOf(clone, 1) = Outcome
    BY <1>1 DEF ExactInv
  <2>2. TextOf(clone', 1) = TextOf(clone, 1)
    BY <1>1
  <2> QED BY <1>2, <2>1, <2>2
<1>4. phase' = "done" /\ edit'.by = "replace" => parsed' = Outcome'
  BY <1>1, <1>3
<1> QED BY <1>1, <1>3, <1>4 DEF ExactInv

LEMMA ExactInvStep == EditInv /\ PoolInv /\ CloneInv /\ ExactInv /\ [Next]_vars => ExactInv'
<1> SUFFICES ASSUME EditInv, PoolInv, CloneInv, ExactInv, [Next]_vars PROVE ExactInv'
  OBVIOUS
<1>1. ASSUME phase' = "idle" PROVE ExactInv'
  BY <1>1 DEF ExactInv
<1>2. CASE (\E pt \in Corpus : Save(pt)) \/ (\E pt \in TestCases : Load(pt))
  <2>1. test = None /\ phase' = phase
    BY <1>2 DEF Save, Load, editVars
  <2>2. phase' = "idle"
    BY <2>1 DEF EditInv, TestFits
  <2> QED BY <1>1, <2>2
<1>3. CASE GuidedReplace \/ RandomReplace
  <2>1. PICK n \in Nodes(test) : \E c, aim, l : c \in Pooled(tree[n].type, l) /\ Replace(n, c, aim)
    BY <1>3 DEF GuidedReplace, RandomReplace, Replaceable, GuidedCandidates
  <2>2. PICK c, aim, l : c \in Pooled(tree[n].type, l) /\ Replace(n, c, aim)
    BY <2>1
  <2>3. test # None /\ UNCHANGED read
    BY <1>3 DEF GuidedReplace, RandomReplace
  <2>4. c \in DOMAIN Heap /\ c < test
    BY <2>2, <2>3, PooledPlace
  <2> QED BY <2>2, <2>3, <2>4, ExactReplace
<1>4. CASE GuidedInsert \/ RandomInsert
  <2>1. PICK n \in Nodes(test) : \E c, before, sep, aim, type, l :
          c \in Pooled(type, l) /\ Insert(n, c, before, sep, aim)
    BY <1>4 DEF GuidedInsert, RandomInsert, Locations
  <2>2. PICK c, before, sep, aim, type, l : c \in Pooled(type, l) /\ Insert(n, c, before, sep, aim)
    BY <2>1
  <2>3. test # None /\ UNCHANGED read
    BY <1>4 DEF GuidedInsert, RandomInsert
  <2>4. c \in DOMAIN Heap
    BY <2>2, <2>3, PooledPlace
  <2> QED BY <2>2, <2>3, <2>4, ExactInsert
<1>5. CASE DeleteAny
  <2>1. PICK n \in Nodes(test) : Delete(n)
    BY <1>5 DEF DeleteAny
  <2>2. test # None /\ UNCHANGED read
    BY <1>5 DEF DeleteAny
  <2> QED BY <2>1, <2>2, ExactDelete
<1>6. CASE EditNext /\ UNCHANGED <<read, pool>>
  <2>1. CASE CloneChild
    BY <1>6, <2>1, ExactChild
  <2>2. CASE ReturnClone
    BY <1>6, <2>2, ExactReturn
  <2>3. CASE Revert \/ Reinsert \/ ParseEdit
    BY <1>6, <2>3, ExactParses
  <2>4. CASE EndEdit
    <3>1. phase' = "idle"
      BY <2>4 DEF EndEdit
    <3> QED BY <1>1, <3>1
  <2> QED BY <1>6, <2>1, <2>2, <2>3, <2>4 DEF EditNext
<1>7. CASE UNCHANGED vars
  <2>1. UNCHANGED <<tree, test, edit, phase, clone, parsed, read>>
    BY <1>7 DEF vars, editVars
  <2>2. Outcome' = Outcome /\ Heap' = Heap
    BY <2>1, OutcomeRests
  <2>3. TextOf(clone', 1) = TextOf(clone, 1)
    BY <2>1
  <2> QED BY <2>1, <2>2, <2>3 DEF ExactInv
<1> QED BY <1>2, <1>3, <1>4, <1>5, <1>6, <1>7 DEF Next

LEMMA ExactInvAlways == Spec => []ExactInv
<1>1. Init => ExactInv
  BY DEF Init, EditInit, ExactInv
<1>2. EditInv /\ PoolInv /\ CloneInv /\ ExactInv /\ [Next]_vars => ExactInv'
  BY ExactInvStep
<1> QED BY <1>1, <1>2, EditInvAlways, PoolInvAlways, CloneInvAlways, PTL DEF Spec

(* The words of EditsAreExact are those of the invariant.                   *)
LEMMA ExactWords ==
  ASSUME tree = Heap, NEW n
  PROVE  /\ Before(n) = TextAt(Heap, LeavesBefore(Heap, test, n))
         /\ After(n) = TextAt(Heap, LeavesBehind(Heap, test, Max(NodesOf(Heap, n))))
         /\ Gone(n) = GoneIn(Heap, n)
         /\ TextWhere({m \in Leaves(test) : m > Max(Gone(n))})
              = TextAt(Heap, LeavesBehind(Heap, test, Max(GoneIn(Heap, n))))
<1>1. \A S : TextWhere(S) = TextAt(Heap, S)
  BY DEF TextWhere, TextAt
<1>2. Leaves(test) = LeavesOf(Heap, test) /\ Nodes(n) = NodesOf(Heap, n)
  BY DEF Leaves, Nodes, LeavesOf
<1>3. {m \in Leaves(test) : m < n} = LeavesBefore(Heap, test, n)
  BY <1>2 DEF LeavesBefore
<1>4. \A z : {m \in Leaves(test) : m > z} = LeavesBehind(Heap, test, z)
  BY <1>2 DEF LeavesBehind
<1>5. Gone(n) = GoneIn(Heap, n)
  BY DEF Gone, GoneIn, Nodes, Kids, KidsOf, ParentOf
<1>6. Before(n) = TextAt(Heap, LeavesBefore(Heap, test, n))
  BY <1>1, <1>3 DEF Before
<1>7. After(n) = TextAt(Heap, LeavesBehind(Heap, test, Max(NodesOf(Heap, n))))
  BY <1>1, <1>2, <1>4 DEF After
<1> QED BY <1>1, <1>4, <1>5, <1>6, <1>7

(* What the parser gets or the clone has is the text of the test case with  *)
(* the text of one node exchanged for that of the pooled tree, or with the  *)
(* pooled tree and a separator next to the location, or without the node    *)
(* and the separators behind it, and nothing else is different.             *)
THEOREM EditsAreAlwaysExact == Spec => []EditsAreExact
<1>1. EditInv /\ ExactInv => EditsAreExact
  <2> SUFFICES ASSUME EditInv, ExactInv, phase = "done" PROVE EditsAreExact
    BY DEF EditsAreExact
  <2>1. tree = Heap
    BY DEF EditInv, TreeFits, Unfinished
  <2> DEFINE n == edit.node
             c == edit.other
             B == Before(n)
             A == After(n)
  <2>2. ASSUME edit.by = "replace" PROVE parsed = (B \o TextOf(tree, c)) \o A
    <3>1. parsed = Replaced(Heap, test, n, c)
      BY <2>2 DEF ExactInv, Outcome
    <3> QED BY <2>1, <3>1, ExactWords DEF Replaced
  <2>3. ASSUME edit.by = "delete"
        PROVE  TextOf(clone, 1) = B \o TextWhere({m \in Leaves(test) : m > Max(Gone(n))})
    <3>1. TextOf(clone, 1) = Deleted(Heap, test, n)
      BY <2>3 DEF ExactInv, Outcome
    <3> QED BY <2>1, <3>1, ExactWords DEF Deleted
  <2>4. ASSUME edit.by = "insert"
        PROVE  IF n = test THEN parsed = TextOf(tree, n)
               ELSE \E text \in IF edit.before THEN Joins(TextOf(tree, c), TextOf(tree, n), edit.sep)
                                ELSE Joins(TextOf(tree, n), TextOf(tree, c), edit.sep) :
                      parsed = (B \o text) \o A
    <3>1. InsertedIn(Heap, test, n, c, edit.before, edit.sep, parsed)
      BY <2>4 DEF ExactInv
    <3>2. CASE n = test
      BY <2>1, <3>1, <3>2 DEF InsertedIn
    <3>3. CASE n # test
      <4>1. PICK J \in Either(TextOf(Heap, n), TextOf(Heap, c), edit.before, edit.sep) :
              Around(Heap, test, n, parsed, J)
        BY <3>1, <3>3 DEF InsertedIn
      <4>2. parsed = (B \o J) \o A
        BY <2>1, <4>1, ExactWords DEF Around
      <4>3. J \in IF edit.before THEN Joins(TextOf(tree, c), TextOf(tree, n), edit.sep)
                  ELSE Joins(TextOf(tree, n), TextOf(tree, c), edit.sep)
        BY <2>1, <4>1 DEF Either
      <4> HIDE DEF B, A
      <4> QED BY <3>3, <4>2, <4>3
    <3> QED BY <3>2, <3>3
  <2> QED BY <2>2, <2>3, <2>4 DEF EditsAreExact
<1> QED BY <1>1, EditInvAlways, ExactInvAlways, PTL
=============================================================================
