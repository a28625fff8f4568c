--------------------------- MODULE MutatorProofs ---------------------------
(***************************************************************************)
(* Proofs about Mutator: the mutation pools stay in sync and never shrink,  *)
(* every call of afl-fuzz is served, and no half-fixed tree is a result.    *)
(***************************************************************************)
EXTENDS Mutator, FiniteSetTheorems, TLAPS

(* Adding a tree to a pool in sync, with whatever eviction, leaves a pool   *)
(* in sync.                                                                 *)
LEMMA AddIRInSync ==
  ASSUME NEW S, NEW p \in Pool(S), InSync(p), NEW ir \in S, NEW i \in 1 .. MaxPoolSize
  PROVE  AddIR(p, ir, i) \in Pool(S) /\ InSync(AddIR(p, ir, i))
<1> DEFINE q == AddIR(p, ir, i)
<1>0. p.pool \in SUBSET S /\ p.vec \in Seq(S) /\ Len(p.vec) \in Nat
      /\ DOMAIN p.vec = 1 .. Len(p.vec) /\ \A a \in 1 .. Len(p.vec) : p.vec[a] \in S
  BY DEF Pool
<1>1. CASE ir \in p.pool
  BY <1>1 DEF AddIR
<1>2. CASE ir \notin p.pool /\ Len(p.vec) < MaxPoolSize
  <2>1. q = [pool |-> p.pool \cup {ir}, vec |-> Append(p.vec, ir)]
    BY <1>2 DEF AddIR
  <2>2. q.pool = p.pool \cup {ir} /\ q.vec = Append(p.vec, ir)
    BY <2>1
  <2>3. q.vec \in Seq(S) /\ Len(q.vec) = Len(p.vec) + 1 /\ DOMAIN q.vec = 1 .. Len(p.vec) + 1
    BY <1>0, <2>2
  <2>4. \A a \in 1 .. Len(p.vec) : q.vec[a] = p.vec[a]
    BY <1>0, <2>2
  <2>5. q.vec[Len(p.vec) + 1] = ir
    BY <1>0, <2>2
  <2>6. Range(q.vec) = q.pool
    BY <1>0, <2>2, <2>3, <2>4, <2>5 DEF InSync, Range
  <2>7. IsInjective(q.vec)
    <3> SUFFICES ASSUME NEW a \in 1 .. Len(p.vec) + 1, NEW b \in 1 .. Len(p.vec) + 1,
                        q.vec[a] = q.vec[b]
                 PROVE  a = b
      BY <2>3 DEF IsInjective
    <3>1. \A c \in 1 .. Len(p.vec) : p.vec[c] # ir
      BY <1>0, <1>2 DEF InSync, Range
    <3> QED BY <1>0, <2>4, <2>5, <3>1 DEF InSync, IsInjective
  <2>8. Len(q.vec) <= MaxPoolSize
    BY <1>0, <1>2, <2>3, MaxPoolSizeAssumption
  <2> QED BY <1>0, <2>1, <2>2, <2>3, <2>6, <2>7, <2>8 DEF Pool, InSync
<1>3. CASE ir \notin p.pool /\ ~(Len(p.vec) < MaxPoolSize)
  <2>0. Len(p.vec) = MaxPoolSize /\ i \in DOMAIN p.vec
    BY <1>0, <1>3, MaxPoolSizeAssumption DEF InSync
  <2>1. q = [pool |-> (p.pool \ {p.vec[i]}) \cup {ir}, vec |-> [p.vec EXCEPT ![i] = ir]]
    BY <1>3 DEF AddIR
  <2>2. q.pool = (p.pool \ {p.vec[i]}) \cup {ir} /\ q.vec = [p.vec EXCEPT ![i] = ir]
    BY <2>1
  <2>3. q.vec \in Seq(S) /\ Len(q.vec) = Len(p.vec) /\ DOMAIN q.vec = DOMAIN p.vec
    <3>1. p.vec \in [1 .. Len(p.vec) -> S]
      BY <1>0
    <3>2. q.vec \in [1 .. Len(p.vec) -> S]
      BY <2>2, <3>1
    <3> QED BY <1>0, <3>2
  <2>4. q.vec[i] = ir /\ \A a \in DOMAIN p.vec : a # i => q.vec[a] = p.vec[a]
    BY <2>0, <2>2
  <2>5. \A a \in DOMAIN p.vec : a # i => p.vec[a] # p.vec[i]
    BY <2>0 DEF InSync, IsInjective
  <2>6. Range(q.vec) = q.pool
    BY <2>0, <2>2, <2>3, <2>4, <2>5 DEF InSync, Range
  <2>7. IsInjective(q.vec)
    BY <1>3, <2>3, <2>4 DEF InSync, IsInjective, Range
  <2> QED BY <1>0, <2>0, <2>1, <2>2, <2>3, <2>6, <2>7 DEF Pool, InSync
<1> QED BY <1>1, <1>2, <1>3

(* A pool in sync has as many members as its vector has places.             *)
LEMMA InSyncCardinality ==
  ASSUME NEW S, NEW p \in Pool(S), InSync(p)
  PROVE  IsFiniteSet(p.pool) /\ Cardinality(p.pool) = Len(p.vec)
<1>1. p.vec \in Seq(S) /\ Len(p.vec) \in Nat /\ DOMAIN p.vec = 1 .. Len(p.vec)
  BY DEF Pool
<1>2. p.vec \in Bijection(1 .. Len(p.vec), p.pool)
  BY <1>1 DEF InSync, Range, IsInjective, Bijection, Injection, Surjection
<1>3. ExistsBijection(1 .. Len(p.vec), p.pool)
  BY <1>2 DEF ExistsBijection
<1>4. IsFiniteSet(p.pool)
  BY <1>1, <1>3, FS_NatBijection
<1> QED BY <1>1, <1>3, <1>4, FS_CountingElements

(* Adding a tree never leaves fewer trees in the pool.                      *)
LEMMA AddIRNeverShrinks ==
  ASSUME NEW S, NEW p \in Pool(S), InSync(p), NEW ir \in S, NEW i \in 1 .. MaxPoolSize
  PROVE  Cardinality(p.pool) <= Cardinality(AddIR(p, ir, i).pool)
<1> DEFINE q == AddIR(p, ir, i)
<1>1. q \in Pool(S) /\ InSync(q)
  BY AddIRInSync
<1>2. Cardinality(p.pool) = Len(p.vec) /\ Cardinality(q.pool) = Len(q.vec)
  BY <1>1, InSyncCardinality
<1>3. p.vec \in Seq(S)
  BY DEF Pool
<1>4. q.vec \in {p.vec, Append(p.vec, ir), [p.vec EXCEPT ![i] = ir]}
  BY DEF AddIR
<1>5. Len(p.vec) <= Len(q.vec)
  BY <1>3, <1>4
<1> QED BY <1>2, <1>5

(* Shuffling the vector of a pool in sync keeps it in sync.                 *)
LEMMA ShuffleInSync ==
  ASSUME NEW S, NEW p \in Pool(S), InSync(p), NEW q \in Shuffles(p)
  PROVE  q \in Pool(S) /\ InSync(q) /\ q.pool = p.pool
<1>1. PICK f \in Bijection(DOMAIN p.vec, DOMAIN p.vec) :
        q = [pool |-> p.pool, vec |-> [i \in DOMAIN p.vec |-> p.vec[f[i]]]]
  BY DEF Shuffles
<1>2. p.vec \in Seq(S) /\ Len(p.vec) \in Nat /\ DOMAIN p.vec = 1 .. Len(p.vec)
      /\ \A a \in 1 .. Len(p.vec) : p.vec[a] \in S
  BY DEF Pool
<1>3. q.pool = p.pool /\ q.vec = [i \in DOMAIN p.vec |-> p.vec[f[i]]]
  BY <1>1 DEF Pool
<1>4. /\ f \in [DOMAIN p.vec -> DOMAIN p.vec]
      /\ \A a, b \in DOMAIN p.vec : f[a] = f[b] => a = b
      /\ \A b \in DOMAIN p.vec : \E a \in DOMAIN p.vec : f[a] = b
  BY DEF Bijection, Injection, Surjection, IsInjective
<1>5. q.vec \in [1 .. Len(p.vec) -> S]
  BY <1>2, <1>3, <1>4
<1>6. q.vec \in Seq(S) /\ Len(q.vec) = Len(p.vec) /\ DOMAIN q.vec = DOMAIN p.vec
  BY <1>2, <1>5
<1>7. Range(q.vec) = p.pool
  <2>1. ASSUME NEW a \in DOMAIN p.vec PROVE q.vec[a] \in Range(p.vec)
    BY <1>3, <1>4 DEF Range
  <2>2. ASSUME NEW b \in DOMAIN p.vec PROVE p.vec[b] \in Range(q.vec)
    BY <1>3, <1>4, <1>6 DEF Range
  <2>3. \A x \in Range(q.vec) : x \in Range(p.vec)
    BY <1>6, <2>1 DEF Range
  <2>4. \A x \in Range(p.vec) : x \in Range(q.vec)
    BY <2>2 DEF Range
  <2> QED BY <2>3, <2>4 DEF InSync
<1>8. IsInjective(q.vec)
  BY <1>3, <1>4, <1>6 DEF InSync, IsInjective
<1>9. q \in Pool(S)
  BY <1>1, <1>3, <1>6 DEF Pool
<1> QED BY <1>3, <1>6, <1>7, <1>8, <1>9 DEF InSync

(* The head and the tail of a sequence, and a function on 1 .. n as one.    *)
LEMMA SequenceFacts ==
  ASSUME NEW S
  PROVE  /\ \A s \in Seq(S) : s # << >> => Head(s) \in S /\ Tail(s) \in Seq(S)
         /\ \A n \in Nat : \A s \in [1 .. n -> S] : s \in Seq(S)
  OBVIOUS

-----------------------------------------------------------------------------
(* The subtrees on their way into the pools, and the pools.                 *)
PoolInv ==
  /\ pool \in [Key -> Pool(IR)]
  /\ todo \in Seq([ir : IR, label : Cmd])
  /\ PoolsInSync

(* Every subtree of a test case that parses is a tree with a label.         *)
LEMMA SubtreesType ==
  ASSUME NEW t \in Texts, Parses(t)
  PROVE  Subtrees(t) \in Seq([ir : IR, label : Cmd])
<1>1. t \in Seq(Prog) /\ Len(t) \in Nat /\ DOMAIN t = 1 .. Len(t)
  BY TextsAssumption
<1>2. ASSUME NEW k \in 1 .. 2 * Len(t)
      PROVE  Subtrees(t)[k] \in [ir : IR, label : Cmd]
  <2>1. (k + 1) \div 2 \in DOMAIN t
    BY <1>1
  <2>2. t[(k + 1) \div 2] \in Cmd \X Arg
    BY <1>1, <2>1 DEF Prog
  <2>3. PICK c \in Cmd, a \in Arg : t[(k + 1) \div 2] = <<c, a>>
    BY <2>2
  <2>4. ArgOf(c, a) \in [ir : IR, label : Cmd] /\ ProgOf(c, a) \in [ir : IR, label : Cmd]
    BY DEF ArgOf, ProgOf, IR, Prog
  <2>5. Subtrees(t)[k] \in {ArgOf(c, a), ProgOf(c, a)}
    BY <2>3 DEF Subtrees
  <2> QED BY <2>4, <2>5
<1>3. Subtrees(t) \in [1 .. 2 * Len(t) -> [ir : IR, label : Cmd]]
  BY <1>2 DEF Subtrees
<1>4. 2 * Len(t) \in Nat
  BY <1>1
<1> QED BY <1>3, <1>4, SequenceFacts

(* Initially the pools are empty, and in sync.                              *)
LEMMA PoolInit ==
  ASSUME Init
  PROVE  PoolInv
<1>1. EmptyPool \in Pool(IR) /\ InSync(EmptyPool)
  BY MaxPoolSizeAssumption DEF EmptyPool, Pool, InSync, Range, IsInjective
<1> QED BY <1>1 DEF Init, PoolInv, PoolsInSync

(* Every step keeps the pools in sync.                                      *)
LEMMA PoolStep ==
  ASSUME PoolInv, [Next]_vars
  PROVE  PoolInv'
<1> USE DEF PoolInv, PoolsInSync
<1>1. CASE UNCHANGED <<pool, todo>>
  BY <1>1
<1>2. ASSUME NEW t \in Texts, NewEntry(t) PROVE PoolInv'
  BY <1>2, SubtreesType DEF NewEntry
<1>3. CASE SaveSubtree
  <2>1. PICK i \in 1 .. MaxPoolSize :
          pool' = [k \in Key |-> IF k \in KeysOf(Head(todo))
                                 THEN AddIR(pool[k], Head(todo).ir, i) ELSE pool[k]]
    BY <1>3 DEF SaveSubtree
  <2>2. todo # << >> /\ todo' = Tail(todo)
    BY <1>3 DEF SaveSubtree
  <2>3. Head(todo) \in [ir : IR, label : Cmd] /\ todo' \in Seq([ir : IR, label : Cmd])
    BY <2>2, SequenceFacts
  <2>4. Head(todo).ir \in IR
    BY <2>3
  <2>5. \A k \in Key : AddIR(pool[k], Head(todo).ir, i) \in Pool(IR)
                       /\ InSync(AddIR(pool[k], Head(todo).ir, i))
    BY <2>4, AddIRInSync
  <2> QED BY <2>1, <2>3, <2>5
<1>4. ASSUME NEW t \in Texts, StartMutate(t) PROVE PoolInv'
  <2>1. PICK p \in Shuffles(pool[<<"arg", "any">>]) : pool' = [pool EXCEPT ![<<"arg", "any">>] = p]
    BY <1>4 DEF StartMutate
  <2>2. <<"arg", "any">> \in Key
    BY DEF Key
  <2>3. p \in Pool(IR) /\ InSync(p)
    BY <2>2, ShuffleInSync
  <2> QED BY <1>4, <2>1, <2>3 DEF StartMutate
<1>5. ASSUME NEW t \in Texts, RejectText(t) PROVE PoolInv'
  BY <1>5, <1>1 DEF RejectText
<1>6. ASSUME NEW m \in mutated, KeepMutation(m) PROVE PoolInv'
  BY <1>6, <1>1 DEF KeepMutation
<1>7. CASE EndMutate
  BY <1>7, <1>1 DEF EndMutate
<1>8. CASE Fuzz
  BY <1>8, <1>1 DEF Fuzz
<1>9. CASE LeaveStage
  BY <1>9, <1>1 DEF LeaveStage
<1>10. CASE UNCHANGED vars
  BY <1>10, <1>1 DEF vars
<1> QED BY <1>2, <1>3, <1>4, <1>5, <1>6, <1>7, <1>8, <1>9, <1>10 DEF Next

(* The hash set and the vector of a pool never drift apart, whatever the    *)
(* limit and whatever random numbers are drawn.                             *)
THEOREM PoolsStayInSync == Spec => []PoolsInSync
<1>1. Init => PoolInv
  BY PoolInit
<1>2. PoolInv /\ [Next]_vars => PoolInv'
  BY PoolStep
<1>3. PoolInv => PoolsInSync
  BY DEF PoolInv
<1> QED BY <1>1, <1>2, <1>3, PTL DEF Spec

(* No step leaves fewer trees in a pool that is in sync.                    *)
LEMMA ShrinkStep ==
  ASSUME PoolInv, [Next]_vars, NEW k \in Key
  PROVE  Cardinality(pool[k].pool) <= Cardinality(pool'[k].pool)
<1>0. pool[k] \in Pool(IR) /\ InSync(pool[k])
  BY DEF PoolInv, PoolsInSync
<1>1. Cardinality(pool[k].pool) \in Nat
  BY <1>0, InSyncCardinality, FS_CardinalityType
<1>2. CASE UNCHANGED pool
  BY <1>1, <1>2
<1>3. CASE SaveSubtree
  <2>1. PICK i \in 1 .. MaxPoolSize :
          pool' = [j \in Key |-> IF j \in KeysOf(Head(todo))
                                 THEN AddIR(pool[j], Head(todo).ir, i) ELSE pool[j]]
    BY <1>3 DEF SaveSubtree
  <2>2. Head(todo) \in [ir : IR, label : Cmd]
    BY <1>3, SequenceFacts DEF SaveSubtree, PoolInv
  <2>3. Head(todo).ir \in IR
    BY <2>2
  <2>4. pool'[k] \in {pool[k], AddIR(pool[k], Head(todo).ir, i)}
    BY <2>1
  <2> QED BY <1>0, <1>1, <2>3, <2>4, AddIRNeverShrinks
<1>4. ASSUME NEW t \in Texts, StartMutate(t)
      PROVE  Cardinality(pool[k].pool) <= Cardinality(pool'[k].pool)
  <2>1. PICK p \in Shuffles(pool[<<"arg", "any">>]) : pool' = [pool EXCEPT ![<<"arg", "any">>] = p]
    BY <1>4 DEF StartMutate
  <2>2. pool \in [Key -> Pool(IR)] /\ <<"arg", "any">> \in Key
    BY DEF PoolInv, Key
  <2>3. p.pool = pool[<<"arg", "any">>].pool
    BY <2>2, ShuffleInSync DEF PoolInv, PoolsInSync
  <2>4. pool'[k].pool = pool[k].pool
    BY <2>1, <2>2, <2>3
  <2> QED BY <1>1, <2>4
<1>5. CASE \E t \in Texts : NewEntry(t) \/ RejectText(t)
  BY <1>2, <1>5 DEF NewEntry, RejectText
<1>6. CASE (\E m \in mutated : KeepMutation(m)) \/ EndMutate \/ Fuzz \/ LeaveStage
  BY <1>2, <1>6 DEF KeepMutation, EndMutate, Fuzz, LeaveStage
<1>7. CASE UNCHANGED vars
  BY <1>2, <1>7 DEF vars
<1> QED BY <1>3, <1>4, <1>5, <1>6, <1>7 DEF Next

(* A pool never loses a tree without gaining one.                           *)
THEOREM PoolsOnlyGrow == Spec => PoolsNeverShrink
<1>1. Init => PoolInv
  BY PoolInit
<1>2. PoolInv /\ [Next]_vars => PoolInv'
  BY PoolStep
<1>3. PoolInv /\ [Next]_vars =>
        [\A k \in Key : Cardinality(pool[k].pool) <= Cardinality(pool'[k].pool)]_vars
  BY ShrinkStep
<1> QED BY <1>1, <1>2, <1>3, PTL DEF Spec, PoolsNeverShrink

-----------------------------------------------------------------------------
(* Why Expects holds: while Mutate runs there is no outstanding call; then  *)
(* there are as many calls as results, and each call takes one of both.     *)
CallInv ==
  /\ IsFiniteSet(results) /\ calls \in Nat
  /\ phase = "fixing" => calls = 0
  /\ EveryCallIsServed

(* Every step keeps CallInv.                                                *)
LEMMA CallStep ==
  ASSUME CallInv, [Next]_vars
  PROVE  CallInv'
<1> USE DEF CallInv, EveryCallIsServed
<1>1. CASE UNCHANGED <<phase, results, left, valid, calls>>
  BY <1>1
<1>2. ASSUME NEW t \in Texts, NewEntry(t) PROVE CallInv'
  BY <1>1, <1>2 DEF NewEntry, stage
<1>3. CASE SaveSubtree
  BY <1>1, <1>3 DEF SaveSubtree, stage
<1>4. ASSUME NEW t \in Texts, StartMutate(t) PROVE CallInv'
  <2>1. calls = 0 /\ calls' = 0 /\ phase' = "fixing" /\ results' = {}
    BY <1>4 DEF StartMutate
  <2> QED BY <2>1, FS_EmptySet
<1>5. ASSUME NEW t \in Texts, RejectText(t) PROVE CallInv'
  <2>1. calls = 0 /\ calls' = 0 /\ phase' = phase /\ results' = {}
    BY <1>5 DEF RejectText
  <2> QED BY <2>1, FS_EmptySet
<1>6. ASSUME NEW m \in mutated, KeepMutation(m) PROVE CallInv'
  <2>1. phase = "fixing" /\ UNCHANGED <<phase, left, valid, calls>>
    BY <1>6 DEF KeepMutation
  <2>2. results' = results \/ \E x : results' = results \cup {x}
    BY <1>6 DEF KeepMutation
  <2>3. IsFiniteSet(results')
    BY <2>2, FS_AddElement
  <2> QED BY <2>1, <2>3
<1>7. CASE EndMutate
  <2>1. /\ phase' = "ready" /\ left' = results /\ valid' = TRUE
        /\ calls' = Cardinality(results) /\ results' = results
    BY <1>7 DEF EndMutate, StageSize
  <2>2. Cardinality(results) \in Nat
    BY FS_CardinalityType
  <2> QED BY <2>1, <2>2
<1>8. CASE Fuzz
  <2>0. calls > 0 /\ calls' = calls - 1 /\ phase = "ready" /\ UNCHANGED <<results, valid>>
    BY <1>8 DEF Fuzz, Idle
  <2>1. valid /\ calls <= Cardinality(left) /\ left \subseteq results
    BY <2>0
  <2>2. IsFiniteSet(left) /\ Cardinality(left) \in Nat
    BY <2>1, FS_Subset, FS_CardinalityType
  <2>3. left # {}
    BY <2>0, <2>1, <2>2, FS_EmptySet
  <2>4. PICK r \in left : left' = left \ {r}
    BY <1>8, <2>1, <2>3 DEF Fuzz
  <2>5. phase' = phase
    BY <1>8, <2>1, <2>3 DEF Fuzz
  <2>6. Cardinality(left') = Cardinality(left) - 1
    BY <2>2, <2>4, FS_RemoveElement
  <2> QED BY <2>0, <2>1, <2>2, <2>4, <2>5, <2>6
<1>9. CASE LeaveStage
  BY <1>9 DEF LeaveStage
<1>10. CASE UNCHANGED vars
  BY <1>1, <1>10 DEF vars
<1> QED BY <1>2, <1>3, <1>4, <1>5, <1>6, <1>7, <1>8, <1>9, <1>10 DEF Next

(* Expects never fails in GetNextMutation, and its iterator never dangles.  *)
THEOREM CallsAreServed == Spec => []EveryCallIsServed
<1>1. Init => CallInv
  BY FS_EmptySet DEF Init, CallInv, EveryCallIsServed
<1>2. CallInv /\ [Next]_vars => CallInv'
  BY CallStep
<1>3. CallInv => EveryCallIsServed
  BY DEF CallInv
<1> QED BY <1>1, <1>2, <1>3, PTL DEF Spec

-----------------------------------------------------------------------------
(* What is still to be processed is one of the trees GuidedMutate returned, *)
(* and parses; nothing is outside of Mutate.                                *)
ResultInv ==
  /\ phase # "fixing" => mutated = {}
  /\ \A m \in mutated : m.tree \in pristine /\ Parses(m.tree)
  /\ WholeResults

(* Every step keeps ResultInv.                                              *)
LEMMA ResultStep ==
  ASSUME ResultInv, [Next]_vars
  PROVE  ResultInv'
<1> USE DEF ResultInv, WholeResults
<1>1. CASE UNCHANGED <<config, phase, mutated, pristine, results>>
  BY <1>1 DEF config
<1>2. ASSUME NEW t \in Texts, NewEntry(t) PROVE ResultInv'
  BY <1>1, <1>2 DEF NewEntry, stage
<1>3. CASE SaveSubtree
  BY <1>1, <1>3 DEF SaveSubtree, stage
<1>4. ASSUME NEW t \in Texts, StartMutate(t) PROVE ResultInv'
  <2>1. PICK M \in SUBSET GuidedMutate(t) : mutated' = M /\ pristine' = {m.tree : m \in M}
    BY <1>4 DEF StartMutate
  <2>2. \A m \in M : Parses(m.tree)
    BY DEF GuidedMutate
  <2>3. results' = {} /\ phase' = "fixing"
    BY <1>4 DEF StartMutate
  <2> QED BY <2>1, <2>2, <2>3
<1>5. ASSUME NEW t \in Texts, RejectText(t) PROVE ResultInv'
  <2>1. phase = "ready" /\ phase' = phase /\ results' = {} /\ mutated' = mutated
    BY <1>5 DEF RejectText, Idle
  <2> QED BY <2>1
<1>6. ASSUME NEW m \in mutated, KeepMutation(m) PROVE ResultInv'
  <2>0. UNCHANGED <<config, phase, pristine>> /\ mutated' = mutated \ {m}
    BY <1>6 DEF KeepMutation
  <2>1. m.tree \in pristine /\ Parses(m.tree)
    BY <1>6
  <2>2. \A f \in Fixes(m.tree) : f \in Repaired /\ Parses(f)
    BY <2>1 DEF Fixes
  <2>3. \/ results' = results
        \/ ~use_semantic /\ results' = results \cup {m.tree}
        \/ use_semantic /\ \E f \in Fixes(m.tree) : results' = results \cup {f}
        \/ ~abandon /\ results' = results \cup {m.tree}
    BY <1>6 DEF KeepMutation, Fallback
  <2> QED BY <2>0, <2>1, <2>2, <2>3 DEF config
<1>7. CASE EndMutate
  BY <1>7 DEF EndMutate, config
<1>8. CASE Fuzz
  BY <1>8 DEF Fuzz, Idle, config
<1>9. CASE LeaveStage
  BY <1>1, <1>9 DEF LeaveStage
<1>10. CASE UNCHANGED vars
  BY <1>1, <1>10 DEF vars, config
<1> QED BY <1>2, <1>3, <1>4, <1>5, <1>6, <1>7, <1>8, <1>9, <1>10 DEF Next

(* Every mutation handed to afl-fuzz is repaired as a whole, or untouched.  *)
THEOREM ResultsAreWhole == Spec => []WholeResults
<1>1. Init => ResultInv
  BY DEF Init, ResultInv, WholeResults
<1>2. ResultInv /\ [Next]_vars => ResultInv'
  BY ResultStep
<1>3. ResultInv => WholeResults
  BY DEF ResultInv
<1> QED BY <1>1, <1>2, <1>3, PTL DEF Spec

-----------------------------------------------------------------------------
(* A candidate is put where a node of its type was: the trees of a pool all *)
(* have the type the pool is kept under.                                    *)
KindInv == \A k \in Key : \A ir \in pool[k].pool : ir.type = k[1]

(* The inductive invariant behind TypeOK.                                   *)
TypeInv == PoolInv /\ CallInv /\ KindInv /\ TypeOK

(* Every step keeps the pools sorted by type.                               *)
LEMMA KindStep ==
  ASSUME PoolInv, KindInv, [Next]_vars
  PROVE  KindInv'
<1>1. CASE UNCHANGED pool
  BY <1>1 DEF KindInv
<1>2. CASE SaveSubtree
  <2> DEFINE e == Head(todo)
  <2>1. PICK i \in 1 .. MaxPoolSize :
          pool' = [k \in Key |-> IF k \in KeysOf(e) THEN AddIR(pool[k], e.ir, i) ELSE pool[k]]
    BY <1>2 DEF SaveSubtree
  <2>2. \A k \in KeysOf(e) : e.ir.type = k[1]
    BY DEF KeysOf
  <2>3. \A k \in Key : AddIR(pool[k], e.ir, i).pool \subseteq pool[k].pool \cup {e.ir}
    BY DEF AddIR
  <2> QED BY <2>1, <2>2, <2>3 DEF KindInv
<1>3. ASSUME NEW t \in Texts, StartMutate(t) PROVE KindInv'
  <2>1. PICK p \in Shuffles(pool[<<"arg", "any">>]) : pool' = [pool EXCEPT ![<<"arg", "any">>] = p]
    BY <1>3 DEF StartMutate
  <2>2. pool \in [Key -> Pool(IR)] /\ <<"arg", "any">> \in Key
    BY DEF PoolInv, Key
  <2>3. p.pool = pool[<<"arg", "any">>].pool
    BY <2>2, ShuffleInSync DEF PoolInv, PoolsInSync
  <2>4. \A k \in Key : pool'[k].pool = pool[k].pool
    BY <2>1, <2>2, <2>3
  <2> QED BY <2>4 DEF KindInv
<1>4. CASE \E t \in Texts : NewEntry(t) \/ RejectText(t)
  BY <1>1, <1>4 DEF NewEntry, RejectText
<1>5. CASE (\E m \in mutated : KeepMutation(m)) \/ EndMutate \/ Fuzz \/ LeaveStage
  BY <1>1, <1>5 DEF KeepMutation, EndMutate, Fuzz, LeaveStage
<1>6. CASE UNCHANGED vars
  BY <1>1, <1>6 DEF vars
<1> QED BY <1>2, <1>3, <1>4, <1>5, <1>6 DEF Next

(* A candidate for an argument is an argument, one for a statement is a     *)
(* statement.                                                               *)
LEMMA CandidatesType ==
  ASSUME PoolInv, KindInv
  PROVE  /\ \A c \in Candidates("arg") : c.src \in Arg
         /\ \A c \in Candidates("prog") : c.src \in Prog
<1>1. ASSUME NEW type \in {"arg", "prog"}, NEW c \in Candidates(type)
      PROVE  c \in IR /\ c.type = type
  <2>1. PICK l \in Cmd \cup {"any"} : c \in pool[<<type, l>>].pool
    BY DEF Candidates
  <2>2. <<type, l>> \in Key
    BY DEF Key
  <2>3. pool[<<type, l>>] \in Pool(IR)
    BY <2>2 DEF PoolInv
  <2> QED BY <2>1, <2>2, <2>3 DEF KindInv, Pool
<1> QED BY <1>1 DEF IR

(* What GuidedMutate returns is a list of statements.                       *)
LEMMA GuidedMutateType ==
  ASSUME PoolInv, KindInv, NEW t \in Texts, NEW m \in GuidedMutate(t)
  PROVE  m \in [by : {"replace", "insert", "delete"}, at : Nat, tree : Seq(Prog)]
<1>1. t \in Seq(Prog) /\ Len(t) \in Nat /\ DOMAIN t = 1 .. Len(t)
  BY TextsAssumption
<1>2. CASE m \in Replacements(t)
  <2>1. PICK i \in DOMAIN t, c \in Candidates("arg") : m = Replacement(t, i, c)
    BY <1>2 DEF Replacements
  <2>2. t[i] \in Prog /\ c.src \in Arg
    BY <1>1, CandidatesType
  <2>3. <<t[i][1], c.src>> \in Prog
    BY <2>2 DEF Prog
  <2>4. t \in [1 .. Len(t) -> Prog]
    BY <1>1
  <2>5. [t EXCEPT ![i] = <<t[i][1], c.src>>] \in [1 .. Len(t) -> Prog]
    BY <2>3, <2>4
  <2>6. [t EXCEPT ![i] = <<t[i][1], c.src>>] \in Seq(Prog)
    BY <1>1, <2>5, SequenceFacts
  <2> QED BY <1>1, <2>1, <2>6 DEF Replacement, Mutation
<1>3. CASE m \in Insertions(t)
  <2>1. PICK i \in 1 .. Len(t) + 1, c \in Candidates("prog") :
          m = Mutation("insert", i, InsertAt(t, i, c.src))
    BY <1>3 DEF Insertions
  <2>2. c.src \in Prog
    BY CandidatesType
  <2>3. InsertAt(t, i, c.src) \in Seq(Prog)
    BY <1>1, <2>2 DEF InsertAt
  <2> QED BY <1>1, <2>1, <2>3 DEF Mutation
<1>4. CASE m \in Deletions(t)
  <2>1. PICK i \in DOMAIN t : m = Mutation("delete", i, DeleteNodeFromIR(t, i))
    BY <1>4 DEF Deletions
  <2>2. RemoveAt(t, i) \in Seq(Prog)
    BY <1>1 DEF RemoveAt
  <2>3. Len(RemoveAt(t, i)) = Len(t) - 1
    BY <1>1 DEF RemoveAt
  <2>4. InsertAt(RemoveAt(t, i), i, t[i]) \in Seq(Prog)
    BY <1>1, <2>2, <2>3 DEF InsertAt
  <2> QED BY <1>1, <2>1, <2>4 DEF Mutation, DeleteNodeFromIR
<1> QED BY <1>2, <1>3, <1>4 DEF GuidedMutate

(* Every step keeps TypeOK.                                                 *)
LEMMA TypeStep ==
  ASSUME TypeInv, [Next]_vars, PoolInv', CallInv'
  PROVE  TypeOK'
<1> USE DEF TypeInv, TypeOK
<1>0. pool' \in [Key -> Pool(IR)] /\ todo' \in Seq([ir : IR, label : Cmd]) /\ calls' \in Nat
  BY DEF PoolInv, CallInv
<1>1. CASE UNCHANGED <<config, phase, stage>>
  BY <1>0, <1>1 DEF config, stage
<1>2. CASE (\E t \in Texts : NewEntry(t)) \/ SaveSubtree \/ UNCHANGED vars
  BY <1>1, <1>2 DEF NewEntry, SaveSubtree, vars, config, stage
<1>3. ASSUME NEW t \in Texts, StartMutate(t) PROVE TypeOK'
  <2>1. PICK M \in SUBSET GuidedMutate(t) : mutated' = M /\ pristine' = {m.tree : m \in M}
    BY <1>3 DEF StartMutate
  <2>2. \A m \in M : m \in [by : {"replace", "insert", "delete"}, at : Nat, tree : Seq(Prog)]
    BY GuidedMutateType
  <2>3. pristine' \subseteq Seq(Prog)
    BY <2>1, <2>2
  <2>4. test' = t /\ t \in Seq(Prog) /\ phase' = "fixing" /\ results' = {}
        /\ UNCHANGED <<config, left, valid>>
    BY <1>3, TextsAssumption DEF StartMutate
  <2> QED BY <1>0, <2>1, <2>2, <2>3, <2>4 DEF config
<1>4. ASSUME NEW t \in Texts, RejectText(t) PROVE TypeOK'
  BY <1>0, <1>4 DEF RejectText, config
<1>5. ASSUME NEW m \in mutated, KeepMutation(m) PROVE TypeOK'
  <2>1. m.tree \in Seq(Prog)
    OBVIOUS
  <2>2. Fixes(m.tree) \subseteq Seq(Prog)
    BY TextsAssumption DEF Fixes
  <2>3. results' \subseteq Seq(Prog)
    BY <1>5, <2>1, <2>2 DEF KeepMutation, Fallback
  <2> QED BY <1>0, <1>5, <2>3 DEF KeepMutation, config
<1>6. CASE EndMutate
  <2>1. phase' = "ready" /\ test' = << >> /\ test' \in Seq(Prog) /\ left' = results
        /\ UNCHANGED <<config, mutated, pristine, results>>
    BY <1>6 DEF EndMutate
  <2>2. valid' \in BOOLEAN
    BY <1>6 DEF EndMutate
  <2> QED BY <1>0, <2>1, <2>2 DEF config
<1>7. CASE LeaveStage
  BY <1>0, <1>7 DEF LeaveStage, config
<1>8. CASE Fuzz
  BY <1>0, <1>8 DEF Fuzz, config
<1> QED BY <1>2, <1>3, <1>4, <1>5, <1>6, <1>7, <1>8 DEF Next

(* TypeOK holds for every limit, every grammar and every set of texts.      *)
THEOREM TypeCorrect == Spec => []TypeOK
<1>1. Init => TypeInv
  <2>1. ASSUME Init PROVE KindInv
    BY <2>1 DEF Init, KindInv, EmptyPool
  <2>2. ASSUME Init PROVE CallInv
    BY <2>2, FS_EmptySet DEF Init, CallInv, EveryCallIsServed
  <2>3. ASSUME Init PROVE TypeOK
    <3>1. valid \in BOOLEAN
      BY <2>3 DEF Init
    <3>2. pool \in [Key -> Pool(IR)]
      BY <2>3, PoolInit DEF PoolInv
    <3> QED BY <2>3, <3>1, <3>2 DEF Init, TypeOK
  <2> QED BY <2>1, <2>2, <2>3, PoolInit DEF TypeInv
<1>2. TypeInv /\ [Next]_vars => TypeInv'
  BY PoolStep, CallStep, KindStep, TypeStep DEF TypeInv
<1>3. TypeInv => TypeOK
  BY DEF TypeInv
<1> QED BY <1>1, <1>2, <1>3, PTL DEF Spec
=============================================================================
