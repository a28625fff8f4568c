------------------------------- MODULE IRPool -------------------------------
(***************************************************************************)
(* A bounded pool of subtrees that can be asked for a random one in O(1):   *)
(* class IRPool, and the pair tree_pool_ / tree_pool_idx_map_ of a node     *)
(* type, which Mutator::InsertIRToPool maintains in the same way. Trees of  *)
(* one source text are one element.                                         *)
(***************************************************************************)
EXTENDS Integers, Sequences, FiniteSets, Functions

CONSTANT MaxPoolSize   (* max_pool_size_ and max_num_per_type: 1000 *)

ASSUME MaxPoolSizeAssumption == MaxPoolSize \in Nat \ {0}

(* pool   the hash set, to find out whether a tree is known                 *)
(* vec    its members as a vector, for indexing                             *)
Pool(IR) == [pool : SUBSET IR, vec : Seq(IR)]

EmptyPool == [pool |-> {}, vec |-> << >>]

(* Mutants: a known tree is pushed again; the new tree is never inserted.   *)
AddKnown(p, ir, i) ==
  IF Len(p.vec) < MaxPoolSize
  THEN [pool |-> p.pool \cup {ir}, vec |-> Append(p.vec, ir)]
  ELSE [pool |-> (p.pool \ {p.vec[i]}) \cup {ir}, vec |-> [p.vec EXCEPT ![i] = ir]]

EvictOnly(p, ir, i) ==
  IF ir \in p.pool THEN p
  ELSE IF Len(p.vec) < MaxPoolSize
  THEN [pool |-> p.pool \cup {ir}, vec |-> Append(p.vec, ir)]
  ELSE [pool |-> p.pool \ {p.vec[i]}, vec |-> [p.vec EXCEPT ![i] = ir]]

(* AddIR and InsertIRToPool; i is the random index of the tree to evict.    *)
AddIR(p, ir, i) ==
  IF ir \in p.pool THEN p
  ELSE IF Len(p.vec) < MaxPoolSize
  THEN [pool |-> p.pool \cup {ir}, vec |-> Append(p.vec, ir)]
  ELSE [pool |-> (p.pool \ {p.vec[i]}) \cup {ir}, vec |-> [p.vec EXCEPT ![i] = ir]]

(* MakeRandom swaps elements of the vector.                                 *)
Shuffles(p) ==
  {[pool |-> p.pool, vec |-> [i \in DOMAIN p.vec |-> p.vec[f[i]]]] :
     f \in Bijection(DOMAIN p.vec, DOMAIN p.vec)}

(* The vector holds exactly the members of the set, each of them once, and  *)
(* not more of them than the limit.                                         *)
InSync(p) == Range(p.vec) = p.pool /\ IsInjective(p.vec) /\ Len(p.vec) <= MaxPoolSize
=============================================================================
