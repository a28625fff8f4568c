------------------------------ MODULE Mutator ------------------------------
(***************************************************************************)
(* class Mutator behind the AFL++ custom mutator interface: afl-fuzz asks   *)
(* for the number of mutations of a test case (afl_custom_fuzz_count), then *)
(* fetches them one by one (afl_custom_fuzz), and between two of these      *)
(* calls hands over test cases whose subtrees refill the mutation pools     *)
(* (afl_custom_queue_new_entry).                                            *)
(*                                                                          *)
(* A test case is the list of its statements ("prog" nodes, separated by    *)
(* NEWLINEs); a statement is a command with one argument. Statements are    *)
(* inserted and deleted, arguments are replaced. The keywords of a command  *)
(* are left out: nodes of their type all have one text.                     *)
(***************************************************************************)
EXTENDS IRPool, SequencesExt

CONSTANTS
  Cmd,           (* commands; the label of a statement is its command       *)
  Arg,           (* arguments                                               *)
  Grammatical,   (* the statements the parser accepts                       *)
  Texts,         (* what afl-fuzz may hand over; not every text parses      *)
  Repaired,      (* the test cases in which the error fixer leaves no error *)
  MaxSize,       (* max_mutation_source_size_, counted in statements        *)
  MaxMutations   (* bound: mutations of one GuidedMutate                    *)

Prog == Cmd \X Arg

ASSUME GrammaticalAssumption == Grammatical \subseteq Prog
ASSUME TextsAssumption == Texts \subseteq Seq(Prog) /\ Repaired \subseteq Seq(Prog)
ASSUME BoundsAssumption == MaxSize \in Nat \ {0} /\ MaxMutations \in Nat

IR  == [type : {"arg"}, src : Arg] \cup [type : {"prog"}, src : Prog]

(* Every node type has a pool, and one for every label (guided_mutation_pool_). *)
Key == {"arg", "prog"} \X (Cmd \cup {"any"})

VARIABLES
  use_semantic,   (* use_semantic_                                          *)
  abandon,        (* abandon_semantic_incorrect_                            *)
  phase,          (* "ready", "fixing" inside Mutate, "abort" after Expects *)
  pool,           (* tree_pool_ (label "any") and guided_mutation_pool_     *)
  todo,           (* subtrees that SaveSubtreesToPool has still to add      *)
  test,           (* the test case of the last fuzz_count                   *)
  mutated,        (* mutated_results, those not processed yet               *)
  pristine,       (* history: the trees mutated_results started with        *)
  results,        (* stage_results_                                         *)
  left,           (* what stage_results_iter_ has not passed                *)
  valid,          (* stage_results_iter_ points into stage_results_         *)
  calls           (* fuzz calls afl-fuzz has still to make                  *)

vars == <<use_semantic, abandon, phase, pool, todo, test, mutated, pristine,
          results, left, valid, calls>>
config == <<use_semantic, abandon>>
stage  == <<test, mutated, pristine, results, left, valid, calls>>

(* parser_func_ returns a tree.                                             *)
Parses(t) == t # << >> /\ \A i \in DOMAIN t : t[i] \in Grammatical

ArgOf(c, a)  == [ir |-> [type |-> "arg", src |-> a], label |-> c]
ProgOf(c, a) == [ir |-> [type |-> "prog", src |-> <<c, a>>], label |-> c]

(* CollectNodesBelowAndIncludingBoundary, children first.                   *)
Subtrees(t) ==
  [k \in 1 .. 2 * Len(t) |->
     LET p == t[(k + 1) \div 2]
     IN  IF k % 2 = 1 THEN ArgOf(p[1], p[2]) ELSE ProgOf(p[1], p[2])]

KeysOf(e) == {<<e.ir.type, "any">>, <<e.ir.type, e.label>>}

Init ==
  /\ use_semantic \in BOOLEAN /\ abandon \in BOOLEAN
  /\ phase = "ready"
  /\ pool = [k \in Key |-> EmptyPool]
  /\ todo = << >> /\ test = << >> /\ mutated = {} /\ pristine = {}
  /\ results = {} /\ left = {} /\ valid = FALSE /\ calls = 0

Idle == phase = "ready" /\ todo = << >>

(* afl_custom_queue_new_entry, and the corpus files of SetConfig.           *)
NewEntry(t) ==
  /\ Idle /\ Parses(t)
  /\ todo' = Subtrees(t)
  /\ UNCHANGED <<config, phase, pool, stage>>

SaveSubtree ==
  /\ phase = "ready" /\ todo # << >>
  /\ \E i \in 1 .. MaxPoolSize :
       pool' = [k \in Key |-> IF k \in KeysOf(Head(todo))
                              THEN AddIR(pool[k], Head(todo).ir, i) ELSE pool[k]]
  /\ todo' = Tail(todo)
  /\ UNCHANGED <<config, phase, stage>>

-----------------------------------------------------------------------------
(***************************************************************************)
(* GuidedMutate: what it can make of t. Only trees that parse are returned. *)
(***************************************************************************)
Mutation(by, at, t) == [by |-> by, at |-> at, tree |-> t]

(* Random candidates come from the pool of their type, and with semantics   *)
(* from the pools of the labels that use a symbol of the context.           *)
Candidates(type) ==
  LET labels == IF use_semantic THEN Cmd \cup {"any"} ELSE {"any"}
  IN  UNION {pool[<<type, l>>].pool : l \in labels}

(* ReplaceSubtreeWithAnother *)
Replacement(t, i, c) == Mutation("replace", i, [t EXCEPT ![i] = <<t[i][1], c.src>>])

(* GuidedMutateReplaceMany skips candidates with the text of the node.      *)
Replacements(t) ==
  {m \in {Replacement(t, i, c) : i \in DOMAIN t, c \in Candidates("arg")} : m.tree # t}

(* GuidedMutateInsertMany and ManyMutateInsert: before or after a statement. *)
Insertions(t) ==
  {Mutation("insert", i, InsertAt(t, i, c.src)) :
     i \in 1 .. Len(t) + 1, c \in Candidates("prog")}

(* DeleteNodeFromIR takes the node out of its parent, clones the tree, and  *)
(* puts the node back; the text it parses is that of the restored tree.     *)
DeleteNodeFromIR(t, i) ==
  LET res  == RemoveAt(t, i)
      root == InsertAt(res, i, t[i])
  IN  root

(* GuidedMutateDeleteMany *)
Deletions(t) == {Mutation("delete", i, DeleteNodeFromIR(t, i)) : i \in DOMAIN t}

GuidedMutate(t) ==
  {m \in Replacements(t) \cup Insertions(t) \cup Deletions(t) : Parses(m.tree)}

-----------------------------------------------------------------------------
(***************************************************************************)
(* MutateOneOnString, called by afl_custom_fuzz_count.                      *)
(***************************************************************************)
(* Any few of the mutations: the random choices, and how many there are.    *)
StartMutate(t) ==
  /\ Idle /\ calls = 0 /\ Parses(t)
  /\ \E M \in SUBSET GuidedMutate(t) :
       /\ Cardinality(M) <= MaxMutations
       /\ mutated' = M /\ pristine' = {m.tree : m \in M}
  /\ \E p \in Shuffles(pool[<<"arg", "any">>]) : pool' = [pool EXCEPT ![<<"arg", "any">>] = p]
  /\ phase' = "fixing" /\ test' = t /\ results' = {}
  /\ UNCHANGED <<config, todo, left, valid, calls>>

(* A syntax error: stage_results_ is cleared, its iterator is left alone.   *)
RejectText(t) ==
  /\ Idle /\ calls = 0 /\ ~Parses(t)
  /\ results' = {} /\ left' = {} /\ valid' = FALSE /\ pristine' = {}
  /\ UNCHANGED <<config, phase, pool, todo, test, mutated, calls>>

(* The renamings of t: the error fixer changes the text of terminals only.  *)
Renamings(t) == {r \in [DOMAIN t -> Prog] : \A i \in DOMAIN t : r[i][1] = t[i][1]}

(* FixUnresolvedErrors may leave any of these when it returns a tree.       *)
Fixes(t) ==
  IF t \in Repaired THEN {t} ELSE {r \in Renamings(t) \cap Repaired : Parses(r)}

(* A mutant: the tree that was fixed in place is kept, not its clone.       *)
KeepDamaged(cloned, each) == each

(* What is kept of a tree that could not be fixed.                          *)
Fallback(cloned, each) == cloned

KeepMutation(m) ==
  /\ phase = "fixing" /\ m \in mutated
  /\ mutated' = mutated \ {m}
  /\ \/ /\ Len(m.tree) > MaxSize
        /\ UNCHANGED results
     \/ /\ Len(m.tree) <= MaxSize /\ ~use_semantic
        /\ results' = results \cup {m.tree}
     \/ /\ Len(m.tree) <= MaxSize /\ use_semantic
        /\ \E fixed \in Fixes(m.tree) : results' = results \cup {fixed}
     \/ /\ Len(m.tree) <= MaxSize /\ use_semantic /\ m.tree \notin Repaired
        /\ \E each \in Renamings(m.tree) :
             results' = IF abandon THEN results
                        ELSE results \cup {Fallback(m.tree, each)}
  /\ UNCHANGED <<config, phase, pool, todo, test, pristine, left, valid, calls>>

(* Mutants: duplicates and dropped mutations are counted; off by one.       *)
CountMutations == Cardinality(pristine)

OneLess == Cardinality(results) - 1

StageSize == Cardinality(results)

EndMutate ==
  /\ phase = "fixing" /\ mutated = {}
  /\ phase' = "ready" /\ test' = << >>
  /\ left' = results /\ valid' = TRUE /\ calls' = StageSize
  /\ UNCHANGED <<config, pool, todo, mutated, pristine, results>>

-----------------------------------------------------------------------------
(***************************************************************************)
(* afl_custom_fuzz and the stage loop of afl-fuzz around it.                *)
(***************************************************************************)
(* GetNextMutation: Expects(stage_results_iter_ != stage_results_.end()).   *)
Fuzz ==
  /\ Idle /\ calls > 0
  /\ calls' = calls - 1
  /\ IF valid /\ left # {}
     THEN /\ \E r \in left : left' = left \ {r}
          /\ UNCHANGED phase
     ELSE phase' = "abort" /\ UNCHANGED left
  /\ UNCHANGED <<config, pool, todo, test, mutated, pristine, results, valid>>

(* afl-fuzz may leave the stage early.                                      *)
LeaveStage ==
  /\ Idle /\ calls > 0
  /\ calls' = 0
  /\ UNCHANGED <<config, phase, pool, todo, test, mutated, pristine, results, left, valid>>

Next ==
  \/ \E t \in Texts : NewEntry(t) \/ StartMutate(t) \/ RejectText(t)
  \/ SaveSubtree
  \/ \E m \in mutated : KeepMutation(m)
  \/ EndMutate
  \/ Fuzz
  \/ LeaveStage

Spec == Init /\ [][Next]_vars

-----------------------------------------------------------------------------
(***************************************************************************)
(* Properties.                                                              *)
(***************************************************************************)
(* Every variable stays within the values the mutator can hold.             *)
TypeOK ==
  /\ use_semantic \in BOOLEAN /\ abandon \in BOOLEAN
  /\ phase \in {"ready", "fixing", "abort"}
  /\ pool \in [Key -> Pool(IR)]
  /\ todo \in Seq([ir : IR, label : Cmd])
  /\ test \in Seq(Prog)
  /\ mutated \subseteq [by : {"replace", "insert", "delete"}, at : Nat, tree : Seq(Prog)]
  /\ pristine \subseteq Seq(Prog) /\ results \subseteq Seq(Prog) /\ left \subseteq Seq(Prog)
  /\ valid \in BOOLEAN
  /\ calls \in Nat

(* In every pool the hash set and the vector agree, hold no tree twice and  *)
(* stay within the limit, whatever is added, evicted and shuffled.          *)
PoolsInSync == \A k \in Key : InSync(pool[k])

(* Expects never fails and the iterator is never used when it dangles: for  *)
(* every call afl-fuzz still makes there is a mutation left, also when the  *)
(* pools change between the calls or the last test case did not parse.      *)
EveryCallIsServed ==
  /\ phase # "abort"
  /\ calls > 0 => valid /\ calls <= Cardinality(left) /\ left \subseteq results

(* A result was repaired as a whole or, where semantic errors are allowed,  *)
(* is the mutation itself: never a tree that the fixer gave up half way.    *)
WholeResults ==
  \A r \in results :
    \/ use_semantic /\ r \in Repaired /\ Parses(r)
    \/ ~(use_semantic /\ abandon) /\ r \in pristine

(* A pool never loses a tree without gaining one: a node type that could be *)
(* mutated once can be mutated from then on.                                *)
PoolsNeverShrink ==
  [][\A k \in Key : Cardinality(pool[k].pool) <= Cardinality(pool'[k].pool)]_vars

(* "returns a clone of root with chosen_node deleted" (DeleteNodeFromIR).   *)
DeletesTheNode ==
  \A m \in mutated :
    m.by = "delete" => m.tree = RemoveAt(test, m.at)
=============================================================================
