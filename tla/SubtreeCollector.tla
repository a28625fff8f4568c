-------------------------- MODULE SubtreeCollector --------------------------
(***************************************************************************)
(* IRWalker::Walk with a SubtreeCollectorListenerWithFilter: every function *)
(* of subtree_collector.cc is such a walk and differs in the filter, which  *)
(* looks at a node when all its children have been left (ExitIR), and may   *)
(* remember what it has seen. The mutator collects what it replaces, what   *)
(* it saves, and where it inserts and deletes; context queries count.       *)
(***************************************************************************)
EXTENDS IRTree

VARIABLES
  job,       (* the function that was called, with its arguments            *)
  frames,    (* the active calls of Walk: the node, and how many children   *)
             (* have been walked                                            *)
  found,     (* results_                                                    *)
  filtered,  (* filtered_out_irs_                                           *)
  holding,   (* irs_containing_label                                        *)
  beyond,    (* irs_out_of_bound                                            *)
  info,      (* the labels below a node (LabelInfo)                         *)
  current,   (* current_max_id_ of the listener                             *)
  maxID      (* max_id_in_the_tree_ of the nodes walked                     *)

walkVars == <<job, frames, found, filtered, holding, beyond, info, current, maxID>>

NoJob == [what |-> "none"]

Selecting == {"terminals", "of_name", "nonterminals_of_name", "of_type"}
Bounded   == {"below", "nonempty_below", "below_incl"}
Labelling == {"label", "label_incl", "label_info"}
Plain     == {"all", "all_conditional"}
What      == Selecting \cup Bounded \cup Labelling \cup Plain

CollectInit ==
  /\ job = NoJob /\ frames = << >> /\ found = << >> /\ filtered = {} /\ holding = {}
  /\ beyond = {} /\ info = << >> /\ current = None /\ maxID = << >>

(* A new listener.                                                          *)
Listen(j, fs, max) ==
  /\ job' = j /\ frames' = fs /\ current' = max
  /\ found' = << >> /\ filtered' = {} /\ holding' = {} /\ beyond' = {} /\ info' = << >>
  /\ maxID' = << >>

(* A call c: c.what is collected under n, for a name, type (the boundary)   *)
(* or label c.arg, and for labels under the boundary c.type.                *)
StartWalk(c, n) ==
  Listen([what |-> c.what, arg |-> c.arg, type |-> c.type, root |-> n],
         <<[node |-> n, walked |-> 0]>>,
         IF c.what = "all_conditional" THEN None ELSE n)

EndWalk == Listen(NoJob, << >>, None)

Walking  == job # NoJob /\ frames # << >>
Finished == job # NoJob /\ frames = << >>
Frame    == Last(frames)

-----------------------------------------------------------------------------
(* What the filters ask about a node whose children have been left.         *)
HasKidOf(n, type) == \E c \in Kids(n) : tree[c].type = type

(* A mutant: a boundary puts only its parent out of bound.                  *)
OutOfBoundOnce(n) == HasKidOf(n, job.type)

HoldsLabel(n) == tree[n].label = job.arg \/ Kids(n) \cap holding # {}
OutOfBound(n) == HasKidOf(n, job.type) \/ Kids(n) \cap beyond # {}

(* A mutant: only the own label.                                            *)
LabelOf(n) == {tree[n].label} \ {""}

LabelsAt(n) ==
  ({tree[n].label} \ {""}) \cup UNION {info[c] : c \in Kids(n) \cap DOMAIN info}

(* filter_func_: TRUE filters the node out.                                 *)
FilteredOut(n) ==
  \/ job.what = "terminals" /\ ~tree[n].terminal
  \/ job.what = "of_name" /\ tree[n].name # job.arg
  \/ job.what = "nonterminals_of_name" /\ (tree[n].terminal \/ tree[n].name # job.arg)
  \/ job.what = "of_type" /\ tree[n].type # job.arg
  \/ job.what \in {"below", "nonempty_below"} /\ tree[n].type = job.arg
  \/ job.what = "below_incl" /\ HasKidOf(n, job.arg)
  \/ job.what \in {"label", "label_incl"} /\ ~HoldsLabel(n)
  \/ job.what \in {"label_incl", "label_info"} /\ OutOfBound(n)

CheckChildren == job.what \in Bounded \cup {"all_conditional"}

KeptBy(n) == ~FilteredOut(n) /\ (CheckChildren => Kids(n) \cap filtered = {})

-----------------------------------------------------------------------------
(* A mutant: the largest ID is that of the node when it is entered.         *)
MaxIDOnEnter(n) == n
MaxIDOnExit(n)  == current

(* SetMaxIDInTheTree, after ExitIR of n; ConditionalWalk does not do that.  *)
SetMaxID(n) ==
  maxID' = IF job.what = "all_conditional" THEN maxID ELSE Put(maxID, n, MaxIDOnExit(n))

(* Walk of the next child: SetCurrentMaxID.                                 *)
EnterIR ==
  /\ Walking /\ Frame.walked < Len(tree[Frame.node].kids)
  /\ LET c == tree[Frame.node].kids[Frame.walked + 1] IN
     /\ frames' = Append([frames EXCEPT ![Len(frames)].walked = @ + 1],
                         [node |-> c, walked |-> 0])
     /\ current' = IF job.what = "all_conditional" THEN current ELSE c
  /\ UNCHANGED <<job, found, filtered, holding, beyond, info, maxID, tree>>

ExitIR ==
  /\ Walking /\ Frame.walked = Len(tree[Frame.node].kids)
  /\ LET n == Frame.node IN
     /\ IF KeptBy(n)
        THEN found' = Append(found, n) /\ UNCHANGED filtered
        ELSE filtered' = filtered \cup {n} /\ UNCHANGED found
     /\ holding' = IF job.what \in {"label", "label_incl"} /\ ~FilteredOut(n)
                   THEN holding \cup {n} ELSE holding
     /\ beyond' = IF job.what \in {"label_incl", "label_info"} /\ OutOfBound(n)
                  THEN beyond \cup {n} ELSE beyond
     /\ info' = IF job.what = "label_info" /\ ~FilteredOut(n) /\ LabelsAt(n) # {}
                THEN Put(info, n, LabelsAt(n)) ELSE info
     /\ SetMaxID(n)
  /\ frames' = Front(frames)
  /\ UNCHANGED <<job, current, tree>>

CollectNext == EnterIR \/ ExitIR

(* What the caller gets; NonEmpty drops the nodes without any text.         *)
Result ==
  IF job.what = "nonempty_below"
  THEN {n \in ToSet(found) : Terminals(n) # {}}
  ELSE ToSet(found)

-----------------------------------------------------------------------------
(* What each function is for, said of a node and the subtree below it: no   *)
(* boundary in it, or none strictly below it, or the label somewhere in it. *)
Clear(n, type) == \A m \in Below(n) : tree[m].type # type

HasLabel(n) == \E m \in Subtree(n) : tree[m].label = job.arg

Wanted(n) ==
  /\ job.what = "terminals" => tree[n].terminal
  /\ job.what = "of_name" => tree[n].name = job.arg
  /\ job.what = "nonterminals_of_name" => ~tree[n].terminal /\ tree[n].name = job.arg
  /\ job.what = "of_type" => tree[n].type = job.arg
  /\ job.what \in {"below", "nonempty_below"} => \A m \in Subtree(n) : tree[m].type # job.arg
  /\ job.what = "nonempty_below" => \E m \in Subtree(n) : tree[m].terminal
  /\ job.what = "below_incl" => Clear(n, job.arg)
  /\ job.what \in {"label", "label_incl"} => HasLabel(n)
  /\ job.what \in {"label_incl", "label_info"} => Clear(n, job.type)

(* Every function collects exactly the nodes it is for. The mutator never   *)
(* replaces a node that contains a boundary, and saves every node that does *)
(* not contain one strictly below itself.                                   *)
CollectsExactly == Finished => Result = {n \in Subtree(job.root) : Wanted(n)}

(* The label information of the guided mutation: for every collected node   *)
(* with a label in its subtree, all of them.                                *)
LabelsBelow(n) == {tree[m].label : m \in Subtree(n)} \ {""}

LabelsAreExact ==
  Finished /\ job.what = "label_info" =>
    /\ DOMAIN info = {n \in Result : LabelsBelow(n) # {}}
    /\ \A n \in DOMAIN info : info[n] = LabelsBelow(n)

(* Every node is left once, after all nodes below it, and the largest ID    *)
(* kept for it bounds exactly its subtree: scopes decide by that interval   *)
(* whether they contain a node.                                             *)
SubtreesAreIntervals ==
  Finished =>
    /\ ToSet(found) \cup filtered = Subtree(job.root) /\ IsInjective(found)
    /\ \A n \in DOMAIN maxID : Subtree(n) = {m \in DOMAIN tree : n <= m /\ m <= maxID[n]}
    /\ job.what # "all_conditional" => DOMAIN maxID = Subtree(job.root)
=============================================================================
