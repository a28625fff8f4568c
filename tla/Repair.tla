------------------------------- MODULE Repair -------------------------------
(***************************************************************************)
(* What SymbolAnalyzer promises of Analyze and FixUnresolvedErrors, without *)
(* scopes, symbols, types and marker lists: the IRs with a symbol action    *)
(* are classified one by one as settled or as errors, then the errors are   *)
(* repaired. A repair renames one IR, may turn settled IRs back into        *)
(* errors, and never touches what a settled IR was computed from.           *)
(***************************************************************************)
CONSTANTS
  Item,  (* the IRs of a test case                                          *)
  Name   (* the names their terminals can have                              *)

VARIABLES
  items,   (* the IRs with a symbol action                                  *)
  needs,   (* for every IR, those its annotation is computed from           *)
  name,    (* the current name of every IR                                  *)
  status,  (* "open", "settled" or "error"                                  *)
  phase    (* "analyze", "fixed", "failed" (gave up) or "fatal" (aborted)   *)

vars == <<items, needs, name, status, phase>>

Status == {"open", "settled", "error"}

AllOpen == [i \in Item |-> "open"]

Init ==
  /\ items \subseteq Item
  /\ needs \in [Item -> SUBSET Item]
  /\ name \in [Item -> Name]
  /\ status = AllOpen
  /\ phase = "analyze"

WaitsForError(i) == \E d \in needs[i] : status[d] = "error"

(* No settled item was computed from an error.                              *)
Rested == \A i \in items : status[i] = "settled" => ~WaitsForError(i)

AllClassified == \A i \in items : status[i] # "open"

(* An item is classified after all the items it needs.                      *)
Classify(i) ==
  /\ phase = "analyze"
  /\ status[i] = "open"
  /\ \A d \in needs[i] \cap items : status[d] # "open"
  /\ \/ status' = [status EXCEPT ![i] = "error"]
     \/ ~WaitsForError(i) /\ status' = [status EXCEPT ![i] = "settled"]
  /\ UNCHANGED <<items, needs, name, phase>>

(* Only an error that needs no other error is repaired. Items whose basis   *)
(* the repair takes away become errors, all of them and in the same step.   *)
RepairError(i) ==
  /\ phase = "analyze" /\ AllClassified
  /\ status[i] = "error" /\ ~WaitsForError(i)
  /\ name' \in [Item -> Name]
  /\ \A j \in Item \ {i} : name'[j] = name[j]
  /\ status' \in [Item -> Status]
  /\ status'[i] # "open"
  /\ \A j \in Item \ {i} :
       status'[j] # status[j] => status[j] = "settled" /\ status'[j] = "error"
  /\ Rested'
  /\ UNCHANGED <<items, needs, phase>>

Drop(i) == status[i] = "error" /\ status' = [status EXCEPT ![i] = "open"]

GiveUp(i) ==
  /\ phase = "analyze" /\ AllClassified
  /\ Drop(i)
  /\ phase' = "failed"
  /\ UNCHANGED <<items, needs, name>>

Abort(i) ==
  /\ phase = "analyze"
  /\ Drop(i) \/ UNCHANGED status
  /\ phase' = "fatal"
  /\ UNCHANGED <<items, needs, name>>

Finish ==
  /\ phase = "analyze"
  /\ \A i \in items : status[i] = "settled"
  /\ phase' = "fixed"
  /\ UNCHANGED <<items, needs, name, status>>

Again ==
  /\ phase = "fixed"
  /\ phase' = "analyze" /\ status' = AllOpen
  /\ UNCHANGED <<items, needs, name>>

Next ==
  \/ \E i \in items : Classify(i) \/ RepairError(i) \/ GiveUp(i)
  \/ \E i \in Item : Abort(i)
  \/ Finish \/ Again

Spec == Init /\ [][Next]_vars

(* As long as an item stays settled, the names it was computed from rest:   *)
(* a marker never outlives the text that explains it.                       *)
NamesRest ==
  [][ \A i \in items : status[i] = "settled" /\ status'[i] = "settled"
        => \A d \in needs[i] : name'[d] = name[d] ]_vars
=============================================================================
