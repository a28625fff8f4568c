------------------------------- MODULE Reading -------------------------------
(***************************************************************************)
(* How the mutator and the analyzer read a test case: the front end parses  *)
(* it, and what it returns is walked by the subtree collector or asked by   *)
(* context queries, any number of times, before the next text is parsed.    *)
(***************************************************************************)
EXTENDS Frontend, SubtreeCollector, ContextQuery

CONSTANTS
  Calls,         (* the functions of the subtree collector, with arguments  *)
  Expressions    (* the CQL expressions of annotations                      *)

ASSUME CallsAssumption == \A c \in Calls : c.what \in What
ASSUME ExpressionsAssumption == Expressions \subseteq Seq(Tokens)

(* No offset wraps around to a node of a tree, and no token has the name    *)
(* that a node_num counts for its text.                                     *)
OffsetsFit ==
  \A i \in 1 .. Len(Texts) : \A pt \in Texts[i] :
    \A e \in Expressions : \A j \in DOMAIN e : e[j].num + Len(pt.up) <= Word

NamesDiffer ==
  \A i \in 1 .. Len(Texts) : \A pt \in Texts[i] :
    \A e \in Expressions : \A j \in DOMAIN e : e[j].is = "node_num" =>
      \A p \in DOMAIN pt.up \ pt.rules : pt.name[p] # e[j].arg

vars == <<tree, frontendVars, walkVars, queryVars>>

Init == FrontendInit /\ CollectInit /\ QueryInit

Ready == Returned /\ root # None /\ job = NoJob /\ status = "idle"

(* A call for any node of the tree, an annotation at any node.              *)
Collect ==
  /\ Ready
  /\ \E c \in Calls, n \in DOMAIN tree : StartWalk(c, n)
  /\ UNCHANGED <<tree, frontendVars, queryVars>>

Query ==
  /\ Ready
  /\ \E e \in Expressions, n \in DOMAIN tree : StartQuery(e, n)
  /\ UNCHANGED <<tree, frontendVars, walkVars>>

(* The caller takes the result; the listener is gone.                       *)
TakeResult ==
  /\ Finished \/ status = "done"
  /\ EndWalk /\ EndQuery
  /\ UNCHANGED <<tree, frontendVars>>

Next ==
  \/ job = NoJob /\ status = "idle" /\ FrontendNext /\ UNCHANGED <<walkVars, queryVars>>
  \/ Collect
  \/ Query
  \/ TakeResult
  \/ CollectNext /\ UNCHANGED <<frontendVars, queryVars>>
  \/ QueryNext /\ UNCHANGED <<frontendVars, walkVars>>

Spec == Init /\ [][Next]_vars
=============================================================================
