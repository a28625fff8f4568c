------------------------------ MODULE Cascade ------------------------------
(***************************************************************************)
(* The revocation cascade of SymbolAnalysis step by step. When a fixed      *)
(* invalidate cuts markers off, InsertMarkerForSymbol walks the list with   *)
(* an iterator and revokes what depends on every marker it passes;          *)
(* RevokeAll may come to a define, and RemoveIRSymbolDefine then walks the  *)
(* list of that symbol in the same way, inside the first walk, and so on.   *)
(* All these iterators point into lists that the inner calls erase from.    *)
(***************************************************************************)
EXTENDS SymbolAnalysis

VARIABLES
  stack,  (* the walks under way, the innermost last                        *)
  origin  (* the tables before the fix, <<>> when no walk is under way      *)

allVars == <<vars, stack, origin>>
Elsewhere == <<prog, round, pos, cur, chain, tab>>

(* A walk over the list of sym: its iterator is at a marker, whose          *)
(* dependents in todo are still to be revoked.                              *)
Walk == [sym : Symbol, at : Node, todo : SUBSET Node]

Idle   == stack = << >>
Top    == stack[Len(stack)]
Outer  == SubSeq(stack, 1, Len(stack) - 1)

CascadeInit == Init /\ stack = << >> /\ origin = << >>

(* The head of a part of the list of s.                                     *)
First(s, part) == {k \in part : \A m \in part \ {k} : <<s, k, m>> \in before}

Behind(s, m) == {k \in On(s) : <<s, m, k>> \in before}

(* The iterator of a walk inside `outer` moves to k, which becomes an error, *)
(* or the walk ends: the list ends or the next marker is a define.          *)
MoveTo(k, s, outer) == Append(outer, [sym |-> s, at |-> k, todo |-> prog.desc[k]])

Proceed(next, s, outer, known) ==
  \/ \E k \in next : /\ OpOf(k) # "define"
                     /\ stack' = MoveTo(k, s, outer)
                     /\ errors' = known \cup {k}
  \/ /\ \A k \in next : OpOf(k) = "define"
     /\ stack' = outer
     /\ errors' = known

(* A mutant: the whole list is cleared.                                     *)
EraseList(m) ==
  LET hit == {s \in tab : <<s, m>> \in on}
  IN  /\ on' = {e \in on : e[1] \notin hit}
      /\ before' = {e \in before : e[1] \notin hit}

Erase(m) ==
  /\ on' = {e \in on : e[2] # m}
  /\ before' = {e \in before : e[2] # m /\ e[3] # m}

(* InsertMarkerForSymbol on an invalidate, up to the loop.                  *)
InsertInvalidate ==
  LET n == Popped
  IN  /\ Idle /\ Fixing /\ OpOf(n) = "invalidate" /\ ~FixAborts(n)
      /\ \E s \in Available(n) : \E B \in Splits(s, n, ByID) :
           /\ text' = [text EXCEPT ![n] = s.name]
           /\ Listed(s, n, B)
           /\ Proceed(First(s, On(s) \ B), s, << >>, errors \ {n})
      /\ origin' = IF stack' = << >> THEN << >>
                   ELSE [text |-> text, on |-> on, before |-> before, errors |-> errors]
      /\ UNCHANGED <<Elsewhere, phase>>

(* A mutant: an IR that is an error already is not skipped.                 *)
NeverSkipped(x) == x \notin Acting

(* RevokeAll has nothing to do for x.                                       *)
Skipped(x) == x \notin Acting \/ x \in errors

Marked(x) == \E s \in tab : <<s, x>> \in on

Visited(x) == Append(Outer, [Top EXCEPT !.todo = @ \ {x}])

SkipError ==
  \E x \in Top.todo :
    /\ Skipped(x)
    /\ stack' = Visited(x)
    /\ UNCHANGED <<vars, origin>>

(* "Failure in RemoveIRSymbol...": no list holds a marker of x.             *)
Outcome(x) == IF Marked(x) THEN phase ELSE "fatal"

(* RemoveIRSymbolUse, RemoveIRSymbolInvalidate                              *)
RevokeMarker ==
  \E x \in Top.todo :
    /\ ~Skipped(x) /\ OpOf(x) # "define"
    /\ Erase(x)
    /\ errors' = errors \cup {x}
    /\ stack' = Visited(x)
    /\ phase' = Outcome(x)
    /\ UNCHANGED <<Elsewhere, text, origin>>

ListOf(x) == CHOOSE s \in tab : <<s, x>> \in on

(* RemoveIRSymbolDefine, up to its loop.                                    *)
RevokeDefine ==
  \E x \in Top.todo :
    /\ ~Skipped(x) /\ OpOf(x) = "define"
    /\ errors' = errors \cup {x}
    /\ stack' = IF Marked(x) THEN MoveTo(x, ListOf(x), Visited(x)) ELSE Visited(x)
    /\ phase' = Outcome(x)
    /\ UNCHANGED <<Elsewhere, text, on, before, origin>>

(* Mutants: only the define itself is erased; the iterator does not move.   *)
DefineOnly(s, m) == IF OpOf(m) = "define" THEN {} ELSE First(s, Behind(s, m))

StayPut(s, m) == {m}

Following(s, m) == First(s, Behind(s, m))

(* Everything that depends on the marker has been revoked: erase it.        *)
EraseAndProceed ==
  /\ Top.todo = {}
  /\ Erase(Top.at)
  /\ Proceed(Following(Top.sym, Top.at), Top.sym, Outer, errors)
  /\ origin' = IF stack' = << >> THEN << >> ELSE origin
  /\ UNCHANGED <<Elsewhere, text, phase>>

CascadeStep ==
  /\ ~Idle /\ phase = "analyze"
  /\ SkipError \/ RevokeMarker \/ RevokeDefine \/ EraseAndProceed

AtomicStep ==
  /\ Idle
  /\ \/ \E n \in Node : Enter(n)
     \/ FixDefine \/ FixUse \/ GiveUp \/ AbortFix \/ Finish \/ Reanalyze
  /\ UNCHANGED <<stack, origin>>

CascadeNext == AtomicStep \/ InsertInvalidate \/ CascadeStep

CascadeSpec == CascadeInit /\ [][CascadeNext]_allVars

FairCascade == CascadeSpec /\ WF_allVars(CascadeNext)

-----------------------------------------------------------------------------
(***************************************************************************)
(* Properties.                                                              *)
(***************************************************************************)
(* No iterator dangles: whatever the inner walks erase, the marker an outer *)
(* walk stands at is still in its list.                                     *)
IteratorsValid ==
  \A i \in 1 .. Len(stack) : <<stack[i].sym, stack[i].at>> \in on

(* No cascade ends in "Failure in RemoveIRSymbol...".                       *)
CascadesSucceed == [][~Idle => phase' # "fatal"]_allVars

(* A cascade ends, also where the fixer as a whole may not.                 *)
CascadesReturn == ~Idle ~> Idle

Settled(current, field) == IF Idle THEN current ELSE origin[field]

Atomic == INSTANCE SymbolAnalysis WITH
            text   <- Settled(text, "text"),     on     <- Settled(on, "on"),
            before <- Settled(before, "before"), errors <- Settled(errors, "errors")

(* In whatever order the cascade visits the nodes, it ends in the one state *)
(* FixInvalidate of SymbolAnalysis describes in a single step.              *)
ImplementsAnalysis == Atomic!Spec
=============================================================================
