--------------------------- MODULE SymbolAnalysis ---------------------------
(***************************************************************************)
(* SymbolAnalyzer and SymbolAnalyzerListener: Analyze walks the tree in     *)
(* topological order, opening scopes and recording for every symbol the     *)
(* list of its define, use and invalidate markers; whatever cannot be       *)
(* recorded becomes an unresolved error. FixUnresolvedErrors then pops the  *)
(* errors one by one and renames terminals until none is left.              *)
(*                                                                          *)
(* A symbol's std::list of markers is kept as the set of its nodes (`on`)   *)
(* and the order of the list (`before`); the kind of a marker is the action *)
(* of its node.                                                             *)
(***************************************************************************)
EXTENDS AnnotatedTree

CONSTANT Programs   (* the annotated programs to analyse *)

ASSUME ProgramsAssumption == \A p \in Programs : WellFormed(p)

VARIABLES
  prog,    (* the program being analysed                                    *)
  text,    (* the current text of every node                                *)
  round,   (* how often Analyze has been called on this tree                *)
  phase,   (* where the analysis is                                         *)
  pos,     (* number of nodes TopoWalk has entered                          *)
  cur,     (* current_scope_ (a scope is its CreateScope node, 0: nullptr)  *)
  chain,   (* for every opened scope, itself and its GetParent() ancestors  *)
  tab,     (* the symbols of all the symbol tables                          *)
  on,      (* pairs <<symbol, node>>: the node has a marker in its list     *)
  before,  (* triples <<symbol, m, n>>: m is before n in that list          *)
  errors   (* error_ir of every entry of errors_ / ir_errors_map_           *)

vars == <<prog, text, round, phase, pos, cur, chain, tab, on, before, errors>>
tables == <<tab, on, before>>

Symbol == [scope : Node, name : Name, type : Type]

Last(n) == prog.src.last[n]
OpOf(n) == prog.src.op[n]
Rank(n) == prog.rank[n]
Acting  == Annotated(prog.src)

Walking == phase = "analyze" /\ pos < N
Fixing  == phase = "analyze" /\ pos = N /\ errors # {}

(* The IR TopoWalk enters next: the one whose OrderID is pos.               *)
IsNext(n) == Rank(n) = pos

On(s) == {n \in Node : <<s, n>> \in on}

-----------------------------------------------------------------------------
(***************************************************************************)
(* Resolving annotations (ResolveValues and AnnoContext*::Evaluate).        *)
(***************************************************************************)
Entered(sc) == OpOf(sc) = "scope" /\ Rank(sc) < pos
Exited(sc)  == \A m \in Subtree(prog.src, sc) : Rank(m) < pos

(* AnnoContext::GetSymbolAssociateWithIR: the first scope created whose     *)
(* range (open-ended until the scope is exited) contains the IR.            *)
FirstHolder(d) ==
  LET holds == {sc \in Node : /\ Entered(sc)
                              /\ sc <= d /\ (Exited(sc) => d <= Last(sc))}
  IN  {sc \in holds : \A o \in holds : Rank(sc) <= Rank(o)}

UsedAt(d) == {s \in tab : /\ <<s, d>> \in on /\ OpOf(d) = "use"
                          /\ s.scope \in FirstHolder(d)}

TypesOf(n) ==
  LET src == prog.src
  IN  IF src.copy[n] # 0
      THEN {s.type : s \in UsedAt(src.copy[n])}
      ELSE [base : src.bases[n], key : {[i \in DOMAIN src.of[n] |-> text[src.of[n][i]]]}]

(* "Unable to evaluate symusetype": no use marker to copy the type from.    *)
TypeUnknown(n) == prog.src.copy[n] # 0 /\ TypesOf(n) = {}

AnyType(n) == prog.src.bases[n] = {} /\ prog.src.copy[n] = 0

TypeFits(n, t) ==
  /\ AnyType(n) \/ t \in TypesOf(n)
  /\ t \notin [base : prog.src.block[n], key : {<< >>}]

NameAllowed(n, x) == prog.src.names[n] = {} \/ x \in prog.src.names[n]

(* The name a DefineSymbol introduces.                                      *)
DefinedName(n) ==
  IF prog.src.names[n] = {} THEN text[n] ELSE CHOOSE x \in prog.src.names[n] : TRUE

(* A mutant: the dependencies are never looked at.                          *)
DependencyIgnored(n) == TRUE

DependencyResolved(n) == prog.dep[n] \cap errors = {}

-----------------------------------------------------------------------------
(***************************************************************************)
(* Scopes.                                                                  *)
(***************************************************************************)
Visible == IF cur = 0 THEN {} ELSE chain[cur]

ParentScope(sc, links) ==
  LET outer == links[sc] \ {sc}
  IN  IF outer = {} THEN 0
      ELSE CHOOSE o \in outer : \A x \in outer : Rank(x) <= Rank(o)

(* The CreateScope nodes whose ExitIR follows the EnterIR of n: n is the    *)
(* last node of their subtree to be entered.                                *)
Exiting(n) ==
  {sc \in Node : /\ OpOf(sc) = "scope"
                 /\ n \in Subtree(prog.src, sc)
                 /\ \A m \in Subtree(prog.src, sc) \ {n} : Rank(m) < Rank(n)}

(* current_scope_ after the exits that follow n; the outermost comes last.  *)
ScopeAfter(n, inner, links) ==
  IF Exiting(n) = {} THEN inner
  ELSE ParentScope(CHOOSE sc \in Exiting(n) : \A o \in Exiting(n) : sc <= o, links)

Advance(n, inner, links) ==
  /\ pos'   = pos + 1
  /\ cur'   = ScopeAfter(n, inner, links)
  /\ chain' = links

(* A mutant: parents are never erased from result_scopes.                   *)
AllContainers(n) == {sc \in Node : OpOf(sc) = "scope" /\ n \in Subtree(prog.src, sc)}

(* GetScopeContainingIR: of the scopes around the IR, those that are not    *)
(* the parent of another one.                                               *)
Containers(n) ==
  LET around == {sc \in Node : OpOf(sc) = "scope" /\ n \in Subtree(prog.src, sc)}
  IN  {sc \in around : \A o \in around : ParentScope(o, chain) # sc}

-----------------------------------------------------------------------------
(***************************************************************************)
(* Marker lists.                                                            *)
(***************************************************************************)
(* Seen from the back, the last define or invalidate is a define.           *)
Live(s) ==
  \E d \in On(s) : /\ OpOf(d) = "define"
                   /\ \A i \in On(s) : OpOf(i) = "invalidate" => <<s, i, d>> \in before

EndsWithInvalidate(s) ==
  \E i \in On(s) : OpOf(i) = "invalidate" /\ \A m \in On(s) : <<s, i, m>> \notin before

(* The halving search of std::upper_bound for a marker of n, over the list  *)
(* of s in the order b, whose nodes are L: how many stay in front of it.    *)
UpperBound(s, n, key, L, b) ==
  LET size  == Cardinality(L)
      at(i) == CHOOSE m \in L : Cardinality({k \in L : <<s, k, m>> \in b}) = i
      search[first, len \in 0 .. size] ==
        IF len = 0 THEN first
        ELSE LET half == len \div 2
             IN  IF key[n] < key[at(first + half)]
                 THEN search[first, half]
                 ELSE search[first + half + 1, len - half - 1]
  IN  search[0, size]

(* The split of the list it finds (the set holds that one split): what is   *)
(* before it does not exceed n where it ends, what follows exceeds n where  *)
(* it starts. There is one such place when the list is sorted by key; when  *)
(* it is not, the search still ends at one of several.                      *)
Splits(s, n, key) ==
  {B \in SUBSET On(s) :
     LET A == On(s) \ B
     IN  /\ \A m \in B, k \in A : <<s, m, k>> \in before
         /\ \A m \in B : (\A k \in B : <<s, m, k>> \notin before) => key[m] <= key[n]
         /\ \A k \in A : (\A m \in A : <<s, m, k>> \notin before) => key[k] > key[n]
         /\ Cardinality(B) = UpperBound(s, n, key, On(s), before)}

ByOrderID == prog.rank
ByID      == [n \in Node |-> n]

(* upper_bound leaves, at the end of B, a marker that is not an invalidate. *)
UsableAfter(s, B) ==
  /\ B # {}
  /\ \E m \in B : OpOf(m) # "invalidate" /\ \A k \in B : <<s, m, k>> \notin before

Listed(s, n, B) ==
  /\ on' = on \cup {<<s, n>>}
  /\ before' = before \cup {<<s, m, n>> : m \in B} \cup {<<s, n, k>> : k \in On(s) \ B}

-----------------------------------------------------------------------------
(***************************************************************************)
(* Analyze: EnterIR on the next node in topological order.                  *)
(***************************************************************************)
Reset ==
  /\ phase = "analyze" /\ pos = 0 /\ cur = 0
  /\ chain = [n \in Node |-> {}]
  /\ tab = {} /\ on = {} /\ before = {} /\ errors = {}

Init ==
  /\ prog \in Programs
  /\ text = prog.src.text
  /\ round = 1
  /\ Reset

(* A mutant: the error is logged but never queued.                          *)
ErrorDropped(n) == UNCHANGED <<errors, tables>>

EmitError(n) == errors' = errors \cup {n} /\ UNCHANGED tables

EnterScope(n) ==
  /\ Walking /\ IsNext(n) /\ OpOf(n) = "scope"
  /\ Advance(n, n, [chain EXCEPT ![n] = {n} \cup Visible])
  /\ UNCHANGED <<prog, text, round, phase, tables, errors>>

EnterOther(n) ==
  /\ Walking /\ IsNext(n) /\ OpOf(n) \in {"none", "order"}
  /\ Advance(n, cur, chain)
  /\ UNCHANGED <<prog, text, round, phase, tables, errors>>

(* The table a DefineSymbol writes to.                                      *)
DefineScope(n, enclosing) ==
  IF prog.src.into[n] # 0 THEN prog.src.into[n] ELSE enclosing

ScopeKnown(sc) == sc # 0 /\ chain[sc] # {}

(* A mutant: the name of an invalidated symbol may be given out again.      *)
NameTakenByLive(sc, x) ==
  \E s \in tab : s.scope = sc /\ s.name = x /\ ~EndsWithInvalidate(s)

NameTaken(sc, x) == \E s \in tab : s.scope = sc /\ s.name = x

(* ExecuteDefineSymbol *)
EnterDefine(n) ==
  LET sc == DefineScope(n, cur)
  IN  /\ Walking /\ IsNext(n) /\ OpOf(n) = "define"
      /\ \/ /\ ~DependencyResolved(n)
            /\ EmitError(n)
         \/ /\ DependencyResolved(n) /\ ~TypeUnknown(n)
            /\ cur # 0 /\ ScopeKnown(sc)
            /\ IF NameTaken(sc, DefinedName(n))
               THEN EmitError(n)
               ELSE \E t \in TypesOf(n) :
                      LET s == [scope |-> sc, name |-> DefinedName(n), type |-> t]
                      IN  /\ tab' = tab \cup {s}
                          /\ Listed(s, n, {})
                          /\ UNCHANGED errors
      /\ Advance(n, cur, chain)
      /\ UNCHANGED <<prog, text, round, phase>>

(* The symbols the scope seeker of a use or an invalidate meets.            *)
Hits(n) == {s \in tab : /\ s.scope \in Visible /\ s.name = text[n]
                        /\ TypeFits(n, s.type)}

Usable(n, s) == IF OpOf(n) = "use" THEN Live(s) ELSE ~EndsWithInvalidate(s)

(* It climbs from the innermost scope and takes the first usable one.       *)
Targets(n) ==
  LET good == {s \in Hits(n) : Usable(n, s)}
  IN  {s \in good : \A o \in good : Rank(o.scope) <= Rank(s.scope)}

(* "Multiple symbols are defined with the same name" *)
Ambiguous(n) ==
  \E s, t \in Hits(n) : /\ s # t /\ s.scope = t.scope
                        /\ NameAllowed(n, text[n])
                        /\ \A o \in Targets(n) : Rank(o.scope) <= Rank(s.scope)

(* ExecuteUseSymbol and ExecuteInvalidateSymbol share their conditions.     *)
Resolvable(n) == DependencyResolved(n) /\ NameAllowed(n, text[n]) /\ Targets(n) # {}

EnterUseOrInvalidate(n) ==
  /\ Walking /\ IsNext(n) /\ OpOf(n) \in {"use", "invalidate"}
  /\ ~DependencyResolved(n) \/ ~(TypeUnknown(n) \/ Ambiguous(n))
  /\ IF ~Resolvable(n)
     THEN EmitError(n)
     ELSE \E s \in Targets(n) :
            /\ IF OpOf(n) = "use"
               THEN \E B \in Splits(s, n, ByOrderID) : Listed(s, n, B)
               ELSE IF Live(s) THEN Listed(s, n, On(s)) ELSE UNCHANGED <<on, before>>
            /\ UNCHANGED <<tab, errors>>
  /\ Advance(n, cur, chain)
  /\ UNCHANGED <<prog, text, round, phase>>

(* Every MYLOG(FATAL) of the walk.                                          *)
WalkAborts(n) ==
  /\ DependencyResolved(n)
  /\ \/ OpOf(n) = "define" /\ (TypeUnknown(n) \/ cur = 0 \/ ~ScopeKnown(DefineScope(n, cur)))
     \/ OpOf(n) \in {"use", "invalidate"} /\ (TypeUnknown(n) \/ Ambiguous(n))

AbortWalk(n) ==
  /\ Walking /\ IsNext(n) /\ WalkAborts(n)
  /\ phase' = "fatal"
  /\ UNCHANGED <<prog, text, round, pos, cur, chain, tables, errors>>

-----------------------------------------------------------------------------
(***************************************************************************)
(* FixUnresolvedErrors: pop the error with the smallest OrderID, repair it. *)
(***************************************************************************)
(* A mutant: operator< compares the wrong way round.                        *)
PoppedLast == CHOOSE n \in errors : \A m \in errors : Rank(m) <= Rank(n)

Popped == CHOOSE n \in errors : \A m \in errors : Rank(n) <= Rank(m)

(* The markers that erasing the define of n leaves without a definition, in *)
(* the lists (o, b).                                                        *)
OrphansOf(s, n, o, b) ==
  {m \in Node : /\ <<s, m>> \in o /\ <<s, n, m>> \in b
                /\ \A d \in Node : OpOf(d) = "define" /\ <<s, n, d>> \in b
                                   => <<s, m, d>> \in b}

(* Mutants: the dependents keep their markers; nodes that are errors        *)
(* already are not skipped; actions are not looked at.                      *)
RevokeOrphansOnly(C, known, o, b) ==
  \A c \in C : OpOf(c) = "define" =>
     \A s \in tab : <<s, c>> \in o => OrphansOf(s, c, o, b) \subseteq C

RevokeAgain(C, known, o, b) ==
  \A c \in C : /\ prog.desc[c] \cap Acting \subseteq C
               /\ OpOf(c) = "define" =>
                    \A s \in tab : <<s, c>> \in o => OrphansOf(s, c, o, b) \subseteq C

RevokedAnything(S, known, o, b) == S \cup UNION {prog.desc[c] : c \in S}

(* RevokeAll, RemoveIRSymbolUse/Define/Invalidate and the errors they emit, *)
(* started from the nodes in S: with a node go the nodes that depend on it, *)
(* and with a define the markers that relied on it. Nodes in `known` are    *)
(* errors already and are skipped.                                          *)
RevokeClosed(C, known, o, b) ==
  \A c \in C : /\ (prog.desc[c] \cap Acting) \ known \subseteq C
               /\ OpOf(c) = "define" =>
                    \A s \in tab : <<s, c>> \in o => OrphansOf(s, c, o, b) \subseteq C

Revoked(S, known, o, b) ==
  {n \in Acting : \A C \in SUBSET Acting :
                    S \subseteq C /\ RevokeClosed(C, known, o, b) => n \in C}

(* "Failure in RemoveIRSymbol...": a revoked node without a marker.         *)
Unmarked(R, o) == \E r \in R : \A s \in tab : <<s, r>> \notin o

(* GetSymbolsForUseAtIR and the filters of TryFixUnresolvedUseOrInvalidate. *)
Reachable(n) ==
  {s \in tab : /\ \E sc \in Containers(n) : s.scope \in chain[sc]
               /\ TypeFits(n, s.type) /\ NameAllowed(n, s.name)}

(* A mutant: the lifetime of the symbol is not looked at.                   *)
AvailableAnywhere(n) == Reachable(n)

Available(n) ==
  {s \in Reachable(n) : \E B \in Splits(s, n, ByOrderID) : UsableAfter(s, B)}

(* The scope a fix works in: the one a define names, else the innermost.    *)
HomeScopes(n) ==
  IF OpOf(n) = "define" /\ prog.src.into[n] # 0
  THEN {sc \in {prog.src.into[n]} : ScopeKnown(sc)}
  ELSE Containers(n)

(* "IR doesn't belong to any scope", "Two non-nested scopes contain the     *)
(* same IR", and the failures of ResolveValues.                             *)
FixAborts(n) ==
  \/ TypeUnknown(n)
  \/ Cardinality(HomeScopes(n)) # 1

AbortFix ==
  /\ Fixing /\ FixAborts(Popped)
  /\ phase' = "fatal"
  /\ errors' = errors \ {Popped}
  /\ UNCHANGED <<prog, text, round, pos, cur, chain, tables>>

(* The first of v0, v1, ... that the table does not hold.                   *)
FreshNames(sc) ==
  {i \in 0 .. Cardinality(tab) : /\ ~NameTaken(sc, i)
                                 /\ \A j \in 0 .. (i - 1) : NameTaken(sc, j)}

(* TryFixUnresolvedDefine *)
FixDefine ==
  LET n == Popped
  IN  /\ Fixing /\ OpOf(n) = "define" /\ ~FixAborts(n)
      /\ prog.src.names[n] = {}
      /\ \E sc \in HomeScopes(n) : \E i \in FreshNames(sc), t \in TypesOf(n) :
           LET s == [scope |-> sc, name |-> i, type |-> t]
           IN  /\ text' = [text EXCEPT ![n] = i]
               /\ tab' = tab \cup {s}
               /\ Listed(s, n, {})
      /\ errors' = errors \ {n}
      /\ UNCHANGED <<prog, round, phase, pos, cur, chain>>

(* TryFixUnresolvedUseOrInvalidate on a use: InsertMarkerForSymbol places   *)
(* the marker by ID.                                                        *)
FixUse ==
  LET n == Popped
  IN  /\ Fixing /\ OpOf(n) = "use" /\ ~FixAborts(n)
      /\ \E s \in Available(n) :
           /\ text' = [text EXCEPT ![n] = s.name]
           /\ \E B \in Splits(s, n, ByID) : Listed(s, n, B)
      /\ errors' = errors \ {n}
      /\ UNCHANGED <<prog, round, phase, pos, cur, chain, tab>>

(* A mutant: what follows the new invalidate stays in the list.             *)
NothingCutOff(s, B) == {}

(* The markers from the new invalidate up to the next define.               *)
CutOff(s, B) ==
  {m \in On(s) \ B : \A d \in On(s) \ B : OpOf(d) = "define" => <<s, m, d>> \in before}

(* ... on an invalidate: what it cuts off, and what that drags along, loses *)
(* its marker and becomes an error.                                         *)
FixInvalidate ==
  LET n == Popped
      rest == errors \ {n}
  IN  /\ Fixing /\ OpOf(n) = "invalidate" /\ ~FixAborts(n)
      /\ \E s \in Available(n) : \E B \in Splits(s, n, ByID) :
           LET o == on \cup {<<s, n>>}
               b == before \cup {<<s, m, n>> : m \in B} \cup {<<s, n, k>> : k \in On(s) \ B}
               gone == Revoked(CutOff(s, B), rest, o, b)
           IN  /\ text' = [text EXCEPT ![n] = s.name]
               /\ on' = {e \in o : e[2] \notin gone}
               /\ before' = {e \in b : e[2] \notin gone /\ e[3] \notin gone}
               /\ errors' = rest \cup gone
               /\ phase' = IF Unmarked(gone, o) THEN "fatal" ELSE phase
      /\ UNCHANGED <<prog, round, pos, cur, chain, tab>>

(* A mutant: the error that cannot be fixed goes back to the queue.         *)
TryAgain ==
  LET n == Popped
  IN  /\ Fixing /\ ~FixAborts(n)
      /\ IF OpOf(n) = "define" THEN prog.src.names[n] # {} ELSE Available(n) = {}
      /\ UNCHANGED vars

(* A fixed name cannot be changed; a use needs a symbol to choose.          *)
GiveUp ==
  LET n == Popped
  IN  /\ Fixing /\ ~FixAborts(n)
      /\ IF OpOf(n) = "define" THEN prog.src.names[n] # {} ELSE Available(n) = {}
      /\ phase' = "failed"
      /\ errors' = errors \ {n}
      /\ UNCHANGED <<prog, text, round, pos, cur, chain, tables>>

Finish ==
  /\ phase = "analyze" /\ pos = N /\ errors = {}
  /\ phase' = "fixed"
  /\ UNCHANGED <<prog, text, round, pos, cur, chain, tables, errors>>

(* The fixed test case is analysed once more, as the tests do and as the    *)
(* next mutation that starts from it will do.                               *)
Reanalyze ==
  /\ phase = "fixed" /\ round = 1
  /\ round' = 2
  /\ phase' = "analyze" /\ pos' = 0 /\ cur' = 0
  /\ chain' = [n \in Node |-> {}]
  /\ tab' = {} /\ on' = {} /\ before' = {} /\ errors' = {}
  /\ UNCHANGED <<prog, text>>

-----------------------------------------------------------------------------
Enter(n) ==
  \/ EnterScope(n)
  \/ EnterOther(n)
  \/ EnterDefine(n)
  \/ EnterUseOrInvalidate(n)
  \/ AbortWalk(n)

Fix ==
  \/ FixDefine
  \/ FixUse
  \/ FixInvalidate
  \/ GiveUp
  \/ AbortFix

Next == (\E n \in Node : Enter(n)) \/ Fix \/ Finish \/ Reanalyze

Spec == Init /\ [][Next]_vars

(* The analysis is one call on one thread; nothing else can stop it.        *)
FairSpec == Spec /\ WF_vars(Next)

-----------------------------------------------------------------------------
(***************************************************************************)
(* Properties.                                                              *)
(***************************************************************************)
(* Every variable stays within the values the analyzer can hold.            *)
TypeOK ==
  /\ text \in [Node -> Name]
  /\ round \in {1, 2}
  /\ phase \in {"analyze", "fixed", "failed", "fatal"}
  /\ pos \in 0 .. N
  /\ cur \in Node \cup {0}
  /\ chain \in [Node -> SUBSET Node]
  /\ tab \subseteq Symbol
  /\ on \subseteq tab \X Node
  /\ before \subseteq tab \X Node \X Node
  /\ errors \subseteq Acting

(* One symbol table never holds two symbols of one name, even when their    *)
(* types differ, neither during the walk nor when a fix invents a name:     *)
(* otherwise the scope seeker aborts the fuzzer.                            *)
UniqueNames ==
  \A s, t \in tab : s.scope = t.scope /\ s.name = t.name => s = t

(* Nothing is lost: once entered, a node with a symbol action is either     *)
(* waiting in the error queue or carried by exactly one marker, whatever    *)
(* cascade of revocations it went through.                                  *)
MarkerOrError ==
  phase \in {"analyze", "fixed"} =>
    \A n \in Acting : Rank(n) < pos =>
      IF n \in errors
      THEN \A s \in tab : <<s, n>> \notin on
      ELSE \E s \in tab : <<s, n>> \in on /\ \A t \in tab : <<t, n>> \in on => t = s

(* "legit seq of def/use/inval": no use or invalidate stands in a list      *)
(* before the define or after an invalidate, also after fixes have removed  *)
(* and inserted markers in the middle of it.                                *)
LegitSequences ==
  \A e \in on :
    LET s == e[1]  n == e[2]
    IN  OpOf(n) # "define" =>
          \E d \in On(s) :
            /\ OpOf(d) = "define" /\ <<s, d, n>> \in before
            /\ \A i \in On(s) : OpOf(i) = "invalidate" /\ <<s, i, n>> \in before
                                => <<s, i, d>> \in before

(* A recorded marker still means what the source text says: the symbol has  *)
(* the name and a type that the current texts of the node and of the nodes  *)
(* its annotation refers to resolve to, although fixes rename terminals.    *)
NothingStale ==
  \A e \in on :
    LET s == e[1]  n == e[2]
    IN  IF OpOf(n) = "define"
        THEN s.name = DefinedName(n) /\ s.type \in TypesOf(n)
        ELSE s.name = text[n] /\ NameAllowed(n, s.name) /\ TypeFits(n, s.type)

(* A node whose dependency is an error is an error itself, so that no fix   *)
(* reads a text or a type that is about to change.                          *)
DependentsWait ==
  phase = "analyze" =>
    \A n \in Acting : Rank(n) < pos /\ prog.dep[n] \cap errors # {} => n \in errors

(* The annotation of n cannot be resolved where n stands: there is no scope *)
(* around it, or not the one it names, or it copies the type of a node that *)
(* uses no symbol, or of itself, or of one that stands in a scope inside    *)
(* another one, where GetSymbolAssociateWithIR looks for its symbol in the  *)
(* outer scope only.                                                        *)
Around(n) == {sc \in Node : OpOf(sc) = "scope" /\ n \in Subtree(prog.src, sc)}

Misplaced(n) ==
  LET d == prog.src.copy[n] IN
  \/ Around(n) = {} \/ prog.src.into[n] \notin Around(n) \cup {0}
  \/ d # 0 /\ (OpOf(d) # "use" \/ d = n \/ Cardinality(Around(d)) > 1)

(* Nothing else drives the walk or the fixer into a MYLOG(FATAL), which     *)
(* would take the fuzzer down: no mutation of the text, no order of fixes.  *)
AbortsAreDeserved ==
  [][ phase' = "fatal" =>
        \E n \in Acting : Misplaced(n) /\ (IF pos < N THEN IsNext(n) ELSE n = Popped) ]_vars

(* What FixUnresolvedErrors reports as fixed is correct: a second analysis  *)
(* of the new text finds nothing to complain about.                         *)
FixedIsClean == round = 2 => errors = {}

(* Fixing never moves backwards: the errors a fix leaves or introduces lie  *)
(* after the node it fixed, so no node is fixed twice.                      *)
FixesMoveForward ==
  [][ Fixing /\ phase' = "analyze" => \A m \in errors' : Rank(m) > Rank(Popped) ]_vars

(* A cascade never reaches a node that has lost its marker without having   *)
(* become an error: the FATALs of RemoveIRSymbol* stay out of reach.        *)
CascadesFindMarkers == [][ phase' = "fatal" => on' = on ]_vars

(* FixUnresolvedErrors returns, whatever it chooses at random.              *)
FixerReturns == <>[](phase # "analyze")

(***************************************************************************)
(* The abstract specification. An IR is settled when it has a marker.       *)
(***************************************************************************)
Classified ==
  [n \in Node |-> IF n \in errors THEN "error"
                 ELSE IF \E s \in tab : <<s, n>> \in on THEN "settled" ELSE "open"]

Abstract == INSTANCE Repair WITH Item <- Node, items <- Acting, needs <- prog.dep,
                                 name <- text, status <- Classified

(* Behind the tables, the analyzer does what Repair says: IRs are classified *)
(* in dependency order, repairs only start from final values, and what a    *)
(* repair unsettles becomes an error in the same step.                      *)
ImplementsRepair == Abstract!Spec

(* As long as a node keeps its marker, no fix renames what the node's type  *)
(* and name were computed from.                                             *)
BasisRests == Abstract!NamesRest
=============================================================================
