------------------------ MODULE SymbolAnalysisProofs ------------------------
(***************************************************************************)
(* Invariants of SymbolAnalysis, for all programs, sizes and type names.    *)
(***************************************************************************)
EXTENDS SymbolAnalysis, TreeLemmas

-----------------------------------------------------------------------------
(***************************************************************************)
(* Facts about nodes and ranks.                                             *)
(***************************************************************************)
(* What is known of the program being analysed.                             *)
LEMMA ProgramFacts ==
  ASSUME prog \in Programs
  PROVE  /\ prog \in Program
         /\ IsTopoOrder(prog.rank, prog.dep)
         /\ AreDependents(prog.desc, prog.dep)
         /\ Acting \subseteq Node
         /\ \A n \in Node : Rank(n) \in 0 .. N - 1
BY ProgramsAssumption DEF WellFormed, Acting, Annotated, Rank, Program

(* A set of nodes has one with the smallest rank and one with the largest.  *)
LEMMA ExtremeRanks ==
  ASSUME prog \in Programs, NEW S, S \subseteq Node, S # {}
  PROVE  /\ \E n \in S : \A m \in S : Rank(n) <= Rank(m)
         /\ \E n \in S : \A m \in S : Rank(m) <= Rank(n)
<1>1. \A n \in S : Rank(n) \in 0 .. N - 1
  BY ProgramFacts
<1>2. N \in Nat
  BY NAssumption
<1>3. \E n \in S : \A m \in S : Rank(n) <= Rank(m)
  <2> DEFINE T == {Rank(n) : n \in S}
  <2>1. T \subseteq Nat /\ T # {}
    BY <1>1
  <2>2. PICK x \in T : \A y \in T : x <= y
    <3> HIDE DEF T
    <3> QED BY <2>1, LeastNat
  <2> QED BY <2>2
<1>4. \E n \in S : \A m \in S : Rank(m) <= Rank(n)
  <2> DEFINE T == {N - Rank(n) : n \in S}
  <2>1. T \subseteq Nat /\ T # {}
    BY <1>1, <1>2
  <2>2. PICK x \in T : \A y \in T : x <= y
    <3> HIDE DEF T
    <3> QED BY <2>1, LeastNat
  <2>3. PICK n \in S : x = N - Rank(n)
    OBVIOUS
  <2>4. ASSUME NEW m \in S PROVE Rank(m) <= Rank(n)
    <3>1. N - Rank(n) <= N - Rank(m)
      BY <2>2, <2>3
    <3> QED BY <1>1, <1>2, <3>1
  <2> QED BY <2>4
<1> QED BY <1>3, <1>4

(* In the order PerformTopoSort gives, no two nodes have the same rank and  *)
(* a node comes after what it depends on.                                   *)
LEMMA RankOrder ==
  ASSUME prog \in Programs, NEW m \in Node, NEW n \in Node
  PROVE  /\ Rank(m) = Rank(n) => m = n
         /\ m \in prog.dep[n] => Rank(m) < Rank(n)
<1> DEFINE taken(k) == {x \in Node : prog.rank[x] < prog.rank[k]}
<1>1. \A k \in Node : /\ prog.dep[k] \subseteq taken(k)
                      /\ \A x \in Node \ taken(k) : x < k => ~(prog.dep[x] \subseteq taken(k))
  BY ProgramFacts DEF IsTopoOrder
<1>2. m \in prog.dep[n] => Rank(m) < Rank(n)
  BY <1>1 DEF Rank
<1>3. ASSUME NEW a \in Node, NEW b \in Node, Rank(a) = Rank(b), a < b PROVE FALSE
  <2>1. taken(a) = taken(b) /\ a \notin taken(b)
    BY <1>3, ProgramFacts DEF Rank
  <2> QED BY <1>1, <1>3, <2>1
<1>4. Rank(m) = Rank(n) => m = n
  <2>1. m < n \/ n < m \/ m = n
    BY NAssumption DEF Node
  <2> QED BY <1>3, <2>1
<1> QED BY <1>2, <1>4

(* What depends on a node comes after it.                                   *)
LEMMA DependentsLater ==
  ASSUME prog \in Programs, NEW n \in Node, NEW m \in prog.desc[n]
  PROVE  m \in Node /\ Rank(n) < Rank(m)
<1> DEFINE bad == {y \in prog.desc[n] : ~(Rank(n) < Rank(y))}
<1>1. prog.desc[n] \subseteq Node
  BY ProgramFacts DEF Program
<1>2. ASSUME bad # {} PROVE FALSE
  <2>1. bad \subseteq Node
    BY <1>1
  <2>2. PICK y \in bad : \A z \in bad : Rank(y) <= Rank(z)
    BY <1>2, <2>1, ExtremeRanks
  <2>3. y \in Node /\ (n \in prog.dep[y] \/ \E z \in prog.dep[y] : z \in prog.desc[n])
    BY <1>1, <2>2, ProgramFacts DEF AreDependents
  <2>4. n \notin prog.dep[y]
    BY <2>2, <2>3, RankOrder
  <2>5. PICK z \in prog.dep[y] : z \in prog.desc[n]
    BY <2>3, <2>4
  <2>6. z \in Node /\ Rank(z) < Rank(y)
    BY <1>1, <2>3, <2>5, RankOrder
  <2>7. z \in bad
    BY <2>2, <2>3, <2>5, <2>6, ProgramFacts, NAssumption
  <2> QED BY <2>2, <2>3, <2>6, <2>7, ProgramFacts, NAssumption
<1> QED BY <1>1, <1>2

(* errors_.top() is the queued error with the smallest OrderID.             *)
LEMMA PoppedFacts ==
  ASSUME prog \in Programs, errors \subseteq Node, errors # {}
  PROVE  Popped \in errors /\ \A m \in errors : Rank(Popped) <= Rank(m)
BY ExtremeRanks DEF Popped

-----------------------------------------------------------------------------
(***************************************************************************)
(* Type correctness.                                                        *)
(***************************************************************************)
(* The part of the invariant that does not speak of errors. Tables are      *)
(* finite, so that there is always a first fresh name.                      *)
Typed == prog \in Programs /\ TypeOK /\ IsFiniteSet(tab)

(* An annotation resolves to symbol types.                                  *)
LEMMA TypesOfType ==
  ASSUME Typed, NEW n \in Node
  PROVE  TypesOf(n) \subseteq Type
<1>1. prog.src \in Source
  BY ProgramFacts DEF Typed, Program
<1>2. CASE prog.src.copy[n] # 0
  <2>1. UsedAt(prog.src.copy[n]) \subseteq Symbol
    BY DEF UsedAt, Typed, TypeOK
  <2> QED BY <1>2, <2>1 DEF TypesOf, Symbol
<1>3. CASE prog.src.copy[n] = 0
  <2> DEFINE k == [i \in DOMAIN prog.src.of[n] |-> text[prog.src.of[n][i]]]
  <2>1. prog.src.of[n] \in Seq(Node) /\ prog.src.bases[n] \subseteq Base
    BY <1>1 DEF Source
  <2>2. text \in [Node -> Name]
    BY DEF Typed, TypeOK
  <2>3. k \in Seq(Name)
    BY <2>1, <2>2
  <2>4. TypesOf(n) = [base : prog.src.bases[n], key : {k}]
    BY <1>3 DEF TypesOf
  <2> QED BY <2>1, <2>3, <2>4 DEF Type
<1> QED BY <1>2, <1>3

(* A DefineSymbol introduces a name.                                        *)
LEMMA DefinedNameType ==
  ASSUME Typed, NEW n \in Node
  PROVE  DefinedName(n) \in Name
<1>1. prog.src.names[n] \subseteq Name /\ text[n] \in Name
  BY ProgramFacts DEF Typed, TypeOK, Program, Source
<1> QED BY <1>1 DEF DefinedName

(* current_scope_ stays a scope or nullptr when scopes are left.            *)
LEMMA ScopeAfterType ==
  ASSUME Typed, NEW n \in Node, NEW inner \in Node \cup {0},
         NEW links \in [Node -> SUBSET Node]
  PROVE  ScopeAfter(n, inner, links) \in Node \cup {0}
<1>1. CASE Exiting(n) = {}
  BY <1>1 DEF ScopeAfter
<1>2. CASE Exiting(n) # {}
  <2> DEFINE sc == CHOOSE sc \in Exiting(n) : \A o \in Exiting(n) : sc <= o
             outer == links[sc] \ {sc}
  <2>1. Exiting(n) \subseteq Nat /\ Exiting(n) \subseteq Node
    BY NAssumption DEF Exiting, Node
  <2>2. sc \in Exiting(n)
    BY <1>2, <2>1, LeastNat
  <2>3. outer \subseteq Node
    BY <2>1, <2>2
  <2> HIDE DEF sc
  <2>4. outer # {} => (CHOOSE o \in outer : \A x \in outer : Rank(x) <= Rank(o)) \in outer
    BY <2>3, ExtremeRanks DEF Typed
  <2>5. ScopeAfter(n, inner, links) = ParentScope(sc, links)
    BY <1>2 DEF ScopeAfter, sc
  <2> QED BY <2>3, <2>4, <2>5 DEF ParentScope
<1> QED BY <1>1, <1>2

(* Advance keeps the types of the variables it writes.                      *)
LEMMA AdvanceType ==
  ASSUME Typed, Walking, NEW n \in Node, NEW inner \in Node \cup {0},
         NEW links \in [Node -> SUBSET Node], Advance(n, inner, links)
  PROVE  /\ pos' \in 0 .. N
         /\ cur' \in Node \cup {0}
         /\ chain' \in [Node -> SUBSET Node]
<1>1. pos' \in 0 .. N
  BY NAssumption DEF Walking, Advance, Typed, TypeOK
<1> QED BY <1>1, ScopeAfterType DEF Advance

(* Recording a marker keeps the types of the lists, also when the symbol it *)
(* belongs to is new.                                                       *)
LEMMA ListedType ==
  ASSUME Typed, NEW s \in tab', NEW n \in Node, NEW B, B \subseteq Node,
         Listed(s, n, B), tab \subseteq tab'
  PROVE  on' \subseteq tab' \X Node /\ before' \subseteq tab' \X Node \X Node
<1>1. On(s) \subseteq Node
  BY DEF On
<1>2. on \subseteq tab' \X Node /\ before \subseteq tab' \X Node \X Node
  BY DEF Typed, TypeOK
<1> QED BY <1>1, <1>2 DEF Listed

(* The initial tables, before a first or a second analysis.                 *)
LEMMA TypedInit == Init => Typed
<1> SUFFICES ASSUME Init PROVE Typed
  OBVIOUS
<1>1. prog.src.text \in [Node -> Name]
  BY ProgramFacts DEF Init, Program, Source
<1> QED BY <1>1, FS_EmptySet, NAssumption DEF Init, Reset, Typed, TypeOK

(* Starting the second analysis keeps the type invariant.                   *)
LEMMA TypedReanalyze == Typed /\ Reanalyze => Typed'
BY FS_EmptySet, NAssumption DEF Reanalyze, Typed, TypeOK, Acting

(* EnterIR, by the action of the node.                                      *)
LEMMA TypedEnter ==
  ASSUME Typed, NEW n \in Node, Enter(n)
  PROVE  Typed'
<1>1. CASE EnterScope(n)
  <2>1. [chain EXCEPT ![n] = {n} \cup Visible] \in [Node -> SUBSET Node]
    BY DEF Typed, TypeOK, Visible
  <2> QED BY <1>1, <2>1, AdvanceType DEF EnterScope, Typed, TypeOK, Acting, tables
<1>2. CASE EnterOther(n)
  <2>1. cur \in Node \cup {0} /\ chain \in [Node -> SUBSET Node]
    BY DEF Typed, TypeOK
  <2> QED BY <1>2, <2>1, AdvanceType DEF EnterOther, Typed, TypeOK, Acting, tables
<1>3. CASE EnterDefine(n)
  <2>1. cur \in Node \cup {0} /\ chain \in [Node -> SUBSET Node]
    BY DEF Typed, TypeOK
  <2>2. pos' \in 0 .. N /\ cur' \in Node \cup {0} /\ chain' \in [Node -> SUBSET Node]
    BY <1>3, <2>1, AdvanceType DEF EnterDefine
  <2>3. n \in Acting /\ Acting' = Acting
    BY <1>3 DEF EnterDefine, Acting, Annotated, OpOf, SymbolOp
  <2>4. CASE EmitError(n)
    BY <1>3, <2>2, <2>3, <2>4 DEF EmitError, EnterDefine, Typed, TypeOK, tables
  <2>5. CASE ~EmitError(n)
    <3> DEFINE sc == DefineScope(n, cur)
    <3>1. PICK t \in TypesOf(n) :
            LET s == [scope |-> sc, name |-> DefinedName(n), type |-> t]
            IN  tab' = tab \cup {s} /\ Listed(s, n, {})
      BY <1>3, <2>5 DEF EnterDefine
    <3> DEFINE s == [scope |-> sc, name |-> DefinedName(n), type |-> t]
    <3>2. sc \in Node
      <4>1. cur # 0
        BY <1>3, <2>5 DEF EnterDefine
      <4>2. prog.src.into[n] \in Node \cup {0}
        BY ProgramFacts DEF Typed, Program, Source
      <4> QED BY <2>1, <4>1, <4>2 DEF DefineScope
    <3>3. s \in Symbol
      BY <3>2, TypesOfType, DefinedNameType DEF Symbol
    <3>4. IsFiniteSet(tab')
      BY <3>1, FS_AddElement DEF Typed
    <3>5. tab' \subseteq Symbol
      BY <3>1, <3>3 DEF Typed, TypeOK
    <3>6. on' \subseteq tab' \X Node /\ before' \subseteq tab' \X Node \X Node
      BY <3>1, ListedType
    <3>7. errors' = errors
      BY <1>3, <2>5 DEF EnterDefine
    <3> QED BY <1>3, <2>2, <2>3, <3>4, <3>5, <3>6, <3>7 DEF EnterDefine, Typed, TypeOK
  <2> QED BY <2>4, <2>5
<1>4. CASE EnterUseOrInvalidate(n)
  <2>1. cur \in Node \cup {0} /\ chain \in [Node -> SUBSET Node]
    BY DEF Typed, TypeOK
  <2>2. pos' \in 0 .. N /\ cur' \in Node \cup {0} /\ chain' \in [Node -> SUBSET Node]
    BY <1>4, <2>1, AdvanceType DEF EnterUseOrInvalidate
  <2>3. n \in Acting /\ Acting' = Acting
    BY <1>4 DEF EnterUseOrInvalidate, Acting, Annotated, OpOf, SymbolOp
  <2>4. CASE EmitError(n)
    BY <1>4, <2>2, <2>3, <2>4 DEF EmitError, EnterUseOrInvalidate, Typed, TypeOK, tables
  <2>5. CASE ~EmitError(n)
    <3>1. tab' = tab /\ errors' = errors
      BY <1>4, <2>5 DEF EnterUseOrInvalidate
    <3>2. on' \subseteq tab' \X Node /\ before' \subseteq tab' \X Node \X Node
      <4>1. PICK s \in Targets(n) :
              \/ \E B \in Splits(s, n, ByOrderID) : Listed(s, n, B)
              \/ Listed(s, n, On(s))
              \/ UNCHANGED <<on, before>>
        BY <1>4, <2>5 DEF EnterUseOrInvalidate
      <4>2. s \in tab'
        BY <3>1 DEF Targets, Hits
      <4>3. On(s) \subseteq Node /\ \A B \in Splits(s, n, ByOrderID) : B \subseteq Node
        BY DEF On, Splits
      <4>4. CASE UNCHANGED <<on, before>>
        BY <3>1, <4>4 DEF Typed, TypeOK
      <4>5. CASE \E B : B \subseteq Node /\ Listed(s, n, B)
        BY <3>1, <4>2, <4>5, ListedType
      <4> QED BY <4>1, <4>3, <4>4, <4>5
    <3> QED BY <1>4, <2>2, <2>3, <3>1, <3>2 DEF EnterUseOrInvalidate, Typed, TypeOK
  <2> QED BY <2>4, <2>5
<1>5. CASE AbortWalk(n)
  BY <1>5 DEF AbortWalk, Typed, TypeOK, Acting, tables
<1> QED BY <1>1, <1>2, <1>3, <1>4, <1>5 DEF Enter

(* What a fix finds: a popped error, an annotated node.                     *)
LEMMA FixingFacts ==
  ASSUME Typed, Fixing
  PROVE  Popped \in errors /\ Popped \in Node /\ Popped \in Acting
         /\ \A m \in errors : Rank(Popped) <= Rank(m)
BY ProgramFacts, PoppedFacts DEF Typed, TypeOK, Fixing

(* Only annotated nodes are revoked.                                        *)
LEMMA RevokedActing ==
  ASSUME NEW S, NEW known, NEW o, NEW b
  PROVE  Revoked(S, known, o, b) \subseteq Acting
BY DEF Revoked

(* Every step of the fixer keeps the type invariant, the cascade of a new   *)
(* invalidate included.                                                     *)
LEMMA TypedFix ==
  ASSUME Typed, Fix
  PROVE  Typed'
<1>1. Fixing
  BY DEF Fix, FixDefine, FixUse, FixInvalidate, GiveUp, AbortFix
<1> DEFINE n == Popped
<1>2. n \in errors /\ n \in Node /\ n \in Acting
  BY <1>1, FixingFacts
<1>3. CASE FixDefine
  <2>0. PICK sc \in HomeScopes(n) : \E i \in FreshNames(sc), t \in TypesOf(n) :
          LET s == [scope |-> sc, name |-> i, type |-> t]
          IN  /\ text' = [text EXCEPT ![n] = i]
              /\ tab' = tab \cup {s}
              /\ Listed(s, n, {})
    BY <1>3 DEF FixDefine
  <2>1. PICK i \in FreshNames(sc), t \in TypesOf(n) :
          LET s == [scope |-> sc, name |-> i, type |-> t]
          IN  /\ text' = [text EXCEPT ![n] = i]
              /\ tab' = tab \cup {s}
              /\ Listed(s, n, {})
    BY <2>0
  <2> DEFINE s == [scope |-> sc, name |-> i, type |-> t]
  <2>2. sc \in Node
    <3>1. prog.src.into[n] \in Node \cup {0}
      BY <1>2, ProgramFacts DEF Typed, Program, Source
    <3> QED BY <2>1, <3>1 DEF HomeScopes, Containers
  <2>3. i \in Name
    <3>1. Cardinality(tab) \in Nat
      BY FS_CardinalityType DEF Typed
    <3> QED BY <2>1, <3>1 DEF FreshNames, Name
  <2>4. s \in Symbol
    BY <1>2, <2>2, <2>3, TypesOfType DEF Symbol
  <2>5. IsFiniteSet(tab') /\ tab' \subseteq Symbol
    BY <2>1, <2>4, FS_AddElement DEF Typed, TypeOK
  <2>6. on' \subseteq tab' \X Node /\ before' \subseteq tab' \X Node \X Node
    BY <1>2, <2>1, ListedType
  <2>7. text' \in [Node -> Name]
    BY <2>1, <2>3 DEF Typed, TypeOK
  <2> QED BY <1>3, <2>5, <2>6, <2>7 DEF FixDefine, Typed, TypeOK, Acting
<1>4. CASE FixUse
  <2>1. PICK s \in Available(n) :
          /\ text' = [text EXCEPT ![n] = s.name]
          /\ \E B \in Splits(s, n, ByID) : Listed(s, n, B)
    BY <1>4 DEF FixUse
  <2>2. s \in tab /\ s.name \in Name
    BY <2>1 DEF Available, Reachable, Typed, TypeOK, Symbol
  <2>3. PICK B \in Splits(s, n, ByID) : Listed(s, n, B)
    BY <2>1
  <2>4. B \subseteq Node
    BY <2>3 DEF Splits, On
  <2>5. on' \subseteq tab' \X Node /\ before' \subseteq tab' \X Node \X Node
    BY <1>2, <1>4, <2>2, <2>3, <2>4, ListedType DEF FixUse
  <2>6. text' \in [Node -> Name]
    BY <2>1, <2>2 DEF Typed, TypeOK
  <2> QED BY <1>4, <2>5, <2>6 DEF FixUse, Typed, TypeOK, Acting
<1>5. CASE FixInvalidate
  <2> DEFINE o(s) == on \cup {<<s, n>>}
             b(s, B) == before \cup {<<s, m, n>> : m \in B} \cup {<<s, n, k>> : k \in On(s) \ B}
             gone(s, B) == Revoked(CutOff(s, B), errors \ {n}, o(s), b(s, B))
  <2>0. PICK s \in Available(n) : \E B \in Splits(s, n, ByID) :
          /\ text' = [text EXCEPT ![n] = s.name]
          /\ on' = {e \in o(s) : e[2] \notin gone(s, B)}
          /\ before' = {e \in b(s, B) : e[2] \notin gone(s, B) /\ e[3] \notin gone(s, B)}
          /\ errors' = (errors \ {n}) \cup gone(s, B)
          /\ phase' = IF Unmarked(gone(s, B), o(s)) THEN "fatal" ELSE phase
    BY <1>5 DEF FixInvalidate
  <2>1. PICK B \in Splits(s, n, ByID) :
          /\ text' = [text EXCEPT ![n] = s.name]
          /\ on' = {e \in o(s) : e[2] \notin gone(s, B)}
          /\ before' = {e \in b(s, B) : e[2] \notin gone(s, B) /\ e[3] \notin gone(s, B)}
          /\ errors' = (errors \ {n}) \cup gone(s, B)
          /\ phase' = IF Unmarked(gone(s, B), o(s)) THEN "fatal" ELSE phase
    BY <2>0
  <2>2. s \in tab /\ s.name \in Name
    BY <2>1 DEF Available, Reachable, Typed, TypeOK, Symbol
  <2>3. B \subseteq Node /\ On(s) \subseteq Node
    BY <2>1 DEF Splits, On
  <2>4. o(s) \subseteq tab \X Node /\ b(s, B) \subseteq tab \X Node \X Node
    BY <1>2, <2>2, <2>3 DEF Typed, TypeOK
  <2>5. on' \subseteq tab \X Node /\ before' \subseteq tab \X Node \X Node
    BY <2>1, <2>4
  <2>6. errors' \subseteq Acting
    BY <2>1, RevokedActing DEF Typed, TypeOK
  <2>7. text' \in [Node -> Name]
    BY <2>1, <2>2 DEF Typed, TypeOK
  <2>8. phase' \in {"analyze", "fatal"}
    BY <1>1, <2>1 DEF Fixing
  <2> QED BY <1>5, <2>5, <2>6, <2>7, <2>8 DEF FixInvalidate, Typed, TypeOK, Acting
<1>6. CASE GiveUp
  BY <1>6 DEF GiveUp, Typed, TypeOK, Acting, tables
<1>7. CASE AbortFix
  BY <1>7 DEF AbortFix, Typed, TypeOK, Acting, tables
<1> QED BY <1>3, <1>4, <1>5, <1>6, <1>7 DEF Fix

(* Every step keeps the type invariant.                                     *)
LEMMA TypedStep ==
  ASSUME Typed, [Next]_vars
  PROVE  Typed'
<1>1. CASE UNCHANGED vars
  BY <1>1 DEF vars, Typed, TypeOK, Acting
<1>2. CASE Finish
  BY <1>2 DEF Finish, Typed, TypeOK, Acting, tables
<1> QED BY <1>1, <1>2, TypedEnter, TypedFix, TypedReanalyze DEF Next

(* Typed, the inductive type invariant the other proofs rest on, always holds. *)
THEOREM TypedAlways == Spec => []Typed
BY TypedInit, TypedStep, PTL DEF Spec

(* The variables of the analyzer always have their types, for every family  *)
(* of well-formed annotated programs.                                       *)
THEOREM TypeCorrect == Spec => []TypeOK
<1>1. Typed => TypeOK
  BY DEF Typed
<1> QED BY <1>1, TypedAlways, PTL

-----------------------------------------------------------------------------
(***************************************************************************)
(* Names in a table are unique.                                             *)
(***************************************************************************)
(* The two places that add a symbol have seen that its name is not taken.   *)
LEMMA UniqueNamesStep ==
  ASSUME Typed, UniqueNames, [Next]_vars
  PROVE  UniqueNames'
<1>1. CASE tab' \subseteq tab
  BY <1>1 DEF UniqueNames
<1>2. ASSUME NEW s, tab' = tab \cup {s}, ~NameTaken(s.scope, s.name)
      PROVE  UniqueNames'
  BY <1>2 DEF UniqueNames, NameTaken
<1>3. ASSUME NEW n \in Node, EnterDefine(n) PROVE UniqueNames'
  <2> DEFINE sc == DefineScope(n, cur)
  <2>1. CASE tab' = tab
    BY <1>1, <2>1
  <2>2. CASE tab' # tab
    <3>1. ~NameTaken(sc, DefinedName(n))
      BY <1>3, <2>2 DEF EnterDefine, EmitError, tables
    <3>2. PICK t \in TypesOf(n) :
            tab' = tab \cup {[scope |-> sc, name |-> DefinedName(n), type |-> t]}
      BY <1>3, <2>2 DEF EnterDefine, EmitError, tables
    <3> QED BY <1>2, <3>1, <3>2
  <2> QED BY <2>1, <2>2
<1>4. CASE FixDefine
  <2>1. PICK sc \in HomeScopes(Popped) : \E i \in FreshNames(sc), t \in TypesOf(Popped) :
          tab' = tab \cup {[scope |-> sc, name |-> i, type |-> t]}
    BY <1>4 DEF FixDefine
  <2>2. PICK i \in FreshNames(sc), t \in TypesOf(Popped) :
          tab' = tab \cup {[scope |-> sc, name |-> i, type |-> t]}
    BY <2>1
  <2>3. ~NameTaken(sc, i)
    BY <2>2 DEF FreshNames
  <2> QED BY <1>2, <2>2, <2>3
<1>5. CASE UNCHANGED vars
  BY <1>1, <1>5 DEF vars
<1>6. ASSUME NEW n \in Node, Enter(n), ~EnterDefine(n) PROVE tab' = tab
  BY <1>6 DEF Enter, EnterScope, EnterOther, EnterUseOrInvalidate, EmitError, AbortWalk, tables
<1>7. ASSUME Fix, ~FixDefine PROVE tab' = tab
  BY <1>7 DEF Fix, FixUse, FixInvalidate, GiveUp, AbortFix, tables
<1>8. CASE Finish
  BY <1>1, <1>8 DEF Finish, tables
<1>9. CASE Reanalyze
  BY <1>1, <1>9 DEF Reanalyze
<1> QED BY <1>1, <1>3, <1>4, <1>5, <1>6, <1>7, <1>8, <1>9 DEF Next

(* No table ever holds two symbols of one name.                             *)
THEOREM NamesAreUnique == Spec => []UniqueNames
<1>1. Init => UniqueNames
  BY DEF Init, Reset, UniqueNames
<1>2. Typed /\ UniqueNames /\ [Next]_vars => UniqueNames'
  BY UniqueNamesStep
<1> QED BY <1>1, <1>2, TypedAlways, PTL DEF Spec

-----------------------------------------------------------------------------
(***************************************************************************)
(* A node waits for what it depends on.                                     *)
(***************************************************************************)
(* Among the nodes that have been entered, those that depend on an error    *)
(* are errors.                                                              *)
Waiting == \A n \in Acting : Rank(n) < pos /\ prog.dep[n] \cap errors # {} => n \in errors

(* Entering n cannot break it for another node, which would come after n;   *)
(* n itself is an error if it depends on one.                               *)
LEMMA WaitingEnter ==
  ASSUME Typed, Waiting, NEW n \in Node, Enter(n)
  PROVE  Waiting'
<1>1. prog' = prog /\ Acting' = Acting
  BY DEF Enter, EnterScope, EnterOther, EnterDefine, EnterUseOrInvalidate, AbortWalk, Acting
<1>2. Rank(n) = pos /\ pos' \in {pos, pos + 1} /\ errors' \in {errors, errors \cup {n}}
  BY DEF Enter, EnterScope, EnterOther, EnterDefine, EnterUseOrInvalidate, AbortWalk,
         EmitError, IsNext, Advance
<1>3. n \in Acting /\ pos' = pos + 1 /\ ~DependencyResolved(n) => n \in errors'
  BY DEF Enter, EnterScope, EnterOther, EnterDefine, EnterUseOrInvalidate, AbortWalk,
         EmitError, Acting, Annotated, OpOf, SymbolOp, Resolvable, WalkAborts
<1>4. SUFFICES ASSUME NEW m \in Acting, Rank(m) < pos', NEW e \in prog.dep[m] \cap errors'
               PROVE  m \in errors'
  BY <1>1 DEF Waiting, Rank
<1>5. m \in Node /\ e \in Node /\ prog.dep[m] \subseteq Node
      /\ Rank(m) \in Int /\ Rank(e) \in Int /\ Rank(n) \in Int
  BY ProgramFacts, NAssumption DEF Typed, Program
<1>6. Rank(e) < Rank(m)
  BY <1>4, <1>5, RankOrder DEF Typed
<1>7. CASE m = n
  <2>1. e # n /\ e \in errors
    BY <1>2, <1>4, <1>5, <1>6, <1>7
  <2>2. ~DependencyResolved(n)
    BY <1>4, <1>7, <2>1 DEF DependencyResolved
  <2>3. pos' = pos + 1
    BY <1>2, <1>4, <1>5, <1>7
  <2> QED BY <1>3, <1>4, <1>7, <2>2, <2>3
<1>8. CASE m # n
  <2>1. Rank(m) # Rank(n)
    BY <1>5, <1>8, RankOrder DEF Typed
  <2>2. Rank(m) < pos /\ e # n
    BY <1>2, <1>4, <1>5, <1>6, <2>1
  <2>3. m \in errors
    BY <1>2, <1>4, <2>2 DEF Waiting
  <2> QED BY <1>2, <2>3
<1> QED BY <1>7, <1>8

(* A fix pops an error that depends on no other error, and what it revokes  *)
(* goes together with all its dependents.                                   *)
LEMMA WaitingFix ==
  ASSUME Typed, Waiting, Fix
  PROVE  Waiting'
<1>1. Fixing /\ pos = N
  BY DEF Fix, FixDefine, FixUse, FixInvalidate, GiveUp, AbortFix, Fixing
<1> DEFINE n == Popped
           rest == errors \ {n}
<1>2. n \in errors /\ n \in Node /\ \A m \in errors : Rank(n) <= Rank(m)
  BY <1>1, FixingFacts
<1>3. prog' = prog /\ pos' = pos /\ Acting' = Acting
  BY DEF Fix, FixDefine, FixUse, FixInvalidate, GiveUp, AbortFix, Acting
<1>4. PICK S, o, b : errors' \in {rest, rest \cup Revoked(S, rest, o, b)}
  <2>1. CASE FixInvalidate
    BY <2>1 DEF FixInvalidate
  <2>2. CASE ~FixInvalidate
    BY <2>2 DEF Fix, FixDefine, FixUse, GiveUp, AbortFix
  <2> QED BY <2>1, <2>2
<1> DEFINE gone == Revoked(S, rest, o, b)
<1>5. SUFFICES ASSUME NEW m \in Acting, NEW e \in prog.dep[m] \cap errors'
               PROVE  m \in errors'
  BY <1>3 DEF Waiting
<1>6. m \in Node /\ e \in Node /\ Rank(m) \in Int /\ Rank(e) \in Int /\ Rank(n) \in Int
      /\ Rank(m) < N
  BY <1>2, ProgramFacts, NAssumption DEF Typed, Program
<1>7. CASE e \in rest
  <2>1. m \in errors
    BY <1>1, <1>6, <1>7 DEF Waiting
  <2>2. m # n
    BY <1>2, <1>5, <1>6, <1>7, RankOrder DEF Typed
  <2> QED BY <1>4, <2>1, <2>2
<1>8. CASE e \in gone /\ errors' = rest \cup gone
  <2>1. m \in prog.desc[e]
    BY <1>5, <1>6, ProgramFacts DEF AreDependents, Typed
  <2>2. m \notin rest => m \in gone
    <3> SUFFICES ASSUME m \notin rest, NEW C \in SUBSET Acting,
                        S \subseteq C, RevokeClosed(C, rest, o, b)
                 PROVE  m \in C
      BY DEF Revoked
    <3>1. e \in C
      BY <1>8 DEF Revoked
    <3> QED BY <2>1, <3>1 DEF RevokeClosed
  <2> QED BY <1>8, <2>2
<1> QED BY <1>4, <1>5, <1>7, <1>8

(* Every step keeps the dependents of an error among the errors.            *)
LEMMA WaitingStep ==
  ASSUME Typed, Waiting, [Next]_vars
  PROVE  Waiting'
<1>1. CASE UNCHANGED vars
  BY <1>1 DEF vars, Waiting, Acting, Rank
<1>2. CASE Finish
  BY <1>2 DEF Finish, Waiting, Acting, Rank
<1>3. CASE Reanalyze
  BY <1>3 DEF Reanalyze, Waiting
<1> QED BY <1>1, <1>2, <1>3, WaitingEnter, WaitingFix DEF Next

(* No fix reads a text or a type that another error is still to change: the *)
(* fixer never takes an error before the errors it depends on.              *)
THEOREM DependentsAlwaysWait == Spec => []DependentsWait
<1>1. Init => Waiting
  BY DEF Init, Reset, Waiting
<1>2. Typed /\ Waiting /\ [Next]_vars => Waiting'
  BY WaitingStep
<1>3. Waiting => DependentsWait
  BY DEF Waiting, DependentsWait
<1> QED BY <1>1, <1>2, <1>3, TypedAlways, PTL DEF Spec

-----------------------------------------------------------------------------
(***************************************************************************)
(* Every entered node is an error or has exactly one marker.                *)
(***************************************************************************)
Unlisted(n)   == \A s \in tab : <<s, n>> \notin on
ListedOnce(n) == \E s \in tab : <<s, n>> \in on /\ \A t \in tab : <<t, n>> \in on => t = s

(* While the tree is walked, markers arrive in the order of their ranks: a  *)
(* list starts with its one define and an invalidate can only end it.       *)
Chronological(s) ==
  /\ \E d \in On(s) : /\ OpOf(d) = "define"
                      /\ \A m \in On(s) : OpOf(m) = "define" => m = d
                      /\ \A m \in On(s) : Rank(d) <= Rank(m)
  /\ \A m, k \in Node : <<s, m, k>> \in before <=>
                           m \in On(s) /\ k \in On(s) /\ Rank(m) < Rank(k)
  /\ \A m \in On(s) : Rank(m) < pos
  /\ \A i \in On(s) : OpOf(i) = "invalidate" => \A m \in On(s) : Rank(m) <= Rank(i)

(* While the tree is walked, every list is in the order of the OrderIDs.    *)
Walked == phase = "analyze" /\ pos < N => \A s \in tab : Chronological(s)

(* In such a list, the symbol is live exactly if it has no invalidate.      *)
LEMMA LiveInWalk ==
  ASSUME Typed, Walking, Walked, NEW s \in tab
  PROVE  /\ Live(s) => \A i \in On(s) : OpOf(i) # "invalidate"
         /\ ~EndsWithInvalidate(s) => Live(s)
<1>1. Chronological(s)
  BY DEF Walked, Walking
<1>2. On(s) \subseteq Node /\ \A m \in On(s) : Rank(m) \in Int
  BY ProgramFacts, NAssumption DEF On, Typed
<1>3. ASSUME Live(s), NEW i \in On(s), OpOf(i) = "invalidate" PROVE FALSE
  <2>1. PICK d \in On(s) : OpOf(d) = "define" /\ <<s, i, d>> \in before
    BY <1>3 DEF Live
  <2>2. Rank(d) <= Rank(i) /\ Rank(i) < Rank(d)
    BY <1>1, <1>2, <1>3, <2>1 DEF Chronological
  <2> QED BY <1>2, <2>2
<1>4. ASSUME ~EndsWithInvalidate(s) PROVE Live(s)
  <2>1. ASSUME NEW i \in On(s), OpOf(i) = "invalidate" PROVE FALSE
    <3>1. \A m \in On(s) : <<s, i, m>> \notin before
      BY <1>1, <1>2, <2>1 DEF Chronological
    <3> QED BY <1>4, <2>1, <3>1 DEF EndsWithInvalidate
  <2> QED BY <1>1, <2>1 DEF Chronological, Live
<1> QED BY <1>3, <1>4

(* In such a list, upper_bound by OrderID finds the end for the node that   *)
(* is being entered.                                                        *)
LEMMA SplitInWalk ==
  ASSUME Typed, Walking, Walked, NEW s \in tab, NEW n \in Node, IsNext(n),
         NEW B \in Splits(s, n, ByOrderID)
  PROVE  B = On(s)
<1>1. Chronological(s)
  BY DEF Walked, Walking
<1> DEFINE A == On(s) \ B
<1>2. A \subseteq Node /\ B \subseteq On(s)
  BY DEF On, Splits
<1>3. \A k \in A : (\A m \in A : <<s, m, k>> \notin before) => Rank(k) > Rank(n)
  BY DEF Splits, ByOrderID, Rank
<1>4. ASSUME A # {} PROVE FALSE
  <2>1. PICK k \in A : \A m \in A : Rank(k) <= Rank(m)
    BY <1>2, <1>4, ExtremeRanks DEF Typed
  <2>2. \A m \in A : Rank(m) \in Int
    BY <1>2, ProgramFacts, NAssumption DEF Typed
  <2>3. \A m \in A : <<s, m, k>> \notin before
    BY <1>1, <1>2, <2>1, <2>2 DEF Chronological
  <2>4. Rank(k) > Rank(n)
    BY <1>3, <2>3
  <2>5. Rank(k) < Rank(n)
    BY <1>1 DEF Chronological, IsNext
  <2>6. Rank(n) \in Int
    BY ProgramFacts, NAssumption DEF Typed
  <2> QED BY <2>2, <2>4, <2>5, <2>6
<1> QED BY <1>2, <1>4

(* A marker added at the end of a list keeps it chronological.              *)
LEMMA AppendInWalk ==
  ASSUME Typed, Walking, Walked, NEW n \in Node, IsNext(n), prog' = prog, pos' = pos + 1,
         NEW s \in tab', Listed(s, n, On(s)),
         tab' = tab \cup {s},
         s \in tab => OpOf(n) # "define" /\ \A i \in On(s) : OpOf(i) # "invalidate",
         s \notin tab => OpOf(n) = "define"
  PROVE  \A t \in tab' : Chronological(t)'
<1>1. \A m \in Node : Rank(m)' = Rank(m) /\ OpOf(m)' = OpOf(m) /\ Rank(m) \in Int
  BY ProgramFacts, NAssumption DEF Rank, OpOf, Typed
<1>2. pos \in Int /\ Rank(n) = pos
  BY NAssumption DEF Walking, IsNext, Typed, TypeOK
<1>3. ASSUME NEW t \in tab', t # s PROVE Chronological(t)'
  <2>1. On(t)' = On(t) /\ On(t) \subseteq Node
    BY <1>3 DEF On, Listed
  <2>2. \A m, k \in Node : <<t, m, k>> \in before' <=> <<t, m, k>> \in before
    BY <1>3 DEF Listed
  <2>3. Chronological(t)
    BY <1>3 DEF Walked, Walking
  <2> QED BY <1>1, <1>2, <2>1, <2>2, <2>3 DEF Chronological
<1>4. On(s)' = On(s) \cup {n} /\ On(s) \subseteq Node
  BY DEF On, Listed
<1>5. \A m, k \in Node : <<s, m, k>> \in before' <=>
          <<s, m, k>> \in before \/ (m \in On(s) /\ k = n)
  BY DEF Listed
<1>6. ASSUME s \in tab PROVE Chronological(s)'
  <2>1. Chronological(s)
    BY <1>6 DEF Walked, Walking
  <2>2. n \notin On(s) /\ \A m \in On(s) : Rank(m) < Rank(n)
    BY <1>2, <2>1 DEF Chronological
  <2>3. \A m, k \in Node : <<s, m, k>> \in before' <=>
          m \in On(s)' /\ k \in On(s)' /\ Rank(m) < Rank(k)
    BY <1>1, <1>4, <1>5, <2>1, <2>2 DEF Chronological
  <2>4. \E d \in On(s)' : /\ OpOf(d) = "define"
                          /\ \A m \in On(s)' : OpOf(m) = "define" => m = d
                          /\ \A m \in On(s)' : Rank(d) <= Rank(m)
    <3>1. PICK d \in On(s) : /\ OpOf(d) = "define"
                             /\ \A m \in On(s) : OpOf(m) = "define" => m = d
                             /\ \A m \in On(s) : Rank(d) <= Rank(m)
      BY <2>1 DEF Chronological
    <3> QED BY <1>1, <1>4, <1>6, <2>2, <3>1
  <2>5. \A m \in On(s)' : Rank(m) < pos'
    BY <1>1, <1>2, <1>4, <2>2
  <2>6. \A i \in On(s)' : OpOf(i) = "invalidate" => \A m \in On(s)' : Rank(m) <= Rank(i)
    BY <1>1, <1>4, <1>6, <2>2
  <2> QED BY <1>1, <1>4, <2>3, <2>4, <2>5, <2>6 DEF Chronological
<1>7. ASSUME s \notin tab PROVE Chronological(s)'
  <2>1. On(s) = {} /\ \A m, k \in Node : <<s, m, k>> \notin before
    BY <1>7 DEF On, Typed, TypeOK
  <2>2. On(s)' = {n} /\ \A m, k \in Node : <<s, m, k>> \notin before'
    BY <1>4, <1>5, <2>1
  <2> QED BY <1>1, <1>2, <1>7, <2>2 DEF Chronological
<1> QED BY <1>3, <1>6, <1>7

(* EnterDefine adds a new symbol, or none.                                  *)
LEMMA DefineAddsSymbol ==
  ASSUME Typed, NEW n \in Node, EnterDefine(n)
  PROVE  \/ EmitError(n)
         \/ \E s : /\ s \notin tab /\ tab' = tab \cup {s}
                   /\ Listed(s, n, {}) /\ errors' = errors
<1> DEFINE sc == DefineScope(n, cur)
<1>1. SUFFICES ASSUME ~EmitError(n)
               PROVE  \E s : /\ s \notin tab /\ tab' = tab \cup {s}
                             /\ Listed(s, n, {}) /\ errors' = errors
  OBVIOUS
<1>2. ~NameTaken(sc, DefinedName(n)) /\ errors' = errors
  BY <1>1 DEF EnterDefine
<1>3. PICK t \in TypesOf(n) :
        LET s == [scope |-> sc, name |-> DefinedName(n), type |-> t]
        IN  tab' = tab \cup {s} /\ Listed(s, n, {})
  BY <1>1 DEF EnterDefine
<1> DEFINE s == [scope |-> sc, name |-> DefinedName(n), type |-> t]
<1>4. s \notin tab
  BY <1>2 DEF NameTaken
<1> QED BY <1>2, <1>3, <1>4

(* In a walk, a use or an invalidate that is resolved appends a marker to   *)
(* the list of a live symbol, one of its targets.                           *)
LEMMA UseAppends ==
  ASSUME Typed, Walked, NEW n \in Node, EnterUseOrInvalidate(n)
  PROVE  \/ EmitError(n)
         \/ \E s \in tab : /\ \A i \in On(s) : OpOf(i) # "invalidate"
                           /\ Listed(s, n, On(s)) /\ UNCHANGED <<tab, errors>>
                           /\ s \in Targets(n)
<1>1. SUFFICES ASSUME ~EmitError(n)
               PROVE  \E s \in tab : /\ \A i \in On(s) : OpOf(i) # "invalidate"
                                     /\ Listed(s, n, On(s)) /\ UNCHANGED <<tab, errors>>
                                     /\ s \in Targets(n)
  OBVIOUS
<1>2. Walking /\ IsNext(n)
  BY DEF EnterUseOrInvalidate
<1>3. PICK s \in Targets(n) :
        /\ IF OpOf(n) = "use"
           THEN \E B \in Splits(s, n, ByOrderID) : Listed(s, n, B)
           ELSE IF Live(s) THEN Listed(s, n, On(s)) ELSE UNCHANGED <<on, before>>
        /\ UNCHANGED <<tab, errors>>
  BY <1>1 DEF EnterUseOrInvalidate
<1>4. s \in tab /\ Usable(n, s)
  BY DEF Targets, Hits
<1>5. Live(s)
  BY <1>2, <1>4, LiveInWalk DEF Usable
<1>6. Listed(s, n, On(s))
  BY <1>2, <1>3, <1>4, <1>5, SplitInWalk
<1> QED BY <1>2, <1>3, <1>4, <1>5, <1>6, LiveInWalk

(* Entering a node keeps the lists in that order, also the last one.        *)
LEMMA ChronologicalEnter ==
  ASSUME Typed, Walked, NEW n \in Node, Enter(n), phase' = "analyze", NEW t \in tab'
  PROVE  Chronological(t)'
<1>2. ~AbortWalk(n)
  BY DEF AbortWalk
<1>3. Walking /\ IsNext(n) /\ prog' = prog /\ pos' = pos + 1
  BY <1>2 DEF Enter, EnterScope, EnterOther, EnterDefine, EnterUseOrInvalidate, Advance
<1>4. ASSUME UNCHANGED tables PROVE Chronological(t)'
  <2>1. Chronological(t) /\ On(t)' = On(t) /\ On(t) \subseteq Node
    BY <1>3, <1>4 DEF Walked, Walking, On, tables
  <2>2. \A m \in Node : Rank(m)' = Rank(m) /\ OpOf(m)' = OpOf(m) /\ Rank(m) \in Int
    BY <1>3, ProgramFacts, NAssumption DEF Rank, OpOf, Typed
  <2>3. pos \in Int
    BY DEF Typed, TypeOK
  <2> QED BY <1>3, <1>4, <2>1, <2>2, <2>3 DEF Chronological, tables
<1>5. CASE EnterDefine(n)
  <2>1. CASE EmitError(n)
    BY <1>4, <2>1 DEF EmitError
  <2>2. CASE ~EmitError(n)
    <3>1. PICK s : s \notin tab /\ tab' = tab \cup {s} /\ Listed(s, n, {})
      BY <1>5, <2>2, DefineAddsSymbol
    <3>2. On(s) = {} /\ OpOf(n) = "define"
      BY <1>5, <3>1 DEF On, Typed, TypeOK, EnterDefine
    <3> QED BY <1>3, <3>1, <3>2, AppendInWalk
  <2> QED BY <2>1, <2>2
<1>6. CASE EnterUseOrInvalidate(n)
  <2>1. CASE EmitError(n)
    BY <1>4, <2>1 DEF EmitError
  <2>2. CASE ~EmitError(n)
    <3>1. PICK s \in tab : /\ \A i \in On(s) : OpOf(i) # "invalidate"
                           /\ Listed(s, n, On(s)) /\ tab' = tab
      BY <1>6, <2>2, UseAppends
    <3>2. OpOf(n) # "define" /\ tab' = tab \cup {s}
      BY <1>6, <3>1 DEF EnterUseOrInvalidate
    <3> QED BY <1>3, <3>1, <3>2, AppendInWalk
  <2> QED BY <2>1, <2>2
<1>7. CASE EnterScope(n) \/ EnterOther(n)
  BY <1>4, <1>7 DEF EnterScope, EnterOther
<1> QED BY <1>2, <1>5, <1>6, <1>7 DEF Enter

LEMMA WalkedEnter ==
  ASSUME Typed, Walked, NEW n \in Node, Enter(n)
  PROVE  Walked'
BY ChronologicalEnter DEF Walked

(* Every step does: once the walk is over, Walked says nothing.             *)
LEMMA WalkedStep ==
  ASSUME Typed, Walked, [Next]_vars
  PROVE  Walked'
<1>1. CASE UNCHANGED vars
  BY <1>1 DEF vars, Walked, Chronological, On, OpOf, Rank
<1>2. CASE Fix
  <2>1. pos' = N
    BY <1>2 DEF Fix, FixDefine, FixUse, FixInvalidate, GiveUp, AbortFix, Fixing
  <2> QED BY <2>1, NAssumption DEF Walked
<1>3. CASE Finish
  BY <1>3 DEF Finish, Walked
<1>4. CASE Reanalyze
  BY <1>4 DEF Reanalyze, Walked
<1> QED BY <1>1, <1>2, <1>3, <1>4, WalkedEnter DEF Next

(* The invariant of MarkerOrError: also, what has not been entered has      *)
(* neither a marker nor an error.                                           *)
Accounted ==
  phase \in {"analyze", "fixed"} =>
    /\ \A n \in errors : Rank(n) < pos
    /\ \A n \in Acting : IF Rank(n) < pos /\ n \notin errors THEN ListedOnce(n) ELSE Unlisted(n)

(* Listing a node that has no marker yet.                                   *)
LEMMA AccountedListing ==
  ASSUME Typed, Accounted, phase \in {"analyze", "fixed"}, NEW n \in Acting, Unlisted(n),
         NEW s \in tab', tab \subseteq tab', on' = on \cup {<<s, n>>}
  PROVE  /\ ListedOnce(n)'
         /\ \A m \in Acting : m # n /\ ListedOnce(m) => ListedOnce(m)'
         /\ \A m \in Acting : m # n /\ Unlisted(m) => Unlisted(m)'
<1>1. \A t, m : <<t, m>> \in on => t \in tab
  BY DEF Typed, TypeOK
<1> QED BY <1>1 DEF ListedOnce, Unlisted

(* A node that is entered gets one marker or becomes an error.              *)
LEMMA AccountedEnter ==
  ASSUME Typed, Walked, Accounted, NEW n \in Node, Enter(n)
  PROVE  Accounted'
<1>1. CASE AbortWalk(n)
  BY <1>1 DEF AbortWalk, Accounted
<1>2. ASSUME ~AbortWalk(n) PROVE Accounted'
  <2>1. Walking /\ IsNext(n) /\ prog' = prog /\ pos' = pos + 1 /\ phase' = phase
    BY <1>2 DEF Enter, EnterScope, EnterOther, EnterDefine, EnterUseOrInvalidate, Advance
  <2>2. Acting' = Acting /\ Acting \subseteq Node
        /\ \A m \in Node : Rank(m)' = Rank(m) /\ Rank(m) \in Int
    BY <2>1, ProgramFacts, NAssumption DEF Rank, Acting, Typed
  <2>3. pos \in Int /\ Rank(n) = pos /\ phase = "analyze" /\ errors \subseteq Acting
    BY <2>1 DEF Typed, TypeOK, IsNext, Walking
  <2>4. \A m \in Node : m # n => (Rank(m) < pos' <=> Rank(m) < pos)
    <3>1. \A m \in Node : m # n => Rank(m) # Rank(n)
      BY RankOrder DEF Typed
    <3> QED BY <2>1, <2>2, <2>3, <3>1
  <2>5. n \in Acting => Unlisted(n) /\ n \notin errors
    BY <2>2, <2>3 DEF Accounted
  <2>6. CASE n \notin Acting
    <3>1. UNCHANGED <<tables, errors>>
      BY <1>2, <2>6 DEF Enter, EnterScope, EnterOther, EnterDefine, EnterUseOrInvalidate,
                        Acting, Annotated, OpOf, SymbolOp
    <3> QED BY <2>1, <2>2, <2>3, <2>4, <2>6, <3>1
            DEF Accounted, ListedOnce, Unlisted, tables
  <2>7. CASE n \in Acting /\ EmitError(n)
    <3>1. errors' = errors \cup {n} /\ UNCHANGED <<tab, on>>
      BY <2>7 DEF EmitError, tables
    <3>2. \A m : (ListedOnce(m)' <=> ListedOnce(m)) /\ (Unlisted(m)' <=> Unlisted(m))
      BY <3>1 DEF ListedOnce, Unlisted
    <3>3. Rank(n) < pos'
      BY <2>1, <2>3
    <3>4. \A m \in errors' : Rank(m)' < pos'
      BY <2>1, <2>2, <2>3, <3>1, <3>3 DEF Accounted
    <3>5. ASSUME NEW m \in Acting
          PROVE  IF Rank(m) < pos' /\ m \notin errors' THEN ListedOnce(m)' ELSE Unlisted(m)'
      BY <2>2, <2>3, <2>4, <2>5, <2>7, <3>1, <3>2 DEF Accounted
    <3> QED BY <2>2, <3>4, <3>5 DEF Accounted
  <2>8. CASE n \in Acting /\ ~EmitError(n)
    <3>1. EnterDefine(n) \/ EnterUseOrInvalidate(n)
      BY <1>2, <2>8 DEF Enter, EnterScope, EnterOther, Acting, Annotated, OpOf, SymbolOp
    <3>2. \E s \in tab' : tab \subseteq tab' /\ on' = on \cup {<<s, n>>} /\ errors' = errors
      BY <2>8, <3>1, DefineAddsSymbol, UseAppends DEF Listed
    <3>3. /\ ListedOnce(n)'
          /\ \A m \in Acting : m # n /\ ListedOnce(m) => ListedOnce(m)'
          /\ \A m \in Acting : m # n /\ Unlisted(m) => Unlisted(m)'
      BY <2>3, <2>5, <2>8, <3>2, AccountedListing
    <3>4. Rank(n) < pos'
      BY <2>1, <2>3
    <3>5. \A m \in errors' : Rank(m)' < pos'
      BY <2>1, <2>2, <2>3, <3>2 DEF Accounted
    <3>6. ASSUME NEW m \in Acting
          PROVE  IF Rank(m) < pos' /\ m \notin errors' THEN ListedOnce(m)' ELSE Unlisted(m)'
      <4>1. CASE m = n
        BY <2>5, <2>8, <3>2, <3>3, <3>4, <4>1
      <4>2. CASE m # n
        BY <2>2, <2>3, <2>4, <3>2, <3>3, <4>2 DEF Accounted
      <4> QED BY <4>1, <4>2
    <3> QED BY <2>2, <3>5, <3>6 DEF Accounted
  <2> QED BY <2>6, <2>7, <2>8
<1> QED BY <1>1, <1>2

(* A fix gives the popped node its marker; an invalidate takes the markers  *)
(* of what it revokes, its own included when it revokes itself.             *)
LEMMA AccountedFix ==
  ASSUME Typed, Accounted, Fix
  PROVE  Accounted'
<1>1. Fixing /\ pos = N /\ phase = "analyze"
  BY DEF Fix, FixDefine, FixUse, FixInvalidate, GiveUp, AbortFix, Fixing
<1>a. PICK n \in Acting : n = Popped /\ n \in errors
  BY <1>1, FixingFacts
<1>2. n \in errors /\ n \in Acting /\ Acting \subseteq Node /\ errors \subseteq Acting
  BY <1>a, ProgramFacts DEF Typed, TypeOK
<1>3. prog' = prog /\ pos' = pos /\ Acting' = Acting
  BY DEF Fix, FixDefine, FixUse, FixInvalidate, GiveUp, AbortFix, Acting
<1>4. \A m \in Node : Rank(m)' = Rank(m) /\ Rank(m) < pos /\ Rank(m) < pos'
  BY <1>1, <1>3, ProgramFacts, NAssumption DEF Rank, Typed
<1>5. Unlisted(n) /\ \A m \in Acting : IF m \in errors THEN Unlisted(m) ELSE ListedOnce(m)
  BY <1>1, <1>2, <1>4 DEF Accounted
<1>6. CASE FixDefine \/ FixUse
  <2>1. \E s \in tab' : tab \subseteq tab' /\ on' = on \cup {<<s, n>>}
    <3>1. CASE FixDefine
      BY <1>a, <3>1 DEF FixDefine, Listed
    <3>2. CASE FixUse
      BY <1>a, <3>2 DEF FixUse, Listed, Available, Reachable
    <3> QED BY <1>6, <3>1, <3>2
  <2>2. errors' = errors \ {n}
    BY <1>a, <1>6 DEF FixDefine, FixUse
  <2>3. /\ ListedOnce(n)'
        /\ \A m \in Acting : m # n /\ ListedOnce(m) => ListedOnce(m)'
        /\ \A m \in Acting : m # n /\ Unlisted(m) => Unlisted(m)'
    <3>1. PICK s \in tab' : tab \subseteq tab' /\ on' = on \cup {<<s, n>>}
      BY <2>1
    <3>2. phase \in {"analyze", "fixed"} /\ n \in Acting /\ Unlisted(n)
      BY <1>1, <1>2, <1>5
    <3> QED BY <3>1, <3>2, AccountedListing
  <2>4. ASSUME NEW m \in Acting
        PROVE  IF m \in errors' THEN Unlisted(m)' ELSE ListedOnce(m)'
    <3>1. CASE m = n
      BY <2>2, <2>3, <3>1
    <3>2. CASE m # n
      BY <1>5, <2>2, <2>3, <3>2
    <3> QED BY <3>1, <3>2
  <2> QED BY <1>2, <1>3, <1>4, <2>2, <2>4 DEF Accounted
<1>7. CASE FixInvalidate
  <2>1. PICK s \in tab, gone \in SUBSET Acting :
          /\ on' = {e \in on \cup {<<s, n>>} : e[2] \notin gone}
          /\ errors' = (errors \ {n}) \cup gone
    BY <1>a, <1>7, RevokedActing DEF FixInvalidate, Available, Reachable
  <2>2. tab' = tab
    BY <1>7 DEF FixInvalidate
  <2>3. \A t, m : <<t, m>> \in on' <=> <<t, m>> \in on \cup {<<s, n>>} /\ m \notin gone
    BY <2>1
  <2>4. ASSUME NEW m \in Acting
        PROVE  IF m \in errors' THEN Unlisted(m)' ELSE ListedOnce(m)'
    <3>1. CASE m \in gone
      BY <2>1, <2>2, <2>3, <3>1 DEF Unlisted
    <3>2. CASE m \notin gone /\ m = n
      BY <1>5, <2>1, <2>2, <2>3, <3>2 DEF Unlisted, ListedOnce
    <3>3. CASE m \notin gone /\ m # n
      BY <1>5, <2>1, <2>2, <2>3, <3>3 DEF Unlisted, ListedOnce
    <3> QED BY <3>1, <3>2, <3>3
  <2> QED BY <1>2, <1>3, <1>4, <2>1, <2>4 DEF Accounted
<1>8. CASE GiveUp \/ AbortFix
  BY <1>8 DEF GiveUp, AbortFix, Accounted
<1> QED BY <1>6, <1>7, <1>8 DEF Fix

(* Every step keeps the account of markers and errors.                      *)
LEMMA AccountedStep ==
  ASSUME Typed, Walked, Accounted, [Next]_vars
  PROVE  Accounted'
<1>1. CASE UNCHANGED vars
  BY <1>1 DEF vars, Accounted, Acting, Rank, ListedOnce, Unlisted
<1>2. CASE Finish
  BY <1>2 DEF Finish, Accounted, Acting, Rank, ListedOnce, Unlisted, tables
<1>3. CASE Reanalyze
  <2>1. Acting' = Acting /\ Acting \subseteq Node /\ \A m \in Acting : ~(Rank(m)' < 0)
    BY <1>3, ProgramFacts, NAssumption DEF Reanalyze, Acting, Rank, Typed
  <2> QED BY <1>3, <2>1 DEF Reanalyze, Accounted, Unlisted
<1> QED BY <1>1, <1>2, <1>3, AccountedEnter, AccountedFix DEF Next

(* Whatever the cascade of fixes and revocations does, no entered node is   *)
(* lost: it waits in the error queue, or exactly one marker stands for it.  *)
THEOREM MarkersAndErrors == Spec => []MarkerOrError
<1>1. Init => Walked /\ Accounted
  <2> SUFFICES ASSUME Init PROVE Walked /\ Accounted
    OBVIOUS
  <2>1. \A m \in Acting : ~(Rank(m) < 0)
    BY TypedInit, ProgramFacts, NAssumption DEF Typed
  <2> QED BY <2>1 DEF Init, Reset, Walked, Accounted, Unlisted
<1>2. Typed /\ Walked /\ Accounted /\ [Next]_vars => Walked' /\ Accounted'
  BY WalkedStep, AccountedStep
<1>3. Typed /\ Accounted => MarkerOrError
  BY DEF Accounted, MarkerOrError, ListedOnce, Unlisted
<1> QED BY <1>1, <1>2, <1>3, TypedAlways, PTL DEF Spec

-----------------------------------------------------------------------------
(***************************************************************************)
(* SymbolAnalysis implements Repair, for all programs, sizes and names: the *)
(* status of a node, from the inductive invariant.                          *)
(***************************************************************************)
(* Only nodes with a symbol action have markers.                            *)
MarkersOfActing == \A e \in on : e[2] \in Acting

Facts == Typed /\ Waiting /\ Walked /\ Accounted /\ MarkersOfActing

LEMMA MarkersOfActingStep ==
  ASSUME Typed, MarkersOfActing, [Next]_vars
  PROVE  MarkersOfActing'
<1>1. Acting' = Acting
  BY DEF Next, Enter, EnterScope, EnterOther, EnterDefine, EnterUseOrInvalidate, AbortWalk,
         Fix, FixDefine, FixUse, FixInvalidate, GiveUp, AbortFix, Finish, Reanalyze, Acting, vars
<1>2. CASE on' = on \/ on' = {}
  BY <1>1, <1>2 DEF MarkersOfActing
<1>3. ASSUME NEW n \in Node, EnterDefine(n) \/ EnterUseOrInvalidate(n)
      PROVE  MarkersOfActing'
  <2>1. n \in Acting
    BY <1>3 DEF EnterDefine, EnterUseOrInvalidate, Acting, Annotated, OpOf, SymbolOp
  <2>2. on' = on \/ \E s : on' = on \cup {<<s, n>>}
    <3>1. CASE EnterDefine(n)
      BY <3>1, DefineAddsSymbol DEF EmitError, Listed, tables
    <3>2. CASE EnterUseOrInvalidate(n)
      BY <3>2 DEF EnterUseOrInvalidate, EmitError, Listed, tables
    <3> QED BY <1>3, <3>1, <3>2
  <2> QED BY <1>1, <2>1, <2>2 DEF MarkersOfActing
<1>4. ASSUME Fixing, \E s : on' \subseteq on \cup {<<s, Popped>>}
      PROVE  MarkersOfActing'
  BY <1>1, <1>4, FixingFacts DEF MarkersOfActing
<1>5. ASSUME FixDefine \/ FixUse \/ FixInvalidate
      PROVE  MarkersOfActing'
  <2>1. CASE FixDefine
    BY <1>4, <2>1 DEF FixDefine, Listed
  <2>2. CASE FixUse
    BY <1>4, <2>2 DEF FixUse, Listed
  <2>3. CASE FixInvalidate
    <3>1. \E s \in tab : on' \subseteq on \cup {<<s, Popped>>}
      BY <2>3 DEF FixInvalidate, Available, Reachable
    <3> QED BY <1>4, <2>3, <3>1 DEF FixInvalidate
  <2> QED BY <1>5, <2>1, <2>2, <2>3
<1>6. ASSUME Next PROVE \/ on' = on \/ on' = {}
                        \/ \E n \in Node : EnterDefine(n) \/ EnterUseOrInvalidate(n)
                        \/ FixDefine \/ FixUse \/ FixInvalidate
  BY <1>6 DEF Next, Enter, EnterScope, EnterOther, AbortWalk, Fix, GiveUp, AbortFix,
              Finish, Reanalyze, tables
<1> QED BY <1>2, <1>3, <1>5, <1>6 DEF vars

(* The invariant of all the proofs of SymbolAnalysis.                       *)
THEOREM FactsAlways == Spec => []Facts
<1>1. Init => Facts
  <2> SUFFICES ASSUME Init PROVE Facts
    OBVIOUS
  <2>1. \A m \in Acting : ~(Rank(m) < 0)
    BY TypedInit, ProgramFacts, NAssumption DEF Typed
  <2> QED BY <2>1, TypedInit
          DEF Init, Reset, Facts, Waiting, Walked, Accounted, Unlisted, MarkersOfActing
<1>2. Facts /\ [Next]_vars => Facts'
  BY TypedStep, WaitingStep, WalkedStep, AccountedStep, MarkersOfActingStep DEF Facts
<1> QED BY <1>1, <1>2, PTL DEF Spec

(* A marker makes a node settled, unless it is an error.                    *)
LEMMA ClassifiedValue ==
  ASSUME NEW n \in Node
  PROVE  Classified[n] = IF n \in errors THEN "error"
                         ELSE IF Unlisted(n) THEN "open" ELSE "settled"
BY DEF Classified, Unlisted

(* While the analysis runs, the status of a node follows from its rank and  *)
(* from the error queue.                                                    *)
LEMMA StatusIs ==
  ASSUME Facts, phase \in {"analyze", "fixed"}, NEW n \in Node
  PROVE  Classified[n] = IF n \in errors THEN "error"
                         ELSE IF n \in Acting /\ Rank(n) < pos THEN "settled" ELSE "open"
<1>1. CASE n \in Acting
  BY <1>1, ClassifiedValue DEF Facts, Accounted, ListedOnce, Unlisted
<1>2. CASE n \notin Acting
  <2>1. Unlisted(n) /\ n \notin errors
    BY <1>2 DEF Facts, MarkersOfActing, Unlisted, Typed, TypeOK
  <2> QED BY <1>2, <2>1, ClassifiedValue
<1> QED BY <1>1, <1>2

(* The same after a step.                                                   *)
LEMMA StatusIsNext ==
  ASSUME Facts', phase' \in {"analyze", "fixed"}, NEW n \in Node
  PROVE  Classified'[n] = IF n \in errors' THEN "error"
                          ELSE IF n \in Acting' /\ Rank(n)' < pos' THEN "settled" ELSE "open"
<1>1. Classified'[n] = IF n \in errors' THEN "error"
                       ELSE IF Unlisted(n)' THEN "open" ELSE "settled"
  BY DEF Classified, Unlisted
<1>2. CASE n \in Acting'
  BY <1>1, <1>2 DEF Facts, Accounted, ListedOnce, Unlisted
<1>3. CASE n \notin Acting'
  <2>1. Unlisted(n)' /\ n \notin errors'
    BY <1>3 DEF Facts, MarkersOfActing, Unlisted, Typed, TypeOK
  <2> QED BY <1>1, <1>3, <2>1
<1> QED BY <1>2, <1>3

-----------------------------------------------------------------------------
(***************************************************************************)
(* Steps map to steps.                                                      *)
(***************************************************************************)
(* The initial states are initial states of Repair.                         *)
LEMMA InitMaps == Init => Abstract!Init
<1> SUFFICES ASSUME Init PROVE Abstract!Init
  OBVIOUS
<1>1. /\ Acting \subseteq Node
      /\ prog.dep \in [Node -> SUBSET Node]
      /\ text \in [Node -> Name]
  BY TypedInit, ProgramFacts DEF Typed, TypeOK, Program
<1>2. Classified = [n \in Node |-> "open"]
  BY DEF Init, Reset, Classified
<1> QED BY <1>1, <1>2 DEF Init, Reset, Abstract!Init, Abstract!AllOpen

(* Two classifications are equal if they agree on every node.               *)
LEMMA SameStatus ==
  ASSUME NEW f, NEW n \in Node,
         \A m \in Node : Classified'[m] = IF m = n THEN f ELSE Classified[m]
  PROVE  Classified' = [Classified EXCEPT ![n] = f]
BY DEF Classified

LEMMA Unchanged ==
  ASSUME UNCHANGED <<prog, text, phase, tab, on, errors>>
  PROVE  UNCHANGED Abstract!vars
BY DEF Classified, Acting, Abstract!vars

(* EnterIR classifies a node with a symbol action and is silent on others.  *)
LEMMA EnterMaps ==
  ASSUME Facts, Facts', NEW n \in Node, Enter(n)
  PROVE  Abstract!Next \/ UNCHANGED Abstract!vars
<1>1. CASE AbortWalk(n)
  <2>1. UNCHANGED <<Acting, prog, text, Classified>> /\ phase' = "fatal" /\ phase = "analyze"
    BY <1>1 DEF AbortWalk, Acting, Classified, tables, Walking
  <2>2. Abstract!Abort(n)
    BY <2>1 DEF Abstract!Abort
  <2> QED BY <2>2 DEF Abstract!Next
<1>2. CASE ~AbortWalk(n)
  <2>1. /\ Walking /\ Rank(n) = pos /\ pos' = pos + 1
        /\ UNCHANGED <<prog, text, phase>>
        /\ errors' \in {errors, errors \cup {n}}
    BY <1>2 DEF Enter, EnterScope, EnterOther, EnterDefine, EnterUseOrInvalidate,
                EmitError, IsNext, Advance
  <2>2. /\ Acting' = Acting /\ Acting \subseteq Node /\ pos \in Int
        /\ \A m \in Node : Rank(m)' = Rank(m) /\ Rank(m) \in Int
        /\ \A m \in Node : Rank(m) = Rank(n) => m = n
        /\ phase = "analyze" /\ phase' = "analyze"
    BY <2>1, ProgramFacts, RankOrder, NAssumption DEF Facts, Typed, TypeOK, Rank, Acting, Walking
  <2>3. \A m \in Node : m # n => Classified'[m] = Classified[m]
    BY <2>1, <2>2, StatusIs, StatusIsNext
  <2>4. CASE n \notin Acting
    <3>1. errors' = errors
      BY <2>1, <2>2, <2>4 DEF Facts, Typed, TypeOK
    <3>2. Classified'[n] = Classified[n]
      BY <2>2, <2>4, <3>1, StatusIs, StatusIsNext
    <3>3. Classified' = Classified
      BY <2>3, <3>2 DEF Classified
    <3> QED BY <2>1, <2>2, <3>3 DEF Abstract!vars
  <2>5. CASE n \in Acting
    <3>1. n \notin errors /\ Classified[n] = "open"
      BY <2>1, <2>2, <2>5, StatusIs DEF Facts, Accounted
    <3>2. \A d \in prog.dep[n] \cap Acting : Classified[d] # "open"
      BY <2>1, <2>2, RankOrder, StatusIs DEF Facts, Typed
    <3>3. CASE n \in errors'
      <4>1. Classified' = [Classified EXCEPT ![n] = "error"]
        BY <2>2, <2>3, <3>3, StatusIsNext, SameStatus
      <4>2. Abstract!Classify(n)
        BY <2>1, <2>2, <3>1, <3>2, <4>1 DEF Abstract!Classify
      <4> QED BY <2>5, <4>2 DEF Abstract!Next
    <3>4. CASE n \notin errors'
      <4>1. Classified'[n] = "settled"
        BY <2>1, <2>2, <2>5, <3>4, StatusIsNext
      <4>2. Classified' = [Classified EXCEPT ![n] = "settled"]
        BY <2>3, <4>1, SameStatus
      <4>3. prog.dep[n] \cap errors = {}
        BY <2>1, <2>2, <2>5, <3>4 DEF Facts, Waiting
      <4>4. ~Abstract!WaitsForError(n)
        <5>1. prog.dep[n] \subseteq Node
          BY ProgramFacts DEF Facts, Typed, Program
        <5> QED BY <2>2, <4>3, <5>1, StatusIs DEF Abstract!WaitsForError
      <4>5. Abstract!Classify(n)
        BY <2>1, <2>2, <3>1, <3>2, <4>2, <4>4 DEF Abstract!Classify
      <4> QED BY <2>5, <4>5 DEF Abstract!Next
    <3> QED BY <3>3, <3>4
  <2> QED BY <2>4, <2>5
<1> QED BY <1>1, <1>2

(* Every node a cascade reaches is an acting one that is no error yet, and  *)
(* those have markers.                                                      *)
LEMMA CascadeMarked ==
  ASSUME Facts, FixInvalidate
  PROVE  phase' = "analyze"
<1> DEFINE n == Popped
           rest == errors \ {n}
<1>1. Fixing /\ pos = N /\ phase = "analyze"
  BY DEF FixInvalidate, Fixing
<1>2. PICK s \in Available(n) : \E B \in Splits(s, n, ByID) :
        LET o == on \cup {<<s, n>>}
            b == before \cup {<<s, m, n>> : m \in B} \cup {<<s, n, k>> : k \in On(s) \ B}
            gone == Revoked(CutOff(s, B), rest, o, b)
        IN  phase' = IF Unmarked(gone, o) THEN "fatal" ELSE phase
  BY DEF FixInvalidate
<1>3. PICK B \in Splits(s, n, ByID) :
        LET o == on \cup {<<s, n>>}
            b == before \cup {<<s, m, n>> : m \in B} \cup {<<s, n, k>> : k \in On(s) \ B}
            gone == Revoked(CutOff(s, B), rest, o, b)
        IN  phase' = IF Unmarked(gone, o) THEN "fatal" ELSE phase
  BY <1>2
<1> DEFINE o == on \cup {<<s, n>>}
           b == before \cup {<<s, m, n>> : m \in B} \cup {<<s, n, k>> : k \in On(s) \ B}
           S == CutOff(s, B)
           C == Acting \ rest
<1>4. s \in tab /\ Acting \subseteq Node /\ n \in Acting
  BY <1>1, FixingFacts, ProgramFacts DEF Available, Reachable, Facts, Typed
<1>5. \A m \in Acting : IF m \in errors THEN Unlisted(m) ELSE ListedOnce(m)
  BY <1>1, <1>4, ProgramFacts, NAssumption DEF Facts, Typed, Accounted
<1>6. \A m \in Acting : m \in rest => \A t \in tab : <<t, m>> \notin o
  BY <1>5 DEF Unlisted
<1>7. S \subseteq C
  <2>1. \A m \in S : <<s, m>> \in on
    BY DEF CutOff, On
  <2> QED BY <1>4, <1>6, <2>1 DEF Facts, MarkersOfActing
<1>8. \A c \in C : \A t \in tab : <<t, c>> \in o => OrphansOf(t, c, o, b) \subseteq C
  <2>1. \A t, m : <<t, m>> \in o => m \in Acting
    BY <1>4 DEF Facts, MarkersOfActing
  <2> QED BY <1>6, <2>1 DEF OrphansOf
<1>9. RevokeClosed(C, rest, o, b)
  BY <1>8 DEF RevokeClosed
<1>10. Revoked(S, rest, o, b) \subseteq C
  BY <1>7, <1>9 DEF Revoked
<1>11. ~Unmarked(Revoked(S, rest, o, b), o)
  BY <1>4, <1>5, <1>10 DEF Unmarked, ListedOnce
<1> QED BY <1>1, <1>3, <1>11

(* A fix repairs the popped error, and the revoked nodes return to the      *)
(* queue.                                                                   *)
LEMMA RepairMaps ==
  ASSUME Facts, Facts', FixDefine \/ FixUse \/ FixInvalidate
  PROVE  Abstract!RepairError(Popped) /\ Popped \in Acting
<1> DEFINE n == Popped
<1>1. Fixing /\ pos = N /\ pos' = N /\ phase = "analyze" /\ phase' = "analyze"
      /\ UNCHANGED <<prog, Acting>>
  BY CascadeMarked DEF FixDefine, FixUse, FixInvalidate, Fixing, Acting
<1>2. n \in errors /\ n \in Acting /\ n \in Node /\ Acting \subseteq Node
      /\ prog.dep \in [Node -> SUBSET Node]
      /\ \A m \in errors : Rank(n) <= Rank(m)
  BY <1>1, FixingFacts, ProgramFacts DEF Facts, Typed, Program
<1>3. \E gone \in SUBSET Acting : errors' = (errors \ {n}) \cup gone
  <2>1. CASE FixInvalidate
    BY <2>1, RevokedActing DEF FixInvalidate
  <2>2. CASE ~FixInvalidate
    BY <2>2 DEF FixDefine, FixUse
  <2> QED BY <2>1, <2>2
<1>4. \E x : text' = [text EXCEPT ![n] = x]
  BY DEF FixDefine, FixUse, FixInvalidate
<1>5. \A m \in Acting : /\ Classified[m] = IF m \in errors THEN "error" ELSE "settled"
                        /\ Classified'[m] = IF m \in errors' THEN "error" ELSE "settled"
  <2>1. \A m \in Node : Rank(m) < pos /\ Rank(m)' < pos'
    BY <1>1, ProgramFacts, NAssumption DEF Facts, Typed, Rank
  <2>2. \A m \in Acting : Classified[m] = IF m \in errors THEN "error" ELSE "settled"
    BY <1>1, <1>2, <2>1, StatusIs
  <2>3. \A m \in Acting : Classified'[m] = IF m \in errors' THEN "error" ELSE "settled"
    BY <1>1, <1>2, <2>1, StatusIsNext
  <2> QED BY <2>2, <2>3
<1>6. \A m \in Node \ Acting : Classified[m] = "open" /\ Classified'[m] = "open"
  <2>1. errors \subseteq Acting /\ errors' \subseteq Acting
    BY <1>1 DEF Facts, Typed, TypeOK
  <2> QED BY <1>1, <2>1, StatusIs, StatusIsNext
<1>7. Abstract!AllClassified
  BY <1>5 DEF Abstract!AllClassified
<1>8. ~Abstract!WaitsForError(n)
  <2>1. \A d \in prog.dep[n] : d \notin errors
    <3>1. \A d \in prog.dep[n] : d \in Node /\ Rank(d) < Rank(n)
      BY <1>2, RankOrder DEF Facts, Typed
    <3>2. \A d \in Node : Rank(d) \in Int
      BY ProgramFacts, NAssumption DEF Facts, Typed
    <3> QED BY <1>2, <3>1, <3>2
  <2> QED BY <1>2, <1>5, <1>6, <2>1 DEF Abstract!WaitsForError
<1>9. Abstract!Rested'
  <2>1. \A m \in Acting : m \notin errors' => prog.dep[m] \cap errors' = {}
    <3>1. \A m \in Acting : Rank(m)' < pos'
      BY <1>1, <1>2, ProgramFacts, NAssumption DEF Facts, Typed, Rank
    <3> QED BY <1>1, <3>1 DEF Facts, Waiting
  <2> QED BY <1>1, <1>2, <1>5, <1>6, <2>1 DEF Abstract!Rested, Abstract!WaitsForError
<1>10. text' \in [Node -> Name] /\ \A j \in Node \ {n} : text'[j] = text[j]
  BY <1>4 DEF Facts, Typed, TypeOK
<1>11. Classified' \in [Node -> Abstract!Status]
  BY DEF Classified, Abstract!Status
<1>12. Classified[n] = "error" /\ Classified'[n] # "open"
  BY <1>2, <1>5
<1>13. \A j \in Node \ {n} : Classified'[j] # Classified[j]
                            => Classified[j] = "settled" /\ Classified'[j] = "error"
  BY <1>3, <1>5, <1>6
<1> QED BY <1>1, <1>2, <1>7, <1>8, <1>9, <1>10, <1>11, <1>12, <1>13
        DEF Abstract!RepairError

(* The other ways a call of the fixer ends.                                 *)
LEMMA EndMaps ==
  ASSUME Facts, GiveUp \/ AbortFix
  PROVE  Abstract!Next
<1>1. /\ Fixing /\ pos = N /\ phase = "analyze"
      /\ UNCHANGED <<prog, text, Acting, tab, on>> /\ errors' = errors \ {Popped}
  BY DEF GiveUp, AbortFix, Fixing, tables, Acting
<1>2. Popped \in errors /\ Popped \in Node /\ Popped \in Acting
  BY <1>1, FixingFacts DEF Facts
<1>3. Unlisted(Popped)
  BY <1>1, <1>2 DEF Facts, Accounted
<1>4. Classified[Popped] = "error" /\ Classified' = [Classified EXCEPT ![Popped] = "open"]
  BY <1>1, <1>2, <1>3 DEF Classified, Unlisted
<1>5. Abstract!AllClassified
  <2>1. \A m \in Acting : Rank(m) < pos
    BY <1>1, ProgramFacts, NAssumption DEF Facts, Typed
  <2> QED BY <1>1, <2>1, StatusIs, ProgramFacts DEF Abstract!AllClassified, Facts, Typed
<1>6. CASE GiveUp
  <2>1. Abstract!GiveUp(Popped)
    BY <1>1, <1>4, <1>5, <1>6 DEF GiveUp, Abstract!GiveUp, Abstract!Drop
  <2> QED BY <1>2, <2>1 DEF Abstract!Next
<1>7. CASE AbortFix
  <2>1. Abstract!Abort(Popped)
    BY <1>1, <1>4, <1>7 DEF AbortFix, Abstract!Abort, Abstract!Drop
  <2> QED BY <1>2, <2>1 DEF Abstract!Next
<1> QED BY <1>6, <1>7

(* Every step of the analyzer is a step of Repair or changes nothing of it. *)
LEMMA StepMaps ==
  ASSUME Facts, Facts', [Next]_vars
  PROVE  [Abstract!Next]_(Abstract!vars)
<1>1. CASE UNCHANGED vars
  BY <1>1, Unchanged DEF vars
<1>2. CASE Finish
  <2>1. phase = "analyze" /\ phase' = "fixed" /\ UNCHANGED <<prog, Acting, text, Classified>>
    BY <1>2 DEF Finish, Acting, Classified, tables
  <2>2. \A m \in Acting : Classified[m] = "settled"
    <3>1. \A m \in Acting : m \in Node /\ Rank(m) < pos /\ m \notin errors
      BY <1>2, ProgramFacts, NAssumption DEF Finish, Facts, Typed
    <3> QED BY <2>1, <3>1, StatusIs
  <2> QED BY <2>1, <2>2 DEF Abstract!Next, Abstract!Finish
<1>3. CASE Reanalyze
  <2>1. Classified' = [n \in Node |-> "open"]
    BY <1>3 DEF Reanalyze, Classified
  <2>2. phase = "fixed" /\ phase' = "analyze" /\ UNCHANGED <<prog, Acting, text>>
    BY <1>3 DEF Reanalyze, Acting
  <2> QED BY <2>1, <2>2 DEF Abstract!Next, Abstract!Again, Abstract!AllOpen
<1>4. CASE FixDefine \/ FixUse \/ FixInvalidate
  BY <1>4, RepairMaps DEF Abstract!Next
<1>5. CASE GiveUp \/ AbortFix
  BY <1>5, EndMaps
<1> QED BY <1>1, <1>2, <1>3, <1>4, <1>5, EnterMaps DEF Next, Fix

(* The analyzer implements the abstract analyzer: every IR is classified    *)
(* once and in dependency order, a repair starts from final values only,    *)
(* and what it unsettles returns to the queue in the same step.             *)
THEOREM Refinement == Spec => ImplementsRepair
<1>1. Facts /\ Facts' /\ [Next]_vars => [Abstract!Next]_(Abstract!vars)
  BY StepMaps
<1> QED BY <1>1, InitMaps, FactsAlways, PTL DEF ImplementsRepair, Abstract!Spec, Spec

-----------------------------------------------------------------------------
(***************************************************************************)
(* What follows for the analyzer.                                           *)
(***************************************************************************)
(* Repair never renames what a settled item was computed from: only an      *)
(* error is renamed, and a settled item rests on none.                      *)
LEMMA RestingStep ==
  ASSUME Facts, Facts', [Next]_vars
  PROVE  \A i \in Acting : Classified[i] = "settled" /\ Classified'[i] = "settled"
           => \A d \in prog.dep[i] : text'[d] = text[d]
<1>1. CASE text' = text
  BY <1>1
<1>2. CASE FixDefine \/ FixUse \/ FixInvalidate
  <2>1. Fixing /\ pos = N /\ phase = "analyze"
    BY <1>2 DEF FixDefine, FixUse, FixInvalidate, Fixing
  <2>2. Popped \in errors /\ prog.dep \in [Node -> SUBSET Node] /\ Acting \subseteq Node
    BY <2>1, FixingFacts, ProgramFacts DEF Facts, Typed, Program
  <2>3. \A d \in Node : d # Popped => text'[d] = text[d]
    BY <1>2 DEF FixDefine, FixUse, FixInvalidate, Facts, Typed, TypeOK
  <2>4. \A i \in Acting : Classified[i] = "settled" => Popped \notin prog.dep[i]
    BY <2>1, <2>2, StatusIs DEF Facts, Waiting
  <2> QED BY <2>2, <2>3, <2>4
<1> QED BY <1>1, <1>2
        DEF Next, Enter, EnterScope, EnterOther, EnterDefine, EnterUseOrInvalidate,
            AbortWalk, Fix, GiveUp, AbortFix, Finish, Reanalyze, vars

(* As long as a node keeps its marker, no fix renames a node its type or    *)
(* name was computed from.                                                  *)
THEOREM BasesRest == Spec => BasisRests
<1>1. Facts /\ Facts' /\ [Next]_vars =>
        [ \A i \in Acting : Classified[i] = "settled" /\ Classified'[i] = "settled"
            => \A d \in prog.dep[i] : text'[d] = text[d] ]_(Abstract!vars)
  BY RestingStep
<1> QED BY <1>1, FactsAlways, PTL DEF BasisRests, Abstract!NamesRest, Spec

(* The FATALs of RemoveIRSymbolUse, -Define and -Invalidate are unreachable. *)
THEOREM MarkersAreFound == Spec => CascadesFindMarkers
<1>1. Facts /\ [Next]_vars => [phase' = "fatal" => on' = on]_vars
  <2> SUFFICES ASSUME Facts, Next, phase' = "fatal" PROVE on' = on
    OBVIOUS
  <2>1. phase = "analyze" \/ phase = "fixed"
    BY DEF Next, Enter, EnterScope, EnterOther, EnterDefine, EnterUseOrInvalidate, AbortWalk,
           Fix, FixDefine, FixUse, FixInvalidate, GiveUp, AbortFix, Finish, Reanalyze,
           Walking, Fixing
  <2> QED BY <2>1, CascadeMarked
          DEF Next, Enter, EnterScope, EnterOther, EnterDefine, EnterUseOrInvalidate, AbortWalk,
              Fix, FixDefine, FixUse, GiveUp, AbortFix, Finish, Reanalyze, tables
<1> QED BY <1>1, FactsAlways, PTL DEF CascadesFindMarkers, Spec

-----------------------------------------------------------------------------
(***************************************************************************)
(* What holds of the programs that are analysed in textual order, which are *)
(* those without an AlterOrder that puts something off: a list ordered by   *)
(* OrderIDs is then ordered by IDs too, so that the fixer inserts where it  *)
(* has looked, and the scopes that are open are those around the node.      *)
(***************************************************************************)
InOrder == InTextualOrder(prog)

(* IDs and OrderIDs say the same.                                           *)
LEMMA OrderFacts ==
  ASSUME prog \in Programs, InOrder
  PROVE  \A m, n \in Node : /\ Rank(n) = n - 1 /\ Rank(n) \in Int /\ n \in Int
                            /\ (m < n <=> Rank(m) < Rank(n))
                            /\ (m <= n <=> Rank(m) <= Rank(n))
<1>1. \A n \in Node : Rank(n) = n - 1 /\ n \in Int
  BY NAssumption DEF InOrder, InTextualOrder, Rank, Node
<1> QED BY <1>1

-----------------------------------------------------------------------------
(***************************************************************************)
(* Legal lists.                                                             *)
(***************************************************************************)
(* A list is in the order of the OrderIDs. It starts with its one define,   *)
(* and if it has an invalidate that ends it. The list of a symbol whose     *)
(* define was revoked is empty.                                             *)
Starts(s, d) ==
  /\ OpOf(d) = "define"
  /\ \A m \in On(s) : Rank(d) <= Rank(m) /\ (OpOf(m) = "define" => m = d)

Sequenced(s) ==
  /\ On(s) # {} => \E d \in On(s) : Starts(s, d)
  /\ \A m, k \in Node : <<s, m, k>> \in before <=>
                           m \in On(s) /\ k \in On(s) /\ Rank(m) < Rank(k)
  /\ \A i \in On(s) : OpOf(i) = "invalidate" => \A m \in On(s) : Rank(m) <= Rank(i)

AllSequenced == \A s \in tab : Sequenced(s)

LEMMA ChronologicalSequenced ==
  ASSUME NEW s, Chronological(s)
  PROVE  Sequenced(s)
BY DEF Chronological, Sequenced, Starts

(* In such a list, upper_bound finds the one place where a node belongs,    *)
(* whether it compares IDs or OrderIDs.                                     *)
LEMMA SplitSequenced ==
  ASSUME Typed, InOrder, NEW s, Sequenced(s), NEW n \in Node, n \notin On(s),
         NEW key \in {ByID, ByOrderID}, NEW B \in Splits(s, n, key)
  PROVE  B = {m \in On(s) : Rank(m) < Rank(n)}
<1> DEFINE A == On(s) \ B
<1>1. B \subseteq On(s) /\ A \subseteq Node /\ B \subseteq Node
  BY DEF Splits, On
<1>2. \A m \in Node : (key[m] <= key[n] <=> Rank(m) <= Rank(n))
                      /\ (key[m] > key[n] <=> Rank(m) > Rank(n))
  BY OrderFacts DEF Typed, ByID, ByOrderID, Rank
<1>3. \A m, k \in Node : /\ Rank(m) \in Int
                         /\ Rank(m) = Rank(k) => m = k
  BY OrderFacts DEF Typed
<1>4. ASSUME NEW m \in B PROVE Rank(m) < Rank(n)
  <2>1. PICK x \in B : \A y \in B : Rank(y) <= Rank(x)
    BY <1>1, ExtremeRanks DEF Typed
  <2>2. \A y \in B : <<s, x, y>> \notin before
    BY <1>1, <1>3, <2>1 DEF Sequenced
  <2>3. Rank(x) <= Rank(n)
    BY <1>1, <1>2, <2>2 DEF Splits
  <2>4. Rank(m) <= Rank(n) /\ m # n
    BY <1>1, <1>3, <2>1, <2>3
  <2> QED BY <1>1, <1>3, <2>4
<1>5. ASSUME NEW k \in A PROVE ~(Rank(k) < Rank(n))
  <2>1. PICK x \in A : \A y \in A : Rank(x) <= Rank(y)
    BY <1>1, ExtremeRanks DEF Typed
  <2>2. \A y \in A : <<s, y, x>> \notin before
    BY <1>1, <1>3, <2>1 DEF Sequenced
  <2>3. Rank(x) > Rank(n)
    BY <1>1, <1>2, <2>2 DEF Splits
  <2> QED BY <1>1, <1>3, <2>1, <2>3
<1> QED BY <1>1, <1>4, <1>5

(* What is left of such a list when some nodes are revoked, and with its    *)
(* define every other.                                                      *)
LEMMA SequencedRemove ==
  ASSUME Typed, NEW s, Sequenced(s), NEW gone, prog' = prog,
         On(s)' = On(s) \ gone,
         \A m, k \in Node : <<s, m, k>> \in before' <=>
                              <<s, m, k>> \in before /\ m \notin gone /\ k \notin gone,
         \A d \in On(s) \cap gone : OpOf(d) = "define" => On(s) \subseteq gone
  PROVE  Sequenced(s)'
<1>1. \A m : OpOf(m)' = OpOf(m) /\ Rank(m)' = Rank(m)
  BY DEF OpOf, Rank
<1>2. On(s) \subseteq Node
  BY DEF On
<1>3. ASSUME On(s)' # {} PROVE \E d \in On(s)' : Starts(s, d)'
  <2>1. PICK d \in On(s) : Starts(s, d)
    BY <1>3 DEF Sequenced
  <2>2. d \in On(s)'
    BY <1>3, <2>1 DEF Starts
  <2> QED BY <1>1, <2>1, <2>2 DEF Starts
<1> QED BY <1>1, <1>2, <1>3 DEF Sequenced

(* Where a fix may put a node, the define comes before, and no invalidate.  *)
LEMMA PlaceFacts ==
  ASSUME Typed, NEW s, Sequenced(s), NEW n \in Node, n \notin On(s),
         NEW B, B = {m \in On(s) : Rank(m) < Rank(n)},
         UsableAfter(s, B)
  PROVE  /\ \E d \in B : Starts(s, d)
         /\ \A m \in B : OpOf(m) # "invalidate"
<1>1. On(s) \subseteq Node /\ \A m \in Node : Rank(m) \in Int
  BY ProgramFacts, NAssumption DEF On, Typed
<1>2. PICK x \in B : OpOf(x) # "invalidate" /\ \A k \in B : <<s, x, k>> \notin before
  BY DEF UsableAfter
<1>3. PICK d \in On(s) : Starts(s, d)
  BY <1>2 DEF Sequenced
<1>4. d \in B
  BY <1>1, <1>2, <1>3 DEF Starts
<1>5. ASSUME NEW i \in B, OpOf(i) = "invalidate" PROVE FALSE
  <2>1. Rank(x) <= Rank(i)
    BY <1>2, <1>5 DEF Sequenced
  <2>2. x # i /\ ~(Rank(x) < Rank(i))
    BY <1>1, <1>2, <1>5 DEF Sequenced
  <2>3. Rank(x) = Rank(i)
    BY <1>1, <1>2, <2>1, <2>2
  <2> QED BY <1>1, <1>2, <2>2, <2>3, RankOrder DEF Typed
<1> QED BY <1>3, <1>4, <1>5

(* A fix chooses a symbol in whose list its node has such a place.          *)
LEMMA AvailablePlace ==
  ASSUME Typed, InOrder, AllSequenced, NEW n \in Node, Unlisted(n), NEW s \in Available(n)
  PROVE  LET B == {m \in On(s) : Rank(m) < Rank(n)}
         IN  /\ s \in tab /\ Sequenced(s) /\ n \notin On(s)
             /\ Splits(s, n, ByID) \subseteq {B}
             /\ \E d \in B : Starts(s, d)
             /\ \A m \in B : OpOf(m) # "invalidate"
<1> DEFINE B == {m \in On(s) : Rank(m) < Rank(n)}
<1>1. s \in tab /\ s \in Reachable(n) /\ \E C \in Splits(s, n, ByOrderID) : UsableAfter(s, C)
  BY DEF Available, Reachable
<1>2. Sequenced(s) /\ n \notin On(s)
  BY <1>1 DEF AllSequenced, Unlisted, On
<1>3. UsableAfter(s, B)
  BY <1>1, <1>2, SplitSequenced
<1>4. \A C \in Splits(s, n, ByID) : C = B
  BY <1>2, SplitSequenced
<1> QED BY <1>1, <1>2, <1>3, <1>4, PlaceFacts

(* What a fixed invalidate does: the markers behind its place go, and with  *)
(* them only later ones; a list that loses its define loses everything.     *)
LEMMA InvalidateFacts ==
  ASSUME Facts, InOrder, AllSequenced, FixInvalidate
  PROVE  \E s \in Available(Popped), gone \in SUBSET Acting :
           LET B == {m \in On(s) : Rank(m) < Rank(Popped)}
           IN  /\ text' = [text EXCEPT ![Popped] = s.name]
               /\ errors' = (errors \ {Popped}) \cup gone
               /\ \A m \in gone : Rank(m) > Rank(Popped)
               /\ \A t, m : <<t, m>> \in on' <=>
                              (<<t, m>> \in on \/ (t = s /\ m = Popped)) /\ m \notin gone
               /\ On(s) \ B \subseteq gone
               /\ \A t, m, k : <<t, m, k>> \in before' <=>
                    /\ m \notin gone /\ k \notin gone
                    /\ \/ <<t, m, k>> \in before
                       \/ t = s /\ m \in B /\ k = Popped
                       \/ t = s /\ m = Popped /\ k \in On(s) \ B
               /\ \A t \in tab : t # s =>
                    \A d \in On(t) \cap gone : OpOf(d) = "define" => On(t) \subseteq gone
<1> DEFINE n == Popped
           rest == errors \ {n}
<1>1. Fixing /\ n \in errors /\ n \in Node /\ n \in Acting /\ OpOf(n) = "invalidate"
  BY FixingFacts DEF FixInvalidate, Facts
<1>2. Unlisted(n)
  BY <1>1 DEF Facts, Accounted, Fixing
<1>3. PICK s \in Available(n) : \E C \in Splits(s, n, ByID) :
           LET o == on \cup {<<s, n>>}
               b == before \cup {<<s, m, n>> : m \in C} \cup {<<s, n, k>> : k \in On(s) \ C}
               gone == Revoked(CutOff(s, C), rest, o, b)
           IN  /\ text' = [text EXCEPT ![n] = s.name]
               /\ on' = {e \in o : e[2] \notin gone}
               /\ before' = {e \in b : e[2] \notin gone /\ e[3] \notin gone}
               /\ errors' = rest \cup gone
  BY DEF FixInvalidate
<1> DEFINE B == {m \in On(s) : Rank(m) < Rank(n)}
           o == on \cup {<<s, n>>}
           b == before \cup {<<s, m, n>> : m \in B} \cup {<<s, n, k>> : k \in On(s) \ B}
           gone == Revoked(CutOff(s, B), rest, o, b)
<1>4. /\ s \in tab /\ Sequenced(s) /\ n \notin On(s)
      /\ Splits(s, n, ByID) \subseteq {B}
      /\ \E d \in B : Starts(s, d)
      /\ \A m \in B : OpOf(m) # "invalidate"
  BY <1>1, <1>2, AvailablePlace DEF Facts
<1>5. /\ text' = [text EXCEPT ![n] = s.name]
      /\ on' = {e \in o : e[2] \notin gone}
      /\ before' = {e \in b : e[2] \notin gone /\ e[3] \notin gone}
      /\ errors' = rest \cup gone
  BY <1>3, <1>4
<1>6. gone \subseteq Acting
  BY RevokedActing
<1>7. /\ on \subseteq tab \X Node /\ before \subseteq tab \X Node \X Node
      /\ \A m \in Node : Rank(m) \in Int /\ \A k \in Node : Rank(m) = Rank(k) => m = k
      /\ Acting \subseteq Node /\ \A t : On(t) \subseteq Node /\ On(t) \subseteq Acting
  BY OrderFacts, ProgramFacts DEF Facts, Typed, TypeOK, On, MarkersOfActing
<1>8. CutOff(s, B) = On(s) \ B
  <2>1. \A m \in On(s) : OpOf(m) = "define" => m \in B
    BY <1>4 DEF Starts
  <2> QED BY <2>1 DEF CutOff
<1>9. \A m \in gone : Rank(m) > Rank(n)
  <2> DEFINE C == {m \in Acting : Rank(m) > Rank(n)}
  <2>1. CutOff(s, B) \subseteq C
    <3>1. \A k \in On(s) \ B : ~(Rank(k) < Rank(n)) /\ k # n
      BY <1>4
    <3>2. \A k \in On(s) \ B : k \in Acting /\ k \in Node /\ Rank(k) \in Int
      BY <1>7
    <3> QED BY <1>1, <1>7, <1>8, <3>1, <3>2
  <2>2. ASSUME NEW c \in C PROVE prog.desc[c] \cap Acting \subseteq C
    BY <1>1, <1>7, DependentsLater DEF Facts, Typed
  <2>3. ASSUME NEW c \in C, NEW t \in tab, NEW m \in OrphansOf(t, c, o, b) PROVE m \in C
    <3>1. <<t, m>> \in o /\ <<t, c, m>> \in b /\ m \in Node
      BY DEF OrphansOf
    <3>2. c \notin B /\ c # n /\ c \in Node
      BY <1>1, <1>7
    <3>3. <<t, c, m>> \in before
      BY <3>1, <3>2
    <3>4. Rank(c) < Rank(m) /\ m \in On(t)
      BY <1>7, <3>2, <3>3 DEF AllSequenced, Sequenced
    <3> QED BY <1>1, <1>7, <3>2, <3>4
  <2>4. RevokeClosed(C, rest, o, b)
    BY <2>2, <2>3 DEF RevokeClosed
  <2>5. C \in SUBSET Acting
    OBVIOUS
  <2> QED BY <2>1, <2>4, <2>5 DEF Revoked
<1>10. On(s) \ B \subseteq gone
  BY <1>7, <1>8 DEF Revoked
<1>11. ASSUME NEW t \in tab, t # s, NEW d \in On(t) \cap gone, OpOf(d) = "define",
              NEW m \in On(t)
       PROVE  m \in gone
  <2>1. PICK x \in On(t) : Starts(t, x)
    BY <1>11 DEF AllSequenced, Sequenced
  <2>2. Starts(t, d) /\ Sequenced(t) /\ d \in Node /\ m \in Node
    BY <1>7, <1>11, <2>1 DEF Starts, AllSequenced
  <2>3. CASE m = d
    BY <1>11, <2>3
  <2>4. CASE m # d
    <3>1. <<t, d, m>> \in before
      BY <1>7, <1>11, <2>2, <2>4 DEF Starts, Sequenced
    <3>2. ASSUME NEW y \in Node, OpOf(y) = "define", <<t, d, y>> \in b PROVE FALSE
      <4>1. <<t, d, y>> \in before
        BY <1>11, <3>2
      <4>2. y \in On(t) /\ Rank(d) < Rank(y)
        BY <2>2, <3>2, <4>1 DEF Sequenced
      <4> QED BY <1>7, <2>2, <3>2, <4>2 DEF Starts
    <3>3. m \in OrphansOf(t, d, o, b)
      BY <1>11, <2>2, <3>1, <3>2 DEF OrphansOf, On
    <3>4. <<t, d>> \in o
      BY <1>11 DEF On
    <3>5. m \in Acting
      BY <1>7
    <3> SUFFICES ASSUME NEW C \in SUBSET Acting, CutOff(s, B) \subseteq C,
                        RevokeClosed(C, rest, o, b)
                 PROVE  m \in C
      BY <3>5 DEF Revoked
    <3>6. d \in C
      BY <1>11 DEF Revoked
    <3> QED BY <1>11, <3>3, <3>4, <3>6 DEF RevokeClosed
  <2> QED BY <2>3, <2>4
<1>12. \A t, m : <<t, m>> \in on' <=> (<<t, m>> \in on \/ (t = s /\ m = n)) /\ m \notin gone
  <2> HIDE DEF gone
  <2> QED BY <1>5
<1>13. \A t, m, k : <<t, m, k>> \in before' <=>
         /\ m \notin gone /\ k \notin gone
         /\ \/ <<t, m, k>> \in before
            \/ t = s /\ m \in B /\ k = n
            \/ t = s /\ m = n /\ k \in On(s) \ B
  <2> HIDE DEF gone, B
  <2> QED BY <1>5
<1>14. PICK g \in SUBSET Acting : g = gone
  BY <1>6
<1> HIDE DEF gone
<1> QED BY <1>5, <1>9, <1>10, <1>11, <1>12, <1>13, <1>14

(* A use or an invalidate is inserted in such a place: what is before it    *)
(* stays, and of what is behind it nothing when it is an invalidate.        *)
LEMMA SequencedInsert ==
  ASSUME Typed, NEW s, Sequenced(s), NEW n \in Node, n \notin On(s), prog' = prog,
         OpOf(n) # "define",
         \E d \in On(s) : Starts(s, d) /\ Rank(d) < Rank(n),
         \A m \in On(s) : Rank(m) < Rank(n) => OpOf(m) # "invalidate" /\ m \in On(s)',
         n \in On(s)', On(s)' \subseteq On(s) \cup {n},
         OpOf(n) = "invalidate" => \A m \in On(s)' : m = n \/ Rank(m) < Rank(n),
         \A m, k \in Node : <<s, m, k>> \in before' <=>
           /\ m \in On(s)' /\ k \in On(s)'
           /\ \/ <<s, m, k>> \in before
              \/ k = n /\ m # n /\ Rank(m) < Rank(n)
              \/ m = n /\ k # n /\ ~(Rank(k) < Rank(n))
  PROVE  Sequenced(s)'
<1>1. \A m : OpOf(m)' = OpOf(m) /\ Rank(m)' = Rank(m)
  BY DEF OpOf, Rank
<1>2. /\ On(s) \subseteq Node /\ On(s)' \subseteq Node
      /\ \A m \in Node : Rank(m) \in Int
      /\ \A m, k \in Node : Rank(m) = Rank(k) => m = k
  BY ProgramFacts, RankOrder, NAssumption DEF On, Typed
<1>3. \A m \in On(s) : Rank(m) < Rank(n) \/ Rank(n) < Rank(m)
  BY <1>2
<1>4. \E d \in On(s)' : Starts(s, d)'
  <2>1. PICK d \in On(s) : Starts(s, d) /\ Rank(d) < Rank(n)
    OBVIOUS
  <2>2. d \in On(s)' /\ OpOf(d) = "define"
    BY <2>1 DEF Starts
  <2>3. ASSUME NEW m \in On(s)'
        PROVE  Rank(d) <= Rank(m) /\ (OpOf(m) = "define" => m = d)
    BY <1>2, <2>1 DEF Starts
  <2> QED BY <1>1, <2>2, <2>3 DEF Starts
<1>5. ASSUME NEW m \in Node, NEW k \in Node
      PROVE  <<s, m, k>> \in before' <=> m \in On(s)' /\ k \in On(s)' /\ Rank(m) < Rank(k)
  <2>1. <<s, m, k>> \in before <=> m \in On(s) /\ k \in On(s) /\ Rank(m) < Rank(k)
    BY DEF Sequenced
  <2>2. CASE m # n /\ k # n
    BY <2>1, <2>2
  <2>3. CASE m = n
    BY <1>2, <1>3, <2>1, <2>3
  <2>4. CASE k = n
    BY <1>2, <1>3, <2>1, <2>4
  <2> QED BY <2>2, <2>3, <2>4
<1>6. ASSUME NEW i \in On(s)', OpOf(i) = "invalidate", NEW m \in On(s)'
      PROVE  Rank(m) <= Rank(i)
  <2>1. CASE i = n
    BY <1>2, <1>6, <2>1
  <2>2. CASE i # n
    <3>1. i \in On(s) /\ Rank(n) < Rank(i)
      BY <1>3, <1>6, <2>2
    <3>2. \A x \in On(s) : Rank(x) <= Rank(i)
      BY <1>6, <3>1 DEF Sequenced
    <3> QED BY <1>2, <1>6, <3>1, <3>2
  <2> QED BY <2>1, <2>2
<1> QED BY <1>1, <1>4, <1>5, <1>6 DEF Sequenced

(* A list that a step does not touch.                                       *)
LEMMA SequencedSame ==
  ASSUME NEW s, Sequenced(s), prog' = prog, On(s)' = On(s),
         \A m, k \in Node : <<s, m, k>> \in before' <=> <<s, m, k>> \in before
  PROVE  Sequenced(s)'
BY DEF Sequenced, Starts, OpOf, Rank

(* A fix keeps all the lists legal.                                         *)
LEMMA SequencedFix ==
  ASSUME Facts, InOrder, AllSequenced, Fix
  PROVE  AllSequenced'
<1>1. Fixing /\ prog' = prog
  BY DEF Fix, FixDefine, FixUse, FixInvalidate, GiveUp, AbortFix, Fixing
<1>a. PICK n \in Node : n = Popped
  BY <1>1, FixingFacts DEF Facts
<1>2. n \in errors /\ n \in Acting /\ Typed
  BY <1>1, <1>a, FixingFacts DEF Facts
<1>3. Unlisted(n)
  BY <1>1, <1>2 DEF Facts, Accounted, Fixing
<1>4. CASE FixDefine
  <2>1. PICK s : tab' = tab \cup {s} /\ Listed(s, n, {}) /\ s \notin tab
    <3>1. PICK sc \in HomeScopes(n) : \E i \in FreshNames(sc), t \in TypesOf(n) :
            LET s == [scope |-> sc, name |-> i, type |-> t]
            IN  tab' = tab \cup {s} /\ Listed(s, n, {})
      BY <1>a, <1>4 DEF FixDefine
    <3>2. PICK i \in FreshNames(sc), t \in TypesOf(n) :
            LET s == [scope |-> sc, name |-> i, type |-> t]
            IN  tab' = tab \cup {s} /\ Listed(s, n, {})
      BY <3>1
    <3>3. ~NameTaken(sc, i)
      BY DEF FreshNames
    <3> QED BY <3>2, <3>3 DEF NameTaken
  <2>2. On(s) = {} /\ \A m, k : <<s, m, k>> \notin before
    BY <1>2, <2>1 DEF On, Typed, TypeOK
  <2>3. \A t : t # s => On(t)' = On(t) /\ \A m, k : <<t, m, k>> \in before' <=> <<t, m, k>> \in before
    BY <2>1 DEF On, Listed
  <2>4. Sequenced(s)'
    <3>1. On(s)' = {n} /\ \A m, k : <<s, m, k>> \notin before'
      BY <1>2, <2>1, <2>2 DEF On, Listed
    <3>2. OpOf(n)' = "define" /\ Rank(n)' \in Int
      BY <1>a, <1>1, <1>2, <1>4, OrderFacts DEF FixDefine, OpOf, Rank, Typed
    <3> QED BY <3>1, <3>2 DEF Sequenced, Starts
  <2> QED BY <1>1, <2>1, <2>3, <2>4, SequencedSame DEF AllSequenced
<1>5. CASE FixUse
  <2>1. PICK s \in Available(n) : \E C \in Splits(s, n, ByID) : Listed(s, n, C)
    BY <1>a, <1>5 DEF FixUse
  <2> DEFINE B == {m \in On(s) : Rank(m) < Rank(n)}
  <2>2. /\ s \in tab /\ Sequenced(s) /\ n \notin On(s)
        /\ Splits(s, n, ByID) \subseteq {B}
        /\ \E d \in B : Starts(s, d)
        /\ \A m \in B : OpOf(m) # "invalidate"
    BY <1>2, <1>3, AvailablePlace
  <2>3. Listed(s, n, B) /\ tab' = tab /\ OpOf(n) = "use"
    BY <1>a, <1>5, <2>1, <2>2 DEF FixUse
  <2>4. Sequenced(s)'
    <3>1. On(s)' = On(s) \cup {n}
      BY <1>2, <2>3 DEF On, Listed
    <3>2. \A m, k \in Node : <<s, m, k>> \in before' <=>
           /\ m \in On(s)' /\ k \in On(s)'
           /\ \/ <<s, m, k>> \in before
              \/ k = n /\ m # n /\ Rank(m) < Rank(n)
              \/ m = n /\ k # n /\ ~(Rank(k) < Rank(n))
      BY <2>2, <2>3, <3>1 DEF Listed, Sequenced
    <3> QED BY <1>1, <1>2, <2>2, <2>3, <3>1, <3>2, SequencedInsert
  <2>5. \A t : t # s => On(t)' = On(t) /\ \A m, k : <<t, m, k>> \in before' <=> <<t, m, k>> \in before
    BY <2>3 DEF On, Listed
  <2> QED BY <1>1, <2>3, <2>4, <2>5, SequencedSame DEF AllSequenced
<1>6. CASE FixInvalidate
  <2>1. PICK s \in Available(n), gone \in SUBSET Acting :
           LET B == {m \in On(s) : Rank(m) < Rank(n)}
           IN  /\ \A m \in gone : Rank(m) > Rank(n)
               /\ \A t, m : <<t, m>> \in on' <=>
                              (<<t, m>> \in on \/ (t = s /\ m = n)) /\ m \notin gone
               /\ On(s) \ B \subseteq gone
               /\ \A t, m, k : <<t, m, k>> \in before' <=>
                    /\ m \notin gone /\ k \notin gone
                    /\ \/ <<t, m, k>> \in before
                       \/ t = s /\ m \in B /\ k = n
                       \/ t = s /\ m = n /\ k \in On(s) \ B
               /\ \A t \in tab : t # s =>
                    \A d \in On(t) \cap gone : OpOf(d) = "define" => On(t) \subseteq gone
    BY <1>a, <1>6, InvalidateFacts
  <2> DEFINE B == {m \in On(s) : Rank(m) < Rank(n)}
  <2>2. /\ s \in tab /\ Sequenced(s) /\ n \notin On(s)
        /\ \E d \in B : Starts(s, d)
        /\ \A m \in B : OpOf(m) # "invalidate"
    BY <1>2, <1>3, AvailablePlace
  <2>3. tab' = tab /\ OpOf(n) = "invalidate"
    BY <1>a, <1>6 DEF FixInvalidate
  <2>4. /\ \A m \in gone : m \in Node /\ m # n /\ m \notin B
        /\ B \subseteq Node
    <3>1. \A m \in Node : Rank(m) \in Int
      BY <1>2, OrderFacts DEF Typed
    <3>2. gone \subseteq Node /\ B \subseteq Node
      BY <1>2, ProgramFacts DEF On, Typed
    <3> QED BY <1>2, <2>1, <3>1, <3>2
  <2>5. Sequenced(s)'
    <3>1. On(s)' = B \cup {n}
      BY <1>2, <2>1, <2>4 DEF On
    <3>2. \A m, k \in Node : <<s, m, k>> \in before' <=>
           /\ m \in On(s)' /\ k \in On(s)'
           /\ \/ <<s, m, k>> \in before
              \/ k = n /\ m # n /\ Rank(m) < Rank(n)
              \/ m = n /\ k # n /\ ~(Rank(k) < Rank(n))
      <4>1. \A m, k \in Node : <<s, m, k>> \in before => m \in On(s) /\ k \in On(s)
        BY <2>2 DEF Sequenced
      <4>2. \A m \in On(s) : m \in B \/ m \in gone
        BY <2>1
      <4>3. \A m : m \in B <=> m \in On(s) /\ Rank(m) < Rank(n)
        OBVIOUS
      <4> HIDE DEF B
      <4>4. ~(Rank(n) < Rank(n))
        BY <1>2, OrderFacts DEF Typed
      <4> QED BY <2>1, <2>2, <2>4, <3>1, <4>1, <4>2, <4>3, <4>4 DEF B
    <3> QED BY <1>1, <1>2, <2>2, <2>3, <3>1, <3>2, SequencedInsert
  <2>6. ASSUME NEW t \in tab, t # s PROVE Sequenced(t)'
    <3>1. On(t)' = On(t) \ gone
      BY <2>1, <2>6 DEF On
    <3>2. \A m, k \in Node : <<t, m, k>> \in before' <=>
             <<t, m, k>> \in before /\ m \notin gone /\ k \notin gone
      BY <2>1, <2>6
    <3>3. Sequenced(t) /\ \A d \in On(t) \cap gone : OpOf(d) = "define" => On(t) \subseteq gone
      BY <2>1, <2>6 DEF AllSequenced
    <3> QED BY <1>1, <1>2, <3>1, <3>2, <3>3, SequencedRemove
  <2> QED BY <2>3, <2>5, <2>6 DEF AllSequenced
<1>7. CASE GiveUp \/ AbortFix
  BY <1>1, <1>7, SequencedSame DEF GiveUp, AbortFix, AllSequenced, tables, On
<1> QED BY <1>4, <1>5, <1>6, <1>7 DEF Fix

LEMMA SequencedStep ==
  ASSUME Facts, InOrder, AllSequenced, [Next]_vars
  PROVE  AllSequenced'
<1>1. ASSUME UNCHANGED <<prog, tables>> PROVE AllSequenced'
  BY <1>1, SequencedSame DEF AllSequenced, tables, On
<1>2. ASSUME NEW n \in Node, Enter(n) PROVE AllSequenced'
  <2>1. CASE AbortWalk(n)
    BY <1>1, <2>1 DEF AbortWalk
  <2>2. CASE ~AbortWalk(n)
    <3>1. phase' = "analyze"
      BY <1>2, <2>2 DEF Enter, EnterScope, EnterOther, EnterDefine, EnterUseOrInvalidate, Walking
    <3>2. \A t \in tab' : Chronological(t)'
      BY <1>2, <3>1, ChronologicalEnter DEF Facts
    <3>3. ASSUME NEW t \in tab', Chronological(t)' PROVE Sequenced(t)'
      BY <3>3 DEF Chronological, Sequenced, Starts
    <3> QED BY <3>2, <3>3 DEF AllSequenced
  <2> QED BY <2>1, <2>2
<1>3. CASE Reanalyze
  BY <1>3 DEF Reanalyze, AllSequenced
<1>4. CASE Finish
  BY <1>1, <1>4 DEF Finish
<1>5. CASE UNCHANGED vars
  BY <1>1, <1>5 DEF vars, tables
<1> QED BY <1>2, <1>3, <1>4, <1>5, SequencedFix DEF Next

(* The order the program is analysed in never changes.                      *)
LEMMA ProgRests == [Next]_vars => prog' = prog
BY DEF Next, Enter, EnterScope, EnterOther, EnterDefine, EnterUseOrInvalidate, AbortWalk,
       Fix, FixDefine, FixUse, FixInvalidate, GiveUp, AbortFix, Finish, Reanalyze, vars

LEMMA InOrderStep == InOrder /\ [Next]_vars => InOrder'
BY ProgRests DEF InOrder

LegitLists == Facts /\ InOrder /\ AllSequenced

LEMMA ListsAlways == Spec /\ InOrder => []LegitLists
<1>1. Init => AllSequenced
  BY DEF Init, Reset, AllSequenced
<1>2. Facts /\ InOrder /\ AllSequenced /\ [Next]_vars => InOrder' /\ AllSequenced'
  BY SequencedStep, InOrderStep
<1>3. Facts /\ InOrder /\ AllSequenced => LegitLists
  BY DEF LegitLists
<1> QED BY <1>1, <1>2, <1>3, FactsAlways, PTL DEF Spec

(* What std::list order the analyzer reports is legal, also after fixes:    *)
(* no use or invalidate comes before the define or after an invalidate.     *)
THEOREM SequencesAreLegit == Spec /\ InOrder => []LegitSequences
<1>1. LegitLists => LegitSequences
  <2> SUFFICES ASSUME LegitLists, NEW e \in on, OpOf(e[2]) # "define"
               PROVE  LET s == e[1]  n == e[2]
                      IN  \E d \in On(s) :
                            /\ OpOf(d) = "define" /\ <<s, d, n>> \in before
                            /\ \A i \in On(s) : OpOf(i) = "invalidate" /\ <<s, i, n>> \in before
                                               => <<s, i, d>> \in before
    BY DEF LegitSequences
  <2> DEFINE s == e[1]
             n == e[2]
  <2>1. e = <<s, n>> /\ s \in tab /\ n \in Node
    BY DEF LegitLists, Facts, Typed, TypeOK
  <2>2. n \in On(s) /\ Sequenced(s) /\ On(s) \subseteq Node
    BY <2>1 DEF On, LegitLists, AllSequenced
  <2>3. PICK d \in On(s) : Starts(s, d)
    BY <2>2 DEF Sequenced
  <2>4. \A m \in Node : Rank(m) \in Int /\ \A k \in Node : Rank(m) = Rank(k) => m = k
    BY OrderFacts DEF LegitLists, Facts, Typed
  <2>5. <<s, d, n>> \in before
    BY <2>2, <2>3, <2>4 DEF Starts, Sequenced
  <2>6. ASSUME NEW i \in On(s), OpOf(i) = "invalidate", <<s, i, n>> \in before PROVE FALSE
    <3>1. Rank(i) < Rank(n) /\ Rank(n) <= Rank(i)
      BY <2>2, <2>6 DEF Sequenced
    <3> QED BY <2>2, <2>4, <3>1
  <2> QED BY <2>3, <2>5, <2>6 DEF Starts
<1> QED BY <1>1, ListsAlways, PTL

-----------------------------------------------------------------------------
(***************************************************************************)
(* The fixer makes headway.                                                 *)
(***************************************************************************)
(* Each fix leaves errors behind its own node only: the fixer goes through  *)
(* the text once, and no terminal is renamed twice.                         *)
THEOREM FixerGoesForward == Spec /\ InOrder => FixesMoveForward
<1>1. LegitLists /\ [Next]_vars =>
        [ Fixing /\ phase' = "analyze" => \A m \in errors' : Rank(m) > Rank(Popped) ]_vars
  <2> SUFFICES ASSUME LegitLists, Next, Fixing, phase' = "analyze", NEW m \in errors'
               PROVE  Rank(m) > Rank(Popped)
    OBVIOUS
  <2>1. /\ Popped \in errors /\ Popped \in Node /\ errors \subseteq Node
        /\ \A k \in errors : Rank(Popped) <= Rank(k)
        /\ \A k, j \in Node : Rank(k) \in Int /\ (Rank(k) = Rank(j) => k = j)
    BY FixingFacts, OrderFacts, ProgramFacts DEF LegitLists, Facts, Typed, TypeOK
  <2>2. FixDefine \/ FixUse \/ FixInvalidate
    <3>1. pos = N /\ ~(pos < N) /\ phase = "analyze" /\ errors # {}
      BY NAssumption DEF Fixing
    <3>2. Fix
      BY <3>1 DEF Next, Enter, EnterScope, EnterOther, EnterDefine, EnterUseOrInvalidate,
                  AbortWalk, Walking, Finish, Reanalyze
    <3> QED BY <3>2 DEF Fix, GiveUp, AbortFix
  <2>3. CASE m \in errors \ {Popped}
    BY <2>1, <2>3
  <2>4. CASE m \notin errors \ {Popped}
    <3>1. FixInvalidate
      BY <2>2, <2>4 DEF FixDefine, FixUse
    <3>2. PICK gone \in SUBSET Acting : /\ errors' = (errors \ {Popped}) \cup gone
                                       /\ \A k \in gone : Rank(k) > Rank(Popped)
      BY <3>1, InvalidateFacts DEF LegitLists
    <3> QED BY <2>4, <3>2
  <2> QED BY <2>3, <2>4
<1> QED BY <1>1, ListsAlways, PTL DEF FixesMoveForward, Spec

-----------------------------------------------------------------------------
(***************************************************************************)
(* Scopes.                                                                  *)
(***************************************************************************)
LEMMA LastFacts ==
  ASSUME Typed
  PROVE  \A m \in Node : m \in Int /\ m # 0 /\ Last(m) \in Node /\ Last(m) \in Int /\ m <= Last(m)
<1>1. prog.src \in Source /\ IsTree(prog.src)
  BY ProgramFacts, ProgramsAssumption DEF Typed, Program, WellFormed
<1>2. \A m \in Node : Last(m) \in Node /\ m <= Last(m)
  BY <1>1 DEF Source, Last, IsTree
<1>3. \A m \in Node : m \in Int /\ m # 0
  BY NAssumption DEF Node
<1> QED BY <1>2, <1>3

(* The scopes around a node, and around one of those.                       *)
LEMMA AroundFacts ==
  ASSUME Typed, NEW n \in Node
  PROVE  /\ \A sc : sc \in Around(n) <=>
                     sc \in Node /\ OpOf(sc) = "scope" /\ sc <= n /\ n <= Last(sc)
         /\ \A sc \in Around(n) : Around(sc) = {o \in Around(n) : o <= sc}
         /\ \A sc \in Around(n) : \A o \in Around(sc) : Last(sc) <= Last(o)
<1>1. prog.src \in Source /\ IsTree(prog.src)
  BY ProgramFacts, ProgramsAssumption DEF Typed, Program, WellFormed
<1>2. \A m, k \in Node : k \in Subtree(prog.src, m) <=> m <= k /\ k <= Last(m)
  BY <1>1, SubtreeFacts DEF Last
<1>3. \A m, k \in Node : m <= k /\ k <= Last(m) => Last(k) <= Last(m)
  BY <1>1, <1>2 DEF IsTree, Last
<1>4. \A m \in Node : m \in Int /\ Last(m) \in Int
  BY <1>1, NAssumption DEF Source, Last, Node
<1>5. \A k \in Node : \A sc : sc \in Around(k) <=>
                     sc \in Node /\ OpOf(sc) = "scope" /\ sc <= k /\ k <= Last(sc)
  BY <1>2 DEF Around
<1>6. ASSUME NEW sc \in Around(n) PROVE Around(sc) = {o \in Around(n) : o <= sc}
  BY <1>3, <1>4, <1>5
<1>7. ASSUME NEW sc \in Around(n), NEW o \in Around(sc) PROVE Last(sc) <= Last(o)
  BY <1>3, <1>5
<1> QED BY <1>5, <1>6, <1>7

(* The scopes that TopoWalk has entered and not left.                       *)
Open == {sc \in Node : OpOf(sc) = "scope" /\ sc <= pos /\ pos < Last(sc)}

(* The parents of an entered scope are the scopes around it; the current    *)
(* scope is the innermost one that is open.                                 *)
Scoped ==
  /\ \A sc \in Node : chain[sc] = IF OpOf(sc) = "scope" /\ sc <= pos THEN Around(sc) ELSE {}
  /\ IF Open = {} THEN cur = 0 ELSE cur \in Open /\ \A o \in Open : o <= cur

(* So the scope seeker climbs through the open scopes.                      *)
LEMMA VisibleIsOpen ==
  ASSUME Typed, Scoped
  PROVE  Visible = Open
<1>1. \A m \in Node : m \in Int /\ m # 0 /\ Last(m) \in Node /\ Last(m) \in Int
  BY LastFacts
<1>2. pos \in Int
  BY DEF Typed, TypeOK
<1>3. CASE Open = {}
  BY <1>3 DEF Scoped, Visible
<1>4. CASE Open # {}
  <2>1. cur \in Node /\ cur \in Open /\ \A o \in Open : o <= cur
    BY <1>4 DEF Scoped, Open
  <2>2. Visible = Around(cur)
    BY <1>1, <2>1 DEF Scoped, Visible, Open
  <2>3. cur \in Around(cur)
    BY <1>1, <1>2, <2>1, AroundFacts DEF Open
  <2>4. ASSUME NEW o \in Around(cur) PROVE o \in Open
    <3>1. o \in Node /\ OpOf(o) = "scope" /\ o <= cur
      BY <2>1, AroundFacts
    <3>2. Last(cur) <= Last(o)
      BY <2>1, <2>3, <2>4, AroundFacts
    <3> QED BY <1>1, <1>2, <2>1, <3>1, <3>2 DEF Open
  <2>5. ASSUME NEW o \in Open PROVE o \in Around(cur)
    <3>1. o <= cur /\ cur <= Last(o)
      BY <1>1, <1>2, <2>1, <2>5 DEF Open
    <3> QED BY <2>1, <3>1, AroundFacts DEF Open
  <2> QED BY <2>2, <2>4, <2>5
<1> QED BY <1>3, <1>4

(* In textual order, those are the scopes around the node entered next.     *)
LEMMA NextIsInside ==
  ASSUME Typed, InOrder, Walking, NEW n \in Node, IsNext(n)
  PROVE  n = pos + 1 /\ Open = Around(n) \ {n}
<1>1. \A m \in Node : m \in Int /\ m # 0 /\ Last(m) \in Node /\ Last(m) \in Int
  BY LastFacts
<1>2. n = pos + 1 /\ pos \in Int
  BY <1>1, OrderFacts DEF Typed, TypeOK, IsNext
<1>3. \A sc \in Node : sc \in Open <=> sc \in Around(n) /\ sc # n
  BY <1>1, <1>2, AroundFacts DEF Open
<1>4. Open \subseteq Node /\ Around(n) \subseteq Node
  BY DEF Open, Around
<1> QED BY <1>2, <1>3, <1>4

(* ParentScope finds the scope next to sc among those around it.            *)
LEMMA ParentIsNext ==
  ASSUME Typed, InOrder, NEW sc \in Node, NEW links, NEW S, S \subseteq Node,
         links[sc] \ {sc} = S
  PROVE  IF S = {} THEN ParentScope(sc, links) = 0
         ELSE /\ ParentScope(sc, links) \in S
              /\ \A o \in S : o <= ParentScope(sc, links)
<1>1. CASE S = {}
  BY <1>1 DEF ParentScope
<1>2. CASE S # {}
  <2> DEFINE P(o) == o \in S /\ \A x \in S : Rank(x) <= Rank(o)
  <2>1. \E o \in S : \A x \in S : Rank(x) <= Rank(o)
    BY <1>2, ExtremeRanks DEF Typed
  <2>2. ParentScope(sc, links) = CHOOSE o \in S : \A x \in S : Rank(x) <= Rank(o)
    BY <1>2 DEF ParentScope
  <2>3. ParentScope(sc, links) \in S /\ \A x \in S : Rank(x) <= Rank(ParentScope(sc, links))
    BY <2>1, <2>2
  <2> QED BY <1>2, <2>3, OrderFacts DEF Typed
<1> QED BY <1>1, <1>2

(* Leaving scopes keeps it so.                                              *)
LEMMA ScopedAdvance ==
  ASSUME Typed, InOrder, Walking, NEW n \in Node, IsNext(n), prog' = prog,
         NEW inner, NEW links, Advance(n, inner, links),
         \A sc \in Node : links[sc] = IF OpOf(sc) = "scope" /\ sc <= n THEN Around(sc) ELSE {},
         IF Around(n) = {} THEN inner = 0
         ELSE inner \in Around(n) /\ \A o \in Around(n) : o <= inner
  PROVE  Scoped'
<1>1. \A m \in Node : m \in Int /\ m # 0 /\ Last(m) \in Node /\ Last(m) \in Int
  BY LastFacts
<1>2. pos' = n
  BY NextIsInside DEF Advance
<1>3. \A m : OpOf(m)' = OpOf(m) /\ Around(m)' = Around(m) /\ Last(m)' = Last(m)
  BY DEF OpOf, Around, Last
<1>4. \A sc : sc \in Around(n) <=>
                 sc \in Node /\ OpOf(sc) = "scope" /\ sc <= n /\ n <= Last(sc)
  BY AroundFacts
<1>5. Open' = {sc \in Around(n) : n < Last(sc)}
  BY <1>1, <1>2, <1>3, <1>4 DEF Open
<1>6. \A sc \in Node : sc \in Exiting(n) <=> sc \in Around(n) /\ Last(sc) = n
  <2>1. prog.src \in Source /\ IsTree(prog.src)
    BY ProgramFacts, ProgramsAssumption DEF Typed, Program, WellFormed
  <2>2. \A m, k \in Node : k \in Subtree(prog.src, m) <=> m <= k /\ k <= Last(m)
    BY <2>1, SubtreeFacts DEF Last
  <2>3. \A m \in Node : Subtree(prog.src, m) \subseteq Node
    BY <2>1, SubtreeFacts
  <2> SUFFICES ASSUME NEW sc \in Node, OpOf(sc) = "scope", n \in Subtree(prog.src, sc)
               PROVE  (\A m \in Subtree(prog.src, sc) \ {n} : Rank(m) < Rank(n)) <=> Last(sc) = n
    BY <1>4, <2>2 DEF Exiting
  <2>4. \A m \in Node : Rank(m) < Rank(n) <=> m < n
    BY OrderFacts DEF Typed
  <2>5. Last(sc) \in Subtree(prog.src, sc)
    BY <1>1, <2>2
  <2> QED BY <1>1, <2>2, <2>3, <2>4, <2>5
<1>7. IF Open' = {} THEN cur' = 0 ELSE cur' \in Open' /\ \A o \in Open' : o <= cur'
  <2>1. CASE Exiting(n) = {}
    <3>1. Open' = Around(n)
      BY <1>1, <1>4, <1>5, <1>6, <2>1
    <3>2. cur' = inner
      BY <2>1 DEF Advance, ScopeAfter
    <3> QED BY <3>1, <3>2
  <2>2. CASE Exiting(n) # {}
    <3> DEFINE least == CHOOSE sc \in Exiting(n) : \A o \in Exiting(n) : sc <= o
    <3>1. Exiting(n) \subseteq Nat /\ Exiting(n) \subseteq Node
      BY NAssumption DEF Exiting, Node
    <3>2. least \in Exiting(n) /\ \A o \in Exiting(n) : least <= o
      BY <2>2, <3>1, LeastNat
    <3>3. cur' = ParentScope(least, links)
      BY <2>2 DEF Advance, ScopeAfter
    <3> HIDE DEF least
    <3>4. least \in Around(n) /\ Last(least) = n /\ least \in Node
      BY <1>6, <3>1, <3>2
    <3>5. links[least] = {o \in Around(n) : o <= least}
      BY <1>4, <3>4, AroundFacts
    <3>6. links[least] \ {least} = Open'
      <4>1. ASSUME NEW o \in Around(n), o <= least, o # least PROVE n < Last(o)
        BY <1>1, <1>4, <1>6, <3>2, <3>4, <4>1
      <4>2. ASSUME NEW o \in Around(n), n < Last(o) PROVE o <= least /\ o # least
        <5>1. o # least
          BY <1>1, <3>4, <4>2
        <5>2. SUFFICES ASSUME least < o PROVE FALSE
          BY <1>1, <1>4, <3>4, <5>1
        <5>3. least \in Around(o)
          BY <1>1, <1>4, <3>4, <5>2, AroundFacts
        <5>4. Last(o) <= Last(least)
          BY <4>2, <5>3, AroundFacts
        <5> QED BY <1>1, <1>4, <3>4, <4>2, <5>4
      <4> QED BY <1>5, <3>5, <4>1, <4>2
    <3>7. Open' \subseteq Node
      BY <1>4, <1>5
    <3> QED BY <3>3, <3>4, <3>6, <3>7, ParentIsNext
  <2> QED BY <2>1, <2>2
<1> QED BY <1>2, <1>3, <1>7 DEF Scoped, Advance

LEMMA ScopedStep ==
  ASSUME Typed, InOrder, Scoped, [Next]_vars
  PROVE  Scoped'
<1>1. prog' = prog
  BY ProgRests
<1>2. ASSUME UNCHANGED <<pos, cur, chain>> PROVE Scoped'
  BY <1>1, <1>2 DEF Scoped, Open, OpOf, Around, Last
<1>3. ASSUME NEW n \in Node, Enter(n) PROVE Scoped'
  <2>1. CASE AbortWalk(n)
    BY <1>2, <2>1 DEF AbortWalk
  <2>2. CASE ~AbortWalk(n)
    <3>1. Walking /\ IsNext(n)
      BY <1>3, <2>2 DEF Enter, EnterScope, EnterOther, EnterDefine, EnterUseOrInvalidate
    <3>2. n = pos + 1 /\ pos \in Int /\ Open = Around(n) \ {n} /\ Visible = Open
      BY <3>1, NextIsInside, VisibleIsOpen DEF Typed, TypeOK
    <3>3. \A m \in Node : m \in Int /\ m <= Last(m)
      BY LastFacts
    <3>4. \A sc \in Node : sc # n => (sc <= n <=> sc <= pos)
      BY <3>2, <3>3
    <3>5. CASE EnterScope(n)
      <4>1. n \in Around(n)
        BY <3>3, <3>5, AroundFacts DEF EnterScope
      <4>2. Around(n) = {n} \cup Visible /\ \A o \in Around(n) : o <= n
        BY <3>2, <4>1, AroundFacts
      <4>3. chain \in [Node -> SUBSET Node]
        BY DEF Typed, TypeOK
      <4> DEFINE links == [chain EXCEPT ![n] = {n} \cup Visible]
      <4>4. \A sc \in Node : links[sc] = IF OpOf(sc) = "scope" /\ sc <= n THEN Around(sc) ELSE {}
        BY <3>3, <3>4, <3>5, <4>2, <4>3 DEF Scoped, EnterScope
      <4>5. Advance(n, n, links)
        BY <3>5 DEF EnterScope
      <4> HIDE DEF links
      <4> QED BY <1>1, <3>1, <4>1, <4>2, <4>4, <4>5, ScopedAdvance
    <3>6. CASE ~EnterScope(n)
      <4>1. Advance(n, cur, chain) /\ OpOf(n) # "scope"
        BY <1>3, <2>2, <3>6 DEF Enter, EnterOther, EnterDefine, EnterUseOrInvalidate
      <4>2. Around(n) = Open
        BY <3>2, <4>1, AroundFacts
      <4>3. \A sc \in Node : chain[sc] = IF OpOf(sc) = "scope" /\ sc <= n THEN Around(sc) ELSE {}
        BY <3>4, <4>1 DEF Scoped
      <4>4. IF Around(n) = {} THEN cur = 0
            ELSE cur \in Around(n) /\ \A o \in Around(n) : o <= cur
        BY <4>2 DEF Scoped
      <4> QED BY <1>1, <3>1, <4>1, <4>3, <4>4, ScopedAdvance
    <3> QED BY <3>5, <3>6
  <2> QED BY <2>1, <2>2
<1>4. CASE Fix \/ Finish
  BY <1>2, <1>4 DEF Fix, FixDefine, FixUse, FixInvalidate, GiveUp, AbortFix, Finish
<1>5. CASE Reanalyze
  <2>1. \A sc \in Node : ~(sc <= 0)
    BY NAssumption DEF Node
  <2> QED BY <1>1, <1>5, <2>1 DEF Reanalyze, Scoped, Open
<1>6. CASE UNCHANGED vars
  BY <1>2, <1>6 DEF vars
<1> QED BY <1>3, <1>4, <1>5, <1>6 DEF Next

(* Of the scopes around an IR, only the innermost is nobody's parent.       *)
LEMMA ContainerIsInnermost ==
  ASSUME Typed, InOrder, Scoped, pos = N, NEW n \in Node
  PROVE  Containers(n) = {sc \in Around(n) : \A o \in Around(n) : o <= sc}
<1>1. \A m \in Node : m \in Int /\ m \in Nat /\ m # 0 /\ m <= N
  BY NAssumption DEF Node
<1>2. Around(n) \subseteq Node
  BY DEF Around
<1>3. \A o \in Around(n) : chain[o] \ {o} = {x \in Around(n) : x < o}
  <2> SUFFICES ASSUME NEW o \in Around(n) PROVE chain[o] \ {o} = {x \in Around(n) : x < o}
    OBVIOUS
  <2>1. chain[o] = Around(o)
    BY <1>1, <1>2, AroundFacts DEF Scoped
  <2>2. Around(o) = {x \in Around(n) : x <= o}
    BY AroundFacts
  <2> QED BY <1>1, <1>2, <2>1, <2>2
<1>4. \A o \in Around(n) :
        LET S == {x \in Around(n) : x < o}
        IN  IF S = {} THEN ParentScope(o, chain) = 0
            ELSE ParentScope(o, chain) \in S /\ \A x \in S : x <= ParentScope(o, chain)
  BY <1>2, <1>3, ParentIsNext
<1>5. ASSUME NEW sc \in Around(n), \A o \in Around(n) : o <= sc
      PROVE  \A o \in Around(n) : ParentScope(o, chain) # sc
  <2> SUFFICES ASSUME NEW o \in Around(n), ParentScope(o, chain) = sc PROVE FALSE
    OBVIOUS
  <2>1. sc # 0
    BY <1>1, <1>2
  <2>2. sc < o
    BY <1>4, <2>1
  <2> QED BY <1>1, <1>2, <1>5, <2>2
<1>6. ASSUME NEW sc \in Around(n), NEW o \in Around(n), ~(o <= sc)
      PROVE  \E c \in Around(n) : ParentScope(c, chain) = sc
  <2> DEFINE U == {x \in Around(n) : sc < x}
  <2>1. U \subseteq Nat /\ U # {}
    BY <1>1, <1>2, <1>6
  <2>2. PICK c \in U : \A x \in U : c <= x
    <3> HIDE DEF U
    <3> QED BY <2>1, LeastNat
  <2> DEFINE S == {x \in Around(n) : x < c}
             up == ParentScope(c, chain)
  <2>3. sc \in S
    BY <2>2
  <2>4. up \in S /\ \A x \in S : x <= up
    BY <1>4, <2>2, <2>3
  <2>5. up \notin U
    BY <1>1, <1>2, <2>2, <2>4
  <2>6. up = sc
    BY <1>1, <1>2, <2>3, <2>4, <2>5
  <2> QED BY <2>2, <2>6
<1>7. Containers(n) = {sc \in Around(n) : \A o \in Around(n) : ParentScope(o, chain) # sc}
  BY DEF Containers, Around
<1> QED BY <1>5, <1>6, <1>7

(* How a marker comes about.                                                *)
LEMMA NewMarker ==
  ASSUME Facts, [Next]_vars, NEW s, NEW n, <<s, n>> \in on', <<s, n>> \notin on
  PROVE  /\ n \in Node /\ n \in Acting /\ Unlisted(n)
         /\ ~TypeUnknown(n) /\ prog.dep[n] \cap errors = {}
         /\ \/ /\ Walking /\ IsNext(n) /\ text' = text
               /\ IF OpOf(n) = "define"
                  THEN /\ cur # 0 /\ s.scope = DefineScope(n, cur)
                       /\ s.name = DefinedName(n) /\ s.type \in TypesOf(n)
                  ELSE s \in Targets(n) /\ NameAllowed(n, text[n])
            \/ /\ Fixing /\ n = Popped /\ text' = [text EXCEPT ![n] = s.name]
               /\ IF OpOf(n) = "define"
                  THEN /\ prog.src.names[n] = {}
                       /\ s.scope \in HomeScopes(n) /\ s.type \in TypesOf(n)
                  ELSE s \in Reachable(n)
<1>1. Typed
  BY DEF Facts
<1>2. ASSUME NEW m \in Node, Enter(m)
      PROVE  /\ m = n /\ Walking /\ IsNext(n) /\ text' = text
             /\ ~EmitError(n) /\ (EnterDefine(n) \/ EnterUseOrInvalidate(n))
  <2>1. EnterDefine(m) \/ EnterUseOrInvalidate(m)
    BY <1>2 DEF Enter, EnterScope, EnterOther, AbortWalk, tables
  <2>2. ~EmitError(m)
    BY DEF EmitError, tables
  <2>3. \E t : on' = on \cup {<<t, m>>}
    <3>1. CASE EnterDefine(m)
      BY <1>1, <2>2, <3>1, DefineAddsSymbol DEF Listed
    <3>2. CASE EnterUseOrInvalidate(m)
      BY <1>1, <2>2, <3>2, UseAppends DEF Listed, Facts
    <3> QED BY <2>1, <3>1, <3>2
  <2>4. m = n
    BY <2>3
  <2>5. Walking /\ IsNext(m) /\ text' = text
    BY <2>1 DEF EnterDefine, EnterUseOrInvalidate
  <2> QED BY <2>1, <2>2, <2>4, <2>5
<1>3. CASE \E m \in Node : Enter(m)
  <2>1. /\ n \in Node /\ Walking /\ IsNext(n) /\ text' = text
        /\ ~EmitError(n) /\ (EnterDefine(n) \/ EnterUseOrInvalidate(n))
    BY <1>2, <1>3
  <2>2. n \in Acting
    BY <2>1 DEF EnterDefine, EnterUseOrInvalidate, Acting, Annotated, OpOf, SymbolOp
  <2>3. Unlisted(n)
    <3>1. Rank(n) = pos /\ pos \in Int /\ ~(Rank(n) < pos)
      BY <1>1, <2>1 DEF IsNext, Typed, TypeOK
    <3> QED BY <2>1, <2>2, <3>1 DEF Facts, Accounted, Walking
  <2>4. CASE EnterDefine(n)
    <3>1. /\ OpOf(n) = "define" /\ DependencyResolved(n) /\ ~TypeUnknown(n) /\ cur # 0
          /\ \E t \in TypesOf(n) :
               Listed([scope |-> DefineScope(n, cur), name |-> DefinedName(n), type |-> t], n, {})
      BY <2>1, <2>4 DEF EnterDefine
    <3>2. PICK t \in TypesOf(n) :
               Listed([scope |-> DefineScope(n, cur), name |-> DefinedName(n), type |-> t], n, {})
      BY <3>1
    <3>3. s = [scope |-> DefineScope(n, cur), name |-> DefinedName(n), type |-> t]
      BY <3>2 DEF Listed
    <3> QED BY <2>1, <2>2, <2>3, <3>1, <3>3 DEF DependencyResolved
  <2>5. CASE EnterUseOrInvalidate(n)
    <3>1. OpOf(n) # "define" /\ Resolvable(n) /\ DependencyResolved(n) /\ ~TypeUnknown(n)
      BY <2>1, <2>5 DEF EnterUseOrInvalidate, Resolvable
    <3>2. PICK t \in Targets(n) : on' = on \cup {<<t, n>>}
      BY <1>1, <2>1, <2>5, UseAppends DEF Listed, Facts
    <3>3. s \in Targets(n)
      BY <3>2
    <3> QED BY <2>1, <2>2, <2>3, <3>1, <3>3 DEF DependencyResolved, Resolvable
  <2> QED BY <2>1, <2>4, <2>5
<1>4. CASE FixDefine \/ FixUse \/ FixInvalidate
  <2>1. Fixing /\ ~FixAborts(Popped)
    BY <1>4 DEF FixDefine, FixUse, FixInvalidate
  <2>2. /\ Popped \in errors /\ Popped \in Node /\ Popped \in Acting
        /\ \A m \in errors : Rank(Popped) <= Rank(m)
    BY <1>1, <2>1, FixingFacts
  <2>3. ~TypeUnknown(Popped)
    BY <2>1 DEF FixAborts
  <2>4. prog.dep[Popped] \cap errors = {}
    <3>1. \A d \in prog.dep[Popped] : d \in Node
      BY <1>1, <2>2, ProgramFacts DEF Typed, Program
    <3>2. \A d \in prog.dep[Popped] : Rank(d) < Rank(Popped) /\ Rank(d) \in Int
      BY <1>1, <2>2, <3>1, RankOrder, ProgramFacts, NAssumption DEF Typed
    <3>3. Rank(Popped) \in Int
      BY <1>1, <2>2, ProgramFacts, NAssumption DEF Typed
    <3> QED BY <2>2, <3>2, <3>3
  <2>5. Unlisted(Popped)
    BY <2>1, <2>2 DEF Facts, Accounted, Fixing
  <2>6. CASE FixDefine
    <3>1. PICK sc \in HomeScopes(Popped) : \E i \in FreshNames(sc), t \in TypesOf(Popped) :
            LET u == [scope |-> sc, name |-> i, type |-> t]
            IN  text' = [text EXCEPT ![Popped] = i] /\ Listed(u, Popped, {})
      BY <2>6 DEF FixDefine
    <3>2. PICK i \in FreshNames(sc), t \in TypesOf(Popped) :
            LET u == [scope |-> sc, name |-> i, type |-> t]
            IN  text' = [text EXCEPT ![Popped] = i] /\ Listed(u, Popped, {})
      BY <3>1
    <3>3. n = Popped /\ s = [scope |-> sc, name |-> i, type |-> t]
      BY <3>2 DEF Listed
    <3>4. OpOf(n) = "define" /\ prog.src.names[n] = {}
      BY <2>6, <3>3 DEF FixDefine
    <3> QED BY <2>1, <2>2, <2>3, <2>4, <2>5, <3>2, <3>3, <3>4
  <2>7. CASE FixUse \/ FixInvalidate
    <3>1. PICK u \in Available(Popped) : /\ text' = [text EXCEPT ![Popped] = u.name]
                                        /\ on' \subseteq on \cup {<<u, Popped>>}
      BY <2>7 DEF FixUse, FixInvalidate, Listed
    <3>2. n = Popped /\ s = u
      BY <3>1
    <3>3. OpOf(n) # "define"
      BY <2>7, <3>2 DEF FixUse, FixInvalidate
    <3> QED BY <2>1, <2>2, <2>3, <2>4, <2>5, <3>1, <3>2, <3>3 DEF Available
  <2> QED BY <1>4, <2>6, <2>7
<1>5. CASE GiveUp \/ AbortFix \/ Finish \/ Reanalyze \/ UNCHANGED vars
  BY <1>5 DEF GiveUp, AbortFix, Finish, Reanalyze, vars, tables
<1> QED BY <1>3, <1>4, <1>5 DEF Next, Fix

(* The scope a define writes to; a use and an invalidate refer to a symbol  *)
(* of a scope around them.                                                  *)
IsHome(n, sc) ==
  IF prog.src.into[n] # 0 THEN sc = prog.src.into[n]
  ELSE sc \in Around(n) /\ \A o \in Around(n) : o <= sc

InScope ==
  \A e \in on : IF OpOf(e[2]) = "define" THEN IsHome(e[2], e[1].scope)
               ELSE e[1].scope \in Around(e[2])

LEMMA InScopeStep ==
  ASSUME Facts, InOrder, Scoped, InScope, [Next]_vars, Facts'
  PROVE  InScope'
<1>1. prog' = prog
  BY ProgRests
<1>2. \A m, sc : Around(m)' = Around(m) /\ OpOf(m)' = OpOf(m) /\ (IsHome(m, sc)' <=> IsHome(m, sc))
  BY <1>1 DEF Around, OpOf, IsHome
<1>3. SUFFICES ASSUME NEW s, NEW n, <<s, n>> \in on'
               PROVE  IF OpOf(n) = "define" THEN IsHome(n, s.scope) ELSE s.scope \in Around(n)
  <2>1. \A e \in on' : e = <<e[1], e[2]>>
    BY DEF Facts, Typed, TypeOK
  <2> QED BY <1>2, <1>3, <2>1 DEF InScope
<1>4. CASE <<s, n>> \in on
  BY <1>4 DEF InScope
<1>5. CASE <<s, n>> \notin on
  <2>1. Typed /\ n \in Node /\ n \in Acting /\ OpOf(n) # "scope"
    <3>1. n \in Node /\ n \in Acting
      BY <1>3, <1>5, NewMarker
    <3> QED BY <3>1 DEF Facts, Acting, Annotated, OpOf, SymbolOp
  <2>2. CASE Walking
    <3>1. /\ IsNext(n)
          /\ IF OpOf(n) = "define" THEN cur # 0 /\ s.scope = DefineScope(n, cur)
             ELSE s \in Targets(n)
      BY <1>3, <1>5, <2>2, NewMarker, NAssumption DEF Walking, Fixing
    <3>2. Open = Around(n) /\ Visible = Around(n)
      BY <2>1, <2>2, <3>1, NextIsInside, VisibleIsOpen, AroundFacts
    <3>3. cur # 0 => cur \in Around(n) /\ \A o \in Around(n) : o <= cur
      BY <3>2 DEF Scoped
    <3> QED BY <3>1, <3>2, <3>3 DEF IsHome, DefineScope, Targets, Hits
  <2>3. CASE ~Walking
    <3>1. /\ pos = N
          /\ IF OpOf(n) = "define" THEN s.scope \in HomeScopes(n) ELSE s \in Reachable(n)
      BY <1>3, <1>5, <2>3, NewMarker DEF Fixing
    <3>2. Containers(n) = {sc \in Around(n) : \A o \in Around(n) : o <= sc}
      BY <2>1, <3>1, ContainerIsInnermost
    <3>3. CASE OpOf(n) = "define"
      BY <3>1, <3>2, <3>3 DEF HomeScopes, IsHome
    <3>4. CASE OpOf(n) # "define"
      <4>1. PICK sc \in Around(n) : s.scope \in chain[sc]
        BY <3>1, <3>2, <3>4 DEF Reachable
      <4>2. sc \in Node /\ chain[sc] \subseteq Around(sc)
        BY <2>1, <4>1, AroundFacts DEF Scoped
      <4> QED BY <2>1, <3>4, <4>1, <4>2, AroundFacts
    <3> QED BY <3>3, <3>4
  <2> QED BY <2>2, <2>3
<1> QED BY <1>4, <1>5

(* Where the lists stand, and where the markers belong, from the start.     *)
Places == LegitLists /\ Scoped /\ InScope

LEMMA PlacesAlways == Spec /\ InOrder => []Places
<1>1. Init => Scoped /\ InScope
  <2>1. \A sc \in Node : ~(sc <= 0)
    BY NAssumption DEF Node
  <2> QED BY <2>1 DEF Init, Reset, Scoped, Open, InScope
<1>2. LegitLists /\ LegitLists' /\ Scoped /\ InScope /\ [Next]_vars => Scoped' /\ InScope'
  BY ScopedStep, InScopeStep DEF LegitLists, Facts
<1> QED BY <1>1, <1>2, ListsAlways, PTL DEF Places, Spec

-----------------------------------------------------------------------------
(***************************************************************************)
(* Markers and the text.                                                    *)
(***************************************************************************)
Outermost(d) == {sc \in Around(d) : \A o \in Around(d) : Rank(sc) <= Rank(o)}

(* The programs for which GetSymbolAssociateWithIR, once it finds a scope   *)
(* for an IR, finds the same one ever after: those that are one scope, in   *)
(* whatever order, and those that are analysed in textual order.            *)
HoldersRest == InOrder \/ OpOf(1) = "scope"

LEMMA HolderIsOutermost ==
  ASSUME Typed, HoldersRest, NEW d \in Node, Rank(d) < pos
  PROVE  FirstHolder(d) = Outermost(d)
<1> DEFINE holds == {sc \in Node : Entered(sc) /\ sc <= d /\ (Exited(sc) => d <= Last(sc))}
<1>1. FirstHolder(d) = {sc \in holds : \A o \in holds : Rank(sc) <= Rank(o)}
  BY DEF FirstHolder
<1>2. /\ \A m \in Node : m \in Int /\ Rank(m) \in Int /\ Last(m) \in Node /\ m <= Last(m)
      /\ \A m, k \in Node : k \in Subtree(prog.src, m) <=> m <= k /\ k <= Last(m)
      /\ \A m \in Node : Subtree(prog.src, m) \subseteq Node
  <2>1. prog.src \in Source /\ IsTree(prog.src)
    BY ProgramFacts, ProgramsAssumption DEF Typed, Program, WellFormed
  <2> QED BY <2>1, LastFacts, ProgramFacts, NAssumption, SubtreeFacts DEF Last, Typed
<1>3. pos \in Int
  BY DEF Typed, TypeOK
<1>4. CASE InOrder
  <2>1. \A m, k \in Node : m <= k <=> Rank(m) <= Rank(k)
    BY <1>4, OrderFacts DEF Typed
  <2>2. ASSUME NEW sc \in Node, OpOf(sc) = "scope", sc <= d
        PROVE  sc \in holds <=> d <= Last(sc)
    <3>1. Rank(sc) < pos
      BY <1>2, <1>3, <2>1, <2>2
    <3>2. ~Exited(sc) => d <= Last(sc)
      <4>1. ASSUME NEW m \in Subtree(prog.src, sc), ~(Rank(m) < pos) PROVE d <= Last(sc)
        <5>1. m \in Node /\ m <= Last(sc)
          BY <1>2, <2>2
        <5>2. d <= m
          BY <1>2, <1>3, <2>1, <4>1, <5>1
        <5> QED BY <1>2, <5>1, <5>2
      <4> QED BY <4>1 DEF Exited
    <3> QED BY <2>2, <3>1, <3>2 DEF Entered
  <2>3. \A sc : sc \in holds <=> sc \in Around(d)
    BY <2>2, AroundFacts DEF Entered
  <2> QED BY <1>1, <2>3 DEF Outermost
<1>5. CASE OpOf(1) = "scope"
  <2>1. 1 \in Node /\ N \in Node /\ Last(1) = N /\ \A m \in Node : 1 <= m /\ m <= N
    BY ProgramsAssumption, NAssumption DEF Typed, WellFormed, IsTree, Last, Node
  <2>2. \A m \in Node \ {1} : Rank(1) < Rank(m)
    <3>1. /\ prog.src \in Source /\ IsTree(prog.src) /\ NoSelfReach(prog.src)
          /\ prog.dep = Dependencies(prog.src) /\ IsTopoOrder(prog.rank, prog.dep)
          /\ prog.rank \in [Node -> Int]
      BY ProgramFacts, ProgramsAssumption, NAssumption DEF Typed, Program, WellFormed
    <3>2. \A m \in Node : m \in Subtree(prog.src, 1)
      BY <1>2, <2>1
    <3> QED BY <2>1, <3>1, <3>2, AncestorsFirst DEF Rank
  <2>3. 1 \in holds
    <3>1. Rank(1) < pos
      BY <1>2, <1>3, <2>1, <2>2
    <3> QED BY <1>5, <2>1, <3>1 DEF Entered
  <2>4. 1 \in Around(d)
    BY <1>5, <2>1, AroundFacts
  <2>5. holds \subseteq Node /\ Around(d) \subseteq Node
    BY DEF Around
  <2> HIDE DEF holds
  <2>6. ASSUME NEW S, S \subseteq Node, 1 \in S
        PROVE  {sc \in S : \A o \in S : Rank(sc) <= Rank(o)} = {1}
    <3>1. \A o \in S : Rank(1) <= Rank(o)
      BY <1>2, <2>2, <2>6
    <3>2. \A sc \in S : sc # 1 => ~(Rank(sc) <= Rank(1))
      BY <1>2, <2>2, <2>6
    <3> QED BY <2>6, <3>1, <3>2
  <2> QED BY <1>1, <2>3, <2>4, <2>5, <2>6 DEF Outermost
<1> QED BY <1>4, <1>5 DEF HoldersRest

(* The same as a state predicate, so that it can be used after a step.      *)
HoldersOutermost == \A d \in Node : Rank(d) < pos => FirstHolder(d) = Outermost(d)

LEMMA HoldersHold == Typed /\ HoldersRest => HoldersOutermost
BY HolderIsOutermost DEF HoldersOutermost

LEMMA HoldersHoldNext == Typed' /\ HoldersRest' => HoldersOutermost'
BY HoldersHold, PTL

(* What a type is computed from is a dependency.                            *)
LEMMA TypeReferences ==
  ASSUME Typed, NEW n \in Node
  PROVE  /\ \A i \in DOMAIN prog.src.of[n] :
              prog.src.of[n][i] = n \/ prog.src.of[n][i] \in prog.dep[n]
         /\ prog.src.copy[n] # 0 => prog.src.copy[n] = n \/ prog.src.copy[n] \in prog.dep[n]
         /\ prog.dep[n] \subseteq Node
<1>1. /\ prog.src \in Source /\ IsTree(prog.src)
      /\ prog.dep = Dependencies(prog.src)
  BY ProgramFacts, ProgramsAssumption DEF Typed, Program, WellFormed
<1>2. ASSUME NEW d \in References(prog.src, n), d \in Node PROVE d \in prog.dep[n]
  <2>1. n \in Subtree(prog.src, n) /\ d \in Subtree(prog.src, d) /\ d # n
    BY <1>1, <1>2, SubtreeFacts DEF References
  <2> QED BY <1>1, <1>2, <2>1 DEF Dependencies
<1>3. prog.src.copy[n] \in Node \cup {0}
  BY <1>1 DEF Source
<1>4. \A i \in DOMAIN prog.src.of[n] : prog.src.of[n][i] \in Node
  <2>1. prog.src.of[n] \in Seq(Node)
    BY <1>1 DEF Source
  <2> QED BY <2>1
<1>5. prog.dep[n] \subseteq Node
  BY ProgramFacts DEF Typed, Program
<1>6. ASSUME NEW i \in DOMAIN prog.src.of[n], prog.src.of[n][i] # n
      PROVE  prog.src.of[n][i] \in References(prog.src, n)
  BY <1>6 DEF References
<1>7. prog.src.copy[n] # 0 /\ prog.src.copy[n] # n => prog.src.copy[n] \in References(prog.src, n)
  BY DEF References
<1> QED BY <1>2, <1>3, <1>4, <1>5, <1>6, <1>7

(* A type rests as long as the texts and markers of the dependencies do.    *)
LEMMA TypesRest ==
  ASSUME Typed, Typed', prog' = prog, HoldersRest, NEW n \in Acting,
         NoSelfText(prog.src), prog.src.copy[n] # n,
         \A d \in prog.dep[n] : /\ Rank(d) < pos /\ Rank(d) < pos' /\ text'[d] = text[d]
                                /\ \A s : <<s, d>> \in on' <=> <<s, d>> \in on
  PROVE  TypesOf(n)' = TypesOf(n)
<1>1. n \in Node /\ \A m : Rank(m)' = Rank(m) /\ OpOf(m)' = OpOf(m)
      /\ Outermost(m)' = Outermost(m) /\ (HoldersRest' <=> HoldersRest)
  BY ProgramFacts DEF Typed, Rank, OpOf, Outermost, Around, HoldersRest, InOrder
<1>2. CASE prog.src.copy[n] = 0
  <2> DEFINE T(txt) == [base : prog.src.bases[n],
                        key : {[i \in DOMAIN prog.src.of[n] |-> txt[prog.src.of[n][i]]]}]
  <2>1. \A i \in DOMAIN prog.src.of[n] : prog.src.of[n][i] \in prog.dep[n]
    BY <1>1, TypeReferences DEF NoSelfText, Acting
  <2>2. [i \in DOMAIN prog.src.of[n] |-> text'[prog.src.of[n][i]]]
          = [i \in DOMAIN prog.src.of[n] |-> text[prog.src.of[n][i]]]
    BY <2>1
  <2>3. TypesOf(n)' = T(text') /\ TypesOf(n) = T(text)
    BY <1>2 DEF TypesOf
  <2> QED BY <2>2, <2>3
<1>3. CASE prog.src.copy[n] # 0
  <2>1. PICK d \in prog.dep[n] : d = prog.src.copy[n] /\ d \in Node
    BY <1>1, <1>3, TypeReferences
  <2>2. FirstHolder(d) = Outermost(d) /\ FirstHolder(d)' = Outermost(d)
    <3>1. FirstHolder(d) = Outermost(d)
      BY <2>1, HolderIsOutermost
    <3>2. Rank(d)' < pos' /\ HoldersRest'
      BY <1>1, <2>1
    <3>3. HoldersOutermost'
      BY <3>2, HoldersHoldNext
    <3>4. FirstHolder(d)' = Outermost(d)'
      BY <2>1, <3>2, <3>3 DEF HoldersOutermost
    <3> QED BY <1>1, <3>1, <3>4
  <2>3. \A s : <<s, d>> \in on => s \in tab /\ s \in tab'
    BY <2>1 DEF Typed, TypeOK
  <2>4. UsedAt(d)' = UsedAt(d)
    BY <1>1, <2>1, <2>2, <2>3 DEF UsedAt
  <2> QED BY <1>3, <2>1, <2>4 DEF TypesOf
<1> QED BY <1>2, <1>3

(* Only the terminal of the popped error is ever renamed.                   *)
LEMMA TextsRest ==
  ASSUME Facts, [Next]_vars, NEW d \in Node, d \notin errors
  PROVE  text'[d] = text[d]
<1>1. CASE text' = text
  BY <1>1
<1>2. ASSUME NEW x, text' = [text EXCEPT ![Popped] = x], Fixing PROVE text'[d] = text[d]
  BY <1>2, FixingFacts DEF Facts, Typed, TypeOK
<1>3. CASE FixDefine \/ FixUse \/ FixInvalidate
  BY <1>2, <1>3 DEF FixDefine, FixUse, FixInvalidate
<1> QED BY <1>1, <1>3 DEF Next, Enter, EnterScope, EnterOther, EnterDefine,
                         EnterUseOrInvalidate, AbortWalk, Fix, GiveUp, AbortFix,
                         Finish, Reanalyze, vars

(* The steps that matter to a marker happen within an analysis.             *)
LEMMA StepKinds ==
  ASSUME Facts, [Next]_vars
  PROVE  \/ on' = {} /\ errors' = {}
         \/ UNCHANGED <<prog, text, pos, tables>>
         \/ phase = "analyze" /\ phase' = "analyze" /\ pos <= pos'
<1>1. CASE UNCHANGED vars
  BY <1>1 DEF vars, tables
<1>2. CASE Finish \/ GiveUp \/ AbortFix \/ \E n \in Node : AbortWalk(n)
  BY <1>2 DEF Finish, GiveUp, AbortFix, AbortWalk
<1>3. CASE Reanalyze
  BY <1>3 DEF Reanalyze
<1>4. ASSUME NEW n \in Node, Enter(n), ~AbortWalk(n)
      PROVE  phase = "analyze" /\ phase' = "analyze" /\ pos <= pos'
  <2>1. Walking /\ phase' = phase /\ pos' = pos + 1
    BY <1>4 DEF Enter, EnterScope, EnterOther, EnterDefine, EnterUseOrInvalidate, Advance
  <2> QED BY <2>1 DEF Walking, Facts, Typed, TypeOK
<1>5. CASE FixDefine \/ FixUse \/ FixInvalidate
  <2>1. phase = "analyze" /\ phase' = "analyze" /\ pos' = pos
    BY <1>5, CascadeMarked DEF FixDefine, FixUse, FixInvalidate, Fixing
  <2> QED BY <2>1 DEF Facts, Typed, TypeOK
<1> QED BY <1>1, <1>2, <1>3, <1>4, <1>5 DEF Next, Fix

(* A node that is no error before and after a step keeps its marker, and    *)
(* gets no other one.                                                       *)
LEMMA MarkersRest ==
  ASSUME Facts, Facts', [Next]_vars, phase = "analyze", phase' = "analyze", pos <= pos',
         NEW d \in Node, Rank(d) < pos, d \notin errors, d \notin errors'
  PROVE  \A s : <<s, d>> \in on' <=> <<s, d>> \in on
<1>1. prog' = prog /\ Acting' = Acting /\ Rank(d)' = Rank(d) /\ Rank(d) < pos'
  BY ProgRests, ProgramFacts, NAssumption DEF Acting, Rank, Facts, Typed, TypeOK
<1>2. CASE d \notin Acting
  BY <1>1, <1>2 DEF Facts, MarkersOfActing
<1>3. CASE d \in Acting
  <2>1. ListedOnce(d) /\ ListedOnce(d)'
    BY <1>1, <1>3 DEF Facts, Accounted
  <2>2. ~Unlisted(d)
    BY <2>1 DEF ListedOnce, Unlisted
  <2>3. \A s : <<s, d>> \in on' => <<s, d>> \in on
    BY <2>2, NewMarker
  <2>4. \A s : <<s, d>> \in on => s \in tab
    BY DEF Facts, Typed, TypeOK
  <2>5. PICK t : <<t, d>> \in on'
    BY <2>1 DEF ListedOnce
  <2> QED BY <2>1, <2>3, <2>4, <2>5 DEF ListedOnce
<1> QED BY <1>2, <1>3

(* ... and no type embeds the text of its own node, which a fix changes     *)
(* after it has resolved the type.                                          *)
Steady == HoldersRest /\ NoSelfText(prog.src)

LEMMA SteadyStep == Steady /\ [Next]_vars => Steady'
BY ProgRests DEF Steady, HoldersRest, InOrder, OpOf

(* What a marker of n in the list of s says. A node that has one does not   *)
(* copy its own type.                                                       *)
Meaning(s, n) ==
  /\ IF OpOf(n) = "define"
     THEN s.name = DefinedName(n) /\ s.type \in TypesOf(n)
     ELSE s.name = text[n] /\ NameAllowed(n, s.name) /\ TypeFits(n, s.type)
  /\ prog.src.copy[n] # n

LEMMA MeaningStep ==
  ASSUME Facts, Facts', Steady, [Next]_vars,
         phase = "analyze", phase' = "analyze", pos <= pos',
         \A s, n : <<s, n>> \in on => Meaning(s, n),
         NEW s, NEW n, <<s, n>> \in on'
  PROVE  Meaning(s, n)'
<1>1. prog' = prog /\ Acting' = Acting /\ \A m : Rank(m)' = Rank(m) /\ OpOf(m)' = OpOf(m)
  BY ProgRests DEF Acting, Rank, OpOf
<1>2. /\ n \in Acting /\ n \in Node /\ n \notin errors' /\ Rank(n) < pos'
      /\ prog.dep[n] \cap errors' = {} /\ prog.dep[n] \subseteq Node
  <2>1. n \in Acting
    BY <1>1 DEF Facts, MarkersOfActing
  <2>2. n \in Node /\ prog.dep[n] \subseteq Node
    BY <2>1, ProgramFacts DEF Facts, Typed, Program
  <2>3. s \in tab'
    BY DEF Facts, Typed, TypeOK
  <2>4. n \notin errors' /\ Rank(n) < pos'
    BY <1>1, <2>1, <2>3 DEF Facts, Accounted, Unlisted
  <2>5. prog.dep[n] \cap errors' = {}
    BY <1>1, <2>1, <2>4 DEF Facts, Waiting
  <2> QED BY <2>1, <2>2, <2>4, <2>5
<1>3. /\ \A m \in Node : Rank(m) \in Int /\ Rank(m) < N
      /\ \A d \in prog.dep[n] : Rank(d) < Rank(n)
      /\ pos \in Int /\ pos' \in Int
  BY <1>2, ProgramFacts, RankOrder, NAssumption DEF Facts, Typed, TypeOK
<1>4. ASSUME prog.dep[n] \cap errors = {}, prog.src.copy[n] # n, Rank(n) <= pos
      PROVE  TypesOf(n)' = TypesOf(n)
  <2>1. ASSUME NEW d \in prog.dep[n]
        PROVE  /\ Rank(d) < pos /\ Rank(d) < pos' /\ text'[d] = text[d]
               /\ \A t : <<t, d>> \in on' <=> <<t, d>> \in on
    <3>1. d \in Node /\ Rank(d) < pos /\ Rank(d) < pos' /\ d \notin errors /\ d \notin errors'
      BY <1>2, <1>3, <1>4
    <3>2. text'[d] = text[d]
      BY <3>1, TextsRest
    <3>3. \A t : <<t, d>> \in on' <=> <<t, d>> \in on
      BY <3>1, MarkersRest
    <3> QED BY <3>1, <3>2, <3>3
  <2> QED BY <1>1, <1>2, <1>4, <2>1, TypesRest DEF Steady, Facts
<1>5. ASSUME TypesOf(n)' = TypesOf(n)
      PROVE  \A t : TypeFits(n, t)' <=> TypeFits(n, t)
  BY <1>1, <1>5 DEF TypeFits, AnyType
<1>6. \A x : (NameAllowed(n, x)' <=> NameAllowed(n, x))
  BY <1>1 DEF NameAllowed
<1>7. CASE <<s, n>> \in on
  <2>1. Meaning(s, n) /\ prog.src.copy[n] # n
    BY <1>7 DEF Meaning
  <2>2. s \in tab
    BY <1>7 DEF Facts, Typed, TypeOK
  <2>3. n \notin errors /\ Rank(n) < pos
    BY <1>2, <1>7, <2>2 DEF Facts, Accounted, Unlisted
  <2>4. prog.dep[n] \cap errors = {}
    BY <1>2, <2>3 DEF Facts, Waiting
  <2>5. TypesOf(n)' = TypesOf(n)
    BY <1>2, <1>3, <1>4, <2>1, <2>3, <2>4
  <2>6. text'[n] = text[n]
    BY <1>2, <2>3, TextsRest
  <2>7. DefinedName(n)' = DefinedName(n)
    BY <1>1, <2>6 DEF DefinedName
  <2> QED BY <1>1, <1>5, <1>6, <2>1, <2>5, <2>6, <2>7 DEF Meaning
<1>8. CASE <<s, n>> \notin on
  <2>1. /\ Unlisted(n) /\ ~TypeUnknown(n) /\ prog.dep[n] \cap errors = {}
        /\ \/ /\ Walking /\ IsNext(n) /\ text' = text
              /\ IF OpOf(n) = "define"
                 THEN s.name = DefinedName(n) /\ s.type \in TypesOf(n)
                 ELSE s \in Targets(n) /\ NameAllowed(n, text[n])
           \/ /\ Fixing /\ n = Popped /\ text' = [text EXCEPT ![n] = s.name]
              /\ IF OpOf(n) = "define"
                 THEN prog.src.names[n] = {} /\ s.type \in TypesOf(n)
                 ELSE s \in Reachable(n)
    BY <1>8, NewMarker
  <2>2. prog.src.copy[n] # n
    <3>1. SUFFICES ASSUME prog.src.copy[n] = n PROVE FALSE
      OBVIOUS
    <3>2. UsedAt(n) = {}
      BY <2>1 DEF UsedAt, Unlisted
    <3>3. n # 0
      BY <1>2, NAssumption DEF Node
    <3> QED BY <2>1, <3>1, <3>2, <3>3 DEF TypeUnknown, TypesOf
  <2>3. Rank(n) <= pos
    BY <1>2, <1>3, <2>1 DEF IsNext, Fixing
  <2>4. TypesOf(n)' = TypesOf(n)
    BY <1>4, <2>1, <2>2, <2>3
  <2>5. CASE Walking /\ text' = text
    <3>1. IF OpOf(n) = "define"
          THEN s.name = DefinedName(n) /\ s.type \in TypesOf(n)
          ELSE s.name = text[n] /\ NameAllowed(n, s.name) /\ TypeFits(n, s.type)
      <4>1. ~Fixing
        BY <1>3, <2>5, NAssumption DEF Walking, Fixing
      <4> QED BY <2>1, <4>1 DEF Targets, Hits
    <3>2. DefinedName(n)' = DefinedName(n)
      BY <1>1, <2>5 DEF DefinedName
    <3> QED BY <1>1, <1>5, <1>6, <2>2, <2>4, <2>5, <3>1, <3>2 DEF Meaning
  <2>6. CASE Fixing /\ text' = [text EXCEPT ![n] = s.name]
    <3>1. text'[n] = s.name
      BY <1>2, <2>6 DEF Facts, Typed, TypeOK
    <3>2. IF OpOf(n) = "define"
          THEN prog.src.names[n] = {} /\ s.type \in TypesOf(n)
          ELSE s \in Reachable(n)
      <4>1. ~Walking
        BY <1>3, <2>6, NAssumption DEF Walking, Fixing
      <4> QED BY <2>1, <4>1
    <3>3. CASE OpOf(n) = "define"
      <4>1. DefinedName(n)' = text'[n]
        BY <1>1, <3>2, <3>3 DEF DefinedName
      <4> QED BY <1>1, <2>2, <2>4, <3>1, <3>2, <3>3, <4>1 DEF Meaning
    <3>4. CASE OpOf(n) # "define"
      BY <1>1, <1>5, <1>6, <2>2, <2>4, <3>1, <3>2, <3>4 DEF Meaning, Reachable
    <3> QED BY <3>3, <3>4
  <2> QED BY <2>1, <2>5, <2>6
<1> QED BY <1>7, <1>8

Meant == \A s, n : <<s, n>> \in on => Meaning(s, n)

LEMMA MeantStep ==
  ASSUME Facts, Facts', Steady, Meant, [Next]_vars
  PROVE  Meant'
<1>1. CASE on' = {}
  BY <1>1 DEF Meant
<1>2. CASE UNCHANGED <<prog, text, pos, tables>>
  <2>1. prog' = prog /\ text' = text /\ pos' = pos /\ tab' = tab /\ on' = on
    BY <1>2 DEF tables
  <2>2. \A d : FirstHolder(d)' = FirstHolder(d)
    BY <2>1 DEF FirstHolder, Entered, Exited, OpOf, Rank, Last
  <2>3. \A d : UsedAt(d)' = UsedAt(d)
    BY <2>1, <2>2 DEF UsedAt, OpOf
  <2>4. \A n : TypesOf(n)' = TypesOf(n)
    BY <2>1, <2>3 DEF TypesOf
  <2>5. \A n, t : TypeFits(n, t)' <=> TypeFits(n, t)
    BY <2>1, <2>4 DEF TypeFits, AnyType
  <2>6. \A s, n : Meaning(s, n)' <=> Meaning(s, n)
    BY <2>1, <2>4, <2>5 DEF Meaning, OpOf, DefinedName, NameAllowed
  <2> QED BY <2>1, <2>6 DEF Meant
<1>3. CASE phase = "analyze" /\ phase' = "analyze" /\ pos <= pos'
  BY <1>3, MeaningStep DEF Meant
<1> QED BY <1>1, <1>2, <1>3, StepKinds

LEMMA MeantAlways == Spec /\ Steady => [](Facts /\ Steady /\ Meant)
<1>1. Init => Meant
  BY DEF Init, Reset, Meant
<1>2. Facts /\ Facts' /\ Steady /\ Meant /\ [Next]_vars => Steady' /\ Meant'
  BY SteadyStep, MeantStep
<1> QED BY <1>1, <1>2, FactsAlways, PTL DEF Spec

(* Every recorded marker means what the text says now, whatever the fixes   *)
(* have renamed since it was recorded.                                      *)
THEOREM MarkersNeverStale == Spec /\ Steady => []NothingStale
<1>1. Facts /\ Meant => NothingStale
  <2> SUFFICES ASSUME Facts, Meant, NEW e \in on
               PROVE  LET s == e[1]  n == e[2]
                      IN  IF OpOf(n) = "define"
                          THEN s.name = DefinedName(n) /\ s.type \in TypesOf(n)
                          ELSE s.name = text[n] /\ NameAllowed(n, s.name) /\ TypeFits(n, s.type)
    BY DEF NothingStale
  <2>1. Meaning(e[1], e[2])
    <3>1. e = <<e[1], e[2]>>
      BY DEF Facts, Typed, TypeOK
    <3> QED BY <3>1 DEF Meant
  <2> QED BY <2>1 DEF Meaning
<1> QED BY <1>1, MeantAlways, PTL

-----------------------------------------------------------------------------
(***************************************************************************)
(* Aborts.                                                                  *)
(***************************************************************************)
(* A type to copy is found, unless the annotation is to blame.              *)
LEMMA CopyFound ==
  ASSUME Places, NEW n \in Acting, TypeUnknown(n), DependencyResolved(n),
         phase = "analyze", Rank(n) <= pos
  PROVE  Misplaced(n)
<1> DEFINE d == prog.src.copy[n]
<1>1. Typed /\ HoldersRest /\ n \in Node
  BY ProgramFacts DEF Places, LegitLists, Facts, Typed, HoldersRest
<1>2. SUFFICES ASSUME OpOf(d) = "use", d # n, ~(Cardinality(Around(d)) > 1)
               PROVE  TypesOf(n) # {}
  BY DEF TypeUnknown, Misplaced
<1>3. d # 0 /\ d \in prog.dep[n] /\ d \in Node
  BY <1>1, <1>2, TypeReferences DEF TypeUnknown
<1>4. Rank(d) < pos /\ d \notin errors /\ d \in Acting
  <2>1. Rank(d) < Rank(n) /\ Rank(d) \in Int /\ Rank(n) \in Int /\ pos \in Int
    BY <1>1, <1>3, RankOrder, ProgramFacts, NAssumption DEF Typed, TypeOK
  <2>2. d \in Acting
    BY <1>2, <1>3 DEF Acting, Annotated, OpOf, SymbolOp
  <2> QED BY <1>3, <2>1, <2>2 DEF DependencyResolved
<1>5. PICK s \in tab : <<s, d>> \in on
  BY <1>4 DEF Places, LegitLists, Facts, Accounted, ListedOnce
<1>6. s.scope \in Around(d)
  BY <1>2, <1>5 DEF Places, InScope
<1>7. Outermost(d) = {s.scope}
  <2>1. Around(d) \subseteq Node /\ IsFiniteSet(Around(d))
    <3>1. IsFiniteSet(Node)
      BY FS_Interval, NAssumption DEF Node
    <3> QED BY <3>1, FS_Subset DEF Around
  <2>2. Cardinality(Around(d)) \in Nat /\ Cardinality(Around(d)) # 0
    BY <1>6, <2>1, FS_CardinalityType, FS_EmptySet
  <2>3. Cardinality(Around(d)) = 1
    BY <1>2, <2>2
  <2>4. PICK x : Around(d) = {x}
    BY <2>1, <2>3, FS_Singleton
  <2>5. Rank(s.scope) \in Int
    BY <1>1, <1>6, <2>1, ProgramFacts, NAssumption DEF Typed
  <2> QED BY <1>6, <2>4, <2>5 DEF Outermost
<1>8. s \in UsedAt(d)
  BY <1>1, <1>2, <1>3, <1>4, <1>5, <1>7, HolderIsOutermost DEF UsedAt
<1> QED BY <1>3, <1>8 DEF TypesOf

(* The scope a define names is known, and an IR in a scope has a home.      *)
LEMMA HomeFound ==
  ASSUME Places, NEW n \in Node, pos = N, Around(n) # {},
         prog.src.into[n] \in Around(n) \cup {0}
  PROVE  Cardinality(HomeScopes(n)) = 1
<1>1. /\ Typed /\ InOrder /\ Scoped
      /\ Around(n) \subseteq Node /\ \A m \in Node : m \in Int /\ m <= N /\ m # 0
  BY NAssumption DEF Places, LegitLists, Facts, Around, Node
<1>2. \E x : HomeScopes(n) = {x}
  <2>1. CASE OpOf(n) = "define" /\ prog.src.into[n] # 0
    <3> DEFINE sc == prog.src.into[n]
    <3>1. sc \in Around(n) /\ sc \in Node
      BY <1>1, <2>1
    <3>2. OpOf(sc) = "scope" /\ sc <= pos
      BY <1>1, <3>1, AroundFacts
    <3>3. sc \in chain[sc]
      <4>1. sc \in Around(sc)
        BY <1>1, <3>1, <3>2, LastFacts, AroundFacts
      <4> QED BY <1>1, <3>1, <3>2, <4>1 DEF Scoped
    <3>4. HomeScopes(n) = {sc}
      BY <2>1, <3>3 DEF HomeScopes, ScopeKnown
    <3> QED BY <3>4
  <2>2. CASE ~(OpOf(n) = "define" /\ prog.src.into[n] # 0)
    <3>1. HomeScopes(n) = {sc \in Around(n) : \A o \in Around(n) : o <= sc}
      BY <1>1, <2>2, ContainerIsInnermost DEF HomeScopes
    <3>2. PICK x \in Around(n) : \A o \in Around(n) : Rank(o) <= Rank(x)
      BY <1>1, ExtremeRanks DEF Typed
    <3>3. \A o \in Around(n) : o <= x
      BY <1>1, <3>2, OrderFacts DEF Typed
    <3>4. HomeScopes(n) = {x}
      BY <1>1, <3>1, <3>3
    <3> QED BY <3>4
  <2> QED BY <2>1, <2>2
<1> QED BY <1>2, FS_Singleton

(* The walk and the fixer abort because of an annotation that nothing can   *)
(* satisfy, and of no text and no order of fixes.                           *)
THEOREM AbortsDeserved == Spec /\ InOrder => AbortsAreDeserved
<1>1. Places /\ UniqueNames /\ [Next]_vars =>
        [ phase' = "fatal" =>
            \E n \in Acting : Misplaced(n) /\ (IF pos < N THEN IsNext(n) ELSE n = Popped) ]_vars
  <2> SUFFICES ASSUME Places, UniqueNames, Next, phase' = "fatal"
               PROVE  \E n \in Acting : Misplaced(n) /\ (IF pos < N THEN IsNext(n) ELSE n = Popped)
    OBVIOUS
  <2>1. Facts /\ Typed /\ InOrder /\ Scoped
    BY DEF Places, LegitLists, Facts
  <2>2. AbortFix \/ \E n \in Node : AbortWalk(n)
    <3>1. phase = "analyze" \/ phase = "fixed"
      BY DEF Next, Enter, EnterScope, EnterOther, EnterDefine, EnterUseOrInvalidate, AbortWalk,
             Fix, FixDefine, FixUse, FixInvalidate, GiveUp, AbortFix, Finish, Reanalyze,
             Walking, Fixing
    <3> QED BY <2>1, <3>1, CascadeMarked
            DEF Next, Enter, EnterScope, EnterOther, EnterDefine, EnterUseOrInvalidate,
                Fix, FixDefine, FixUse, GiveUp, Finish, Reanalyze
  <2>3. ASSUME NEW n \in Node, AbortWalk(n)
        PROVE  n \in Acting /\ Misplaced(n) /\ pos < N /\ IsNext(n)
    <3>1. /\ Walking /\ pos < N /\ IsNext(n) /\ DependencyResolved(n) /\ n \in Acting
          /\ phase = "analyze" /\ OpOf(n) # "scope"
      BY <2>3 DEF AbortWalk, Walking, WalkAborts, Acting, Annotated, OpOf, SymbolOp
    <3>2. Rank(n) <= pos
      BY <2>1, <3>1 DEF IsNext, Typed, TypeOK
    <3>3. CASE TypeUnknown(n)
      BY <3>1, <3>2, <3>3, CopyFound
    <3>4. Open = Around(n) /\ Visible = Around(n) /\ n = pos + 1
      <4>1. n \notin Around(n)
        BY <3>1 DEF Around
      <4> QED BY <2>1, <2>3, <3>1, <4>1, NextIsInside, VisibleIsOpen
    <3>5. CASE cur = 0
      <4>1. Around(n) = {}
        BY <3>4, <3>5, LastFacts, <2>1 DEF Scoped, Open
      <4> QED BY <3>1, <4>1 DEF Misplaced
    <3>6. CASE cur # 0 /\ ~ScopeKnown(DefineScope(n, cur))
      <4>1. cur \in Around(n)
        BY <3>4, <3>6 DEF Scoped, Places
      <4>2. ASSUME NEW sc \in Around(n) PROVE ScopeKnown(sc)
        <5>1. /\ sc \in Node /\ OpOf(sc) = "scope" /\ sc <= n /\ sc # n
              /\ \A m \in Node : m \in Int /\ m # 0 /\ m <= Last(m)
          BY <2>1, <2>3, <3>1, <4>2, AroundFacts, LastFacts
        <5>2. sc <= pos /\ sc \in Around(sc)
          BY <2>1, <2>3, <3>4, <5>1, AroundFacts DEF Typed, TypeOK
        <5> QED BY <2>1, <5>1, <5>2 DEF Scoped, ScopeKnown
      <4>3. prog.src.into[n] \notin Around(n) \cup {0}
        BY <3>6, <4>1, <4>2 DEF DefineScope
      <4> QED BY <3>1, <4>3 DEF Misplaced
    <3>7. ~Ambiguous(n)
      BY DEF Ambiguous, Hits, UniqueNames
    <3> QED BY <2>3, <3>1, <3>3, <3>5, <3>6, <3>7 DEF AbortWalk, WalkAborts
  <2>4. CASE AbortFix
    <3>1. Fixing /\ FixAborts(Popped) /\ ~(pos < N) /\ pos = N /\ phase = "analyze"
      BY <2>4, NAssumption DEF AbortFix, Fixing
    <3>a. PICK n \in Acting : n = Popped
      BY <2>1, <3>1, FixingFacts
    <3>2. n \in Node /\ Rank(n) <= pos /\ \A m \in errors : Rank(n) <= Rank(m)
      BY <2>1, <3>1, <3>a, FixingFacts, ProgramFacts, NAssumption DEF Typed
    <3>3. DependencyResolved(n)
      <4>1. \A d \in prog.dep[n] : d \in Node
        BY <2>1, <3>2, ProgramFacts DEF Typed, Program
      <4>2. \A d \in prog.dep[n] : ~(Rank(n) <= Rank(d))
        BY <2>1, <3>2, <4>1, RankOrder, ProgramFacts, NAssumption DEF Typed
      <4> QED BY <3>2, <4>2 DEF DependencyResolved
    <3>4. CASE TypeUnknown(n)
      BY <3>1, <3>a, <3>2, <3>3, <3>4, CopyFound
    <3>5. CASE Cardinality(HomeScopes(n)) # 1
      BY <3>1, <3>a, <3>2, <3>5, HomeFound DEF Misplaced
    <3> QED BY <3>1, <3>a, <3>4, <3>5 DEF FixAborts
  <2> QED BY <2>2, <2>3, <2>4
<1> QED BY <1>1, PlacesAlways, NamesAreUnique, PTL DEF AbortsAreDeserved, Spec

-----------------------------------------------------------------------------
(***************************************************************************)
(* The second analysis.                                                     *)
(***************************************************************************)
(* The programs whose fixes hold: those analysed in textual order, without  *)
(* scopes in scopes, in which a later symbol could hide the one a fix       *)
(* chose, and without a type that embeds the text of its own node.          *)
Plainly == InOrder /\ FlatScopes(prog.src) /\ NoSelfText(prog.src)

LEMMA PlainlyStep == Plainly /\ [Next]_vars => Plainly'
BY ProgRests DEF Plainly, InOrder

(* What the markers O that an analysis has left say of the text.            *)
TypeIn(O, s, n) ==
  LET d == prog.src.copy[n]  of == prog.src.of[n]
  IN  IF d # 0
      THEN \E u : /\ <<u, d>> \in O /\ OpOf(d) = "use"
                  /\ u.scope \in Outermost(d) /\ s.type = u.type
      ELSE s.type \in [base : prog.src.bases[n], key : {[i \in DOMAIN of |-> text[of[i]]]}]

Says(O, s, n) ==
  IF OpOf(n) = "define"
  THEN s.name = DefinedName(n) /\ TypeIn(O, s, n)
  ELSE /\ s.name = text[n] /\ NameAllowed(n, s.name)
       /\ AnyType(n) \/ TypeIn(O, s, n)
       /\ s.type \notin [base : prog.src.block[n], key : {<< >>}]

Complete(O) ==
  /\ \A n \in Acting : \E s : <<s, n>> \in O /\ \A t : <<t, n>> \in O => t = s
  /\ \A s, m, t, n : <<s, m>> \in O /\ <<t, n>> \in O /\ s.scope = t.scope /\ s.name = t.name
                      => s = t

Legal(O) ==
  /\ \A s, n : <<s, n>> \in O =>
        \E d \in Node : <<s, d>> \in O /\ OpOf(d) = "define" /\ Rank(d) <= Rank(n)
  /\ \A s, d, e : <<s, d>> \in O /\ <<s, e>> \in O /\ OpOf(d) = "define" /\ OpOf(e) = "define"
                   => d = e
  /\ \A s, i, m : <<s, i>> \in O /\ <<s, m>> \in O /\ OpOf(i) = "invalidate"
                   => Rank(m) <= Rank(i)

Right(O) ==
  \A s, n : <<s, n>> \in O =>
    /\ s \in Symbol /\ n \in Acting /\ prog.src.copy[n] # n
    /\ Says(O, s, n)
    /\ IF OpOf(n) = "define" THEN IsHome(n, s.scope) ELSE s.scope \in Around(n)

Final(O) == Complete(O) /\ Legal(O) /\ Right(O)

(* The second analysis repeats the first one: so far, it has found the same *)
(* markers, and only symbols that have a define.                            *)
Repeats(O) ==
  /\ \A s, n : <<s, n>> \in on <=> <<s, n>> \in O /\ Rank(n) < pos
  /\ \A s \in tab : \E d \in Node : OpOf(d) = "define" /\ <<s, d>> \in on

Replays ==
  /\ phase = "fixed" => errors = {} /\ pos = N
  /\ round = 2 => errors = {} /\ (phase = "analyze" => \E O : Final(O) /\ Repeats(O))

(* Text and program do not change any more.                                 *)
LEMMA FinalSame ==
  ASSUME prog' = prog, text' = text, NEW O, Final(O)
  PROVE  Final(O)'
<1>1. /\ Acting' = Acting
      /\ \A n : /\ OpOf(n)' = OpOf(n) /\ Rank(n)' = Rank(n) /\ Around(n)' = Around(n)
                 /\ DefinedName(n)' = DefinedName(n) /\ (AnyType(n)' <=> AnyType(n))
                 /\ Outermost(n)' = Outermost(n)
                 /\ \A x : (NameAllowed(n, x)' <=> NameAllowed(n, x)) /\ (IsHome(n, x)' <=> IsHome(n, x))
  BY DEF Acting, OpOf, Rank, Around, DefinedName, AnyType, Outermost, NameAllowed, IsHome
<1>2. \A s, n : TypeIn(O, s, n)' <=> TypeIn(O, s, n)
  BY <1>1 DEF TypeIn
<1>3. \A s, n : Says(O, s, n)' <=> Says(O, s, n)
  BY <1>1, <1>2 DEF Says
<1>4. Complete(O)'
  BY <1>1 DEF Complete, Final
<1>5. Legal(O)'
  BY <1>1 DEF Legal, Final
<1>6. Right(O)'
  BY <1>1, <1>3 DEF Right, Final
<1> QED BY <1>4, <1>5, <1>6 DEF Final

(* What a finished first analysis leaves.                                   *)
LEMMA FinishedIsFinal ==
  ASSUME Places, Meant, UniqueNames, phase = "fixed", errors = {}, pos = N
  PROVE  Final(on)
<1>1. /\ Typed /\ HoldersRest /\ Acting \subseteq Node
      /\ \A s, n : <<s, n>> \in on => s \in tab /\ s \in Symbol /\ n \in Acting /\ n \in Node
      /\ \A n \in Node : Rank(n) < pos
  <2>1. Typed /\ HoldersRest /\ MarkersOfActing
    BY DEF Places, LegitLists, Facts, HoldersRest
  <2> QED BY <2>1, ProgramFacts, NAssumption DEF Typed, TypeOK, MarkersOfActing
<1>2. Complete(on)
  <2>1. \A n \in Acting : ListedOnce(n)
    BY <1>1 DEF Places, LegitLists, Facts, Accounted
  <2> QED BY <1>1, <2>1 DEF Complete, ListedOnce, UniqueNames
<1>3. Legal(on)
  <2>1. \A s, n : <<s, n>> \in on => n \in On(s) /\ Sequenced(s)
    BY <1>1 DEF On, Places, LegitLists, AllSequenced
  <2>2. ASSUME NEW s, NEW n, <<s, n>> \in on
        PROVE  \E d \in Node : <<s, d>> \in on /\ Starts(s, d)
    BY <2>1, <2>2 DEF Sequenced, On
  <2>3. ASSUME NEW s, NEW n, <<s, n>> \in on
        PROVE  \E d \in Node : <<s, d>> \in on /\ OpOf(d) = "define" /\ Rank(d) <= Rank(n)
    BY <2>1, <2>2, <2>3 DEF Starts
  <2>4. ASSUME NEW s, NEW d, NEW e, <<s, d>> \in on, <<s, e>> \in on,
               OpOf(d) = "define", OpOf(e) = "define"
        PROVE  d = e
    <3>1. PICK x \in Node : Starts(s, x)
      BY <2>2, <2>4
    <3>2. d \in On(s) /\ e \in On(s)
      BY <2>1, <2>4
    <3> QED BY <2>4, <3>1, <3>2 DEF Starts
  <2>5. ASSUME NEW s, NEW i, NEW m, <<s, i>> \in on, <<s, m>> \in on, OpOf(i) = "invalidate"
        PROVE  Rank(m) <= Rank(i)
    BY <2>1, <2>5 DEF Sequenced
  <2> QED BY <2>3, <2>4, <2>5 DEF Legal
<1>4. Right(on)
  <2> SUFFICES ASSUME NEW s, NEW n, <<s, n>> \in on
               PROVE  /\ s \in Symbol /\ n \in Acting /\ prog.src.copy[n] # n
                      /\ Says(on, s, n)
                      /\ IF OpOf(n) = "define" THEN IsHome(n, s.scope) ELSE s.scope \in Around(n)
    BY DEF Right
  <2>1. Meaning(s, n) /\ n \in Node
    BY <1>1 DEF Meant
  <2>2. ASSUME s.type \in TypesOf(n) PROVE TypeIn(on, s, n)
    <3>1. CASE prog.src.copy[n] = 0
      BY <2>2, <3>1 DEF TypesOf, TypeIn
    <3>2. CASE prog.src.copy[n] # 0
      <4> DEFINE d == prog.src.copy[n]
      <4>1. d \in Node
        BY <1>1, <2>1, <3>2, TypeReferences
      <4>2. FirstHolder(d) = Outermost(d)
        BY <1>1, <4>1, HolderIsOutermost
      <4>3. PICK u \in UsedAt(d) : s.type = u.type
        BY <2>2, <3>2 DEF TypesOf
      <4> QED BY <3>2, <4>2, <4>3 DEF UsedAt, TypeIn
    <3> QED BY <3>1, <3>2
  <2>3. Says(on, s, n)
    BY <2>1, <2>2 DEF Meaning, Says, TypeFits
  <2>4. IF OpOf(n) = "define" THEN IsHome(n, s.scope) ELSE s.scope \in Around(n)
    BY DEF Places, InScope
  <2> QED BY <1>1, <2>1, <2>3, <2>4 DEF Meaning
<1> QED BY <1>2, <1>3, <1>4 DEF Final

(* The type that is resolved again is the one it was.                       *)
LEMMA TypeAgain ==
  ASSUME Facts, HoldersRest, NEW O, Final(O), Repeats(O),
         NEW s, NEW n, <<s, n>> \in O, Rank(n) = pos
  PROVE  /\ TypeIn(O, s, n) => s.type \in TypesOf(n)
         /\ OpOf(n) = "define" => \A t \in TypesOf(n) : t = s.type
<1>1. Typed /\ n \in Acting /\ n \in Node /\ prog.src.copy[n] # n /\ Says(O, s, n)
  BY ProgramFacts DEF Facts, Typed, Final, Right
<1>2. CASE prog.src.copy[n] = 0
  <2> DEFINE k == [i \in DOMAIN prog.src.of[n] |-> text[prog.src.of[n][i]]]
  <2>1. TypesOf(n) = [base : prog.src.bases[n], key : {k}]
        /\ (TypeIn(O, s, n) <=> s.type \in TypesOf(n))
    BY <1>2 DEF TypesOf, TypeIn
  <2>2. ASSUME OpOf(n) = "define", NEW t \in TypesOf(n) PROVE t = s.type
    <3>1. \A a, b \in prog.src.bases[n] : a = b
      BY <1>1, <2>2, ProgramsAssumption DEF Typed, WellFormed, OpOf
    <3>2. s.type \in TypesOf(n)
      BY <1>1, <2>1, <2>2 DEF Says
    <3> HIDE DEF k
    <3> QED BY <2>1, <3>1, <3>2
  <2> QED BY <2>1, <2>2
<1>3. CASE prog.src.copy[n] # 0
  <2> DEFINE d == prog.src.copy[n]
  <2>1. d \in prog.dep[n] /\ d \in Node
    BY <1>1, <1>3, TypeReferences
  <2>2. Rank(d) < pos
    BY <1>1, <2>1, RankOrder DEF Typed
  <2>3. FirstHolder(d) = Outermost(d) /\ TypesOf(n) = {u.type : u \in UsedAt(d)}
    BY <1>1, <1>3, <2>1, <2>2, HolderIsOutermost DEF TypesOf
  <2>4. \A u : <<u, d>> \in O <=> <<u, d>> \in on
    BY <2>2 DEF Repeats
  <2>5. TypeIn(O, s, n) => s.type \in TypesOf(n)
    <3>1. \A u : <<u, d>> \in on => u \in tab
      BY <1>1 DEF Typed, TypeOK
    <3> QED BY <1>3, <2>3, <2>4, <3>1 DEF TypeIn, UsedAt
  <2>6. ASSUME OpOf(n) = "define", NEW t \in TypesOf(n) PROVE t = s.type
    <3>1. PICK v \in UsedAt(d) : t = v.type
      BY <2>3
    <3>2. PICK u : <<u, d>> \in O /\ s.type = u.type
      BY <1>1, <1>3, <2>6 DEF Says, TypeIn
    <3>3. <<v, d>> \in O /\ d \in Acting
      BY <2>4, <3>1, <3>2 DEF UsedAt, Final, Right
    <3>4. u = v
      BY <3>2, <3>3 DEF Final, Complete
    <3> QED BY <3>1, <3>2, <3>4
  <2> QED BY <2>5, <2>6
<1> QED BY <1>2, <1>3

(* A define is recorded again.                                              *)
LEMMA DefineAgain ==
  ASSUME Places, NEW O, Final(O), Repeats(O), errors = {},
         NEW n \in Node, EnterDefine(n)
  PROVE  \E s : /\ <<s, n>> \in O /\ on' = on \cup {<<s, n>>} /\ tab' = tab \cup {s}
               /\ errors' = errors
<1>1. /\ Facts /\ Typed /\ HoldersRest /\ InOrder /\ Scoped /\ Walking /\ IsNext(n)
      /\ OpOf(n) = "define" /\ n \in Acting /\ Rank(n) = pos
  BY DEF Places, LegitLists, Facts, HoldersRest, EnterDefine, IsNext, Acting, Annotated, OpOf, SymbolOp
<1>2. PICK s : <<s, n>> \in O
  BY <1>1 DEF Final, Complete
<1>3. /\ s \in Symbol /\ s.name = DefinedName(n) /\ TypeIn(O, s, n) /\ IsHome(n, s.scope)
  BY <1>1, <1>2 DEF Final, Right, Says
<1>4. DependencyResolved(n)
  BY DEF DependencyResolved
<1> DEFINE sc == DefineScope(n, cur)
<1>5. cur # 0 /\ (NameTaken(sc, DefinedName(n)) => EmitError(n))
      /\ (~NameTaken(sc, DefinedName(n)) =>
            \E t \in TypesOf(n) :
              LET u == [scope |-> sc, name |-> DefinedName(n), type |-> t]
              IN  tab' = tab \cup {u} /\ Listed(u, n, {}) /\ UNCHANGED errors)
  BY <1>4 DEF EnterDefine
<1>6. sc = s.scope
  <2>1. Open = Around(n) /\ Around(n) \subseteq Node
    <3>1. n \notin Around(n)
      BY <1>1 DEF Around
    <3> QED BY <1>1, <3>1, NextIsInside DEF Around
  <2>2. cur \in Around(n) /\ \A o \in Around(n) : o <= cur
    BY <1>1, <1>5, <2>1 DEF Scoped
  <2>3. \A m \in Node : m \in Int
    BY <1>1, LastFacts
  <2> QED BY <1>3, <2>1, <2>2, <2>3 DEF IsHome, DefineScope
<1>7. ~NameTaken(sc, DefinedName(n))
  <2> SUFFICES ASSUME NEW u \in tab, u.scope = sc, u.name = DefinedName(n) PROVE FALSE
    BY DEF NameTaken
  <2>1. PICK d \in Node : OpOf(d) = "define" /\ <<u, d>> \in on
    BY DEF Repeats
  <2>2. <<u, d>> \in O /\ Rank(d) < pos
    BY <2>1 DEF Repeats
  <2>3. u = s
    BY <1>2, <1>3, <1>6, <2>2 DEF Final, Complete
  <2>4. d = n
    BY <1>1, <1>2, <2>1, <2>2, <2>3 DEF Final, Legal
  <2> QED BY <1>1, <2>2, <2>4 DEF Typed, TypeOK
<1>8. PICK t \in TypesOf(n) :
        LET u == [scope |-> sc, name |-> DefinedName(n), type |-> t]
        IN  tab' = tab \cup {u} /\ Listed(u, n, {}) /\ UNCHANGED errors
  BY <1>5, <1>7
<1>9. s = [scope |-> sc, name |-> DefinedName(n), type |-> t]
  <2>1. t = s.type
    BY <1>1, <1>2, TypeAgain
  <2> HIDE DEF sc
  <2> QED BY <1>3, <1>6, <2>1 DEF Symbol
<1> QED BY <1>2, <1>8, <1>9 DEF Listed

(* A use or an invalidate finds the symbol it had, and only that one.       *)
LEMMA UseAgain ==
  ASSUME Places, FlatScopes(prog.src), NEW O, Final(O), Repeats(O), errors = {},
         NEW n \in Node, EnterUseOrInvalidate(n)
  PROVE  \E s \in tab : /\ <<s, n>> \in O /\ on' = on \cup {<<s, n>>}
                       /\ tab' = tab /\ errors' = errors
<1>1. /\ Facts /\ Typed /\ HoldersRest /\ InOrder /\ Scoped /\ Walked /\ Walking /\ IsNext(n)
      /\ OpOf(n) \in {"use", "invalidate"} /\ n \in Acting /\ Rank(n) = pos /\ pos \in Int
  BY DEF Places, LegitLists, Facts, Typed, TypeOK, HoldersRest, EnterUseOrInvalidate, IsNext,
         Acting, Annotated, OpOf, SymbolOp
<1>2. PICK s : <<s, n>> \in O
  BY <1>1 DEF Final, Complete
<1>3. /\ s \in Symbol /\ s.name = text[n] /\ NameAllowed(n, s.name)
      /\ (AnyType(n) \/ TypeIn(O, s, n))
      /\ s.type \notin [base : prog.src.block[n], key : {<< >>}] /\ s.scope \in Around(n)
  BY <1>1, <1>2 DEF Final, Right, Says
<1>4. PICK d \in Node : <<s, d>> \in on /\ OpOf(d) = "define"
  <2>1. PICK d \in Node : <<s, d>> \in O /\ OpOf(d) = "define" /\ Rank(d) <= Rank(n)
    BY <1>2 DEF Final, Legal
  <2>2. Rank(d) < pos
    <3>1. d # n
      BY <1>1, <2>1
    <3>2. Rank(d) # Rank(n) /\ Rank(d) \in Int
      BY <1>1, <3>1, RankOrder, ProgramFacts, NAssumption DEF Typed
    <3> QED BY <1>1, <2>1, <3>2
  <2> QED BY <2>1, <2>2 DEF Repeats
<1>5. s \in tab
  BY <1>1, <1>4 DEF Typed, TypeOK
<1>6. Visible = Around(n)
  <2>1. n \notin Around(n)
    BY <1>1 DEF Around
  <2> QED BY <1>1, <2>1, NextIsInside, VisibleIsOpen
<1>7. s \in Hits(n)
  BY <1>1, <1>2, <1>3, <1>5, <1>6, TypeAgain DEF Hits, TypeFits
<1>8. Usable(n, s)
  <2>1. ASSUME NEW i \in On(s), OpOf(i) = "invalidate" PROVE FALSE
    <3>1. <<s, i>> \in O /\ Rank(i) < pos
      BY <2>1 DEF On, Repeats
    <3>2. Rank(n) <= Rank(i)
      BY <1>2, <2>1, <3>1 DEF Final, Legal
    <3>3. Rank(i) \in Int
      BY <1>1, ProgramFacts, NAssumption DEF On, Typed
    <3> QED BY <1>1, <3>1, <3>2, <3>3
  <2> QED BY <1>4, <2>1 DEF Usable, Live, EndsWithInvalidate, On
<1>9. \A u \in Hits(n) : u = s
  <2> SUFFICES ASSUME NEW u \in Hits(n) PROVE u = s
    OBVIOUS
  <2>1. u \in tab /\ u.name = s.name /\ u.scope \in Around(n)
    BY <1>3, <1>6 DEF Hits
  <2>2. \A a, b \in Around(n) : a = b
    <3>1. ASSUME NEW a \in Around(n), NEW b \in Around(n), a <= b PROVE a = b
      <4>1. a \in Around(b)
        BY <1>1, <3>1, AroundFacts
      <4> QED BY <3>1, <4>1 DEF Around, FlatScopes, OpOf
    <3>2. \A a \in Around(n) : a \in Int
      BY <1>1, LastFacts DEF Around
    <3> QED BY <3>1, <3>2
  <2>3. PICK e \in Node : <<u, e>> \in O
    BY <2>1 DEF Repeats
  <2> QED BY <1>2, <1>3, <2>1, <2>2, <2>3 DEF Final, Complete
<1>10. s \in Targets(n) /\ \A u \in Targets(n) : u = s
  <2>1. Rank(s.scope) <= Rank(s.scope)
    BY <1>1, <1>3, ProgramFacts, NAssumption DEF Symbol, Typed
  <2> QED BY <1>7, <1>8, <1>9, <2>1 DEF Targets
<1>11. Resolvable(n)
  BY <1>3, <1>10 DEF Resolvable, DependencyResolved
<1>12. ~EmitError(n)
  BY <1>11 DEF EnterUseOrInvalidate, EmitError
<1>13. PICK u \in tab : Listed(u, n, On(u)) /\ UNCHANGED <<tab, errors>> /\ u \in Targets(n)
  BY <1>1, <1>12, UseAppends
<1> QED BY <1>2, <1>10, <1>13 DEF Listed

LEMMA ReplaysStep ==
  ASSUME Places, Plainly, Meant, UniqueNames, Replays, [Next]_vars
  PROVE  Replays'
<1>1. prog' = prog /\ Typed /\ Facts
  BY ProgRests DEF Places, LegitLists, Facts
<1>2. CASE UNCHANGED vars
  <2>1. phase' = phase /\ round' = round /\ errors' = errors /\ pos' = pos /\ text' = text
        /\ on' = on /\ tab' = tab
    BY <1>2 DEF vars
  <2>2. \A O : Final(O) /\ Repeats(O) => Final(O)' /\ Repeats(O)'
    BY <1>1, <2>1, FinalSame DEF Repeats, Rank, OpOf
  <2> QED BY <2>1, <2>2 DEF Replays
<1>3. ASSUME NEW n \in Node, Enter(n) PROVE Replays'
  <2>1. Walking /\ IsNext(n) /\ round' = round /\ text' = text /\ phase = "analyze"
    BY <1>3 DEF Enter, EnterScope, EnterOther, EnterDefine, EnterUseOrInvalidate, AbortWalk, Walking
  <2>2. CASE AbortWalk(n)
    BY <2>1, <2>2 DEF AbortWalk, Replays
  <2>3. ASSUME ~AbortWalk(n), round = 2
        PROVE  errors' = {} /\ \E O : Final(O)' /\ Repeats(O)'
    <3>1. PICK O : Final(O) /\ Repeats(O)
      BY <2>1, <2>3 DEF Replays
    <3>2. errors = {} /\ pos' = pos + 1 /\ pos \in Int /\ Rank(n) = pos
      BY <1>1, <1>3, <2>1, <2>3
      DEF Enter, EnterScope, EnterOther, EnterDefine, EnterUseOrInvalidate, Advance, Replays,
          Typed, TypeOK, IsNext
    <3>3. Final(O)'
      BY <1>1, <2>1, <3>1, FinalSame
    <3>4. \A s, m : <<s, m>> \in O => m \in Node /\ Rank(m) \in Int
      BY <1>1, <3>1, ProgramFacts, NAssumption DEF Final, Right, Typed
    <3>5. \A m \in Node : Rank(m) \in Int => (Rank(m) < pos' <=> Rank(m) < pos \/ m = n)
      <4>1. \A m \in Node : Rank(m) = Rank(n) => m = n
        BY <1>1, <1>3, RankOrder DEF Typed, TypeOK
      <4> QED BY <3>2, <4>1
    <3>6. \A m : Rank(m)' = Rank(m) /\ OpOf(m)' = OpOf(m)
      BY <1>1 DEF Rank, OpOf
    <3>7. CASE EnterScope(n) \/ EnterOther(n)
      <4>1. on' = on /\ tab' = tab /\ errors' = errors /\ n \notin Acting
        BY <3>7 DEF EnterScope, EnterOther, tables, Acting, Annotated, OpOf, SymbolOp
      <4>2. \A s : <<s, n>> \notin O
        BY <3>1, <4>1 DEF Final, Right
      <4>3. Repeats(O)'
        BY <3>1, <3>4, <3>5, <3>6, <4>1, <4>2 DEF Repeats
      <4> QED BY <3>2, <3>3, <4>1, <4>3
    <3>8. ASSUME NEW s, <<s, n>> \in O, on' = on \cup {<<s, n>>}, tab' = tab \cup {s},
                 OpOf(n) = "define" \/ s \in tab
          PROVE  Repeats(O)'
      <4>1. \A t, m : <<t, m>> \in O /\ m = n => t = s
        BY <3>1, <3>8 DEF Final, Complete, Right
      <4>2. \A t, m : <<t, m>> \in on' <=> <<t, m>> \in O /\ Rank(m) < pos'
        BY <3>1, <3>4, <3>5, <3>8, <4>1 DEF Repeats
      <4>3. \A t \in tab' : \E d \in Node : OpOf(d) = "define" /\ <<t, d>> \in on'
        BY <3>1, <3>8 DEF Repeats
      <4> QED BY <3>6, <4>2, <4>3 DEF Repeats
    <3>9. CASE EnterDefine(n)
      <4>1. OpOf(n) = "define"
        BY <3>9 DEF EnterDefine
      <4> QED BY <3>1, <3>2, <3>3, <3>8, <3>9, <4>1, DefineAgain
    <3>10. CASE EnterUseOrInvalidate(n)
      <4>1. PICK s \in tab : /\ <<s, n>> \in O /\ on' = on \cup {<<s, n>>}
                           /\ tab' = tab /\ errors' = errors
        BY <3>1, <3>2, <3>10, UseAgain DEF Plainly
      <4>2. tab' = tab \cup {s}
        BY <4>1
      <4> QED BY <3>2, <3>3, <3>8, <4>1, <4>2
    <3> QED BY <1>3, <2>3, <3>7, <3>9, <3>10 DEF Enter
  <2>4. ~AbortWalk(n) => phase' = "analyze"
    BY <1>3 DEF Enter, EnterScope, EnterOther, EnterDefine, EnterUseOrInvalidate, Walking
  <2> QED BY <2>1, <2>2, <2>3, <2>4 DEF Replays
<1>4. CASE Fix
  <2>1. errors # {} /\ phase = "analyze" /\ round' = round /\ phase' # "fixed"
    BY <1>4 DEF Fix, FixDefine, FixUse, FixInvalidate, GiveUp, AbortFix, Fixing
  <2> QED BY <2>1 DEF Replays
<1>5. CASE Finish
  BY <1>5 DEF Finish, Replays
<1>6. CASE Reanalyze
  <2>1. phase = "fixed" /\ errors = {} /\ pos = N
    BY <1>6 DEF Reanalyze, Replays
  <2>2. PICK O : O = on
    OBVIOUS
  <2>3. Final(O)
    BY <2>1, <2>2, FinishedIsFinal
  <2>4. Final(O)'
    BY <1>1, <1>6, <2>3, FinalSame DEF Reanalyze
  <2>5. Repeats(O)'
    <3>1. \A s, n : <<s, n>> \in O => ~(Rank(n)' < 0)
      BY <1>1, <2>3, ProgramFacts, NAssumption DEF Final, Right, Typed, Rank
    <3> QED BY <1>6, <3>1 DEF Reanalyze, Repeats
  <2> QED BY <1>6, <2>4, <2>5 DEF Reanalyze, Replays
<1> QED BY <1>2, <1>3, <1>4, <1>5, <1>6 DEF Next

(* What FixUnresolvedErrors reports as fixed stays fixed: the next analysis *)
(* of the new text finds the same symbols again and has no complaint.       *)
THEOREM FixesHold == Spec /\ Plainly => []FixedIsClean
<1>1. Init => Replays
  BY DEF Init, Reset, Replays
<1>2. Places /\ Plainly /\ Meant /\ UniqueNames /\ Replays /\ [Next]_vars => Plainly' /\ Replays'
  BY PlainlyStep, ReplaysStep
<1>3. Plainly => InOrder /\ Steady
  BY DEF Plainly, Steady, HoldersRest
<1>4. Replays => FixedIsClean
  BY DEF Replays, FixedIsClean
<1> QED BY <1>1, <1>2, <1>3, <1>4, PlacesAlways, MeantAlways, NamesAreUnique, PTL DEF Spec
=============================================================================
