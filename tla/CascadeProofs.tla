--------------------------- MODULE CascadeProofs ---------------------------
(***************************************************************************)
(* No iterator of a cascade dangles, no cascade aborts, and a cascade ends  *)
(* where SymbolAnalysis says it does, for all programs, orders and choices. *)
(* A cascade only moves forward: what depends on a node comes after it in   *)
(* the topological order, the markers of a symbol come after its define,    *)
(* and so an inner walk is over a list whose nodes all come after the       *)
(* markers the outer walks stand at.                                        *)
(***************************************************************************)
EXTENDS Cascade, SymbolAnalysisProofs

-----------------------------------------------------------------------------
(***************************************************************************)
(* The lists.                                                               *)
(***************************************************************************)
(* A list has one define, and its node comes first in topological order.    *)
Lists ==
  /\ \A e \in on : e[2] \in Acting
  /\ \A t \in before : t[2] # t[3]
  /\ \A s \in tab : \A d \in On(s) :
       OpOf(d) = "define" => \A m \in On(s) : /\ Rank(d) <= Rank(m)
                                              /\ OpOf(m) = "define" => m = d

LEMMA ListsAdd ==
  ASSUME Typed, Lists, prog' = prog, NEW n \in Acting, Unlisted(n),
         NEW s, tab' = tab \cup {s}, NEW B, B \subseteq On(s), Listed(s, n, B),
         s \in tab => /\ OpOf(n) # "define"
                      /\ \A d \in On(s) : OpOf(d) = "define" => Rank(d) <= Rank(n)
  PROVE  Lists'
<1>1. Acting' = Acting /\ Acting \subseteq Node /\ n \in Node
  BY ProgramFacts DEF Typed, Acting
<1>2. \A m \in Node : OpOf(m)' = OpOf(m) /\ Rank(m)' = Rank(m) /\ Rank(m) \in Int
  BY ProgramFacts, NAssumption DEF OpOf, Rank, Typed
<1>3. on' = on \cup {<<s, n>>} /\ on \subseteq tab \X Node
  BY DEF Listed, Typed, TypeOK
<1>4. s \notin tab => On(s) = {}
  BY <1>3 DEF On
<1>5. n \notin On(s)
  BY <1>3, <1>4 DEF On, Unlisted
<1>6. \A e \in on' : e[2] \in Acting'
  BY <1>1, <1>3 DEF Lists
<1>7. \A t \in before' : t[2] # t[3]
  BY <1>5 DEF Lists, Listed
<1>8. On(s)' = On(s) \cup {n} /\ \A t : t # s => On(t)' = On(t)
  BY <1>1, <1>3 DEF On
<1>9. ASSUME NEW t \in tab', NEW d \in On(t)', OpOf(d)' = "define", NEW m \in On(t)'
      PROVE  Rank(d)' <= Rank(m)' /\ (OpOf(m)' = "define" => m = d)
  <2>1. d \in Node /\ m \in Node
    BY DEF On
  <2>2. CASE t # s
    BY <1>2, <1>8, <1>9, <2>1, <2>2 DEF Lists
  <2>3. CASE t = s /\ s \in tab
    <3>1. d \in On(s) /\ d # n
      BY <1>2, <1>8, <1>9, <2>1, <2>3
    <3>2. CASE m = n
      BY <1>2, <1>9, <2>1, <2>3, <3>1, <3>2
    <3>3. CASE m # n
      BY <1>2, <1>8, <1>9, <2>1, <2>3, <3>1, <3>3 DEF Lists
    <3> QED BY <3>2, <3>3
  <2>4. CASE t = s /\ s \notin tab
    BY <1>2, <1>4, <1>8, <1>9, <2>1, <2>4
  <2> QED BY <2>2, <2>3, <2>4
<1> QED BY <1>6, <1>7, <1>9 DEF Lists

LEMMA ListsRemove ==
  ASSUME Typed, Lists, prog' = prog, tab' = tab, on' \subseteq on, before' \subseteq before
  PROVE  Lists'
<1>1. Acting' = Acting
  BY DEF Acting
<1>2. \A m : OpOf(m)' = OpOf(m) /\ Rank(m)' = Rank(m)
  BY DEF OpOf, Rank
<1>3. \A s \in tab : On(s)' \subseteq On(s)
  BY DEF On
<1> QED BY <1>1, <1>2, <1>3 DEF Lists

(* A walk resolves a symbol only after its define.                          *)
LEMMA ListsEnter ==
  ASSUME Typed, Walked, Accounted, Lists, NEW n \in Node, Enter(n)
  PROVE  Lists'
<1>1. prog' = prog
  BY DEF Enter, EnterScope, EnterOther, EnterDefine, EnterUseOrInvalidate, AbortWalk
<1>2. ASSUME UNCHANGED tables PROVE Lists'
  BY <1>1, <1>2, ListsRemove DEF tables
<1>3. CASE EnterScope(n) \/ EnterOther(n) \/ AbortWalk(n)
  BY <1>2, <1>3 DEF EnterScope, EnterOther, AbortWalk
<1>4. CASE EnterDefine(n) \/ EnterUseOrInvalidate(n)
  <2>1. CASE EmitError(n)
    BY <1>2, <2>1 DEF EmitError
  <2>2. CASE ~EmitError(n)
    <3>1. Walking /\ IsNext(n) /\ n \in Acting
      BY <1>4 DEF EnterDefine, EnterUseOrInvalidate, Acting, Annotated, OpOf, SymbolOp
    <3>2. Unlisted(n)
      <4>1. Rank(n) = pos /\ pos \in Int /\ phase = "analyze"
        BY <3>1 DEF IsNext, Typed, TypeOK, Walking
      <4> QED BY <3>1, <4>1 DEF Accounted
    <3>3. CASE EnterDefine(n)
      <4>1. PICK s : s \notin tab /\ tab' = tab \cup {s} /\ Listed(s, n, {})
        BY <2>2, <3>3, DefineAddsSymbol
      <4> QED BY <1>1, <3>1, <3>2, <4>1, ListsAdd
    <3>4. CASE EnterUseOrInvalidate(n)
      <4>1. PICK s \in tab : Listed(s, n, On(s)) /\ tab' = tab
        BY <2>2, <3>4, UseAppends
      <4>2. \A d \in On(s) : Rank(d) <= Rank(n)
        <5>1. Chronological(s)
          BY <3>1, <4>1 DEF Walked, Walking
        <5>2. \A d \in On(s) : Rank(d) < pos /\ d \in Node
          BY <5>1 DEF Chronological, On
        <5> QED BY <3>1, <5>2, ProgramFacts, NAssumption DEF IsNext, Typed
      <4>3. OpOf(n) # "define" /\ tab' = tab \cup {s}
        BY <3>4, <4>1 DEF EnterUseOrInvalidate
      <4> QED BY <1>1, <3>1, <3>2, <4>1, <4>2, <4>3, ListsAdd
    <3> QED BY <1>4, <3>3, <3>4
  <2> QED BY <2>1, <2>2
<1> QED BY <1>3, <1>4 DEF Enter

(* A fix chooses a symbol that was defined before the node it fixes.        *)
LEMMA ChosenDefinedBefore ==
  ASSUME Typed, Lists, NEW n \in Node, NEW s \in Available(n)
  PROVE  s \in tab /\ \A d \in On(s) : OpOf(d) = "define" => Rank(d) <= Rank(n)
<1>1. s \in tab
  BY DEF Available, Reachable
<1>2. PICK B \in Splits(s, n, ByOrderID) : UsableAfter(s, B)
  BY DEF Available
<1>3. PICK m \in B : \A k \in B : <<s, m, k>> \notin before
  BY <1>2 DEF UsableAfter
<1>4. m \in On(s) /\ prog.rank[m] <= prog.rank[n]
  BY <1>2, <1>3 DEF Splits, ByOrderID
<1>5. ASSUME NEW d \in On(s), OpOf(d) = "define" PROVE Rank(d) <= Rank(n)
  <2>1. Rank(d) <= Rank(m)
    BY <1>1, <1>4, <1>5 DEF Lists
  <2>2. d \in Node /\ m \in Node
    BY <1>4 DEF On
  <2> QED BY <1>4, <2>1, <2>2, ProgramFacts, NAssumption DEF Rank, Typed
<1> QED BY <1>1, <1>5

(* The popped error has no marker, so a fix can give it one.                *)
LEMMA ListsFix ==
  ASSUME Typed, Accounted, Lists, FixDefine \/ FixUse \/ GiveUp \/ AbortFix
  PROVE  Lists'
<1>1. Fixing /\ prog' = prog
  BY DEF FixDefine, FixUse, GiveUp, AbortFix
<1>2. PICK n \in Acting : n = Popped /\ n \in errors /\ n \in Node
  BY <1>1, FixingFacts
<1>3. Unlisted(n)
  BY <1>1, <1>2 DEF Accounted, Fixing
<1>4. CASE FixDefine
  <2>1. PICK sc \in HomeScopes(n) : \E i \in FreshNames(sc), t \in TypesOf(n) :
          LET s == [scope |-> sc, name |-> i, type |-> t]
          IN  tab' = tab \cup {s} /\ Listed(s, n, {})
    BY <1>2, <1>4 DEF FixDefine
  <2>2. PICK i \in FreshNames(sc), t \in TypesOf(n) :
          LET s == [scope |-> sc, name |-> i, type |-> t]
          IN  tab' = tab \cup {s} /\ Listed(s, n, {})
    BY <2>1
  <2>3. PICK s : s \notin tab /\ tab' = tab \cup {s} /\ Listed(s, n, {})
    BY <2>2 DEF FreshNames, NameTaken
  <2> QED BY <1>1, <1>3, <2>3, ListsAdd
<1>5. CASE FixUse
  <2>1. PICK s \in Available(n) : \E B \in Splits(s, n, ByID) : Listed(s, n, B)
    BY <1>2, <1>5 DEF FixUse
  <2>2. PICK B \in Splits(s, n, ByID) : Listed(s, n, B)
    BY <2>1
  <2>3. B \subseteq On(s)
    BY <2>2 DEF Splits
  <2>4. s \in tab /\ \A d \in On(s) : OpOf(d) = "define" => Rank(d) <= Rank(n)
    BY <1>2, <2>1, ChosenDefinedBefore
  <2>5. tab' = tab \cup {s} /\ OpOf(n) # "define"
    BY <1>2, <1>5, <2>4 DEF FixUse
  <2> QED BY <1>1, <1>3, <2>2, <2>3, <2>4, <2>5, ListsAdd
<1>6. CASE GiveUp \/ AbortFix
  BY <1>1, <1>6, ListsRemove DEF GiveUp, AbortFix, tables
<1> QED BY <1>4, <1>5, <1>6

-----------------------------------------------------------------------------
(***************************************************************************)
(* The stack of walks.                                                      *)
(***************************************************************************)
At(st) == {st[i].at : i \in 1 .. Len(st)}

(* Every walk stands at an error that is still in its list, and the whole   *)
(* list of an inner walk comes after where the outer walks stand.           *)
Sound(st, o, e) ==
  /\ st \in Seq(Walk)
  /\ \A i \in 1 .. Len(st) : /\ <<st[i].sym, st[i].at>> \in o /\ st[i].at \in e
                             /\ st[i].todo \subseteq prog.desc[st[i].at]
  /\ \A j \in 1 .. Len(st) : \A i \in 1 .. (j - 1) : \A m \in Node :
       <<st[j].sym, m>> \in o => Rank(st[i].at) < Rank(m)

(* A node has exactly one marker if it is analysed and no error, or if a    *)
(* walk stands at it.                                                       *)
Booked ==
  phase \in {"analyze", "fixed"} =>
    /\ \A n \in errors : Rank(n) < pos
    /\ \A n \in Acting : IF n \in At(stack) \/ (Rank(n) < pos /\ n \notin errors)
                         THEN ListedOnce(n) ELSE Unlisted(n)

CascadeInv ==
  /\ Typed /\ Walked /\ Lists /\ Booked
  /\ Sound(stack, on, errors)
  /\ ~Idle => phase = "analyze" /\ pos = N

LEMMA AtAppend ==
  ASSUME NEW st \in Seq(Walk), NEW f \in Walk
  PROVE  /\ Append(st, f) \in Seq(Walk) /\ Len(Append(st, f)) = Len(st) + 1 /\ Len(st) \in Nat
         /\ Append(st, f)[Len(st) + 1] = f
         /\ \A i \in 1 .. Len(st) : Append(st, f)[i] = st[i]
         /\ 1 .. (Len(st) + 1) = (1 .. Len(st)) \cup {Len(st) + 1}
         /\ At(Append(st, f)) = At(st) \cup {f.at}
<1>1. /\ Append(st, f) \in Seq(Walk) /\ Len(Append(st, f)) = Len(st) + 1 /\ Len(st) \in Nat
      /\ Append(st, f)[Len(st) + 1] = f
      /\ \A i \in 1 .. Len(st) : Append(st, f)[i] = st[i]
  OBVIOUS
<1>2. 1 .. (Len(st) + 1) = (1 .. Len(st)) \cup {Len(st) + 1}
  BY <1>1
<1> QED BY <1>1, <1>2 DEF At

LEMMA SoundPush ==
  ASSUME NEW o, NEW e, NEW st, Sound(st, o, e), NEW f \in Walk,
         <<f.sym, f.at>> \in o, f.at \in e, f.todo \subseteq prog.desc[f.at],
         \A m \in Node : <<f.sym, m>> \in o => \A a \in At(st) : Rank(a) < Rank(m)
  PROVE  Sound(Append(st, f), o, e)
<1>1. PICK k \in Nat : k = Len(st) /\ st \in Seq(Walk)
  BY DEF Sound
<1> DEFINE new == Append(st, f)
<1>2. /\ new \in Seq(Walk) /\ Len(new) = k + 1 /\ new[k + 1] = f
      /\ \A i \in 1 .. k : new[i] = st[i]
  BY <1>1, AtAppend
<1> HIDE DEF new
<1>3. ASSUME NEW i \in 1 .. (k + 1)
      PROVE  /\ <<new[i].sym, new[i].at>> \in o /\ new[i].at \in e
             /\ new[i].todo \subseteq prog.desc[new[i].at]
  <2>1. CASE i = k + 1
    BY <1>2, <2>1
  <2>2. CASE i \in 1 .. k
    BY <1>1, <1>2, <2>2 DEF Sound
  <2> QED BY <2>1, <2>2
<1>4. ASSUME NEW j \in 1 .. (k + 1), NEW i \in 1 .. (j - 1), NEW m \in Node,
             <<new[j].sym, m>> \in o
      PROVE  Rank(new[i].at) < Rank(m)
  <2>1. i \in 1 .. k /\ new[i] = st[i] /\ st[i].at \in At(st)
    <3>1. i \in 1 .. k
      OBVIOUS
    <3> QED BY <1>1, <1>2, <3>1 DEF At
  <2>2. CASE j = k + 1
    BY <1>2, <1>4, <2>1, <2>2
  <2>3. CASE j \in 1 .. k
    BY <1>1, <1>2, <1>4, <2>1, <2>3 DEF Sound
  <2> QED BY <2>2, <2>3
<1> QED BY <1>2, <1>3, <1>4 DEF Sound, new

(* The innermost walk and the others.                                       *)
LEMMA StackFacts ==
  ASSUME Typed, Sound(stack, on, errors), ~Idle
  PROVE  /\ Top \in Walk /\ Outer \in Seq(Walk)
         /\ <<Top.sym, Top.at>> \in on /\ Top.at \in errors
         /\ Top.todo \subseteq prog.desc[Top.at]
         /\ At(stack) = At(Outer) \cup {Top.at} /\ At(stack) \subseteq errors
         /\ \A a \in At(Outer) : \A m \in Node : <<Top.sym, m>> \in on => Rank(a) < Rank(m)
         /\ \A a \in At(Outer) : Rank(a) < Rank(Top.at)
         /\ Top.at \notin At(Outer)
<1>1. stack \in Seq(Walk) /\ stack # << >>
  BY DEF Sound, Idle
<1>2. PICK k \in Nat : Len(stack) = k + 1
  <2>1. Len(stack) \in Nat /\ Len(stack) # 0
    BY <1>1
  <2> QED BY <2>1
<1>3. k + 1 \in 1 .. Len(stack) /\ Top = stack[k + 1] /\ Top \in Walk
  BY <1>1, <1>2 DEF Top
<1>4. /\ Outer \in Seq(Walk) /\ Len(Outer) = k
      /\ \A i \in 1 .. k : Outer[i] = stack[i]
  BY <1>1, <1>2 DEF Outer
<1>5. 1 .. (k + 1) = (1 .. k) \cup {k + 1}
  BY <1>2
<1>6. At(stack) = At(Outer) \cup {Top.at}
  BY <1>2, <1>3, <1>4, <1>5 DEF At
<1>7. /\ <<Top.sym, Top.at>> \in on /\ Top.at \in errors
      /\ Top.todo \subseteq prog.desc[Top.at]
  BY <1>3 DEF Sound
<1>8. At(stack) \subseteq errors
  BY DEF Sound, At
<1>9. \A a \in At(Outer) : \A m \in Node : <<Top.sym, m>> \in on => Rank(a) < Rank(m)
  BY <1>2, <1>3, <1>4 DEF Sound, At
<1>10. Top.at \in Node
  BY <1>3 DEF Walk
<1>11. \A a \in At(Outer) : Rank(a) < Rank(Top.at)
  BY <1>7, <1>9, <1>10
<1>12. Top.at \notin At(Outer)
  BY <1>10, <1>11, ProgramFacts, NAssumption DEF Typed
<1> QED BY <1>3, <1>4, <1>6, <1>7, <1>8, <1>9, <1>11, <1>12

(* The outer walks when markers they do not stand at are erased.            *)
LEMMA SoundOuter ==
  ASSUME Typed, Sound(stack, on, errors), ~Idle, NEW o \in SUBSET on, NEW e, errors \subseteq e,
         \A r \in on : r[2] \in At(Outer) => r \in o
  PROVE  Sound(Outer, o, e)
<1>1. stack \in Seq(Walk) /\ stack # << >>
  BY DEF Sound, Idle
<1>2. PICK k \in Nat : Len(stack) = k + 1
  <2>1. Len(stack) \in Nat /\ Len(stack) # 0
    BY <1>1
  <2> QED BY <2>1
<1>3. PICK st \in Seq(Walk) : st = Outer /\ Len(st) = k /\ \A i \in 1 .. k : st[i] = stack[i]
  <2>1. /\ Outer \in Seq(Walk) /\ Len(Outer) = k
        /\ \A i \in 1 .. k : Outer[i] = stack[i]
    BY <1>1, <1>2 DEF Outer
  <2> QED BY <2>1
<1>4. \A i \in 1 .. k : i \in 1 .. (k + 1) /\ st[i].at \in At(Outer)
  BY <1>2, <1>3 DEF At
<1>5. \A i \in 1 .. k : /\ <<st[i].sym, st[i].at>> \in o /\ st[i].at \in e
                        /\ st[i].todo \subseteq prog.desc[st[i].at]
  BY <1>2, <1>3, <1>4 DEF Sound
<1>6. \A j \in 1 .. k : \A i \in 1 .. (j - 1) : \A m \in Node :
        <<st[j].sym, m>> \in o => Rank(st[i].at) < Rank(m)
  <2>1. \A j \in 1 .. k : \A i \in 1 .. (j - 1) : i \in 1 .. k
    BY <1>2
  <2> QED BY <1>2, <1>3, <1>4, <2>1 DEF Sound
<1> QED BY <1>3, <1>5, <1>6 DEF Sound

-----------------------------------------------------------------------------
(***************************************************************************)
(* The steps.                                                               *)
(***************************************************************************)
(* What RevokeAll meets: a node after all the walks, and, unless it is      *)
(* skipped, one that has its marker.                                        *)
LEMMA TodoFacts ==
  ASSUME CascadeInv, ~Idle, NEW x \in Top.todo
  PROVE  /\ x \in Node /\ \A a \in At(stack) : Rank(a) < Rank(x)
         /\ ~Skipped(x) => /\ x \in Acting \ errors /\ ListedOnce(x) /\ Marked(x)
                           /\ x \notin At(stack)
<1>1. /\ Top \in Walk /\ At(stack) = At(Outer) \cup {Top.at} /\ At(stack) \subseteq errors
      /\ Top.todo \subseteq prog.desc[Top.at]
      /\ \A a \in At(Outer) : Rank(a) < Rank(Top.at)
  BY StackFacts DEF CascadeInv
<1>2. Top.at \in Node /\ errors \subseteq Node /\ prog \in Programs
  BY <1>1, ProgramFacts DEF Walk, CascadeInv, Typed, TypeOK
<1>3. x \in Node /\ Rank(Top.at) < Rank(x)
  BY <1>1, <1>2, DependentsLater
<1>4. \A a \in At(stack) : Rank(a) < Rank(x)
  BY <1>1, <1>2, <1>3, ProgramFacts, NAssumption
<1>5. ASSUME ~Skipped(x) PROVE x \in Acting \ errors /\ ListedOnce(x) /\ Marked(x)
  <2>1. phase = "analyze" /\ pos = N /\ Rank(x) < pos
    BY <1>2, <1>3, ProgramFacts, NAssumption DEF CascadeInv
  <2>2. ListedOnce(x)
    BY <1>5, <2>1 DEF Skipped, CascadeInv, Booked
  <2> QED BY <1>5, <2>2 DEF Skipped, Marked, ListedOnce
<1> QED BY <1>1, <1>3, <1>4, <1>5

(* The part of the invariant that only needs the lists to shrink.           *)
LEMMA Shrinking ==
  ASSUME Typed, Lists, pos = N, UNCHANGED <<Elsewhere, text, phase>>, on' \subseteq on,
         before' \subseteq before, errors' \subseteq Acting
  PROVE  Typed' /\ Walked' /\ Lists' /\ Acting' = Acting /\ \A m : Rank(m)' = Rank(m)
<1>1. Acting' = Acting /\ \A m : Rank(m)' = Rank(m)
  BY DEF Elsewhere, Acting, Rank
<1>2. Typed'
  BY <1>1 DEF Typed, TypeOK, Elsewhere, Symbol
<1>3. Walked'
  BY NAssumption DEF Walked, Elsewhere
<1> QED BY <1>1, <1>2, <1>3, ListsRemove DEF Elsewhere

LEMMA VisitedSound ==
  ASSUME Typed, Sound(stack, on, errors), ~Idle, NEW x, NEW o \in SUBSET on,
         NEW e, errors \subseteq e, \A r \in on : r[2] \in At(stack) => r \in o
  PROVE  /\ Sound(Visited(x), o, e) /\ At(Visited(x)) = At(stack)
         /\ Visited(x) \in Seq(Walk) /\ Visited(x) # << >>
<1> DEFINE f == [Top EXCEPT !.todo = @ \ {x}]
<1>1. /\ Top \in Walk /\ Outer \in Seq(Walk)
      /\ <<Top.sym, Top.at>> \in on /\ Top.at \in errors
      /\ Top.todo \subseteq prog.desc[Top.at] /\ At(stack) = At(Outer) \cup {Top.at}
      /\ \A a \in At(Outer) : \A m \in Node : <<Top.sym, m>> \in on => Rank(a) < Rank(m)
  BY StackFacts
<1>2. /\ f \in Walk /\ f.sym = Top.sym /\ f.at = Top.at /\ f.todo \subseteq prog.desc[f.at]
  BY <1>1 DEF Walk
<1>3. Sound(Outer, o, e)
  BY <1>1, SoundOuter
<1>4. <<f.sym, f.at>> \in o /\ f.at \in e
  BY <1>1, <1>2
<1>5. \A m \in Node : <<f.sym, m>> \in o => \A a \in At(Outer) : Rank(a) < Rank(m)
  BY <1>1, <1>2
<1>6. Visited(x) = Append(Outer, f)
  BY DEF Visited
<1> HIDE DEF f
<1>7. Sound(Append(Outer, f), o, e)
  BY <1>2, <1>3, <1>4, <1>5, SoundPush
<1>8. /\ At(Append(Outer, f)) = At(Outer) \cup {f.at} /\ Append(Outer, f) \in Seq(Walk)
      /\ Append(Outer, f) # << >>
  BY <1>1, <1>2, AtAppend
<1> QED BY <1>1, <1>2, <1>6, <1>7, <1>8

LEMMA SkipKeeps ==
  ASSUME CascadeInv, ~Idle, SkipError
  PROVE  CascadeInv'
<1>1. PICK x \in Top.todo : stack' = Visited(x)
  BY DEF SkipError
<1>2. UNCHANGED vars /\ phase = "analyze" /\ pos = N
  BY DEF SkipError, CascadeInv
<1>3. Sound(stack', on, errors) /\ At(stack') = At(stack)
  BY <1>1, VisitedSound DEF CascadeInv
<1>4. Typed' /\ Walked' /\ Lists' /\ Acting' = Acting /\ \A m : Rank(m)' = Rank(m)
  BY <1>2, Shrinking DEF CascadeInv, Elsewhere, vars, Typed, TypeOK
<1>5. Sound(stack, on, errors)'
  BY <1>2, <1>3, <1>4 DEF Sound, vars
<1>6. Booked'
  BY <1>2, <1>3, <1>4 DEF Booked, CascadeInv, vars, ListedOnce, Unlisted
<1> QED BY <1>2, <1>4, <1>5, <1>6 DEF CascadeInv, vars

(* Erasing the one marker of a node that becomes an error.                  *)
LEMMA BookedErase ==
  ASSUME CascadeInv, phase = "analyze", pos = N, UNCHANGED <<Elsewhere, text, phase>>,
         NEW m \in Acting, on' = {r \in on : r[2] # m}, m \in errors', m \notin At(stack'),
         errors \subseteq errors', errors' \subseteq Acting,
         \A n \in Acting \ {m} :
           /\ n \in At(stack) => n \in At(stack')
           /\ n \in At(stack') => ListedOnce(n)
           /\ n \in errors' => n \in errors \/ n \in At(stack')
  PROVE  Booked'
<1>1. Acting' = Acting /\ Acting \subseteq Node /\ \A n : Rank(n)' = Rank(n)
  BY ProgramFacts DEF Elsewhere, Acting, Rank, CascadeInv, Typed
<1>2. \A n \in Node : Rank(n) < N
  BY ProgramFacts, NAssumption DEF CascadeInv, Typed
<1>3. /\ Unlisted(m)'
      /\ \A n \in Acting \ {m} : (ListedOnce(n) => ListedOnce(n)') /\ (Unlisted(n) => Unlisted(n)')
  BY DEF Elsewhere, ListedOnce, Unlisted
<1>4. \A n \in errors' : Rank(n) < N
  BY <1>1, <1>2
<1>5. ASSUME NEW n \in Acting \ {m}
      PROVE  /\ n \in At(stack') \/ n \notin errors' => ListedOnce(n)'
             /\ ~(n \in At(stack') \/ n \notin errors') => Unlisted(n)'
  <2>1. IF n \in At(stack) \/ n \notin errors THEN ListedOnce(n) ELSE Unlisted(n)
    BY <1>1, <1>2 DEF CascadeInv, Booked
  <2>2. CASE n \in At(stack')
    <3>1. ListedOnce(n)
      BY <2>2
    <3> QED BY <1>3, <2>2, <3>1
  <2>3. CASE n \notin At(stack') /\ n \notin errors'
    <3>1. n \notin errors
      BY <2>3
    <3>2. ListedOnce(n)
      BY <2>1, <3>1
    <3> QED BY <1>3, <2>3, <3>2
  <2>4. CASE n \notin At(stack') /\ n \in errors'
    <3>1. n \in errors /\ n \notin At(stack)
      BY <2>4
    <3>2. Unlisted(n)
      BY <2>1, <3>1
    <3> QED BY <1>3, <2>4, <3>2
  <2> QED BY <2>2, <2>3, <2>4
<1> QED BY <1>1, <1>2, <1>3, <1>4, <1>5 DEF Booked, Elsewhere, ListedOnce, Unlisted

LEMMA MarkerKeeps ==
  ASSUME CascadeInv, ~Idle, RevokeMarker
  PROVE  CascadeInv' /\ phase' # "fatal"
<1>1. PICK x \in Top.todo :
        /\ ~Skipped(x) /\ Erase(x) /\ errors' = errors \cup {x}
        /\ stack' = Visited(x) /\ phase' = Outcome(x)
  BY DEF RevokeMarker
<1>2. /\ x \in Acting \ errors /\ Marked(x) /\ x \notin At(stack)
  BY <1>1, TodoFacts
<1>3. UNCHANGED <<Elsewhere, text, phase>> /\ phase = "analyze" /\ pos = N
  BY <1>1, <1>2 DEF RevokeMarker, Outcome, CascadeInv
<1>4. on' = {r \in on : r[2] # x} /\ on' \in SUBSET on /\ before' \subseteq before
  BY <1>1 DEF Erase
<1>5. errors \subseteq errors' /\ errors' \subseteq Acting
  BY <1>1, <1>2 DEF CascadeInv, Typed, TypeOK
<1>6. \A r \in on : r[2] \in At(stack) => r \in on'
  BY <1>2, <1>4
<1>7. Sound(stack', on', errors') /\ At(stack') = At(stack)
  BY <1>1, <1>4, <1>5, <1>6, VisitedSound DEF CascadeInv
<1>8. Typed' /\ Walked' /\ Lists' /\ Acting' = Acting /\ \A m : Rank(m)' = Rank(m)
  BY <1>3, <1>4, <1>5, Shrinking DEF CascadeInv
<1>9. Sound(stack, on, errors)'
  BY <1>3, <1>7, <1>8 DEF Sound, Elsewhere
<1>10. \A n \in Acting : n \in At(stack) => ListedOnce(n)
  BY <1>3 DEF CascadeInv, Booked
<1>11. Booked'
  BY <1>1, <1>2, <1>3, <1>4, <1>5, <1>7, <1>10, BookedErase
<1> QED BY <1>3, <1>8, <1>9, <1>11 DEF CascadeInv, Elsewhere

(* A walk that moves to the marker k of the list of s.                      *)
LEMMA MoveToSound ==
  ASSUME Typed, NEW o, NEW e, NEW st, Sound(st, o, e),
         NEW s \in tab, NEW k \in Node, <<s, k>> \in o, k \in e,
         \A m \in Node : <<s, m>> \in o => \A a \in At(st) : Rank(a) < Rank(m)
  PROVE  /\ Sound(MoveTo(k, s, st), o, e) /\ At(MoveTo(k, s, st)) = At(st) \cup {k}
<1> DEFINE f == [sym |-> s, at |-> k, todo |-> prog.desc[k]]
<1>1. prog.desc[k] \subseteq Node /\ s \in Symbol
  BY ProgramFacts DEF Typed, TypeOK, Program
<1>2. f \in Walk /\ f.sym = s /\ f.at = k /\ f.todo = prog.desc[k] /\ st \in Seq(Walk)
  BY <1>1 DEF Walk, Sound
<1>3. MoveTo(k, s, st) = Append(st, f)
  BY DEF MoveTo
<1> HIDE DEF f
<1> QED BY <1>2, <1>3, SoundPush, AtAppend

LEMMA DefineKeeps ==
  ASSUME CascadeInv, ~Idle, RevokeDefine
  PROVE  CascadeInv' /\ phase' # "fatal"
<1>1. PICK x \in Top.todo :
        /\ ~Skipped(x) /\ OpOf(x) = "define" /\ errors' = errors \cup {x}
        /\ stack' = (IF Marked(x) THEN MoveTo(x, ListOf(x), Visited(x)) ELSE Visited(x))
        /\ phase' = Outcome(x)
  BY DEF RevokeDefine
<1>2. /\ x \in Acting \ errors /\ Marked(x) /\ ListedOnce(x) /\ x \in Node
      /\ \A a \in At(stack) : Rank(a) < Rank(x)
  BY <1>1, TodoFacts
<1>3. UNCHANGED <<Elsewhere, text, phase, on, before>> /\ phase = "analyze" /\ pos = N
  BY <1>1, <1>2 DEF RevokeDefine, Outcome, CascadeInv
<1>4. PICK s \in tab : s = ListOf(x) /\ <<s, x>> \in on
  BY <1>2 DEF Marked, ListOf
<1>5. errors \subseteq errors' /\ errors' \subseteq Acting /\ x \in errors'
  BY <1>1, <1>2 DEF CascadeInv, Typed, TypeOK
<1>6. Sound(Visited(x), on, errors') /\ At(Visited(x)) = At(stack)
  BY <1>5, VisitedSound DEF CascadeInv
<1>7. ASSUME NEW m \in Node, <<s, m>> \in on, NEW a \in At(stack) PROVE Rank(a) < Rank(m)
  <2>1. Rank(x) <= Rank(m)
    BY <1>1, <1>2, <1>4, <1>7 DEF CascadeInv, Lists, On
  <2>2. a \in Node
    BY StackFacts, ProgramFacts DEF CascadeInv, Typed, TypeOK
  <2> QED BY <1>2, <2>1, <2>2, ProgramFacts, NAssumption DEF CascadeInv, Typed
<1>8. Sound(stack', on, errors') /\ At(stack') = At(stack) \cup {x}
  BY <1>1, <1>2, <1>4, <1>5, <1>6, <1>7, MoveToSound DEF CascadeInv
<1>9. Typed' /\ Walked' /\ Lists' /\ Acting' = Acting /\ \A m : Rank(m)' = Rank(m)
  BY <1>3, <1>5, Shrinking DEF CascadeInv
<1>10. Sound(stack, on, errors)'
  BY <1>3, <1>8, <1>9 DEF Sound, Elsewhere
<1>11. Booked'
  <2>1. \A n : (ListedOnce(n)' <=> ListedOnce(n)) /\ (Unlisted(n)' <=> Unlisted(n))
    BY <1>3 DEF Elsewhere, ListedOnce, Unlisted
  <2>2. Rank(x) < pos /\ pos' = pos
    BY <1>2, <1>3, ProgramFacts, NAssumption DEF CascadeInv, Typed, Elsewhere
  <2> QED BY <1>1, <1>2, <1>3, <1>8, <1>9, <2>1, <2>2 DEF CascadeInv, Booked
<1> QED BY <1>3, <1>9, <1>10, <1>11 DEF CascadeInv, Elsewhere

LEMMA EraseKeeps ==
  ASSUME CascadeInv, ~Idle, EraseAndProceed
  PROVE  CascadeInv' /\ phase' # "fatal"
<1>1. PICK m : m = Top.at /\ Erase(m)
               /\ Proceed(Following(Top.sym, m), Top.sym, Outer, errors)
  BY DEF EraseAndProceed
<1>2. /\ Top \in Walk /\ Outer \in Seq(Walk) /\ <<Top.sym, m>> \in on /\ m \in errors
      /\ At(stack) = At(Outer) \cup {m} /\ At(stack) \subseteq errors /\ m \notin At(Outer)
      /\ \A a \in At(Outer) : \A k \in Node : <<Top.sym, k>> \in on => Rank(a) < Rank(k)
  BY <1>1, StackFacts DEF CascadeInv
<1>3. PICK s \in tab : s = Top.sym
  BY <1>2 DEF CascadeInv, Typed, TypeOK
<1>4. UNCHANGED <<Elsewhere, text, phase>> /\ phase = "analyze" /\ pos = N
  BY DEF EraseAndProceed, CascadeInv
<1>5. /\ on' = {r \in on : r[2] # m} /\ on' \in SUBSET on /\ before' \subseteq before
      /\ \A r \in on : r[2] \in At(Outer) => r \in on'
  BY <1>1, <1>2 DEF Erase
<1>6. /\ Acting \subseteq Node /\ errors \subseteq Acting
      /\ \A n \in Acting : n \in At(Outer) => ListedOnce(n)
  BY <1>2, <1>4, ProgramFacts DEF CascadeInv, Booked, Typed, TypeOK
<1>7. ASSUME errors \subseteq errors', errors' \subseteq Acting, Sound(stack', on', errors'),
             At(Outer) \subseteq At(stack'), m \notin At(stack'),
             \A n \in Acting \ {m} : /\ n \in At(stack') => ListedOnce(n)
                                     /\ n \in errors' => n \in errors \/ n \in At(stack')
      PROVE  CascadeInv' /\ phase' # "fatal"
  <2>1. Typed' /\ Walked' /\ Lists' /\ Acting' = Acting /\ \A k : Rank(k)' = Rank(k)
    BY <1>4, <1>5, <1>7, Shrinking DEF CascadeInv
  <2>2. Sound(stack, on, errors)'
    BY <1>4, <1>7, <2>1 DEF Sound, Elsewhere
  <2>3. \A n \in Acting \ {m} : n \in At(stack) => n \in At(stack')
    BY <1>2, <1>7
  <2>4. Booked'
    BY <1>2, <1>4, <1>5, <1>6, <1>7, <2>3, BookedErase
  <2> QED BY <1>4, <2>1, <2>2, <2>4 DEF CascadeInv, Elsewhere
<1>8. ASSUME NEW k \in Following(s, m), stack' = MoveTo(k, s, Outer), errors' = errors \cup {k}
      PROVE  CascadeInv' /\ phase' # "fatal"
  <2>1. <<s, k>> \in on /\ <<s, m, k>> \in before /\ k \in Node
    BY <1>8 DEF Following, First, Behind, On
  <2>2. k \in Acting /\ k # m
    BY <2>1 DEF CascadeInv, Lists
  <2>3. ListedOnce(k)
    <3>1. ~Unlisted(k)
      BY <2>1 DEF Unlisted
    <3> QED BY <1>4, <2>2, <3>1 DEF CascadeInv, Booked
  <2>4. errors \subseteq errors' /\ errors' \subseteq Acting /\ k \in errors'
    BY <1>6, <1>8, <2>2
  <2>5. Sound(Outer, on', errors')
    BY <1>5, <2>4, SoundOuter DEF CascadeInv
  <2>6. <<s, k>> \in on'
    BY <1>5, <2>1, <2>2
  <2>7. \A x \in Node : <<s, x>> \in on' => \A a \in At(Outer) : Rank(a) < Rank(x)
    BY <1>2, <1>3, <1>5
  <2>8. Sound(stack', on', errors') /\ At(stack') = At(Outer) \cup {k}
    BY <1>8, <2>1, <2>4, <2>5, <2>6, <2>7, MoveToSound DEF CascadeInv
  <2>9. \A n \in Acting \ {m} : /\ n \in At(stack') => ListedOnce(n)
                                /\ n \in errors' => n \in errors \/ n \in At(stack')
    BY <1>6, <1>8, <2>3, <2>8
  <2> QED BY <1>2, <1>7, <2>2, <2>4, <2>8, <2>9
<1>9. ASSUME stack' = Outer, errors' = errors
      PROVE  CascadeInv' /\ phase' # "fatal"
  <2>1. Sound(stack', on', errors')
    BY <1>5, <1>9, SoundOuter DEF CascadeInv
  <2> QED BY <1>2, <1>6, <1>7, <1>9, <2>1
<1> QED BY <1>1, <1>3, <1>8, <1>9 DEF Proceed

(* Between two cascades the invariant is that of SymbolAnalysis.            *)
LEMMA NoWalk == At(<< >>) = {}
BY DEF At

LEMMA SoundEmpty ==
  ASSUME NEW o, NEW e
  PROVE  Sound(<< >>, o, e)
BY DEF Sound

LEMMA IdleAccounted ==
  ASSUME CascadeInv, Idle
  PROVE  Accounted
BY NoWalk DEF CascadeInv, Booked, Accounted, Idle

LEMMA InsertKeeps ==
  ASSUME CascadeInv, InsertInvalidate
  PROVE  CascadeInv'
<1>1. Idle /\ Fixing /\ phase = "analyze" /\ pos = N /\ Typed /\ Accounted
  BY IdleAccounted DEF InsertInvalidate, Fixing, CascadeInv
<1>2. PICK n \in Acting : n = Popped /\ n \in errors /\ n \in Node
  BY <1>1, FixingFacts
<1>3. PICK s \in Available(n) : \E B \in Splits(s, n, ByID) :
         /\ text' = [text EXCEPT ![n] = s.name]
         /\ Listed(s, n, B)
         /\ Proceed(First(s, On(s) \ B), s, << >>, errors \ {n})
  BY <1>2 DEF InsertInvalidate
<1>4. PICK B \in Splits(s, n, ByID) :
         /\ text' = [text EXCEPT ![n] = s.name]
         /\ Listed(s, n, B)
         /\ Proceed(First(s, On(s) \ B), s, << >>, errors \ {n})
  BY <1>3
<1>5. s \in tab /\ \A d \in On(s) : OpOf(d) = "define" => Rank(d) <= Rank(n)
  BY <1>1, <1>2, ChosenDefinedBefore DEF CascadeInv
<1>6. UNCHANGED <<Elsewhere, phase>> /\ OpOf(n) # "define" /\ B \subseteq On(s)
  BY <1>2, <1>4 DEF InsertInvalidate, Splits
<1>7. Unlisted(n) /\ \A m \in Acting : IF m \in errors THEN Unlisted(m) ELSE ListedOnce(m)
  <2>1. \A m \in Acting : Rank(m) < pos
    BY <1>1, ProgramFacts, NAssumption DEF Typed
  <2> QED BY <1>1, <1>2, <2>1 DEF Accounted
<1>8. Lists'
  BY <1>1, <1>2, <1>4, <1>5, <1>6, <1>7, ListsAdd DEF CascadeInv, Elsewhere
<1>9. Acting' = Acting /\ Acting \subseteq Node /\ (\A m : Rank(m)' = Rank(m)) /\ tab' = tab
  BY <1>1, <1>6, ProgramFacts DEF Elsewhere, Acting, Rank, Typed
<1>10. /\ ListedOnce(n)'
       /\ \A m \in Acting : m # n /\ ListedOnce(m) => ListedOnce(m)'
       /\ \A m \in Acting : m # n /\ Unlisted(m) => Unlisted(m)'
  <2>1. on' = on \cup {<<s, n>>} /\ s \in tab' /\ tab \subseteq tab'
    BY <1>4, <1>5, <1>9 DEF Listed
  <2> QED BY <1>1, <1>2, <1>7, <2>1, AccountedListing
<1>11. Walked'
  BY <1>1, <1>6, NAssumption DEF Walked, Elsewhere
<1>12. ASSUME errors' \subseteq Acting, Sound(stack', on', errors'),
              \A m \in Acting : /\ m \in At(stack') => m # n /\ ListedOnce(m)
                                /\ m \in errors' <=> (m \in errors /\ m # n) \/ m \in At(stack')
       PROVE  CascadeInv'
  <2>1. Typed'
    <3>1. on' \subseteq tab' \X Node /\ before' \subseteq tab' \X Node \X Node
      BY <1>1, <1>2, <1>4, <1>5, <1>6, <1>9, ListedType DEF On
    <3>2. s.name \in Name
      BY <1>1, <1>5 DEF Typed, TypeOK, Symbol
    <3>3. text' \in [Node -> Name]
      BY <1>1, <1>4, <3>2 DEF Typed, TypeOK
    <3> QED BY <1>1, <1>6, <1>9, <1>12, <3>1, <3>3 DEF Typed, TypeOK, Elsewhere, Symbol
  <2>2. Sound(stack, on, errors)'
    BY <1>6, <1>9, <1>12 DEF Sound, Elsewhere
  <2>3. ASSUME NEW m \in Acting
        PROVE  /\ m \in At(stack') \/ m \notin errors' => ListedOnce(m)'
               /\ ~(m \in At(stack') \/ m \notin errors') => Unlisted(m)'
    <3>1. CASE m = n
      BY <1>10, <1>12, <3>1
    <3>2. CASE m # n /\ m \in At(stack')
      BY <1>10, <1>12, <3>2
    <3>3. CASE m # n /\ m \notin At(stack') /\ m \in errors
      <4>1. Unlisted(m) /\ m \in errors'
        BY <1>7, <1>12, <3>3
      <4> QED BY <1>10, <3>3, <4>1
    <3>4. CASE m # n /\ m \notin At(stack') /\ m \notin errors
      <4>1. ListedOnce(m) /\ m \notin errors'
        BY <1>7, <1>12, <3>4
      <4> QED BY <1>10, <3>4, <4>1
    <3> QED BY <3>1, <3>2, <3>3, <3>4
  <2>4. \A m \in Acting : Rank(m)' < pos'
    BY <1>1, <1>6, <1>9, ProgramFacts, NAssumption DEF Typed, Elsewhere
  <2>5. Booked'
    BY <1>9, <1>12, <2>3, <2>4 DEF Booked, ListedOnce, Unlisted
  <2> QED BY <1>1, <1>6, <1>8, <1>11, <2>1, <2>2, <2>5 DEF CascadeInv, Elsewhere
<1>13. ASSUME NEW k \in First(s, On(s) \ B), stack' = MoveTo(k, s, << >>),
              errors' = (errors \ {n}) \cup {k}
       PROVE  CascadeInv'
  <2>1. k \in On(s) /\ <<s, k>> \in on /\ k \in Node
    BY <1>13 DEF First, On
  <2>2. k \in Acting /\ k # n
    BY <1>5, <1>7, <2>1 DEF CascadeInv, Lists, Unlisted
  <2>3. ListedOnce(k)
    <3>1. ~Unlisted(k)
      BY <1>5, <2>1 DEF Unlisted
    <3> QED BY <1>7, <2>2, <3>1
  <2>4. Sound(stack', on', errors') /\ At(stack') = {k}
    <3>1. <<s, k>> \in on' /\ k \in errors'
      BY <1>4, <1>13, <2>1 DEF Listed
    <3>2. Sound(<< >>, on', errors')
      BY SoundEmpty
    <3>3. \A m \in Node : <<s, m>> \in on' => \A a \in At(<< >>) : Rank(a) < Rank(m)
      BY NoWalk
    <3>4. /\ Sound(MoveTo(k, s, << >>), on', errors')
          /\ At(MoveTo(k, s, << >>)) = At(<< >>) \cup {k}
      BY <1>1, <1>5, <2>1, <3>1, <3>2, <3>3, MoveToSound
    <3> QED BY <1>13, <3>4, NoWalk
  <2>5. errors' \subseteq Acting
    BY <1>1, <1>13, <2>2 DEF Typed, TypeOK
  <2> QED BY <1>12, <1>13, <2>2, <2>3, <2>4, <2>5
<1>14. ASSUME stack' = << >>, errors' = errors \ {n} PROVE CascadeInv'
  <2>1. Sound(stack', on', errors') /\ At(stack') = {} /\ errors' \subseteq Acting
    BY <1>1, <1>14, SoundEmpty, NoWalk DEF Typed, TypeOK
  <2> QED BY <1>12, <1>14, <2>1
<1> QED BY <1>4, <1>13, <1>14 DEF Proceed

LEMMA AtomicKeeps ==
  ASSUME CascadeInv, AtomicStep
  PROVE  CascadeInv'
<1>1. Idle /\ stack' = << >> /\ stack = << >> /\ Typed /\ Walked /\ Accounted /\ Lists
  BY IdleAccounted DEF AtomicStep, Idle, CascadeInv
<1>2. Next
  BY DEF AtomicStep, Next, Fix
<1>3. Typed' /\ Walked' /\ Accounted'
  BY <1>1, <1>2, TypedStep, WalkedStep, AccountedStep
<1>4. Lists'
  <2>1. CASE \E n \in Node : Enter(n)
    BY <1>1, <2>1, ListsEnter
  <2>2. CASE FixDefine \/ FixUse \/ GiveUp \/ AbortFix
    BY <1>1, <2>2, ListsFix
  <2>3. CASE Finish
    BY <1>1, <2>3, ListsRemove DEF Finish, tables
  <2>4. CASE Reanalyze
    BY <2>4 DEF Reanalyze, Lists
  <2> QED BY <2>1, <2>2, <2>3, <2>4 DEF AtomicStep
<1>5. Sound(stack, on, errors)'
  BY <1>1 DEF Sound
<1>6. Booked'
  BY <1>1, <1>3, NoWalk DEF Accounted, Booked
<1> QED BY <1>1, <1>3, <1>4, <1>5, <1>6 DEF CascadeInv, Idle

LEMMA StutterKeeps ==
  ASSUME CascadeInv, UNCHANGED allVars
  PROVE  CascadeInv'
<1>1. Typed'
  BY DEF CascadeInv, allVars, vars, Typed, TypeOK, Acting, Symbol
<1>2. Walked'
  BY DEF CascadeInv, allVars, vars, Walked, Chronological, OpOf, Rank, On
<1>3. Lists'
  BY DEF CascadeInv, allVars, vars, Lists, Acting, OpOf, Rank, On
<1>4. Booked'
  BY DEF CascadeInv, allVars, vars, Booked, At, Acting, Rank, ListedOnce, Unlisted
<1>5. Sound(stack, on, errors)'
  BY DEF CascadeInv, allVars, vars, Sound, Rank
<1> QED BY <1>1, <1>2, <1>3, <1>4, <1>5 DEF CascadeInv, Idle, allVars, vars

-----------------------------------------------------------------------------
(***************************************************************************)
(* The theorems.                                                            *)
(***************************************************************************)
(* The invariant of the cascade: the walks on the stack stand at errors     *)
(* that still have their marker, each inside a list that comes after the    *)
(* nodes of the walks around it.                                            *)
THEOREM CascadeAlways == CascadeSpec => []CascadeInv
<1>1. CascadeInit => CascadeInv
  <2> SUFFICES ASSUME CascadeInit PROVE CascadeInv
    OBVIOUS
  <2>1. Init /\ Typed /\ stack = << >> /\ prog \in Programs
    BY TypedInit DEF CascadeInit, Init
  <2>2. \A m \in Acting : ~(Rank(m) < 0)
    BY <2>1, ProgramFacts, NAssumption
  <2>3. pos = 0 /\ tab = {} /\ on = {} /\ before = {} /\ errors = {}
    BY <2>1 DEF Init, Reset
  <2>4. Walked /\ Lists
    BY <2>3 DEF Walked, Lists
  <2>5. Booked
    BY <2>1, <2>2, <2>3, NoWalk DEF Booked, Unlisted
  <2> QED BY <2>1, <2>4, <2>5, SoundEmpty DEF CascadeInv, Idle
<1>2. CascadeInv /\ [CascadeNext]_allVars => CascadeInv'
  BY AtomicKeeps, InsertKeeps, SkipKeeps, MarkerKeeps, DefineKeeps, EraseKeeps, StutterKeeps
     DEF CascadeNext, CascadeStep
<1> QED BY <1>1, <1>2, PTL DEF CascadeSpec

(* Whatever the nested walks erase, every marker an iterator of an outer    *)
(* walk points at stays in its list until that walk itself moves on.        *)
THEOREM IteratorsNeverDangle == CascadeSpec => []IteratorsValid
<1>1. CascadeInv => IteratorsValid
  BY DEF CascadeInv, Sound, IteratorsValid
<1> QED BY <1>1, CascadeAlways, PTL

(* Every node a cascade comes to that is not an error has its marker: the   *)
(* FATALs of RemoveIRSymbolUse, -Define and -Invalidate are unreachable.    *)
THEOREM CascadesNeverAbort == CascadeSpec => CascadesSucceed
<1>1. CascadeInv /\ [CascadeNext]_allVars => [~Idle => phase' # "fatal"]_allVars
  <2> SUFFICES ASSUME CascadeInv, CascadeNext, ~Idle PROVE phase' # "fatal"
    BY DEF Idle
  <2>1. CascadeStep
    BY DEF CascadeNext, AtomicStep, InsertInvalidate
  <2>2. CASE SkipError
    BY <2>2 DEF SkipError, vars, CascadeInv
  <2> QED BY <2>1, <2>2, MarkerKeeps, DefineKeeps, EraseKeeps DEF CascadeStep
<1> QED BY <1>1, CascadeAlways, PTL DEF CascadeSpec, CascadesSucceed

-----------------------------------------------------------------------------
(***************************************************************************)
(* The lists are orders.                                                    *)
(***************************************************************************)
(* The order of every list is total.                                        *)
Ordered(o, b) ==
  /\ \A s, m, k : <<s, m, k>> \in b => /\ <<s, m>> \in o /\ <<s, k>> \in o
                                       /\ <<s, k, m>> \notin b
  /\ \A s, m, k : <<s, m>> \in o /\ <<s, k>> \in o
                  => m = k \/ <<s, m, k>> \in b \/ <<s, k, m>> \in b
  /\ \A s, m, k, j : <<s, m, k>> \in b /\ <<s, k, j>> \in b => <<s, m, j>> \in b

(* So whatever is left of a list has a first node.                          *)
LEMMA HeadExists ==
  ASSUME NEW o, NEW b, Ordered(o, b), NEW s, NEW P, P # {}, P \subseteq Node,
         \A m \in P : <<s, m>> \in o
  PROVE  \E k \in P : \A m \in P \ {k} : <<s, k, m>> \in b
<1> DEFINE ahead(m) == {k \in P : <<s, k, m>> \in b}
           T == {ahead(m) : m \in P}
           R == StrictSubsetOrdering(Node)
           F == FiniteSubsetsOf(Node)
<1>1. IsFiniteSet(Node)
  BY NAssumption, FS_Interval DEF Node
<1>2. T \subseteq F /\ T # {}
  <2> SUFFICES ASSUME NEW m \in P PROVE ahead(m) \in F
    OBVIOUS
  <2>1. ahead(m) \in SUBSET Node
    OBVIOUS
  <2>2. IsFiniteSet(ahead(m))
    BY <1>1, <2>1, FS_Subset
  <2> QED BY <2>1, <2>2 DEF FiniteSubsetsOf
<1>3. PICK x \in T : \A y \in T : ~ (<<y, x>> \in R)
  <2>1. IsWellFoundedOn(R, F)
    BY FS_StrictSubsetOrderingWellFounded
  <2> HIDE DEF R, F, T
  <2> QED BY <1>2, <2>1, WFMin
<1>4. PICK k \in P : x = ahead(k)
  OBVIOUS
<1>5. ASSUME NEW m \in P \ {k} PROVE <<s, k, m>> \in b
  <2>1. SUFFICES ASSUME <<s, m, k>> \in b PROVE FALSE
    BY <1>4 DEF Ordered
  <2>2. ahead(m) \subseteq ahead(k) /\ m \in ahead(k) /\ m \notin ahead(m)
    BY <2>1 DEF Ordered
  <2>3. <<ahead(m), ahead(k)>> \in R
    BY <2>2 DEF StrictSubsetOrdering
  <2> QED BY <1>3, <1>4, <2>3
<1> QED BY <1>5

(* Inserting between the markers of B and the others.                       *)
LEMMA OrderedInsert ==
  ASSUME NEW o, NEW b, Ordered(o, b), NEW s, NEW n, <<s, n>> \notin o,
         NEW L, \A m : m \in L <=> <<s, m>> \in o, NEW B \in SUBSET L,
         \A m \in B, k \in L \ B : <<s, m, k>> \in b
  PROVE  Ordered(o \cup {<<s, n>>},
                 b \cup {<<s, m, n>> : m \in B} \cup {<<s, n, k>> : k \in L \ B})
<1> DEFINE p == o \cup {<<s, n>>}
           c == b \cup {<<s, m, n>> : m \in B} \cup {<<s, n, k>> : k \in L \ B}
<1>1. \A t, m : <<t, m>> \in p <=> <<t, m>> \in o \/ (t = s /\ m = n)
  OBVIOUS
<1>2. \A t, m, k : <<t, m, k>> \in c <=> \/ <<t, m, k>> \in b
                                         \/ t = s /\ k = n /\ m \in B
                                         \/ t = s /\ m = n /\ k \in L \ B
  OBVIOUS
<1> HIDE DEF p, c
<1>3. n \notin L /\ \A t, m, k : <<t, m, k>> \in b => <<t, m>> \in o /\ <<t, k>> \in o
                                              /\ (t = s => m \in L /\ k \in L /\ m # n /\ k # n)
  BY DEF Ordered
<1>4. \A t, m, k : <<t, m, k>> \in c => /\ <<t, m>> \in p /\ <<t, k>> \in p
                                        /\ <<t, k, m>> \notin c
  BY <1>1, <1>2, <1>3 DEF Ordered
<1>5. \A t, m, k : <<t, m>> \in p /\ <<t, k>> \in p
                   => m = k \/ <<t, m, k>> \in c \/ <<t, k, m>> \in c
  BY <1>1, <1>2, <1>3 DEF Ordered
<1>6. ASSUME NEW t, NEW m, NEW k, NEW j, <<t, m, k>> \in c, <<t, k, j>> \in c
      PROVE  <<t, m, j>> \in c
  <2>1. CASE <<t, m, k>> \in b /\ <<t, k, j>> \in b
    BY <1>2, <2>1 DEF Ordered
  <2>2. CASE t = s /\ k = n
    BY <1>2, <1>3, <1>6, <2>2
  <2>3. CASE t = s /\ m = n
    <3>1. k \in L \ B /\ <<s, k, j>> \in b /\ j \in L
      BY <1>2, <1>3, <1>6, <2>3
    <3>2. j \notin B
      BY <3>1 DEF Ordered
    <3> QED BY <1>2, <2>3, <3>1, <3>2
  <2>4. CASE t = s /\ j = n
    <3>1. k \in B /\ <<s, m, k>> \in b /\ m \in L
      BY <1>2, <1>3, <1>6, <2>4
    <3>2. m \in B
      BY <3>1 DEF Ordered
    <3> QED BY <1>2, <2>4, <3>1, <3>2
  <2> QED BY <1>2, <1>6, <2>1, <2>2, <2>3, <2>4
<1>7. Ordered(p, c)
  BY <1>4, <1>5, <1>6 DEF Ordered
<1> QED BY <1>7 DEF p, c

LEMMA OrderedErase ==
  ASSUME NEW o, NEW b, Ordered(o, b), NEW X
  PROVE  Ordered({e \in o : e[2] \notin X}, {e \in b : e[2] \notin X /\ e[3] \notin X})
<1> DEFINE p == {e \in o : e[2] \notin X}
           c == {e \in b : e[2] \notin X /\ e[3] \notin X}
<1>1. \A s, m : <<s, m>> \in p <=> <<s, m>> \in o /\ m \notin X
  OBVIOUS
<1>2. \A s, m, k : <<s, m, k>> \in c <=> <<s, m, k>> \in b /\ m \notin X /\ k \notin X
  OBVIOUS
<1> HIDE DEF p, c
<1>3. Ordered(p, c)
  BY <1>1, <1>2 DEF Ordered
<1> QED BY <1>3 DEF p, c

(* A marker enters a list between two parts of it.                         *)
LEMMA OrderedListed ==
  ASSUME Typed, Ordered(on, before), NEW s, NEW n, <<s, n>> \notin on,
         NEW B \in SUBSET On(s), \A m \in B, k \in On(s) \ B : <<s, m, k>> \in before,
         Listed(s, n, B)
  PROVE  Ordered(on', before')
<1>1. PICK L : L = On(s)
  OBVIOUS
<1>2. \A m : m \in L <=> <<s, m>> \in on
  BY <1>1 DEF On, Typed, TypeOK
<1>3. B \in SUBSET L /\ \A m \in B, k \in L \ B : <<s, m, k>> \in before
  BY <1>1
<1>4. Ordered(on \cup {<<s, n>>},
              before \cup {<<s, m, n>> : m \in B} \cup {<<s, n, k>> : k \in L \ B})
  BY <1>2, <1>3, OrderedInsert
<1> QED BY <1>1, <1>4 DEF Listed

LEMMA OrderedErasing ==
  ASSUME Ordered(on, before), NEW m, Erase(m)
  PROVE  Ordered(on', before')
<1>1. \A s, k : <<s, k>> \in on' <=> <<s, k>> \in on /\ k # m
  BY DEF Erase
<1>2. \A s, j, k : <<s, j, k>> \in before' <=> <<s, j, k>> \in before /\ j # m /\ k # m
  BY DEF Erase
<1>3. PICK p, c : p = on' /\ c = before'
  OBVIOUS
<1>4. Ordered(p, c)
  BY <1>1, <1>2, <1>3 DEF Ordered
<1> QED BY <1>3, <1>4

LEMMA OrderedEnter ==
  ASSUME Typed, Walked, Accounted, Ordered(on, before), NEW n \in Node, Enter(n)
  PROVE  Ordered(on', before')
<1>1. CASE EnterScope(n) \/ EnterOther(n) \/ AbortWalk(n) \/ EmitError(n)
  BY <1>1 DEF EnterScope, EnterOther, AbortWalk, EmitError, tables
<1>2. CASE EnterDefine(n) /\ ~EmitError(n)
  <2>1. PICK s : s \notin tab /\ Listed(s, n, {})
    BY <1>2, DefineAddsSymbol
  <2>2. On(s) = {} /\ <<s, n>> \notin on
    BY <2>1 DEF On, Typed, TypeOK
  <2> QED BY <2>1, <2>2, OrderedListed
<1>3. CASE EnterUseOrInvalidate(n) /\ ~EmitError(n)
  <2>1. PICK s \in tab : Listed(s, n, On(s))
    BY <1>3, UseAppends
  <2>2. <<s, n>> \notin on
    <3>1. Walking /\ IsNext(n) /\ n \in Acting
      BY <1>3 DEF EnterUseOrInvalidate, Acting, Annotated, OpOf, SymbolOp
    <3>2. Rank(n) = pos /\ pos \in Int /\ phase = "analyze"
      BY <3>1 DEF IsNext, Typed, TypeOK, Walking
    <3>3. Unlisted(n)
      BY <3>1, <3>2 DEF Accounted
    <3> QED BY <3>3 DEF Unlisted
  <2> QED BY <2>1, <2>2, OrderedListed
<1> QED BY <1>1, <1>2, <1>3 DEF Enter

(* upper_bound splits a list in two.                                        *)
LEMMA OrderedFix ==
  ASSUME Typed, Accounted, Ordered(on, before), Fixing, NEW s, NEW B, Listed(s, Popped, B),
         (s \notin tab /\ B = {}) \/ \E key : B \in Splits(s, Popped, key)
  PROVE  Ordered(on', before')
<1>1. Popped \in errors /\ Popped \in Acting
  BY FixingFacts
<1>2. Unlisted(Popped)
  BY <1>1 DEF Accounted, Fixing
<1>3. <<s, Popped>> \notin on
  BY <1>2 DEF Unlisted, Typed, TypeOK
<1>4. CASE s \notin tab /\ B = {}
  <2>1. On(s) = {}
    BY <1>4 DEF On, Typed, TypeOK
  <2> QED BY <1>3, <1>4, <2>1, OrderedListed
<1>5. CASE \E key : B \in Splits(s, Popped, key)
  <2>1. B \in SUBSET On(s) /\ \A m \in B, k \in On(s) \ B : <<s, m, k>> \in before
    BY <1>5 DEF Splits
  <2> QED BY <1>3, <2>1, OrderedListed
<1> QED BY <1>4, <1>5

LEMMA OrderedStep ==
  ASSUME CascadeInv, Ordered(on, before), [CascadeNext]_allVars
  PROVE  Ordered(on', before')
<1>1. CASE \E n \in Node : Enter(n) /\ AtomicStep
  BY <1>1, IdleAccounted, OrderedEnter DEF AtomicStep, CascadeInv
<1>2. CASE FixDefine /\ AtomicStep
  <2>1. Fixing /\ Typed /\ Accounted
    BY <1>2, IdleAccounted DEF FixDefine, AtomicStep, CascadeInv
  <2>2. PICK sc \in HomeScopes(Popped) : \E i \in FreshNames(sc), t \in TypesOf(Popped) :
          Listed([scope |-> sc, name |-> i, type |-> t], Popped, {})
    BY <1>2 DEF FixDefine
  <2>3. PICK i \in FreshNames(sc), t \in TypesOf(Popped) :
          Listed([scope |-> sc, name |-> i, type |-> t], Popped, {})
    BY <2>2
  <2>4. [scope |-> sc, name |-> i, type |-> t] \notin tab
    BY <2>3 DEF FreshNames, NameTaken
  <2> QED BY <2>1, <2>3, <2>4, OrderedFix
<1>3. CASE (FixUse /\ AtomicStep) \/ InsertInvalidate
  <2>1. Fixing /\ Typed /\ Accounted
    BY <1>3, IdleAccounted DEF FixUse, InsertInvalidate, AtomicStep, CascadeInv
  <2>2. PICK s \in Available(Popped) : \E B \in Splits(s, Popped, ByID) : Listed(s, Popped, B)
    BY <1>3 DEF FixUse, InsertInvalidate
  <2> QED BY <2>1, <2>2, OrderedFix
<1>4. CASE GiveUp \/ AbortFix \/ Finish
  BY <1>4 DEF GiveUp, AbortFix, Finish, tables
<1>5. CASE Reanalyze
  <2>1. on' = {} /\ before' = {}
    BY <1>5 DEF Reanalyze
  <2> QED BY <2>1 DEF Ordered
<1>6. CASE CascadeStep
  <2>1. UNCHANGED <<on, before>> \/ \E m : Erase(m)
    BY <1>6 DEF CascadeStep, SkipError, RevokeMarker, RevokeDefine, EraseAndProceed, vars
  <2> QED BY <2>1, OrderedErasing
<1>7. CASE UNCHANGED allVars
  BY <1>7 DEF allVars, vars
<1> QED BY <1>1, <1>2, <1>3, <1>4, <1>5, <1>6, <1>7 DEF CascadeNext, AtomicStep

-----------------------------------------------------------------------------
(***************************************************************************)
(* The closure FixInvalidate of SymbolAnalysis revokes, and how far the walks *)
(* of a cascade have come: between two steps, what has been revoked needs   *)
(* nothing but what has been revoked and what a walk will come to.          *)
(***************************************************************************)
(* Revoked is closed, and no closed set that has S is smaller.              *)
LEMMA RevokedFacts ==
  ASSUME NEW S, NEW known, NEW o, NEW b, S \subseteq Acting,
         \A s, m : <<s, m>> \in o => m \in Acting
  PROVE  /\ S \subseteq Revoked(S, known, o, b)
         /\ RevokeClosed(Revoked(S, known, o, b), known, o, b)
         /\ \A C \in SUBSET Acting : S \subseteq C /\ RevokeClosed(C, known, o, b)
                                     => Revoked(S, known, o, b) \subseteq C
<1> DEFINE G == Revoked(S, known, o, b)
<1>1. \A n : n \in G <=> /\ n \in Acting
                         /\ \A C \in SUBSET Acting :
                              S \subseteq C /\ RevokeClosed(C, known, o, b) => n \in C
  BY DEF Revoked
<1> HIDE DEF G
<1>2. ASSUME NEW c \in G, NEW x \in (prog.desc[c] \cap Acting) \ known PROVE x \in G
  <2> SUFFICES ASSUME NEW C \in SUBSET Acting, S \subseteq C, RevokeClosed(C, known, o, b)
               PROVE  x \in C
    BY <1>1
  <2>1. c \in C
    BY <1>1
  <2> QED BY <2>1 DEF RevokeClosed
<1>3. ASSUME NEW c \in G, OpOf(c) = "define", NEW s \in tab, <<s, c>> \in o,
             NEW x \in OrphansOf(s, c, o, b)
      PROVE  x \in G
  <2>1. x \in Acting
    BY DEF OrphansOf
  <2> SUFFICES ASSUME NEW C \in SUBSET Acting, S \subseteq C, RevokeClosed(C, known, o, b)
               PROVE  x \in C
    BY <1>1, <2>1
  <2>2. c \in C
    BY <1>1
  <2> QED BY <1>3, <2>2 DEF RevokeClosed
<1>4. RevokeClosed(G, known, o, b)
  BY <1>2, <1>3 DEF RevokeClosed
<1>5. S \subseteq G /\ \A C \in SUBSET Acting : S \subseteq C /\ RevokeClosed(C, known, o, b)
                                                => G \subseteq C
  BY <1>1
<1> QED BY <1>4, <1>5 DEF G

-----------------------------------------------------------------------------
(* The walks, and what they have still to come to in the lists (o, b).      *)
Frames(st) == {st[i] : i \in 1 .. Len(st)}

Ahead(F, o, b) == UNION {OrphansOf(f.sym, f.at, o, b) : f \in F}
Todo(F)        == UNION {f.todo : f \in F}

(* What E needs and does not have, the walks F will come to.                *)
Covers(F, E, known, o, b) ==
  /\ \A c \in E : /\ (prog.desc[c] \cap Acting) \ known \subseteq E \cup Todo(F)
                  /\ OpOf(c) = "define" =>
                       \A s \in tab : <<s, c>> \in o =>
                          OrphansOf(s, c, o, b) \subseteq E \cup Ahead(F, o, b)
  /\ \A f \in F : (prog.desc[f.at] \cap Acting) \ known \subseteq E \cup f.todo

(* They come to nothing but G, and no define is ahead that is gone already. *)
Within(F, E, G, o, b) ==
  /\ \A c \in E : c \in G /\ \E s \in tab : <<s, c>> \in o
  /\ \A f \in F : /\ f.at \in E /\ OrphansOf(f.sym, f.at, o, b) \subseteq G
                  /\ \A d \in E : OpOf(d) = "define" => <<f.sym, f.at, d>> \notin b

(* What the cascade started from is revoked, or a walk will come to it.     *)
Reached(S, F, E, o, b) == S \subseteq E \cup Ahead(F, o, b)

(* The lists are (o, b) without the markers of X.                           *)
Without(X, o, b) ==
  /\ on = {e \in o : e[2] \notin X}
  /\ before = {e \in b : e[2] \notin X /\ e[3] \notin X}

Progress(known, S, G, o, b) ==
  /\ known \subseteq errors
  /\ Reached(S, Frames(stack), errors \ known, o, b)
  /\ Covers(Frames(stack), errors \ known, known, o, b)
  /\ Within(Frames(stack), errors \ known, G, o, b)
  /\ Without((errors \ known) \ At(stack), o, b)

LEMMA CoversGrow ==
  ASSUME NEW F, NEW E, NEW known, NEW o, NEW b, Covers(F, E, known, o, b),
         NEW H, NEW D, E \subseteq D,
         Ahead(F, o, b) \subseteq D \cup Ahead(H, o, b),
         (Todo(F) \cap Acting) \ known \subseteq D \cup Todo(H),
         \A g \in H : (prog.desc[g.at] \cap Acting) \ known \subseteq D \cup g.todo,
         \A x \in D \ E :
           /\ (prog.desc[x] \cap Acting) \ known \subseteq D \cup Todo(H)
           /\ OpOf(x) = "define" =>
                \A s \in tab : <<s, x>> \in o => OrphansOf(s, x, o, b) \subseteq D \cup Ahead(H, o, b)
  PROVE  Covers(H, D, known, o, b)
<1>1. ASSUME NEW c \in E
      PROVE  /\ (prog.desc[c] \cap Acting) \ known \subseteq D \cup Todo(H)
             /\ OpOf(c) = "define" =>
                  \A s \in tab : <<s, c>> \in o => OrphansOf(s, c, o, b) \subseteq D \cup Ahead(H, o, b)
  <2>1. (prog.desc[c] \cap Acting) \ known \subseteq E \cup Todo(F)
    BY DEF Covers
  <2>2. OpOf(c) = "define" =>
          \A s \in tab : <<s, c>> \in o => OrphansOf(s, c, o, b) \subseteq E \cup Ahead(F, o, b)
    BY DEF Covers
  <2> QED BY <2>1, <2>2
<1> QED BY <1>1 DEF Covers

(* An empty stack covers nothing: what has been revoked is closed.          *)
LEMMA CoversEnd ==
  ASSUME NEW E, NEW known, NEW o, NEW b, Covers({}, E, known, o, b)
  PROVE  RevokeClosed(E, known, o, b)
BY DEF Covers, RevokeClosed, Todo, Ahead

LEMMA FramesAppend ==
  ASSUME NEW st \in Seq(Walk), NEW f
  PROVE  Frames(Append(st, f)) = Frames(st) \cup {f}
<1>1. PICK k \in Nat : k = Len(st)
  OBVIOUS
<1>2. /\ Len(Append(st, f)) = k + 1 /\ Append(st, f)[k + 1] = f
      /\ \A i \in 1 .. k : Append(st, f)[i] = st[i]
      /\ 1 .. (k + 1) = (1 .. k) \cup {k + 1}
  BY <1>1
<1> QED BY <1>1, <1>2 DEF Frames

LEMMA FramesFacts ==
  ASSUME NEW st \in Seq(Walk)
  PROVE  /\ At(st) = {f.at : f \in Frames(st)} /\ Frames(<< >>) = {}
         /\ Frames(st) \subseteq Walk
BY DEF At, Frames

LEMMA FramesTop ==
  ASSUME stack \in Seq(Walk), ~Idle
  PROVE  /\ Outer \in Seq(Walk) /\ Top \in Walk /\ Frames(stack) = Frames(Outer) \cup {Top}
         /\ \A x : Frames(Visited(x)) = Frames(Outer) \cup {[Top EXCEPT !.todo = @ \ {x}]}
<1>1. PICK k \in Nat : Len(stack) = k + 1
  <2>1. Len(stack) \in Nat /\ Len(stack) # 0
    BY DEF Idle
  <2> QED BY <2>1
<1>2. /\ Outer \in Seq(Walk) /\ Len(Outer) = k /\ Top = stack[k + 1] /\ Top \in Walk
      /\ \A i \in 1 .. k : Outer[i] = stack[i]
      /\ 1 .. (k + 1) = (1 .. k) \cup {k + 1}
  BY <1>1 DEF Outer, Top
<1>3. Frames(stack) = Frames(Outer) \cup {Top}
  BY <1>1, <1>2 DEF Frames
<1> QED BY <1>2, <1>3, FramesAppend DEF Visited

(* RevokeAll comes to x. What depends on x also depends on the marker that  *)
(* the walk f stands at, so that it need not be looked at again.            *)
LEMMA CoversVisit ==
  ASSUME prog \in Programs, NEW E, NEW known, NEW o, NEW b, NEW O, NEW f, f.at \in Node,
         f.todo \subseteq prog.desc[f.at], Covers(O \cup {f}, E, known, o, b),
         NEW x \in f.todo, NEW g, g.sym = f.sym, g.at = f.at, g.todo = f.todo \ {x}
  PROVE  /\ (x \in Acting => x \in E \cup known) => Covers(O \cup {g}, E, known, o, b)
         /\ OpOf(x) # "define" => Covers(O \cup {g}, E \cup {x}, known, o, b)
<1>1. ASSUME NEW D, D = E \/ (D = E \cup {x} /\ OpOf(x) # "define"),
             x \in Acting => x \in D \cup known
      PROVE  Covers(O \cup {g}, D, known, o, b)
  <2> DEFINE F == O \cup {f}
             H == O \cup {g}
  <2>1. Ahead(H, o, b) = Ahead(F, o, b)
    BY DEF Ahead
  <2>2. (Todo(F) \cap Acting) \ known \subseteq D \cup Todo(H)
    BY <1>1 DEF Todo
  <2>3. (prog.desc[f.at] \cap Acting) \ known \subseteq E \cup f.todo
    BY DEF Covers
  <2>4. (prog.desc[g.at] \cap Acting) \ known \subseteq D \cup g.todo
    BY <1>1, <2>3
  <2>5. \A h \in H : (prog.desc[h.at] \cap Acting) \ known \subseteq D \cup h.todo
    <3> SUFFICES ASSUME NEW h \in O
                 PROVE  (prog.desc[h.at] \cap Acting) \ known \subseteq D \cup h.todo
      BY <2>4
    <3>1. (prog.desc[h.at] \cap Acting) \ known \subseteq E \cup h.todo
      BY DEF Covers
    <3> QED BY <1>1, <3>1
  <2>6. prog.desc[x] \subseteq prog.desc[f.at]
    <3>1. prog.desc[f.at] \subseteq Node /\ AreDependents(prog.desc, prog.dep)
      BY ProgramFacts DEF Program
    <3>2. \A z \in prog.desc[x] : z \in Node
      BY <3>1, ProgramFacts DEF Program
    <3> QED BY <3>1, <3>2 DEF AreDependents
  <2>7. g.todo \subseteq Todo(H)
    BY DEF Todo
  <2>8. (prog.desc[x] \cap Acting) \ known \subseteq D \cup Todo(H)
    BY <2>4, <2>6, <2>7
  <2>9. \A y \in D \ E : y = x /\ OpOf(y) # "define"
    BY <1>1
  <2> HIDE DEF F, H
  <2>10. Covers(F, E, known, o, b) /\ E \subseteq D
    BY <1>1 DEF F
  <2>11. Covers(H, D, known, o, b)
    BY <2>1, <2>2, <2>5, <2>8, <2>9, <2>10, CoversGrow
  <2> QED BY <2>11 DEF H
<1> QED
  <2>1. ASSUME x \in Acting => x \in E \cup known PROVE Covers(O \cup {g}, E, known, o, b)
    BY <1>1, <2>1
  <2>2. ASSUME OpOf(x) # "define" PROVE Covers(O \cup {g}, E \cup {x}, known, o, b)
    <3>1. PICK D : D = E \cup {x}
      OBVIOUS
    <3>2. Covers(O \cup {g}, D, known, o, b)
      BY <1>1, <2>2, <3>1
    <3> QED BY <3>1, <3>2
  <2> QED BY <2>1, <2>2

(* It comes to the define x, whose list a new walk starts with.             *)
LEMMA CoversDefine ==
  ASSUME NEW E, NEW known, NEW o, NEW b, NEW O, NEW f, Covers(O \cup {f}, E, known, o, b),
         NEW S, Reached(S, O \cup {f}, E, o, b),
         NEW x \in f.todo, NEW g, g.sym = f.sym, g.at = f.at, g.todo = f.todo \ {x},
         NEW h, h.at = x, h.todo = prog.desc[x], \A s \in tab : <<s, x>> \in o => s = h.sym
  PROVE  /\ Covers(O \cup {g, h}, E \cup {x}, known, o, b)
         /\ Reached(S, O \cup {g, h}, E \cup {x}, o, b)
<1> DEFINE F == O \cup {f}
           H == O \cup {g, h}
           D == E \cup {x}
<1>1. Ahead(F, o, b) \subseteq Ahead(H, o, b) /\ OrphansOf(h.sym, x, o, b) \subseteq Ahead(H, o, b)
  BY DEF Ahead
<1>2. (Todo(F) \cap Acting) \ known \subseteq D \cup Todo(H)
  BY DEF Todo
<1>3. \A j \in O \cup {f} : (prog.desc[j.at] \cap Acting) \ known \subseteq E \cup j.todo
  BY DEF Covers
<1>4. (prog.desc[g.at] \cap Acting) \ known \subseteq D \cup g.todo
  BY <1>3
<1>5. \A j \in H : (prog.desc[j.at] \cap Acting) \ known \subseteq D \cup j.todo
  <2> SUFFICES ASSUME NEW j \in O
               PROVE  (prog.desc[j.at] \cap Acting) \ known \subseteq D \cup j.todo
    BY <1>4
  <2> QED BY <1>3
<1>6. h.todo \subseteq Todo(H)
  BY DEF Todo
<1>7. \A y \in D \ E : y = x
  OBVIOUS
<1> HIDE DEF F, H
<1>8. Covers(F, E, known, o, b) /\ E \subseteq D
  BY DEF F
<1>9. \A y \in D \ E :
        /\ (prog.desc[y] \cap Acting) \ known \subseteq D \cup Todo(H)
        /\ OpOf(y) = "define" =>
             \A s \in tab : <<s, y>> \in o => OrphansOf(s, y, o, b) \subseteq D \cup Ahead(H, o, b)
  BY <1>1, <1>6, <1>7
<1> HIDE DEF D
<1>10. Covers(H, D, known, o, b)
  BY <1>1, <1>2, <1>5, <1>8, <1>9, CoversGrow
<1>11. Reached(S, H, D, o, b)
  BY <1>1, <1>8 DEF F, Reached
<1> QED BY <1>10, <1>11 DEF H, D

(* A walk moves on to k, which is no define, or ends.                       *)
LEMMA CoversMove ==
  ASSUME NEW E, NEW known, NEW o, NEW b, NEW O, NEW f, Covers(O \cup {f}, E, known, o, b),
         NEW S, Reached(S, O \cup {f}, E, o, b),
         f.todo = {}, NEW k, OpOf(k) # "define", NEW h, h.at = k, h.todo = prog.desc[k],
         OrphansOf(f.sym, f.at, o, b) \subseteq E \cup {k} \cup OrphansOf(h.sym, k, o, b)
  PROVE  /\ Covers(O \cup {h}, E \cup {k}, known, o, b)
         /\ Reached(S, O \cup {h}, E \cup {k}, o, b)
<1> DEFINE F == O \cup {f}
           H == O \cup {h}
           D == E \cup {k}
<1>1. Ahead(F, o, b) \subseteq D \cup Ahead(H, o, b)
  BY DEF Ahead
<1>2. (Todo(F) \cap Acting) \ known \subseteq D \cup Todo(H)
  BY DEF Todo
<1>3. \A j \in O : (prog.desc[j.at] \cap Acting) \ known \subseteq E \cup j.todo
  BY DEF Covers
<1>4. \A j \in H : (prog.desc[j.at] \cap Acting) \ known \subseteq D \cup j.todo
  <2> SUFFICES ASSUME NEW j \in O
               PROVE  (prog.desc[j.at] \cap Acting) \ known \subseteq D \cup j.todo
    OBVIOUS
  <2> QED BY <1>3
<1>5. h.todo \subseteq Todo(H)
  BY DEF Todo
<1>6. \A y \in D \ E : y = k
  OBVIOUS
<1> HIDE DEF F, H
<1>7. Covers(F, E, known, o, b) /\ E \subseteq D
  BY DEF F
<1>8. \A y \in D \ E :
        /\ (prog.desc[y] \cap Acting) \ known \subseteq D \cup Todo(H)
        /\ OpOf(y) # "define"
  BY <1>5, <1>6
<1> HIDE DEF D
<1>9. Covers(H, D, known, o, b)
  BY <1>1, <1>2, <1>4, <1>7, <1>8, CoversGrow
<1>10. Reached(S, H, D, o, b)
  BY <1>1, <1>7 DEF F, Reached
<1> QED BY <1>9, <1>10 DEF H, D

LEMMA CoversDone ==
  ASSUME NEW E, NEW known, NEW o, NEW b, NEW O, NEW f, Covers(O \cup {f}, E, known, o, b),
         NEW S, Reached(S, O \cup {f}, E, o, b),
         f.todo = {}, OrphansOf(f.sym, f.at, o, b) \subseteq E
  PROVE  Covers(O, E, known, o, b) /\ Reached(S, O, E, o, b)
<1> DEFINE F == O \cup {f}
<1>1. Ahead(F, o, b) \subseteq E \cup Ahead(O, o, b)
  BY DEF Ahead
<1>2. (Todo(F) \cap Acting) \ known \subseteq E \cup Todo(O)
  BY DEF Todo
<1>3. \A j \in O : (prog.desc[j.at] \cap Acting) \ known \subseteq E \cup j.todo
  BY DEF Covers
<1> HIDE DEF F
<1>4. Covers(F, E, known, o, b)
  BY DEF F
<1>5. Covers(O, E, known, o, b)
  BY <1>1, <1>2, <1>3, <1>4, CoversGrow
<1>6. Reached(S, O, E, o, b)
  BY <1>1 DEF F, Reached
<1> QED BY <1>5, <1>6

(* A walk of the list of s goes on from a: P is what is left behind a, E    *)
(* what has been revoked. It moves to the first of P, or is done.           *)
Advances(s, a, P, E, o, b) ==
  /\ \A k \in P :
       (\A m \in P \ {k} : <<s, k, m>> \in b) /\ OpOf(k) # "define" =>
         /\ k \in OrphansOf(s, a, o, b)
         /\ OrphansOf(s, k, o, b) \subseteq OrphansOf(s, a, o, b)
         /\ OrphansOf(s, a, o, b) \subseteq E \cup {k} \cup OrphansOf(s, k, o, b)
         /\ \A d \in E \cup {k} : OpOf(d) = "define" => <<s, k, d>> \notin b
  /\ (\A k \in P : (\A m \in P \ {k} : <<s, k, m>> \in b) => OpOf(k) = "define")
       => OrphansOf(s, a, o, b) \subseteq E

LEMMA MovingOn ==
  ASSUME NEW o, NEW b, Ordered(o, b), NEW E, NEW s, NEW a, NEW P, P \subseteq Node,
         \A m \in P : <<s, a, m>> \in b,
         \A m \in Node : <<s, a, m>> \in b /\ m \notin E => m \in P,
         \A d \in E : OpOf(d) = "define" => <<s, a, d>> \notin b
  PROVE  Advances(s, a, P, E, o, b)
<1>0. P # {} /\ P \subseteq Node /\ Ordered(o, b) /\ (\A x \in P : <<s, x>> \in o)
      => \E k \in P : \A x \in P \ {k} : <<s, k, x>> \in b
  BY ONLY HeadExists, Zenon
<1>1. ASSUME NEW k \in P, \A m \in P \ {k} : <<s, k, m>> \in b, OpOf(k) # "define"
      PROVE  /\ k \in OrphansOf(s, a, o, b)
             /\ OrphansOf(s, k, o, b) \subseteq OrphansOf(s, a, o, b)
             /\ OrphansOf(s, a, o, b) \subseteq E \cup {k} \cup OrphansOf(s, k, o, b)
             /\ \A d \in E \cup {k} : OpOf(d) = "define" => <<s, k, d>> \notin b
  <2>1. <<s, a, k>> \in b /\ <<s, k>> \in o /\ k \in Node
    <3>1. <<s, a, k>> \in b /\ k \in Node
      BY <1>1
    <3> QED BY <3>1 DEF Ordered
  <2>2. \A m : <<s, k, m>> \in b => <<s, a, m>> \in b
    BY <2>1 DEF Ordered
  <2>3. \A d \in Node : OpOf(d) = "define" /\ <<s, a, d>> \in b => <<s, k, d>> \in b
    <3> SUFFICES ASSUME NEW d \in Node, OpOf(d) = "define", <<s, a, d>> \in b
                 PROVE  <<s, k, d>> \in b
      OBVIOUS
    <3>1. d \in P \ {k}
      BY <1>1
    <3> QED BY <1>1, <3>1
  <2>4. k \in OrphansOf(s, a, o, b)
    BY <2>1, <2>3 DEF OrphansOf
  <2>5. OrphansOf(s, k, o, b) \subseteq OrphansOf(s, a, o, b)
    BY <2>2, <2>3 DEF OrphansOf
  <2>6. ASSUME NEW m \in OrphansOf(s, a, o, b), m \notin E, m # k
        PROVE  m \in OrphansOf(s, k, o, b)
    <3>1. /\ m \in Node /\ <<s, m>> \in o /\ <<s, a, m>> \in b
          /\ \A d \in Node : OpOf(d) = "define" /\ <<s, a, d>> \in b => <<s, m, d>> \in b
      BY DEF OrphansOf
    <3>2. <<s, k, m>> \in b
      BY <1>1, <2>6, <3>1
    <3> QED BY <2>2, <3>1, <3>2 DEF OrphansOf
  <2>7. \A d \in E \cup {k} : OpOf(d) = "define" => <<s, k, d>> \notin b
    BY <1>1, <2>2
  <2> QED BY <2>4, <2>5, <2>6, <2>7
<1>2. ASSUME \A k \in P : (\A m \in P \ {k} : <<s, k, m>> \in b) => OpOf(k) = "define",
             NEW m \in OrphansOf(s, a, o, b)
      PROVE  m \in E
  <2>1. /\ m \in Node /\ <<s, m>> \in o /\ <<s, a, m>> \in b
        /\ \A d \in Node : OpOf(d) = "define" /\ <<s, a, d>> \in b => <<s, m, d>> \in b
    BY DEF OrphansOf
  <2>2. SUFFICES ASSUME m \in P PROVE FALSE
    BY <2>1
  <2>3. \A x \in P : <<s, x>> \in o
    <3> SUFFICES ASSUME NEW x \in P PROVE <<s, x>> \in o
      OBVIOUS
    <3>1. <<s, a, x>> \in b
      OBVIOUS
    <3> QED BY <3>1 DEF Ordered
  <2>4. PICK k \in P : \A x \in P \ {k} : <<s, k, x>> \in b
    <3>1. P # {}
      BY <2>2
    <3> QED BY <1>0, <2>3, <3>1
  <2>5. <<s, m, k>> \in b
    BY <1>2, <2>1, <2>4
  <2>6. m = k \/ <<s, k, m>> \in b
    BY <2>2, <2>4
  <2> QED BY <2>5, <2>6 DEF Ordered
<1> QED BY <1>1, <1>2 DEF Advances

(* In the lists a cascade has begun with, every symbol has one define.      *)
Lone(o) ==
  /\ \A s, m : <<s, m>> \in o => s \in tab /\ m \in Acting
  /\ \A s, d, m : <<s, d>> \in o /\ OpOf(d) = "define" =>
                     (<<s, m>> \in o /\ OpOf(m) = "define" => d = m)

LEMMA ProgressNext ==
  ASSUME UNCHANGED <<prog, tab>>, NEW o, NEW b, NEW known, NEW S, NEW G,
         NEW F, F = Frames(stack'), NEW E, E = errors' \ known, NEW X, X = E \ At(stack'),
         known \subseteq errors', Reached(S, F, E, o, b),
         Covers(F, E, known, o, b), Within(F, E, G, o, b), Without(X, o, b)'
  PROVE  Progress(known, S, G, o, b)'
<1>1. /\ Acting' = Acting /\ \A n : OpOf(n)' = OpOf(n)
      /\ \A s, n : OrphansOf(s, n, o, b)' = OrphansOf(s, n, o, b)
  BY DEF Acting, OpOf, OrphansOf
<1>2. /\ Ahead(Frames(stack), o, b)' = Ahead(F, o, b) /\ Todo(Frames(stack))' = Todo(F)
      /\ Frames(stack)' = F
  BY <1>1 DEF Ahead, Todo
<1>3. Covers(Frames(stack), errors \ known, known, o, b)'
  BY <1>1, <1>2 DEF Covers
<1>4. Within(Frames(stack), errors \ known, G, o, b)'
  BY <1>1, <1>2 DEF Within
<1>5. Reached(S, Frames(stack), errors \ known, o, b)'
  BY <1>1, <1>2 DEF Reached
<1> QED BY <1>2, <1>3, <1>4, <1>5 DEF Progress, Without

(* What the cascade has left of the lists it began with.                    *)
LEMMA ProgressFacts ==
  ASSUME CascadeInv, ~Idle, NEW known, NEW S, NEW G, NEW o, NEW b, Progress(known, S, G, o, b)
  PROVE  LET E == errors \ known
             X == E \ At(stack)
             F == Frames(Outer) \cup {Top}
         IN  /\ known \subseteq errors /\ At(stack) \subseteq E /\ Frames(stack) = F
             /\ Reached(S, F, E, o, b) /\ Covers(F, E, known, o, b) /\ Within(F, E, G, o, b)
             /\ Without(X, o, b)
             /\ \A s, m : <<s, m>> \in on <=> <<s, m>> \in o /\ m \notin X
             /\ \A s, m, k : <<s, m, k>> \in before
                             <=> <<s, m, k>> \in b /\ m \notin X /\ k \notin X
<1> DEFINE E == errors \ known
           X == E \ At(stack)
           F == Frames(Outer) \cup {Top}
<1>2. stack \in Seq(Walk) /\ Frames(stack) = F
  BY FramesTop DEF CascadeInv, Sound
<1>3. /\ known \subseteq errors /\ Without(X, o, b)
      /\ Reached(S, F, E, o, b) /\ Covers(F, E, known, o, b) /\ Within(F, E, G, o, b)
  BY <1>2 DEF Progress
<1>4. At(stack) \subseteq E
  <2>1. \A f \in Frames(stack) : f.at \in E
    BY <1>2, <1>3 DEF Within
  <2> QED BY <1>2, <2>1, FramesFacts
<1>5. \A s, m : <<s, m>> \in on <=> <<s, m>> \in o /\ m \notin X
  BY <1>3 DEF Without
<1>6. \A s, m, k : <<s, m, k>> \in before <=> <<s, m, k>> \in b /\ m \notin X /\ k \notin X
  BY <1>3 DEF Without
<1> QED BY <1>2, <1>3, <1>4, <1>5, <1>6

(* RevokeAll leaves x of the innermost walk.                                *)
LEMMA VisitFacts ==
  ASSUME CascadeInv, ~Idle, NEW x \in Top.todo, NEW known, NEW S, NEW G, NEW o, NEW b,
         Progress(known, S, G, o, b)
  PROVE  LET E == errors \ known
             F == Frames(Visited(x))
         IN  /\ (x \in Acting => x \in errors) =>
                  /\ Reached(S, F, E, o, b) /\ Covers(F, E, known, o, b)
                  /\ Within(F, E, G, o, b)
             /\ OpOf(x) # "define" /\ x \in G /\ (\E s \in tab : <<s, x>> \in o) =>
                  /\ Reached(S, F, E \cup {x}, o, b) /\ Covers(F, E \cup {x}, known, o, b)
                  /\ Within(F, E \cup {x}, G, o, b)
<1> DEFINE E == errors \ known
           O == Frames(Outer)
           g == [Top EXCEPT !.todo = @ \ {x}]
<1>1. /\ Reached(S, O \cup {Top}, E, o, b) /\ Covers(O \cup {Top}, E, known, o, b)
      /\ Within(O \cup {Top}, E, G, o, b) /\ known \subseteq errors
  BY ProgressFacts
<1>2. /\ Top \in Walk /\ Top.todo \subseteq prog.desc[Top.at] /\ prog \in Programs
      /\ stack \in Seq(Walk)
  BY StackFacts DEF CascadeInv, Typed, Sound
<1>3. g.sym = Top.sym /\ g.at = Top.at /\ g.todo = Top.todo \ {x} /\ Top.at \in Node
  BY <1>2 DEF Walk
<1>4. Frames(Visited(x)) = O \cup {g}
  BY <1>2, FramesTop
<1>5. x \in errors => x \in E \cup known
  OBVIOUS
<1> HIDE DEF E, O, g
<1>6. /\ (x \in Acting => x \in E \cup known) => Covers(O \cup {g}, E, known, o, b)
      /\ OpOf(x) # "define" => Covers(O \cup {g}, E \cup {x}, known, o, b)
  BY <1>1, <1>2, <1>3, CoversVisit
<1>7. Reached(S, O \cup {g}, E, o, b) /\ Reached(S, O \cup {g}, E \cup {x}, o, b)
  BY <1>1, <1>3 DEF Reached, Ahead
<1>8. Within(O \cup {g}, E, G, o, b)
  BY <1>1, <1>3 DEF Within
<1>9. ASSUME OpOf(x) # "define", x \in G, \E s \in tab : <<s, x>> \in o
      PROVE  Within(O \cup {g}, E \cup {x}, G, o, b)
  BY <1>1, <1>3, <1>9 DEF Within
<1> QED BY <1>4, <1>5, <1>6, <1>7, <1>8, <1>9 DEF E, O, g

LEMMA ProgressSkip ==
  ASSUME CascadeInv, ~Idle, SkipError, NEW known, NEW S, NEW G, NEW o, NEW b,
         Progress(known, S, G, o, b)
  PROVE  Progress(known, S, G, o, b)'
<1>1. PICK x \in Top.todo : Skipped(x) /\ stack' = Visited(x)
  BY DEF SkipError
<1> DEFINE E == errors \ known
           X == E \ At(stack)
           F == Frames(Visited(x))
<1>2. /\ Reached(S, F, E, o, b) /\ Covers(F, E, known, o, b) /\ Within(F, E, G, o, b)
  BY <1>1, VisitFacts DEF Skipped
<1>3. known \subseteq errors /\ Without(X, o, b)
  BY ProgressFacts
<1>4. At(stack') = At(stack) /\ UNCHANGED vars
  BY <1>1, VisitedSound DEF CascadeInv, SkipError
<1>5. /\ E = errors' \ known /\ X = E \ At(stack') /\ known \subseteq errors'
      /\ UNCHANGED <<prog, tab, on, before>> /\ F = Frames(stack')
  BY <1>1, <1>3, <1>4 DEF vars
<1> HIDE DEF E, X, F
<1>6. PICK Y : Y = X
  OBVIOUS
<1>7. Without(Y, o, b)'
  BY <1>3, <1>5, <1>6 DEF Without
<1> QED BY <1>2, <1>5, <1>6, <1>7, ProgressNext

(* The nodes RevokeAll comes to belong to the closure.                      *)
LEMMA TodoWithin ==
  ASSUME CascadeInv, ~Idle, NEW x \in Top.todo, ~Skipped(x), NEW known, NEW S, NEW G, NEW o, NEW b,
         Progress(known, S, G, o, b), RevokeClosed(G, known, o, b)
  PROVE  /\ x \in G /\ x \in Acting \ errors
         /\ \E s \in tab : <<s, x>> \in o
         /\ \A s \in tab : <<s, x>> \in o => <<s, x>> \in on
         /\ \A s, t \in tab : <<s, x>> \in o /\ <<t, x>> \in o => s = t
<1> DEFINE E == errors \ known
           X == E \ At(stack)
           F == Frames(Outer) \cup {Top}
<1>1. /\ known \subseteq errors /\ Within(F, E, G, o, b)
      /\ \A s, m : <<s, m>> \in on <=> <<s, m>> \in o /\ m \notin X
  BY ProgressFacts
<1>2. x \in Acting \ errors /\ ListedOnce(x)
  BY TodoFacts
<1>3. \A s \in tab : <<s, x>> \in on <=> <<s, x>> \in o
  BY <1>1, <1>2
<1>4. Top.at \in G
  BY <1>1 DEF Within
<1>5. x \in prog.desc[Top.at] /\ x \notin known
  BY <1>1, <1>2, StackFacts DEF CascadeInv
<1>6. x \in G
  BY <1>2, <1>4, <1>5 DEF RevokeClosed
<1> QED BY <1>2, <1>3, <1>6 DEF ListedOnce

LEMMA ProgressMarker ==
  ASSUME CascadeInv, ~Idle, RevokeMarker, NEW known, NEW S, NEW G, NEW o, NEW b,
         Progress(known, S, G, o, b), RevokeClosed(G, known, o, b)
  PROVE  Progress(known, S, G, o, b)'
<1>1. PICK x \in Top.todo :
        /\ ~Skipped(x) /\ OpOf(x) # "define" /\ Erase(x)
        /\ errors' = errors \cup {x} /\ stack' = Visited(x)
  BY DEF RevokeMarker
<1>2. x \in G /\ x \notin errors /\ \E s \in tab : <<s, x>> \in o
  BY <1>1, TodoWithin
<1> DEFINE E == errors \ known
           X == E \ At(stack)
           D == E \cup {x}
           F == Frames(Visited(x))
<1>3. /\ Reached(S, F, D, o, b) /\ Covers(F, D, known, o, b) /\ Within(F, D, G, o, b)
  BY <1>1, <1>2, VisitFacts
<1>4. known \subseteq errors /\ Without(X, o, b)
  BY ProgressFacts
<1>5. At(stack') = At(stack) /\ UNCHANGED <<prog, tab>> /\ x \notin At(stack)
  <2>1. At(Visited(x)) = At(stack)
    BY VisitedSound DEF CascadeInv
  <2> QED BY <1>1, <2>1, TodoFacts DEF RevokeMarker, Elsewhere
<1>6. PICK Y : Y = D \ At(stack')
  OBVIOUS
<1>7. \A y : y \notin Y <=> y \notin X /\ y # x
  BY <1>5, <1>6
<1>8. D = errors' \ known /\ known \subseteq errors' /\ F = Frames(stack')
  BY <1>1, <1>2, <1>4
<1> HIDE DEF E, X, D, F
<1>9. Without(Y, o, b)'
  BY <1>1, <1>4, <1>7 DEF Erase, Without
<1> QED BY <1>3, <1>5, <1>6, <1>8, <1>9, ProgressNext

LEMMA MoveToFrames ==
  ASSUME NEW st \in Seq(Walk), NEW k \in Node, NEW s \in Symbol, prog \in Programs
  PROVE  /\ MoveTo(k, s, st) \in Seq(Walk)
         /\ Frames(MoveTo(k, s, st)) = Frames(st) \cup {[sym |-> s, at |-> k, todo |-> prog.desc[k]]}
<1> DEFINE f == [sym |-> s, at |-> k, todo |-> prog.desc[k]]
<1>1. prog.desc[k] \subseteq Node
  BY ProgramFacts DEF Program
<1>2. f \in Walk /\ MoveTo(k, s, st) = Append(st, f)
  BY <1>1 DEF Walk, MoveTo
<1> HIDE DEF f
<1>3. Append(st, f) \in Seq(Walk) /\ Frames(Append(st, f)) = Frames(st) \cup {f}
  BY <1>2, FramesAppend
<1> QED BY <1>2, <1>3 DEF f

(* No walk has the list of the define x, which comes after all of them, in  *)
(* front of it.                                                             *)
LEMMA DefineNotAhead ==
  ASSUME CascadeInv, ~Idle, NEW x \in Top.todo, ~Skipped(x), OpOf(x) = "define",
         NEW f \in Frames(stack)
  PROVE  <<f.sym, x>> \notin on
<1>1. PICK i \in 1 .. Len(stack) : f = stack[i]
  BY DEF Frames
<1>2. <<f.sym, f.at>> \in on /\ f.at \in At(stack) /\ f \in Walk
  BY <1>1 DEF CascadeInv, Sound, At
<1>3. x \in Node /\ Rank(f.at) < Rank(x)
  BY <1>2, TodoFacts
<1>4. f.sym \in tab /\ f.at \in Node
  BY <1>2 DEF CascadeInv, Typed, TypeOK
<1>5. SUFFICES ASSUME <<f.sym, x>> \in on PROVE FALSE
  OBVIOUS
<1>6. Rank(x) <= Rank(f.at)
  BY <1>2, <1>3, <1>4, <1>5 DEF CascadeInv, Lists, On
<1> QED BY <1>3, <1>4, <1>6, ProgramFacts, NAssumption DEF CascadeInv, Typed

LEMMA ProgressDefine ==
  ASSUME CascadeInv, ~Idle, RevokeDefine, NEW known, NEW S, NEW G, NEW o, NEW b,
         Progress(known, S, G, o, b), RevokeClosed(G, known, o, b), Ordered(o, b), Lone(o)
  PROVE  Progress(known, S, G, o, b)'
<1>1. PICK x \in Top.todo :
        /\ ~Skipped(x) /\ OpOf(x) = "define" /\ errors' = errors \cup {x}
        /\ stack' = (IF Marked(x) THEN MoveTo(x, ListOf(x), Visited(x)) ELSE Visited(x))
  BY DEF RevokeDefine
<1>2. PICK s \in tab : s = ListOf(x) /\ <<s, x>> \in on
  BY <1>1, TodoFacts DEF Marked, ListOf
<1>3. /\ x \in G /\ x \in Node /\ x \notin errors /\ <<s, x>> \in o /\ x \notin At(stack)
      /\ \A t \in tab : <<t, x>> \in o => t = s /\ <<t, x>> \in on
  <2>1. /\ x \in G /\ x \notin errors /\ \E t \in tab : <<t, x>> \in o
        /\ \A t \in tab : <<t, x>> \in o => <<t, x>> \in on
        /\ \A t, u \in tab : <<t, x>> \in o /\ <<u, x>> \in o => t = u
    BY <1>1, TodoWithin
  <2>2. x \in Node /\ x \notin At(stack)
    BY <1>1, TodoFacts
  <2>3. <<s, x>> \in o
    BY <1>2, ProgressFacts
  <2> QED BY <2>1, <2>2, <2>3
<1> DEFINE E == errors \ known
           X == E \ At(stack)
           D == E \cup {x}
           O == Frames(Outer)
           g == [Top EXCEPT !.todo = @ \ {x}]
           h == [sym |-> s, at |-> x, todo |-> prog.desc[x]]
<1>4. /\ known \subseteq errors /\ Frames(stack) = O \cup {Top} /\ Without(X, o, b)
      /\ Reached(S, O \cup {Top}, E, o, b) /\ Covers(O \cup {Top}, E, known, o, b)
      /\ Within(O \cup {Top}, E, G, o, b)
  BY ProgressFacts
<1>5. /\ Top \in Walk /\ prog \in Programs /\ stack \in Seq(Walk) /\ s \in Symbol
  BY StackFacts DEF CascadeInv, Typed, TypeOK, Sound
<1>6. /\ g.sym = Top.sym /\ g.at = Top.at /\ g.todo = Top.todo \ {x}
      /\ h.sym = s /\ h.at = x /\ h.todo = prog.desc[x]
  BY <1>5 DEF Walk
<1>7. Visited(x) \in Seq(Walk) /\ At(Visited(x)) = At(stack) /\ Frames(Visited(x)) = O \cup {g}
  BY <1>5, VisitedSound, FramesTop DEF CascadeInv
<1>8. stack' = MoveTo(x, s, Visited(x))
  BY <1>1, <1>2 DEF Marked
<1>9. Frames(stack') = O \cup {g, h} /\ stack' \in Seq(Walk)
  BY <1>3, <1>5, <1>7, <1>8, MoveToFrames
<1>10. At(stack') = At(stack) \cup {x}
  <2>1. At(stack') = {f.at : f \in O \cup {g, h}} /\ At(Visited(x)) = {f.at : f \in O \cup {g}}
    BY <1>7, <1>9, FramesFacts
  <2> HIDE DEF O, g, h
  <2> QED BY <1>6, <1>7, <2>1
<1>11. UNCHANGED <<prog, tab, on, before>>
  BY DEF RevokeDefine, Elsewhere
<1>12. D = errors' \ known /\ known \subseteq errors' /\ X = D \ At(stack')
  BY <1>1, <1>3, <1>4, <1>10
<1>13. PICK Y : Y = X
  OBVIOUS
<1> HIDE DEF E, X, O, g, h
<1>14. \A t \in tab : <<t, x>> \in o => t = h.sym
  BY <1>3, <1>6
<1>15. Covers(O \cup {g, h}, D, known, o, b) /\ Reached(S, O \cup {g, h}, D, o, b)
  BY <1>4, <1>6, <1>14, CoversDefine
<1>16. Within(O \cup {g, h}, D, G, o, b)
  <2>1. \A c \in D : c \in G /\ \E t \in tab : <<t, c>> \in o
    BY <1>2, <1>3, <1>4 DEF Within
  <2>2. OrphansOf(s, x, o, b) \subseteq G
    BY <1>1, <1>3 DEF RevokeClosed
  <2>3. \A d \in D : OpOf(d) = "define" => <<s, x, d>> \notin b
    <3>1. \A d : <<s, x, d>> \in b => <<s, d>> \in o /\ d # x
      BY DEF Ordered
    <3> QED BY <1>1, <1>3, <3>1 DEF Lone
  <2>4. ASSUME NEW f \in O \cup {Top}
        PROVE  /\ f.at \in D /\ OrphansOf(f.sym, f.at, o, b) \subseteq G
               /\ \A d \in D : OpOf(d) = "define" => <<f.sym, f.at, d>> \notin b
    <3>1. /\ f.at \in E /\ OrphansOf(f.sym, f.at, o, b) \subseteq G
          /\ \A d \in E : OpOf(d) = "define" => <<f.sym, f.at, d>> \notin b
      BY <1>4 DEF Within
    <3>2. <<f.sym, x>> \notin on
      BY <1>1, <1>4, DefineNotAhead
    <3>3. <<f.sym, f.at, x>> \notin b
      <4>1. SUFFICES ASSUME <<f.sym, f.at, x>> \in b PROVE FALSE
        OBVIOUS
      <4>2. <<f.sym, x>> \in o
        BY <4>1 DEF Ordered
      <4>3. f.sym \in tab
        BY <4>2 DEF Lone
      <4> QED BY <1>3, <3>2, <4>2, <4>3
    <3> QED BY <3>1, <3>3
  <2>5. \A f \in O \cup {g} : /\ f.at \in D /\ OrphansOf(f.sym, f.at, o, b) \subseteq G
                             /\ \A d \in D : OpOf(d) = "define" => <<f.sym, f.at, d>> \notin b
    BY <1>6, <2>4
  <2>6. /\ h.at \in D /\ OrphansOf(h.sym, h.at, o, b) \subseteq G
        /\ \A d \in D : OpOf(d) = "define" => <<h.sym, h.at, d>> \notin b
    BY <1>6, <2>2, <2>3
  <2> HIDE DEF D
  <2> QED BY <2>1, <2>5, <2>6 DEF Within
<1>17. Without(Y, o, b)'
  BY <1>4, <1>11, <1>13 DEF Without
<1> HIDE DEF D
<1> QED BY <1>9, <1>11, <1>12, <1>13, <1>15, <1>16, <1>17, ProgressNext

(* The next marker behind m is after m, where no walk stands.               *)
LEMMA FollowingFacts ==
  ASSUME CascadeInv, ~Idle, NEW k \in Behind(Top.sym, Top.at)
  PROVE  k \in Node /\ k \notin errors /\ <<Top.sym, k>> \in on /\ k # Top.at
<1>1. k \in Node /\ <<Top.sym, k>> \in on /\ <<Top.sym, Top.at, k>> \in before
  BY DEF Behind, On
<1>2. /\ At(stack) = At(Outer) \cup {Top.at} /\ Top \in Walk
      /\ \A a \in At(Outer) : Rank(a) < Rank(k)
  BY <1>1, StackFacts DEF CascadeInv
<1>3. k # Top.at /\ k \in Acting
  BY <1>1 DEF CascadeInv, Lists
<1>4. k \notin At(stack)
  BY <1>1, <1>2, <1>3, ProgramFacts, NAssumption DEF CascadeInv, Typed
<1>5. ~Unlisted(k)
  <2>1. Top.sym \in tab
    BY <1>1 DEF CascadeInv, Typed, TypeOK
  <2> QED BY <1>1, <2>1 DEF Unlisted
<1>6. k \notin errors
  BY <1>3, <1>4, <1>5 DEF CascadeInv, Booked
<1> QED BY <1>1, <1>3, <1>6

LEMMA ProgressErase ==
  ASSUME CascadeInv, ~Idle, EraseAndProceed, NEW known, NEW S, NEW G, NEW o, NEW b,
         Progress(known, S, G, o, b), RevokeClosed(G, known, o, b), Ordered(o, b), Lone(o)
  PROVE  Progress(known, S, G, o, b)'
<1> DEFINE E == errors \ known
           X == E \ At(stack)
           O == Frames(Outer)
           s == Top.sym
           m == Top.at
           P == Behind(s, m)
<1>1. /\ Erase(m) /\ Top.todo = {} /\ UNCHANGED <<prog, tab>>
      /\ Proceed(First(s, P), s, Outer, errors)
  BY DEF EraseAndProceed, Following, Elsewhere
<1>2. /\ known \subseteq errors /\ Without(X, o, b) /\ At(stack) \subseteq E
      /\ Reached(S, O \cup {Top}, E, o, b) /\ Covers(O \cup {Top}, E, known, o, b)
      /\ Within(O \cup {Top}, E, G, o, b)
  BY ProgressFacts
<1>3. /\ \A t, k : <<t, k>> \in on <=> <<t, k>> \in o /\ k \notin X
      /\ \A t, j, k : <<t, j, k>> \in before <=> <<t, j, k>> \in b /\ j \notin X /\ k \notin X
  BY ProgressFacts
<1>4. /\ Top \in Walk /\ prog \in Programs /\ Outer \in Seq(Walk) /\ <<s, m>> \in on
      /\ At(stack) = At(Outer) \cup {m} /\ m \notin At(Outer)
  BY StackFacts DEF CascadeInv, Typed
<1>5. /\ s \in tab /\ s \in Symbol /\ m \in Node
  BY <1>4 DEF CascadeInv, Typed, TypeOK
<1>6. \A k \in P : k \in Node /\ k \notin errors /\ <<s, k>> \in on /\ k # m
  BY FollowingFacts
<1>7. \A k : k \in P <=> k \in Node /\ <<s, k>> \in on /\ <<s, m, k>> \in before
  BY DEF Behind, On
<1>8. m \in At(stack) /\ m \in E /\ m \notin X
  BY <1>2, <1>4
<1>9. P \subseteq Node /\ \A k \in P : <<s, m, k>> \in b
  BY <1>3, <1>6, <1>7
<1>10. \A k \in Node : <<s, m, k>> \in b /\ k \notin E => k \in P
  <2> SUFFICES ASSUME NEW k \in Node, <<s, m, k>> \in b, k \notin E PROVE k \in P
    OBVIOUS
  <2>1. <<s, k>> \in o
    BY DEF Ordered
  <2> QED BY <1>3, <1>7, <1>8, <2>1
<1>11. \A d \in E : OpOf(d) = "define" => <<s, m, d>> \notin b
  BY <1>2 DEF Within
<1>12. /\ \A k : k \in First(s, P) => k \in P /\ \A j \in P \ {k} : <<s, k, j>> \in b
       /\ \A k \in P : (\A j \in P \ {k} : <<s, k, j>> \in b) => k \in First(s, P)
  BY <1>3, <1>6 DEF First
<1>13. OrphansOf(s, m, o, b) \subseteq G
  BY <1>2 DEF Within
<1>14. \A f \in O : /\ f.at \in E /\ OrphansOf(f.sym, f.at, o, b) \subseteq G
                    /\ \A d \in E : OpOf(d) = "define" => <<f.sym, f.at, d>> \notin b
  BY <1>2 DEF Within
<1>15. \A c \in E : c \in G /\ \E t \in tab : <<t, c>> \in o
  BY <1>2 DEF Within
<1>16. PICK Y : Y = E \ At(Outer)
  OBVIOUS
<1>17. \A y : y \notin Y <=> y \notin X /\ y # m
  BY <1>4, <1>8, <1>16
<1> HIDE DEF X
<1>18. Without(Y, o, b)'
  BY <1>1, <1>2, <1>17 DEF Erase, Without
<1> HIDE DEF E, O, P
<1>19. /\ \A k \in P :
            (\A j \in P \ {k} : <<s, k, j>> \in b) /\ OpOf(k) # "define" =>
              /\ k \in OrphansOf(s, m, o, b)
              /\ OrphansOf(s, k, o, b) \subseteq OrphansOf(s, m, o, b)
              /\ OrphansOf(s, m, o, b) \subseteq E \cup {k} \cup OrphansOf(s, k, o, b)
              /\ \A d \in E \cup {k} : OpOf(d) = "define" => <<s, k, d>> \notin b
       /\ (\A k \in P : (\A j \in P \ {k} : <<s, k, j>> \in b) => OpOf(k) = "define")
            => OrphansOf(s, m, o, b) \subseteq E
  <2> HIDE DEF s, m
  <2>1. Advances(s, m, P, E, o, b)
    BY <1>9, <1>10, <1>11, MovingOn
  <2> QED BY <2>1 DEF Advances
<1>20. ASSUME NEW k \in First(s, P), OpOf(k) # "define", stack' = MoveTo(k, s, Outer),
              errors' = errors \cup {k}
       PROVE  Progress(known, S, G, o, b)'
  <2> DEFINE h == [sym |-> s, at |-> k, todo |-> prog.desc[k]]
             D == E \cup {k}
  <2>1. k \in P /\ k \in Node /\ k \notin errors /\ <<s, k>> \in on
    BY <1>6, <1>12
  <2>2. /\ k \in OrphansOf(s, m, o, b)
        /\ OrphansOf(s, k, o, b) \subseteq OrphansOf(s, m, o, b)
        /\ OrphansOf(s, m, o, b) \subseteq E \cup {k} \cup OrphansOf(s, k, o, b)
        /\ \A d \in D : OpOf(d) = "define" => <<s, k, d>> \notin b
    BY <1>12, <1>19, <1>20
  <2>3. h.sym = s /\ h.at = k /\ h.todo = prog.desc[k]
    OBVIOUS
  <2>4. Frames(stack') = O \cup {h} /\ stack' \in Seq(Walk)
    BY <1>4, <1>5, <1>20, <2>1, MoveToFrames DEF O
  <2>5. At(stack') = At(Outer) \cup {k}
    <3>1. At(stack') = {f.at : f \in O \cup {h}} /\ At(Outer) = {f.at : f \in O}
      BY <1>4, <2>4, FramesFacts DEF O
    <3> HIDE DEF h
    <3> QED BY <2>3, <3>1
  <2>6. D = errors' \ known /\ known \subseteq errors' /\ Y = D \ At(stack')
    BY <1>2, <1>16, <1>20, <2>1, <2>5 DEF E
  <2> HIDE DEF h
  <2>7. Covers(O \cup {h}, D, known, o, b) /\ Reached(S, O \cup {h}, D, o, b)
    BY <1>1, <1>2, <1>20, <2>2, <2>3, CoversMove
  <2>8. Within(O \cup {h}, D, G, o, b)
    <3>1. \A c \in D : c \in G /\ \E t \in tab : <<t, c>> \in o
      BY <1>3, <1>5, <1>13, <1>15, <2>1, <2>2
    <3>2. \A f \in O : /\ f.at \in D /\ OrphansOf(f.sym, f.at, o, b) \subseteq G
                       /\ \A d \in D : OpOf(d) = "define" => <<f.sym, f.at, d>> \notin b
      BY <1>14, <1>20
    <3>3. /\ h.at \in D /\ OrphansOf(h.sym, h.at, o, b) \subseteq G
          /\ \A d \in D : OpOf(d) = "define" => <<h.sym, h.at, d>> \notin b
      BY <1>13, <2>2, <2>3
    <3> HIDE DEF D
    <3> QED BY <3>1, <3>2, <3>3 DEF Within
  <2> HIDE DEF D
  <2> QED BY <1>1, <1>18, <2>4, <2>6, <2>7, <2>8, ProgressNext
<1>21. ASSUME \A k \in First(s, P) : OpOf(k) = "define", stack' = Outer, errors' = errors
       PROVE  Progress(known, S, G, o, b)'
  <2>1. OrphansOf(s, m, o, b) \subseteq E
    BY <1>12, <1>19, <1>21
  <2>2. Covers(O, E, known, o, b) /\ Reached(S, O, E, o, b)
    BY <1>1, <1>2, <2>1, CoversDone
  <2>3. Within(O, E, G, o, b)
    BY <1>14, <1>15 DEF Within
  <2>4. Frames(stack') = O /\ E = errors' \ known /\ known \subseteq errors' /\ Y = E \ At(stack')
    BY <1>2, <1>16, <1>21 DEF O, E
  <2> QED BY <1>1, <1>18, <2>2, <2>3, <2>4, ProgressNext
<1> QED BY <1>1, <1>20, <1>21 DEF Proceed

-----------------------------------------------------------------------------
(***************************************************************************)
(* When no walk is under way, Atomic is SymbolAnalysis: an operator of one  *)
(* is the operator of the other.                                            *)
(***************************************************************************)
LEMMA Settling ==
  Idle => /\ Settled(text, "text") = text /\ Settled(on, "on") = on
          /\ Settled(before, "before") = before /\ Settled(errors, "errors") = errors
BY DEF Settled

LEMMA SameCardinality == \A S : (Atomic!Cardinality(S) = Cardinality(S))
BY DEF Atomic!Cardinality, Cardinality

LEMMA SameNode == Atomic!Node = Node
BY DEF Atomic!Node, Node

LEMMA SameName == Atomic!Name = Name
BY DEF Atomic!Name, Name

LEMMA SameType == Atomic!Type = Type
BY DEF Atomic!Type, Type, Atomic!Name, Name

LEMMA SameSymbolOp == Atomic!SymbolOp = SymbolOp
BY DEF Atomic!SymbolOp, SymbolOp

LEMMA SameSubtree == \A p, n : (Atomic!Subtree(p, n) = Subtree(p, n))
BY SameNode DEF Atomic!Subtree, Subtree

LEMMA SameAnnotated == \A p : (Atomic!Annotated(p) = Annotated(p))
BY SameNode, SameSymbolOp DEF Atomic!Annotated, Annotated

LEMMA SameSymbol == Atomic!Symbol = Symbol
BY SameNode, SameName, SameType DEF Atomic!Symbol, Symbol

LEMMA SameOpOf == \A n : (Atomic!OpOf(n) = OpOf(n))
BY DEF Atomic!OpOf, OpOf

LEMMA SameRank == \A n : (Atomic!Rank(n) = Rank(n))
BY DEF Atomic!Rank, Rank

LEMMA SameLast == \A n : (Atomic!Last(n) = Last(n))
BY DEF Atomic!Last, Last

LEMMA SameActing == Atomic!Acting = Acting
BY SameAnnotated DEF Atomic!Acting, Acting

LEMMA SameWalking == Atomic!Walking <=> Walking
BY DEF Atomic!Walking, Walking

LEMMA SameIsNext == \A n : (Atomic!IsNext(n) <=> IsNext(n))
BY SameRank DEF Atomic!IsNext, IsNext

LEMMA SameEntered == \A sc : (Atomic!Entered(sc) <=> Entered(sc))
BY SameOpOf, SameRank DEF Atomic!Entered, Entered

LEMMA SameExited == \A sc : (Atomic!Exited(sc) <=> Exited(sc))
BY SameSubtree, SameRank DEF Atomic!Exited, Exited

LEMMA SameFirstHolder == \A d : (Atomic!FirstHolder(d) = FirstHolder(d))
BY SameNode, SameEntered, SameExited, SameLast, SameRank DEF Atomic!FirstHolder, FirstHolder

LEMMA SameAnyType == \A n : (Atomic!AnyType(n) <=> AnyType(n))
BY DEF Atomic!AnyType, AnyType

LEMMA SameNameAllowed == \A n, x : (Atomic!NameAllowed(n, x) <=> NameAllowed(n, x))
BY DEF Atomic!NameAllowed, NameAllowed

LEMMA SameVisible == Atomic!Visible = Visible
BY DEF Atomic!Visible, Visible

LEMMA SameParentScope == \A sc, links : (Atomic!ParentScope(sc, links) = ParentScope(sc, links))
BY DEF Atomic!ParentScope, ParentScope, Atomic!Rank, Rank

LEMMA SameExiting == \A n : (Atomic!Exiting(n) = Exiting(n))
BY SameNode, SameOpOf, SameSubtree, SameRank DEF Atomic!Exiting, Exiting

LEMMA SameScopeAfter ==
  \A n, inner, links : (Atomic!ScopeAfter(n, inner, links) = ScopeAfter(n, inner, links))
BY SameParentScope DEF Atomic!ScopeAfter, ScopeAfter, Atomic!Exiting, Exiting, Atomic!Node,
   Node, Atomic!OpOf, OpOf, Atomic!Subtree, Subtree, Atomic!Rank, Rank

LEMMA SameContainers == \A n : (Atomic!Containers(n) = Containers(n))
BY SameNode, SameOpOf, SameSubtree, SameParentScope DEF Atomic!Containers, Containers

LEMMA SameByOrderID == Atomic!ByOrderID = ByOrderID
BY DEF Atomic!ByOrderID, ByOrderID

LEMMA SameByID == Atomic!ByID = ByID
BY SameNode DEF Atomic!ByID, ByID

LEMMA SameDefineScope ==
  \A n, enclosing : (Atomic!DefineScope(n, enclosing) = DefineScope(n, enclosing))
BY DEF Atomic!DefineScope, DefineScope

LEMMA SameScopeKnown == \A sc : (Atomic!ScopeKnown(sc) <=> ScopeKnown(sc))
BY DEF Atomic!ScopeKnown, ScopeKnown

LEMMA SameNameTaken == \A sc, x : (Atomic!NameTaken(sc, x) <=> NameTaken(sc, x))
BY DEF Atomic!NameTaken, NameTaken

LEMMA SameFreshNames == \A sc : (Atomic!FreshNames(sc) = FreshNames(sc))
BY SameCardinality DEF Atomic!FreshNames, FreshNames, Atomic!NameTaken, NameTaken

LEMMA SameHomeScopes == \A n : (Atomic!HomeScopes(n) = HomeScopes(n))
BY SameOpOf, SameScopeKnown, SameContainers DEF Atomic!HomeScopes, HomeScopes

LEMMA SameOrphansOf == \A s, n, o, b : (Atomic!OrphansOf(s, n, o, b) = OrphansOf(s, n, o, b))
BY SameNode, SameOpOf DEF Atomic!OrphansOf, OrphansOf

LEMMA SameRevokeClosed ==
  \A C, known, o, b : (Atomic!RevokeClosed(C, known, o, b) <=> RevokeClosed(C, known, o, b))
BY SameActing, SameOpOf, SameOrphansOf DEF Atomic!RevokeClosed, RevokeClosed

LEMMA SameRevoked ==
  \A S, known, o, b : (Atomic!Revoked(S, known, o, b) = Revoked(S, known, o, b))
BY SameActing, SameRevokeClosed DEF Atomic!Revoked, Revoked

LEMMA SameUnmarked == \A R, o : (Atomic!Unmarked(R, o) <=> Unmarked(R, o))
BY DEF Atomic!Unmarked, Unmarked

LEMMA SameOn == Idle => \A s : (Atomic!On(s) = On(s))
BY Settling, SameNode DEF Atomic!On, On

LEMMA SameUsedAt == Idle => \A d : (Atomic!UsedAt(d) = UsedAt(d))
BY Settling, SameOpOf, SameFirstHolder DEF Atomic!UsedAt, UsedAt

LEMMA SameTypesOf == Idle => \A n : (Atomic!TypesOf(n) = TypesOf(n))
BY Settling, SameUsedAt DEF Atomic!TypesOf, TypesOf

LEMMA SameTypeUnknown == Idle => \A n : (Atomic!TypeUnknown(n) <=> TypeUnknown(n))
BY Settling, SameTypesOf DEF Atomic!TypeUnknown, TypeUnknown

LEMMA SameTypeFits == Idle => \A n, t : (Atomic!TypeFits(n, t) <=> TypeFits(n, t))
BY Settling, SameAnyType, SameTypesOf DEF Atomic!TypeFits, TypeFits

LEMMA SameDefinedName == Idle => \A n : (Atomic!DefinedName(n) = DefinedName(n))
BY Settling DEF Atomic!DefinedName, DefinedName

LEMMA SameDependencyResolved ==
  Idle => \A n : (Atomic!DependencyResolved(n) <=> DependencyResolved(n))
BY Settling DEF Atomic!DependencyResolved, DependencyResolved

LEMMA SameLive == Idle => \A s : (Atomic!Live(s) <=> Live(s))
BY Settling, SameOn, SameOpOf DEF Atomic!Live, Live

LEMMA SameEndsWithInvalidate ==
  Idle => \A s : (Atomic!EndsWithInvalidate(s) <=> EndsWithInvalidate(s))
BY Settling, SameOn, SameOpOf DEF Atomic!EndsWithInvalidate, EndsWithInvalidate

LEMMA SameUpperBound ==
  Idle => \A s, n, key, L, b : (Atomic!UpperBound(s, n, key, L, b) = UpperBound(s, n, key, L, b))
BY Settling DEF Atomic!UpperBound, UpperBound, Atomic!Cardinality, Cardinality

LEMMA SameSplits == Idle => \A s, n, key : (Atomic!Splits(s, n, key) = Splits(s, n, key))
BY Settling, SameOn, SameUpperBound, SameCardinality DEF Atomic!Splits, Splits

LEMMA SameUsableAfter == Idle => \A s, B : (Atomic!UsableAfter(s, B) <=> UsableAfter(s, B))
BY Settling, SameOpOf DEF Atomic!UsableAfter, UsableAfter

LEMMA SameHits == Idle => \A n : (Atomic!Hits(n) = Hits(n))
BY Settling, SameVisible, SameTypeFits DEF Atomic!Hits, Hits

LEMMA SameUsable == Idle => \A n, s : (Atomic!Usable(n, s) <=> Usable(n, s))
BY Settling, SameOpOf, SameLive, SameEndsWithInvalidate DEF Atomic!Usable, Usable

LEMMA SameTargets == Idle => \A n : (Atomic!Targets(n) = Targets(n))
BY Settling, SameHits, SameUsable, SameRank DEF Atomic!Targets, Targets

LEMMA SameAmbiguous == Idle => \A n : (Atomic!Ambiguous(n) <=> Ambiguous(n))
BY Settling, SameHits, SameNameAllowed, SameTargets, SameRank DEF Atomic!Ambiguous, Ambiguous

LEMMA SameResolvable == Idle => \A n : (Atomic!Resolvable(n) <=> Resolvable(n))
BY Settling, SameDependencyResolved, SameNameAllowed, SameTargets DEF Atomic!Resolvable,
   Resolvable

LEMMA SameWalkAborts == Idle => \A n : (Atomic!WalkAborts(n) <=> WalkAborts(n))
BY Settling, SameDependencyResolved, SameOpOf, SameTypeUnknown, SameScopeKnown,
   SameDefineScope, SameAmbiguous DEF Atomic!WalkAborts, WalkAborts

LEMMA SameFixing == Idle => (Atomic!Fixing <=> Fixing)
BY Settling DEF Atomic!Fixing, Fixing

LEMMA SamePopped == Idle => (Atomic!Popped = Popped)
BY Settling, SameRank DEF Atomic!Popped, Popped

LEMMA SameReachable == Idle => \A n : (Atomic!Reachable(n) = Reachable(n))
BY Settling, SameContainers, SameTypeFits, SameNameAllowed DEF Atomic!Reachable, Reachable

LEMMA SameAvailable == Idle => \A n : (Atomic!Available(n) = Available(n))
BY Settling, SameReachable, SameSplits, SameByOrderID, SameUsableAfter DEF Atomic!Available,
   Available

LEMMA SameFixAborts == Idle => \A n : (Atomic!FixAborts(n) <=> FixAborts(n))
BY Settling, SameTypeUnknown, SameHomeScopes, SameCardinality DEF Atomic!FixAborts, FixAborts

LEMMA SameCutOff == Idle => \A s, B : (Atomic!CutOff(s, B) = CutOff(s, B))
BY Settling, SameOn, SameOpOf DEF Atomic!CutOff, CutOff

(* So is a step.                                                           *)
LEMMA SettlingNext ==
  Idle' => /\ Settled(text, "text")' = text' /\ Settled(on, "on")' = on'
           /\ Settled(before, "before")' = before' /\ Settled(errors, "errors")' = errors'
BY DEF Settled

LEMMA DoesAdvance ==
  Idle /\ Idle' => \A n, inner, links : (Advance(n, inner, links) => Atomic!Advance(n, inner, links))
BY Settling, SettlingNext, SameScopeAfter DEF Atomic!Advance, Advance, Atomic!tables, tables

LEMMA DoesListed == Idle /\ Idle' => \A s, n, B : (Listed(s, n, B) => Atomic!Listed(s, n, B))
BY Settling, SettlingNext, SameOn DEF Atomic!Listed, Listed

LEMMA DoesEmitError == Idle /\ Idle' => \A n : (EmitError(n) => Atomic!EmitError(n))
BY Settling, SettlingNext DEF Atomic!EmitError, EmitError, Atomic!tables, tables

LEMMA DoesReset == Idle => (Reset => Atomic!Reset)
BY Settling, SameNode DEF Atomic!Reset, Reset

LEMMA DoesInit == Idle => (Init => Atomic!Init)
BY Settling, DoesReset DEF Atomic!Init, Init

LEMMA DoesEnterScope == Idle /\ Idle' => \A n : (EnterScope(n) => Atomic!EnterScope(n))
BY Settling, SettlingNext, SameWalking, SameIsNext, SameOpOf, DoesAdvance, SameVisible DEF
   Atomic!EnterScope, EnterScope, Atomic!tables, tables

LEMMA DoesEnterOther == Idle /\ Idle' => \A n : (EnterOther(n) => Atomic!EnterOther(n))
BY Settling, SettlingNext, SameWalking, SameIsNext, SameOpOf, DoesAdvance DEF
   Atomic!EnterOther, EnterOther, Atomic!tables, tables

LEMMA DoesEnterDefine == Idle /\ Idle' => \A n : (EnterDefine(n) => Atomic!EnterDefine(n))
BY Settling, SettlingNext, SameDefineScope, SameWalking, SameIsNext, SameOpOf,
   SameDependencyResolved, DoesEmitError, SameTypeUnknown, SameScopeKnown, SameNameTaken,
   SameDefinedName, SameTypesOf, DoesListed, DoesAdvance DEF Atomic!EnterDefine, EnterDefine

LEMMA DoesEnterUseOrInvalidate ==
  Idle /\ Idle' => \A n : (EnterUseOrInvalidate(n) => Atomic!EnterUseOrInvalidate(n))
BY Settling, SettlingNext, SameWalking, SameIsNext, SameOpOf, SameDependencyResolved,
   DoesEmitError, SameTypeUnknown, SameAmbiguous, SameResolvable, SameTargets, SameSplits,
   SameByOrderID, DoesListed, SameLive, SameOn, DoesAdvance DEF Atomic!EnterUseOrInvalidate,
   EnterUseOrInvalidate

LEMMA DoesAbortWalk == Idle /\ Idle' => \A n : (AbortWalk(n) => Atomic!AbortWalk(n))
BY Settling, SettlingNext, SameWalking, SameIsNext, SameWalkAborts DEF Atomic!AbortWalk,
   AbortWalk, Atomic!tables, tables

LEMMA DoesAbortFix == Idle /\ Idle' => (AbortFix => Atomic!AbortFix)
BY Settling, SettlingNext, SameFixing, SameFixAborts, SamePopped DEF Atomic!AbortFix, AbortFix,
   Atomic!tables, tables

LEMMA DoesFixUse == Idle /\ Idle' => (FixUse => Atomic!FixUse)
BY Settling, SettlingNext, SamePopped, SameFixing, SameOpOf, SameFixAborts, SameAvailable,
   SameSplits, SameByID, DoesListed DEF Atomic!FixUse, FixUse

LEMMA DoesGiveUp == Idle /\ Idle' => (GiveUp => Atomic!GiveUp)
BY Settling, SettlingNext, SamePopped, SameFixing, SameOpOf, SameFixAborts, SameAvailable DEF
   Atomic!GiveUp, GiveUp, Atomic!tables, tables

LEMMA DoesFinish == Idle /\ Idle' => (Finish => Atomic!Finish)
BY Settling, SettlingNext DEF Atomic!Finish, Finish, Atomic!tables, tables

LEMMA DoesReanalyze == Idle /\ Idle' => (Reanalyze => Atomic!Reanalyze)
BY Settling, SettlingNext, SameNode DEF Atomic!Reanalyze, Reanalyze

LEMMA DoesFixDefine == Idle /\ Idle' => (FixDefine => Atomic!FixDefine)
<1> SUFFICES ASSUME Idle, Idle', FixDefine PROVE Atomic!FixDefine
  OBVIOUS
<1>1. PICK n : n = Popped /\ n = Atomic!Popped
  BY SamePopped
<1>2. PICK sc \in HomeScopes(Popped) : \E i \in FreshNames(sc), t \in TypesOf(Popped) :
        LET s == [scope |-> sc, name |-> i, type |-> t]
        IN  text' = [text EXCEPT ![Popped] = i] /\ tab' = tab \cup {s} /\ Listed(s, Popped, {})
  BY DEF FixDefine
<1>3. PICK i \in FreshNames(sc), t \in TypesOf(n) :
        LET s == [scope |-> sc, name |-> i, type |-> t]
        IN  text' = [text EXCEPT ![n] = i] /\ tab' = tab \cup {s} /\ Listed(s, n, {})
  BY <1>1, <1>2
<1>4. PICK s : /\ s = [scope |-> sc, name |-> i, type |-> t]
               /\ text' = [text EXCEPT ![n] = i] /\ tab' = tab \cup {s} /\ Listed(s, n, {})
  BY <1>3
<1>5. /\ Settled(text, "text")' = [Settled(text, "text") EXCEPT ![n] = i]
      /\ tab' = tab \cup {[scope |-> sc, name |-> i, type |-> t]}
      /\ Atomic!Listed([scope |-> sc, name |-> i, type |-> t], n, {})
  BY <1>4, Settling, SettlingNext, DoesListed
<1>6. /\ sc \in Atomic!HomeScopes(n) /\ i \in Atomic!FreshNames(sc) /\ t \in Atomic!TypesOf(n)
  BY <1>1, <1>2, <1>3, SameHomeScopes, SameFreshNames, SameTypesOf
<1>7. /\ Atomic!Fixing /\ Atomic!OpOf(n) = "define" /\ ~Atomic!FixAborts(n)
      /\ prog.src.names[n] = {}
      /\ Settled(errors, "errors")' = Settled(errors, "errors") \ {n}
      /\ UNCHANGED <<prog, round, phase, pos, cur, chain>>
  BY <1>1, Settling, SettlingNext, SameFixing, SameOpOf, SameFixAborts DEF FixDefine
<1> HIDE DEF Settled
<1> QED BY <1>1, <1>5, <1>6, <1>7 DEF Atomic!FixDefine

LEMMA AtomicDoes ==
  ASSUME Idle, AtomicStep
  PROVE  Atomic!Next
<1>1. Idle'
  BY DEF AtomicStep, Idle
<1>2. (\E n \in Node : Enter(n)) => \E n \in Atomic!Node : Atomic!Enter(n)
  BY <1>1, SameNode, DoesEnterScope, DoesEnterOther, DoesEnterDefine, DoesEnterUseOrInvalidate,
     DoesAbortWalk DEF Enter, Atomic!Enter
<1> QED BY <1>1, <1>2, DoesFixDefine, DoesFixUse, DoesGiveUp, DoesAbortFix, DoesFinish, DoesReanalyze
        DEF AtomicStep, Atomic!Next, Atomic!Fix

-----------------------------------------------------------------------------
(***************************************************************************)
(* A cascade is one step of SymbolAnalysis.                                 *)
(***************************************************************************)
(* InsertMarkerForSymbol may put the popped invalidate into the list of s,  *)
(* behind the markers of B: the guard of FixInvalidate in Atomic.           *)
Due(s, B) ==
  /\ Atomic!Fixing /\ Atomic!OpOf(Atomic!Popped) = "invalidate" /\ ~Atomic!FixAborts(Atomic!Popped)
  /\ s \in Atomic!Available(Atomic!Popped)
  /\ B \in Atomic!Splits(s, Atomic!Popped, Atomic!ByID)

(* It stays so while Atomic does not move.                                  *)
LEMMA DueStays ==
  ASSUME UNCHANGED Atomic!vars
  PROVE  /\ \A s, B : Due(s, B)' <=> Due(s, B)
         /\ Atomic!Popped' = Atomic!Popped
         /\ \A s : Atomic!On(s)' = Atomic!On(s)
         /\ \A s, B : Atomic!CutOff(s, B)' = Atomic!CutOff(s, B)
<1>0. /\ Settled(text, "text")' = Settled(text, "text") /\ Settled(on, "on")' = Settled(on, "on")
      /\ Settled(before, "before")' = Settled(before, "before")
      /\ Settled(errors, "errors")' = Settled(errors, "errors")
      /\ UNCHANGED <<prog, round, phase, pos, cur, chain, tab>>
  BY DEF Atomic!vars
<1>1. \A n : (Atomic!OpOf(n)' = Atomic!OpOf(n))
  BY <1>0 DEF Atomic!OpOf
<1>2. \A n : (Atomic!Rank(n)' = Atomic!Rank(n))
  BY <1>0 DEF Atomic!Rank
<1>3. \A n : (Atomic!Last(n)' = Atomic!Last(n))
  BY <1>0 DEF Atomic!Last
<1>4. \A sc : (Atomic!Entered(sc)' <=> Atomic!Entered(sc))
  BY <1>0, <1>1, <1>2 DEF Atomic!Entered
<1>5. \A sc : (Atomic!Exited(sc)' <=> Atomic!Exited(sc))
  BY <1>0, <1>2 DEF Atomic!Exited
<1>6. \A d : (Atomic!FirstHolder(d)' = Atomic!FirstHolder(d))
  BY <1>0, <1>4, <1>5, <1>3, <1>2 DEF Atomic!FirstHolder
<1>7. \A n : (Atomic!AnyType(n)' <=> Atomic!AnyType(n))
  BY <1>0 DEF Atomic!AnyType
<1>8. \A n, x : (Atomic!NameAllowed(n, x)' <=> Atomic!NameAllowed(n, x))
  BY <1>0 DEF Atomic!NameAllowed
<1>9. \A sc, links : (Atomic!ParentScope(sc, links)' = Atomic!ParentScope(sc, links))
  BY <1>0 DEF Atomic!ParentScope, Atomic!Rank
<1>10. \A n : (Atomic!Containers(n)' = Atomic!Containers(n))
  BY <1>0, <1>1, <1>9 DEF Atomic!Containers
<1>11. (Atomic!ByOrderID' = Atomic!ByOrderID)
  BY <1>0 DEF Atomic!ByOrderID
<1>12. (Atomic!ByID' = Atomic!ByID)
  BY <1>0 DEF Atomic!ByID
<1>13. \A sc : (Atomic!ScopeKnown(sc)' <=> Atomic!ScopeKnown(sc))
  BY <1>0 DEF Atomic!ScopeKnown
<1>14. \A n : (Atomic!HomeScopes(n)' = Atomic!HomeScopes(n))
  BY <1>0, <1>1, <1>13, <1>10 DEF Atomic!HomeScopes
<1>15. \A s : (Atomic!On(s)' = Atomic!On(s))
  BY <1>0 DEF Atomic!On
<1>16. \A d : (Atomic!UsedAt(d)' = Atomic!UsedAt(d))
  BY <1>0, <1>1, <1>6 DEF Atomic!UsedAt
<1>17. \A n : (Atomic!TypesOf(n)' = Atomic!TypesOf(n))
  BY <1>0, <1>16 DEF Atomic!TypesOf
<1>18. \A n : (Atomic!TypeUnknown(n)' <=> Atomic!TypeUnknown(n))
  BY <1>0, <1>17 DEF Atomic!TypeUnknown
<1>19. \A n, t : (Atomic!TypeFits(n, t)' <=> Atomic!TypeFits(n, t))
  BY <1>0, <1>7, <1>17 DEF Atomic!TypeFits
<1>20. \A s, n, key : (Atomic!Splits(s, n, key)' = Atomic!Splits(s, n, key))
  BY <1>0, <1>15 DEF Atomic!Splits
<1>21. \A s, B : (Atomic!UsableAfter(s, B)' <=> Atomic!UsableAfter(s, B))
  BY <1>0, <1>1 DEF Atomic!UsableAfter
<1>22. (Atomic!Fixing' <=> Atomic!Fixing)
  BY <1>0 DEF Atomic!Fixing
<1>23. (Atomic!Popped' = Atomic!Popped)
  BY <1>0, <1>2 DEF Atomic!Popped
<1>24. \A n : (Atomic!Reachable(n)' = Atomic!Reachable(n))
  BY <1>0, <1>10, <1>19, <1>8 DEF Atomic!Reachable
<1>25. \A n : (Atomic!Available(n)' = Atomic!Available(n))
  BY <1>0, <1>24, <1>20, <1>11, <1>21 DEF Atomic!Available
<1>26. \A n : (Atomic!FixAborts(n)' <=> Atomic!FixAborts(n))
  BY <1>0, <1>18, <1>14 DEF Atomic!FixAborts
<1>27. \A s, B : (Atomic!CutOff(s, B)' = Atomic!CutOff(s, B))
  BY <1>0, <1>15, <1>1 DEF Atomic!CutOff
<1>28. PICK n : n = Atomic!Popped /\ n = Atomic!Popped'
  BY <1>23
<1>29. PICK key : key = Atomic!ByID /\ key = Atomic!ByID'
  BY <1>12
<1>30. ASSUME NEW s, NEW B PROVE Due(s, B)' <=> Due(s, B)
  <2>1. Due(s, B) <=> /\ Atomic!Fixing /\ Atomic!OpOf(n) = "invalidate" /\ ~Atomic!FixAborts(n)
                      /\ s \in Atomic!Available(n) /\ B \in Atomic!Splits(s, n, key)
    BY <1>28, <1>29 DEF Due
  <2>2. Due(s, B)' <=> /\ Atomic!Fixing' /\ Atomic!OpOf(n)' = "invalidate" /\ ~Atomic!FixAborts(n)'
                       /\ s \in Atomic!Available(n)' /\ B \in Atomic!Splits(s, n, key)'
    BY <1>28, <1>29 DEF Due
  <2> QED BY <1>22, <1>1, <1>26, <1>25, <1>20, <2>1, <2>2
<1> QED BY <1>15, <1>23, <1>27, <1>30

(* The lists with the new marker, and what FixInvalidate of Atomic revokes. *)
Chosen(s, B, known, S, G, o, b) ==
  /\ Due(s, B)
  /\ known = Settled(errors, "errors") \ {Atomic!Popped}
  /\ o = Settled(on, "on") \cup {<<s, Atomic!Popped>>}
  /\ b = Settled(before, "before") \cup {<<s, m, Atomic!Popped>> : m \in B}
                                   \cup {<<s, Atomic!Popped, k>> : k \in Atomic!On(s) \ B}
  /\ S = Atomic!CutOff(s, B)
  /\ G = Revoked(S, known, o, b)
  /\ Ordered(o, b) /\ Lone(o) /\ S \subseteq Acting

Renamed(s) == [Settled(text, "text") EXCEPT ![Atomic!Popped] = s.name]

Underway ==
  ~Idle => \E s, B, known, S, G, o, b : /\ Chosen(s, B, known, S, G, o, b)
                                        /\ Progress(known, S, G, o, b)
                                        /\ text = Renamed(s)

LEMMA ChosenStays ==
  ASSUME UNCHANGED Atomic!vars, NEW s, NEW B, NEW known, NEW S, NEW G, NEW o, NEW b,
         Chosen(s, B, known, S, G, o, b)
  PROVE  Chosen(s, B, known, S, G, o, b)' /\ Renamed(s)' = Renamed(s)
<1>1. /\ Due(s, B)' /\ Atomic!Popped' = Atomic!Popped /\ Atomic!On(s)' = Atomic!On(s)
      /\ Atomic!CutOff(s, B)' = Atomic!CutOff(s, B)
  BY DueStays DEF Chosen
<1>2. /\ Settled(text, "text")' = Settled(text, "text") /\ Settled(on, "on")' = Settled(on, "on")
      /\ Settled(before, "before")' = Settled(before, "before")
      /\ Settled(errors, "errors")' = Settled(errors, "errors")
      /\ UNCHANGED <<prog, tab>>
  BY DEF Atomic!vars
<1>3. Revoked(S, known, o, b)' = Revoked(S, known, o, b) /\ Acting' = Acting
  BY <1>2 DEF Revoked, RevokeClosed, OrphansOf, Acting, OpOf
<1>4. Lone(o)'
  BY <1>2, <1>3 DEF Lone, OpOf, Chosen
<1>5. PICK n : n = Atomic!Popped /\ n = Atomic!Popped'
  BY <1>1
<1>6. PICK L : L = Atomic!On(s) /\ L = Atomic!On(s)'
  BY <1>1
<1>7. PICK u, v : u = Settled(before, "before") /\ v = Settled(text, "text")
  OBVIOUS
<1>8. b = u \cup {<<s, m, n>> : m \in B} \cup {<<s, n, k>> : k \in L \ B}
  BY <1>5, <1>6, <1>7 DEF Chosen
<1>9. Settled(before, "before")' = u /\ Settled(text, "text")' = v
  BY <1>2, <1>7
<1>10. b = Settled(before, "before")' \cup {<<s, m, Atomic!Popped'>> : m \in B}
                                      \cup {<<s, Atomic!Popped', k>> : k \in Atomic!On(s)' \ B}
  BY <1>5, <1>6, <1>8, <1>9
<1>11. Renamed(s)' = Renamed(s)
  BY <1>2, <1>5 DEF Renamed
<1> QED BY <1>1, <1>2, <1>3, <1>4, <1>10, <1>11 DEF Chosen, Ordered

(* While walks are under way Atomic does not move.                          *)
LEMMA CascadeStays ==
  ASSUME CascadeInv, ~Idle, CascadeStep, ~Idle', Underway
  PROVE  UNCHANGED Atomic!vars /\ Underway'
<1>1. UNCHANGED <<Elsewhere, text, phase, origin>>
  <2>1. CASE SkipError
    BY <2>1 DEF SkipError, Elsewhere, vars
  <2>2. CASE RevokeMarker
    <3>1. phase' = phase
      BY <2>2, MarkerKeeps DEF RevokeMarker, Outcome, CascadeStep
    <3> QED BY <2>2, <3>1 DEF RevokeMarker
  <2>3. CASE RevokeDefine
    <3>1. phase' = phase
      BY <2>3, DefineKeeps DEF RevokeDefine, Outcome, CascadeStep
    <3> QED BY <2>3, <3>1 DEF RevokeDefine
  <2>4. CASE EraseAndProceed
    BY <2>4 DEF EraseAndProceed, Idle
  <2> QED BY <2>1, <2>2, <2>3, <2>4 DEF CascadeStep
<1>2. UNCHANGED Atomic!vars
  BY <1>1 DEF Atomic!vars, Settled, Elsewhere
<1>3. PICK s, B, known, S, G, o, b : /\ Chosen(s, B, known, S, G, o, b)
                                     /\ Progress(known, S, G, o, b) /\ text = Renamed(s)
  BY DEF Underway
<1>4. RevokeClosed(G, known, o, b) /\ Ordered(o, b) /\ Lone(o)
  <2>1. \A t, m : <<t, m>> \in o => m \in Acting
    BY <1>3 DEF Chosen, Lone
  <2>2. RevokeClosed(Revoked(S, known, o, b), known, o, b)
    BY <1>3, <2>1, RevokedFacts DEF Chosen
  <2> QED BY <1>3, <2>2 DEF Chosen
<1>5. Progress(known, S, G, o, b)'
  BY <1>3, <1>4, ProgressSkip, ProgressMarker, ProgressDefine, ProgressErase DEF CascadeStep
<1>6. Chosen(s, B, known, S, G, o, b)' /\ text' = Renamed(s)'
  BY <1>1, <1>2, <1>3, ChosenStays
<1> QED BY <1>2, <1>5, <1>6 DEF Underway

LEMMA FixedAtomically ==
  ASSUME NEW s, NEW B, NEW known, NEW S, NEW G, NEW o, NEW b, Chosen(s, B, known, S, G, o, b),
         Idle', text' = Renamed(s), on' = {e \in o : e[2] \notin G},
         before' = {e \in b : e[2] \notin G /\ e[3] \notin G}, errors' = known \cup G,
         ~Unmarked(G, o), UNCHANGED <<prog, round, phase, pos, cur, chain, tab>>
  PROVE  Atomic!FixInvalidate
<1>1. /\ Settled(text, "text")' = text' /\ Settled(on, "on")' = on'
      /\ Settled(before, "before")' = before' /\ Settled(errors, "errors")' = errors'
  BY SettlingNext
<1> DEFINE n == Atomic!Popped
<1>3. /\ Atomic!Fixing /\ Atomic!OpOf(n) = "invalidate" /\ ~Atomic!FixAborts(n)
      /\ s \in Atomic!Available(n) /\ B \in Atomic!Splits(s, n, Atomic!ByID)
  BY DEF Chosen, Due
<1>4. /\ known = Settled(errors, "errors") \ {n}
      /\ o = Settled(on, "on") \cup {<<s, n>>}
      /\ b = Settled(before, "before") \cup {<<s, m, n>> : m \in B}
                                       \cup {<<s, n, k>> : k \in Atomic!On(s) \ B}
      /\ S = Atomic!CutOff(s, B)
  BY DEF Chosen
<1>5. G = Atomic!Revoked(S, known, o, b)
  BY SameRevoked DEF Chosen
<1>6. ~Atomic!Unmarked(G, o)
  BY SameUnmarked
<1>7. /\ Settled(text, "text")' = [Settled(text, "text") EXCEPT ![n] = s.name]
      /\ Settled(on, "on")' = {e \in o : e[2] \notin G}
      /\ Settled(before, "before")' = {e \in b : e[2] \notin G /\ e[3] \notin G}
      /\ Settled(errors, "errors")' = known \cup G
      /\ phase' = IF Atomic!Unmarked(G, o) THEN "fatal" ELSE phase
  BY <1>1, <1>6 DEF Renamed
<1>8. LET rest == Settled(errors, "errors") \ {n}
          p == Settled(on, "on") \cup {<<s, n>>}
          c == Settled(before, "before") \cup {<<s, m, n>> : m \in B}
                                         \cup {<<s, n, k>> : k \in Atomic!On(s) \ B}
          gone == Atomic!Revoked(Atomic!CutOff(s, B), rest, p, c)
      IN  /\ Settled(text, "text")' = [Settled(text, "text") EXCEPT ![n] = s.name]
          /\ Settled(on, "on")' = {e \in p : e[2] \notin gone}
          /\ Settled(before, "before")' = {e \in c : e[2] \notin gone /\ e[3] \notin gone}
          /\ Settled(errors, "errors")' = rest \cup gone
          /\ phase' = IF Atomic!Unmarked(gone, p) THEN "fatal" ELSE phase
  BY <1>4, <1>5, <1>7
<1> QED BY <1>3, <1>8 DEF Atomic!FixInvalidate

(* When the last walk ends, what has been revoked is the closure.           *)
LEMMA CascadeEnds ==
  ASSUME CascadeInv, ~Idle, CascadeStep, Idle', Underway
  PROVE  Atomic!FixInvalidate
<1>1. EraseAndProceed
  <2>1. \A x \in Top.todo : Visited(x) \in Seq(Walk) /\ Visited(x) # << >>
    BY VisitedSound DEF CascadeInv
  <2>2. ASSUME NEW st \in Seq(Walk), NEW x, NEW s PROVE MoveTo(x, s, st) # << >>
    <3>1. Append(st, [sym |-> s, at |-> x, todo |-> prog.desc[x]]) # << >>
      OBVIOUS
    <3> QED BY <3>1 DEF MoveTo
  <2>3. ~RevokeDefine
    <3>1. SUFFICES ASSUME NEW x \in Top.todo,
                          stack' = IF Marked(x) THEN MoveTo(x, ListOf(x), Visited(x)) ELSE Visited(x)
                   PROVE  FALSE
      BY DEF RevokeDefine
    <3> QED BY <2>1, <2>2, <3>1 DEF Idle
  <2> QED BY <2>1, <2>3 DEF CascadeStep, SkipError, RevokeMarker, Idle
<1>2. UNCHANGED <<prog, round, phase, pos, cur, chain, tab, text>>
  BY <1>1 DEF EraseAndProceed, Elsewhere
<1>3. PICK s, B, known, S, G, o, b : /\ Chosen(s, B, known, S, G, o, b)
                                     /\ Progress(known, S, G, o, b) /\ text = Renamed(s)
  BY DEF Underway
<1>4. /\ Ordered(o, b) /\ Lone(o) /\ S \subseteq Acting /\ G = Revoked(S, known, o, b)
      /\ \A t, m : <<t, m>> \in o => m \in Acting
  BY <1>3 DEF Chosen, Lone
<1>5. RevokeClosed(G, known, o, b)
  BY <1>4, RevokedFacts
<1>6. Progress(known, S, G, o, b)'
  BY <1>1, <1>3, <1>4, <1>5, ProgressErase
<1>7. Frames(stack)' = {} /\ At(stack)' = {}
  BY FramesFacts, NoWalk DEF Idle, Frames, At
<1>8. PICK E : E = errors' \ known
  OBVIOUS
<1>9. /\ known \subseteq errors' /\ S \subseteq E
      /\ on' = {e \in o : e[2] \notin E} /\ before' = {e \in b : e[2] \notin E /\ e[3] \notin E}
  BY <1>6, <1>7, <1>8 DEF Progress, Reached, Ahead, Without
<1>10. Covers({}, E, known, o, b)
  <2>1. Covers({}, E, known, o, b)'
    BY <1>6, <1>7, <1>8 DEF Progress
  <2> QED BY <1>2, <2>1 DEF Covers, Todo, Ahead, OrphansOf, OpOf, Acting
<1>11. E \subseteq G /\ \A c \in E : \E t \in tab : <<t, c>> \in o
  BY <1>2, <1>6, <1>8 DEF Progress, Within
<1>12. E = G
  <2>1. RevokeClosed(E, known, o, b)
    BY <1>10, CoversEnd
  <2>2. E \in SUBSET Acting
    BY <1>4, <1>11
  <2>3. G \subseteq E
    BY <1>4, <1>9, <2>1, <2>2, RevokedFacts
  <2> QED BY <1>11, <2>3
<1>13. errors' = known \cup G /\ ~Unmarked(G, o)
  BY <1>8, <1>9, <1>11, <1>12 DEF Unmarked
<1>14. on' = {e \in o : e[2] \notin G} /\ before' = {e \in b : e[2] \notin G /\ e[3] \notin G}
  BY <1>9, <1>12
<1> QED BY <1>2, <1>3, <1>13, <1>14, FixedAtomically

(* o and b are on and before once u stands in the list of x after the       *)
(* markers C; the walk of the list it begins goes on from u.                *)
Grown(x, u, C, o, b) ==
  /\ o = on \cup {<<x, u>>}
  /\ b = before \cup {<<x, m, u>> : m \in C} \cup {<<x, u, k>> : k \in On(x) \ C}

Begun(x, u, C, o, b) ==
  /\ CutOff(x, C) = OrphansOf(x, u, o, b)
  /\ \A m : <<x, u, m>> \in b <=> m \in On(x) \ C
  /\ \A t, m, k : m # u /\ k # u => (<<t, m, k>> \in b <=> <<t, m, k>> \in before)

LEMMA CutOffOrphans ==
  ASSUME Typed, Ordered(on, before), NEW x, NEW u \in Node, <<x, u>> \notin on,
         NEW C \in SUBSET On(x), NEW p, NEW q, Grown(x, u, C, p, q)
  PROVE  Begun(x, u, C, p, q)
<1>1. PICK L : L = On(x)
  OBVIOUS
<1>2. \A m : m \in L <=> m \in Node /\ <<x, m>> \in on
  BY <1>1 DEF On
<1>3. u \notin L /\ C \subseteq L
  BY <1>1, <1>2
<1>4. \A t, m, k : <<t, m, k>> \in q <=> \/ <<t, m, k>> \in before
                                         \/ t = x /\ k = u /\ m \in C
                                         \/ t = x /\ m = u /\ k \in L \ C
  BY <1>1 DEF Grown
<1>5. \A m : <<x, u, m>> \in q <=> m \in L \ C
  BY <1>3, <1>4 DEF Ordered
<1>6. \A t, m, k : m # u /\ k # u => (<<t, m, k>> \in q <=> <<t, m, k>> \in before)
  BY <1>4
<1>7. \A m : m \in CutOff(x, C) <=> /\ m \in L \ C
                                    /\ \A d \in L \ C : OpOf(d) = "define" => <<x, m, d>> \in before
  BY <1>1 DEF CutOff
<1>8. ASSUME NEW m
      PROVE  m \in CutOff(x, C) <=> m \in OrphansOf(x, u, p, q)
  <2>1. m \in OrphansOf(x, u, p, q)
          <=> /\ m \in Node /\ (<<x, m>> \in on \/ m = u) /\ <<x, u, m>> \in q
              /\ \A d \in Node : OpOf(d) = "define" /\ <<x, u, d>> \in q => <<x, m, d>> \in q
    BY DEF OrphansOf, Grown
  <2>2. CASE m \in L \ C
    <3>1. m \in Node /\ <<x, m>> \in on /\ <<x, u, m>> \in q /\ m # u
      BY <1>2, <1>3, <1>5, <2>2
    <3>2. \A d : d \in L \ C => d \in Node /\ d # u /\ (<<x, m, d>> \in q <=> <<x, m, d>> \in before)
      BY <1>2, <1>3, <1>6, <3>1
    <3> QED BY <1>5, <1>7, <2>1, <2>2, <3>1, <3>2
  <2>3. CASE m \notin L \ C
    BY <1>5, <1>7, <2>1, <2>3
  <2> QED BY <2>2, <2>3
<1>9. CutOff(x, C) = OrphansOf(x, u, p, q)
  <2>1. CutOff(x, C) \subseteq L
    BY <1>7
  <2> QED BY <1>8
<1> QED BY <1>1, <1>5, <1>6, <1>9 DEF Begun

(* A walk begins at the first marker the new invalidate cuts off; if the    *)
(* next marker is a define, or the list ends, nothing is cut off.           *)
LEMMA InsertBegins ==
  ASSUME CascadeInv, Ordered(on, before), InsertInvalidate, CascadeInv'
  PROVE  \/ Idle' /\ Atomic!FixInvalidate
         \/ ~Idle' /\ Underway' /\ UNCHANGED Atomic!vars
<1>1. Idle /\ Fixing /\ phase = "analyze" /\ pos = N /\ Typed /\ Accounted
  BY IdleAccounted DEF InsertInvalidate, Fixing, CascadeInv
<1>2. PICK n \in Acting : n = Popped /\ n \in errors /\ n \in Node
  BY <1>1, FixingFacts
<1>3. PICK s \in Available(n) : \E B \in Splits(s, n, ByID) :
         /\ text' = [text EXCEPT ![n] = s.name]
         /\ Listed(s, n, B)
         /\ Proceed(First(s, On(s) \ B), s, << >>, errors \ {n})
  BY <1>2 DEF InsertInvalidate
<1>4. PICK B \in Splits(s, n, ByID) :
         /\ text' = [text EXCEPT ![n] = s.name]
         /\ Listed(s, n, B)
         /\ Proceed(First(s, On(s) \ B), s, << >>, errors \ {n})
  BY <1>3
<1>5. /\ UNCHANGED <<Elsewhere, phase>> /\ OpOf(n) = "invalidate" /\ ~FixAborts(n)
      /\ B \in SUBSET On(s) /\ s \in tab /\ s \in Symbol
      /\ origin' = IF stack' = << >> THEN << >>
                   ELSE [text |-> text, on |-> on, before |-> before, errors |-> errors]
  BY <1>1, <1>2, <1>4 DEF InsertInvalidate, Splits, Available, Reachable, Typed, TypeOK
<1>6. <<s, n>> \notin on
  <2>1. Unlisted(n)
    BY <1>1, <1>2 DEF Accounted, Fixing
  <2> QED BY <1>5, <2>1 DEF Unlisted
<1>7. PICK o, b : /\ o = on \cup {<<s, n>>} /\ on' = o /\ before' = b
                  /\ b = before \cup {<<s, m, n>> : m \in B} \cup {<<s, n, k>> : k \in On(s) \ B}
  BY <1>4 DEF Listed
<1>8. Ordered(o, b)
  <2>1. Ordered(on', before')
    BY <1>1, <1>2, <1>4, OrderedFix
  <2> QED BY <1>7, <2>1
<1>9. Lone(o)
  <2>1. /\ Acting' = Acting /\ tab' = tab /\ \A m : OpOf(m)' = OpOf(m)
    BY <1>5 DEF Elsewhere, Acting, OpOf
  <2>2. \A t, m : <<t, m>> \in o => t \in tab /\ m \in Node /\ m \in Acting
    BY <1>7, <2>1 DEF CascadeInv, Typed, TypeOK, Lists
  <2>3. ASSUME NEW t, NEW d, NEW m, <<t, d>> \in o, OpOf(d) = "define",
               <<t, m>> \in o, OpOf(m) = "define"
        PROVE  d = m
    <3>1. t \in tab /\ d \in Node /\ m \in Node
      BY <2>2, <2>3
    <3>2. d \in On(t)' /\ m \in On(t)'
      BY <1>7, <2>3, <3>1 DEF On
    <3>3. \A x \in tab' : \A y \in On(x)' : OpOf(y)' = "define" =>
            \A z \in On(x)' : OpOf(z)' = "define" => z = y
      BY DEF CascadeInv, Lists
    <3> QED BY <2>1, <2>3, <3>1, <3>2, <3>3
  <2> QED BY <2>2, <2>3 DEF Lone
<1>10. PICK known, S, G : /\ known = errors \ {n} /\ S = CutOff(s, B)
                          /\ G = Revoked(S, known, o, b)
  OBVIOUS
<1>11. /\ S = OrphansOf(s, n, o, b) /\ \A m : <<s, n, m>> \in b <=> m \in On(s) \ B
       /\ \A t, m, k : m # n /\ k # n => (<<t, m, k>> \in b <=> <<t, m, k>> \in before)
  <2>1. n \in Node /\ B \in SUBSET On(s) /\ Grown(s, n, B, o, b)
    BY <1>2, <1>5, <1>7 DEF Grown
  <2>2. Begun(s, n, B, o, b)
    BY <1>1, <1>6, <2>1, CutOffOrphans
  <2> QED BY <1>10, <2>2 DEF Begun
<1>12. S \subseteq Acting
  BY <1>9, <1>11 DEF OrphansOf, Lone
<1>13. Chosen(s, B, known, S, G, o, b)
  <2>1. Due(s, B)
    BY <1>1, <1>2, <1>3, <1>4, <1>5, SamePopped, SameFixing, SameOpOf, SameFixAborts,
       SameAvailable, SameSplits, SameByID DEF Due
  <2>2. Atomic!Popped = n /\ Atomic!On(s) = On(s) /\ Atomic!CutOff(s, B) = S
    BY <1>1, <1>2, <1>10, SamePopped, SameOn, SameCutOff
  <2> QED BY <1>1, <1>7, <1>8, <1>9, <1>10, <1>12, <2>1, <2>2, Settling DEF Chosen
<1>14. text' = Renamed(s)
  BY <1>1, <1>2, <1>4, SamePopped, Settling DEF Renamed
<1>15. \A m \in On(s) \ B : m # n /\ m \in Node
  BY <1>6 DEF On
<1>16. /\ \A k \in First(s, On(s) \ B) : k \in On(s) \ B /\ \A m \in (On(s) \ B) \ {k} : <<s, k, m>> \in b
       /\ \A k \in On(s) \ B : (\A m \in (On(s) \ B) \ {k} : <<s, k, m>> \in b) => k \in First(s, On(s) \ B)
  BY <1>11, <1>15 DEF First
<1>17. PICK P : P = On(s) \ B
  OBVIOUS
<1>18. /\ \A k \in P :
            (\A m \in P \ {k} : <<s, k, m>> \in b) /\ OpOf(k) # "define" =>
              /\ k \in S
              /\ OrphansOf(s, k, o, b) \subseteq S
              /\ S \subseteq {k} \cup OrphansOf(s, k, o, b)
       /\ (\A k \in P : (\A m \in P \ {k} : <<s, k, m>> \in b) => OpOf(k) = "define")
            => S = {}
  <2>1. /\ P \subseteq Node /\ \A m \in P : <<s, n, m>> \in b
        /\ \A m \in Node : <<s, n, m>> \in b => m \in P
    BY <1>11, <1>15, <1>17
  <2>2. S = OrphansOf(s, n, o, b)
    BY <1>11
  <2>3. PICK Z : Z = {}
    OBVIOUS
  <2>4. Advances(s, n, P, Z, o, b)
    <3>1. /\ \A m \in Node : <<s, n, m>> \in b /\ m \notin Z => m \in P
          /\ \A d \in Z : OpOf(d) = "define" => <<s, n, d>> \notin b
      BY <2>1, <2>3
    <3> QED BY <1>8, <2>1, <3>1, MovingOn
  <2> QED BY <2>2, <2>3, <2>4 DEF Advances
<1>19. ASSUME NEW k \in First(s, On(s) \ B), OpOf(k) # "define", stack' = MoveTo(k, s, << >>),
              errors' = (errors \ {n}) \cup {k}
       PROVE  ~Idle' /\ Underway' /\ UNCHANGED Atomic!vars
  <2> DEFINE h == [sym |-> s, at |-> k, todo |-> prog.desc[k]]
  <2>1. k \in P /\ k \in Node /\ <<s, k>> \in o /\ k \notin errors
    <3>1. k \in P /\ k \in Node /\ <<s, k>> \in on
      BY <1>15, <1>16, <1>17, <1>19 DEF On
    <3>2. ~Unlisted(k) /\ k \in Acting
      BY <1>5, <3>1 DEF Unlisted, CascadeInv, Lists
    <3>3. k \notin errors
      BY <1>1, <3>2 DEF Accounted
    <3> QED BY <1>7, <3>1, <3>3
  <2>2. /\ k \in S /\ OrphansOf(s, k, o, b) \subseteq S
        /\ S \subseteq {k} \cup OrphansOf(s, k, o, b)
        /\ \A d \in {k} : OpOf(d) = "define" => <<s, k, d>> \notin b
    BY <1>16, <1>17, <1>18, <1>19, <2>1
  <2>3. << >> \in Seq(Walk) /\ prog \in Programs
    BY <1>1 DEF Typed
  <2>4. stack' \in Seq(Walk) /\ Frames(stack') = {h}
    <3>1. Frames(<< >>) = {}
      BY DEF Frames
    <3>2. PICK st \in Seq(Walk) : st = << >> /\ Frames(st) = {} /\ stack' = MoveTo(k, s, st)
      BY <1>19, <2>3, <3>1
    <3>3. MoveTo(k, s, st) \in Seq(Walk) /\ Frames(MoveTo(k, s, st)) = Frames(st) \cup {h}
      BY <1>5, <2>1, <2>3, MoveToFrames
    <3> QED BY <3>2, <3>3
  <2>5. ~Idle' /\ At(stack') = {k}
    <3>1. stack' # << >>
      <4>1. Frames(<< >>) = {}
        BY DEF Frames
      <4> QED BY <2>4, <4>1
    <3>2. At(stack') = {f.at : f \in {h}}
      BY <2>4, FramesFacts
    <3> QED BY <3>1, <3>2 DEF Idle
  <2>6. UNCHANGED Atomic!vars
    BY <1>1, <1>5, <2>5, Settling DEF Settled, Idle, Atomic!vars, Elsewhere
  <2>7. Chosen(s, B, known, S, G, o, b)' /\ text' = Renamed(s)'
    BY <1>13, <1>14, <2>6, ChosenStays
  <2>8. S \subseteq G /\ G = Revoked(S, known, o, b)
    <3>1. \A t, m : <<t, m>> \in o => m \in Acting
      BY <1>9 DEF Lone
    <3> QED BY <1>10, <1>12, <3>1, RevokedFacts
  <2>9. {k} = errors' \ known /\ known \subseteq errors' /\ UNCHANGED <<prog, tab>>
    BY <1>5, <1>10, <1>19, <2>1 DEF Elsewhere
  <2>10. h.sym = s /\ h.at = k /\ h.todo = prog.desc[k]
    OBVIOUS
  <2> HIDE DEF h
  <2>11. Reached(S, {h}, {k}, o, b) /\ Covers({h}, {k}, known, o, b) /\ Within({h}, {k}, G, o, b)
    BY <1>5, <1>19, <2>1, <2>2, <2>8, <2>10 DEF Reached, Covers, Within, Ahead, Todo
  <2>12. PICK X : X = {k} \ At(stack')
    OBVIOUS
  <2>13. Without(X, o, b)'
    <3>1. X = {}
      BY <2>5, <2>12
    <3> QED BY <1>7, <3>1 DEF Without
  <2>14. Progress(known, S, G, o, b)'
    BY <2>4, <2>9, <2>11, <2>12, <2>13, ProgressNext
  <2> QED BY <2>5, <2>6, <2>7, <2>14 DEF Underway
<1>20. ASSUME \A k \in First(s, On(s) \ B) : OpOf(k) = "define", stack' = << >>,
              errors' = errors \ {n}
       PROVE  Idle' /\ Atomic!FixInvalidate
  <2>1. S = {}
    BY <1>16, <1>17, <1>18, <1>20
  <2>2. G = {}
    <3>1. RevokeClosed({}, known, o, b)
      BY DEF RevokeClosed
    <3> QED BY <1>10, <2>1, <3>1 DEF Revoked
  <2>3. Idle'
    BY <1>20 DEF Idle
  <2>4. /\ on' = {e \in o : e[2] \notin G} /\ before' = {e \in b : e[2] \notin G /\ e[3] \notin G}
        /\ errors' = known \cup G /\ ~Unmarked(G, o)
    BY <1>7, <1>10, <1>20, <2>2 DEF Unmarked
  <2> QED BY <1>5, <1>13, <1>14, <2>3, <2>4, FixedAtomically DEF Elsewhere
<1> QED BY <1>4, <1>19, <1>20 DEF Proceed

(* What a step of Cascade is to SymbolAnalysis needs to know of the walks:  *)
(* the lists are orders, and the ongoing cascade is on its way from the     *)
(* state it began in to the closure FixInvalidate revokes.                  *)
RefinesInv == CascadeInv /\ Ordered(on, before) /\ Underway

LEMMA UnderwayRests ==
  ASSUME UNCHANGED allVars, Underway
  PROVE  UNCHANGED Atomic!vars /\ Underway'
<1>1. UNCHANGED <<prog, text, round, phase, pos, cur, chain, tab, on, before, errors, stack, origin>>
  BY DEF allVars, vars
<1>2. UNCHANGED Atomic!vars
  BY <1>1 DEF Atomic!vars, Settled, Idle
<1>3. ASSUME ~Idle' PROVE Underway'
  <2>1. ~Idle
    BY <1>1, <1>3 DEF Idle
  <2>2. PICK s, B, known, S, G, o, b : /\ Chosen(s, B, known, S, G, o, b)
                                       /\ Progress(known, S, G, o, b) /\ text = Renamed(s)
    BY <2>1 DEF Underway
  <2>3. Chosen(s, B, known, S, G, o, b)' /\ text' = Renamed(s)'
    BY <1>1, <1>2, <2>2, ChosenStays
  <2>4. Progress(known, S, G, o, b)'
    <3>1. /\ Frames(stack)' = Frames(stack) /\ At(stack)' = At(stack) /\ Acting' = Acting
          /\ \A n : OpOf(n)' = OpOf(n)
      BY <1>1 DEF Frames, At, Acting, OpOf
    <3>2. \A t, n : OrphansOf(t, n, o, b)' = OrphansOf(t, n, o, b)
      BY <1>1 DEF OrphansOf, OpOf
    <3>3. \A F : Ahead(F, o, b)' = Ahead(F, o, b)
      BY <3>2 DEF Ahead
    <3> QED BY <1>1, <2>2, <3>1, <3>2, <3>3 DEF Progress, Reached, Covers, Within, Without, Todo
  <2> QED BY <2>3, <2>4 DEF Underway
<1> QED BY <1>2, <1>3 DEF Underway

LEMMA StepRefines ==
  ASSUME RefinesInv, [CascadeNext]_allVars, CascadeInv'
  PROVE  Underway' /\ [Atomic!Next]_(Atomic!vars)
<1>1. CASE AtomicStep
  <2>1. Idle /\ Idle'
    BY <1>1 DEF AtomicStep, Idle
  <2> QED BY <1>1, <2>1, AtomicDoes DEF Underway
<1>2. CASE InsertInvalidate
  <2>1. \/ Idle' /\ Atomic!FixInvalidate
        \/ ~Idle' /\ Underway' /\ UNCHANGED Atomic!vars
    BY <1>2, InsertBegins DEF RefinesInv
  <2> QED BY <2>1 DEF Underway, Atomic!Next, Atomic!Fix
<1>3. CASE CascadeStep
  <2>1. ~Idle
    BY <1>3 DEF CascadeStep
  <2>2. CASE Idle'
    <3>1. Atomic!FixInvalidate
      BY <1>3, <2>1, <2>2, CascadeEnds DEF RefinesInv
    <3> QED BY <2>2, <3>1 DEF Underway, Atomic!Next, Atomic!Fix
  <2>3. CASE ~Idle'
    BY <1>3, <2>1, <2>3, CascadeStays DEF RefinesInv
  <2> QED BY <2>2, <2>3
<1>4. CASE UNCHANGED allVars
  BY <1>4, UnderwayRests DEF RefinesInv
<1> QED BY <1>1, <1>2, <1>3, <1>4 DEF CascadeNext

(* In whatever order the nested walks visit the nodes, the cascade ends in  *)
(* the one state FixInvalidate of SymbolAnalysis describes in one step; all *)
(* other steps are steps of SymbolAnalysis or stutter.                      *)
THEOREM CascadesAreAtomic == CascadeSpec => ImplementsAnalysis
<1>1. CascadeInit => Ordered(on, before) /\ Underway /\ Atomic!Init
  <2> SUFFICES ASSUME CascadeInit PROVE Ordered(on, before) /\ Underway /\ Atomic!Init
    OBVIOUS
  <2>1. Idle /\ Init /\ on = {} /\ before = {}
    BY DEF CascadeInit, Idle, Init, Reset
  <2> QED BY <2>1, DoesInit DEF Underway, Ordered
<1>2. CascadeInv /\ CascadeInv' /\ Ordered(on, before) /\ Underway /\ [CascadeNext]_allVars
        => Ordered(on, before)' /\ Underway' /\ [Atomic!Next]_(Atomic!vars)
  <2> SUFFICES ASSUME CascadeInv, CascadeInv', Ordered(on, before), Underway, [CascadeNext]_allVars
               PROVE  Ordered(on, before)' /\ Underway' /\ [Atomic!Next]_(Atomic!vars)
    OBVIOUS
  <2>1. Ordered(on, before)'
    BY OrderedStep DEF Ordered
  <2> QED BY <2>1, StepRefines DEF RefinesInv
<1> QED BY <1>1, <1>2, CascadeAlways, PTL DEF CascadeSpec, ImplementsAnalysis, Atomic!Spec
=============================================================================
