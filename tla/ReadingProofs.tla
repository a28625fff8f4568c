---------------------------- MODULE ReadingProofs ----------------------------
(***************************************************************************)
(* In every tree the front end returns, the subtree collector collects      *)
(* exactly the nodes each of its functions is for, and a context query      *)
(* evaluates to what its expression documents.                              *)
(***************************************************************************)
EXTENDS Reading, SequenceTheorems, FiniteSetTheorems, WellFoundedInduction, TLAPS

(* What a tree needs for that: the children are nodes of the tree.          *)
TreeInv ==
  \A n \in DOMAIN tree : "kids" \in DOMAIN tree[n] /\ tree[n].kids \in Seq(DOMAIN tree)

(* The front end: IDs that are in use have been counted.                    *)
FrontendInv ==
  /\ counter \in Nat
  /\ DOMAIN tree \subseteq 0 .. counter - 1
  /\ calls \in Seq([node : Int, id : Nat]) /\ at \in Nat
  /\ \A i \in 1 .. Len(calls) : calls[i].id \in DOMAIN tree

-----------------------------------------------------------------------------
(* The stack without its top.                                              *)
LEMMA FrontFacts ==
  ASSUME NEW S, NEW s \in Seq(S), s # << >>
  PROVE  /\ Front(s) \in Seq(S) /\ Len(s) \in Nat /\ Len(s) >= 1
         /\ Len(Front(s)) = Len(s) - 1
         /\ \A i \in 1 .. Len(s) - 1 : Front(s)[i] = s[i]
<1>1. Len(s) \in Nat /\ Len(s) >= 1
  OBVIOUS
<1>2. PICK k \in Nat : k = Len(s) - 1
  BY <1>1
<1>3. \A i \in 1 .. k : s[i] \in S
  BY <1>1, <1>2
<1>4. /\ SubSeq(s, 1, k) \in Seq(S)
      /\ Len(SubSeq(s, 1, k)) = IF 1 <= k THEN k - 1 + 1 ELSE 0
      /\ \A i \in 1 .. k - 1 + 1 : SubSeq(s, 1, k)[i] = s[1 + i - 1]
  BY <1>2, <1>3, SubSeqProperties
<1>5. Len(SubSeq(s, 1, k)) = k /\ \A i \in 1 .. k : SubSeq(s, 1, k)[i] = s[i]
  BY <1>2, <1>4
<1>6. Front(s) = SubSeq(s, 1, k)
  BY <1>2 DEF Front
<1> QED BY <1>1, <1>2, <1>4, <1>5, <1>6

(* A child is appended to the children of one node.                        *)
LEMMA AttachFacts ==
  ASSUME NEW f, NEW c \in DOMAIN f, NEW p \in DOMAIN f,
         \A n \in DOMAIN f : "kids" \in DOMAIN f[n] /\ f[n].kids \in Seq(DOMAIN f)
  PROVE  /\ DOMAIN Attach(f, c, p) = DOMAIN f
         /\ \A n \in DOMAIN f : /\ "kids" \in DOMAIN Attach(f, c, p)[n]
                                /\ Attach(f, c, p)[n].kids \in Seq(DOMAIN f)
<1> DEFINE g == [f EXCEPT ![c].up = p]
           h == [g EXCEPT ![p].kids = Append(@, c)]
<1>1. Attach(f, c, p) = h
  BY DEF Attach
<1>2. DOMAIN g = DOMAIN f /\ DOMAIN h = DOMAIN f
  OBVIOUS
<1>3. ASSUME NEW n \in DOMAIN f
      PROVE  "kids" \in DOMAIN g[n] /\ g[n].kids = f[n].kids
  BY <1>3
<1>4. ASSUME NEW n \in DOMAIN f
      PROVE  "kids" \in DOMAIN h[n] /\ h[n].kids \in Seq(DOMAIN f)
  <2> HIDE DEF g
  <2>1. CASE n = p
    <3>1. h[n] = [g[p] EXCEPT !.kids = Append(@, c)]
      BY <1>2, <2>1
    <3>2. h[n].kids = Append(g[p].kids, c) /\ "kids" \in DOMAIN h[n]
      BY <1>3, <3>1
    <3>3. PICK s \in Seq(DOMAIN f) : s = g[p].kids
      BY <1>3
    <3>4. Append(s, c) \in Seq(DOMAIN f)
      OBVIOUS
    <3> QED BY <2>1, <3>2, <3>3, <3>4
  <2>2. CASE n # p
    BY <1>2, <1>3, <2>2
  <2> QED BY <2>1, <2>2
<1> HIDE DEF h
<1> QED BY <1>1, <1>2, <1>4

(* A new node keeps the tree a tree; the calls go on meaning its nodes.     *)
LEMMA NodeAdded ==
  ASSUME TreeInv, FrontendInv, NEW pt, NEW p
  PROVE  LET t == Put(tree, counter, NewIR(pt, p)) IN
         /\ counter \notin DOMAIN tree
         /\ DOMAIN t = DOMAIN tree \cup {counter}
         /\ \A n \in DOMAIN t : "kids" \in DOMAIN t[n] /\ t[n].kids \in Seq(DOMAIN t)
<1> DEFINE node == NewIR(pt, p)
           t == Put(tree, counter, node)
<1>1. "kids" \in DOMAIN node /\ node.kids = << >>
  BY DEF NewIR
<1> HIDE DEF node
<1>2. /\ DOMAIN t = DOMAIN tree \cup {counter} /\ t[counter] = node
      /\ \A z \in DOMAIN tree : z # counter => t[z] = tree[z]
  BY DEF Put
<1>3. counter \notin DOMAIN tree
  BY DEF FrontendInv
<1>4. \A n \in DOMAIN tree : tree[n].kids \in Seq(DOMAIN tree \cup {counter})
  <2> SUFFICES ASSUME NEW n \in DOMAIN tree
               PROVE  tree[n].kids \in Seq(DOMAIN tree \cup {counter})
    OBVIOUS
  <2>1. PICK S : S = DOMAIN tree \cup {counter} /\ DOMAIN tree \subseteq S
    OBVIOUS
  <2>2. PICK s \in Seq(DOMAIN tree) : s = tree[n].kids
    BY DEF TreeInv
  <2>3. s \in Seq(S)
    BY <2>1
  <2> QED BY <2>1, <2>2, <2>3
<1> HIDE DEF t
<1>5. ASSUME NEW n \in DOMAIN t
      PROVE  "kids" \in DOMAIN t[n] /\ t[n].kids \in Seq(DOMAIN t)
  <2>1. CASE n = counter
    <3>1. << >> \in Seq(DOMAIN tree \cup {counter})
      OBVIOUS
    <3> QED BY <1>1, <1>2, <2>1, <3>1
  <2>2. CASE n # counter
    BY <1>2, <1>4, <2>2 DEF TreeInv
  <2> QED BY <2>1, <2>2
<1> QED BY <1>2, <1>3, <1>5 DEF t, node

LEMMA CallerFacts ==
  ASSUME FrontendInv, ~Returned
  PROVE  /\ Caller.id \in DOMAIN tree
         /\ Front(calls) \in Seq([node : Int, id : Nat])
         /\ Len(Front(calls)) = Len(calls) - 1 /\ Len(calls) \in Nat /\ Len(calls) >= 1
         /\ \A i \in 1 .. Len(calls) - 1 : Front(calls)[i] = calls[i]
<1>1. calls \in Seq([node : Int, id : Nat]) /\ calls # << >>
  BY DEF FrontendInv, Returned
<1>2. /\ Front(calls) \in Seq([node : Int, id : Nat]) /\ Len(calls) \in Nat /\ Len(calls) >= 1
      /\ Len(Front(calls)) = Len(calls) - 1
      /\ \A i \in 1 .. Len(calls) - 1 : Front(calls)[i] = calls[i]
  BY <1>1, FrontFacts
<1>3. Caller = calls[Len(calls)]
  BY DEF Caller, Last
<1>4. Caller.id \in DOMAIN tree
  BY <1>2, <1>3 DEF FrontendInv
<1> QED BY <1>2, <1>4

LEMMA FrontendKeeps ==
  ASSUME TreeInv, FrontendInv, FrontendNext
  PROVE  TreeInv' /\ FrontendInv'
<1>1. CASE Reject
  BY <1>1 DEF Reject, TreeInv, FrontendInv
<1>2. ASSUME NEW pt, Parse(pt) PROVE TreeInv' /\ FrontendInv'
  <2>1. "kids" \in DOMAIN NewIR(pt, 1) /\ NewIR(pt, 1).kids = << >>
    BY DEF NewIR
  <2>2. DOMAIN tree' = {counter} /\ tree'[counter] = NewIR(pt, 1)
    <3>1. tree' = Put(<< >>, counter, NewIR(pt, 1))
      BY <1>2 DEF Parse
    <3>2. DOMAIN << >> = {}
      OBVIOUS
    <3> DEFINE node == NewIR(pt, 1)
    <3> HIDE DEF node
    <3>3. /\ DOMAIN Put(<< >>, counter, node) = {counter}
          /\ Put(<< >>, counter, node)[counter] = node
      BY <3>2 DEF Put
    <3> QED BY <3>1, <3>3 DEF node
  <2>3. TreeInv'
    <3>1. << >> \in Seq({counter})
      OBVIOUS
    <3> QED BY <2>1, <2>2, <3>1 DEF TreeInv
  <2>4. calls' = <<[node |-> 1, id |-> counter]>> /\ at' = 1 /\ counter' = counter + 1
    BY <1>2 DEF Parse
  <2> QED BY <2>2, <2>3, <2>4 DEF FrontendInv
<1>3. CASE EnterRule
  <2>1. tree' = Put(tree, counter, NewIR(source, at + 1))
    BY <1>3 DEF EnterRule
  <2>2. DOMAIN tree' = DOMAIN tree \cup {counter}
    BY <2>1, NodeAdded
  <2>3. TreeInv'
    BY <2>1, NodeAdded DEF TreeInv
  <2>4. /\ calls' = Append(calls, [node |-> at + 1, id |-> counter])
        /\ at' = at + 1 /\ counter' = counter + 1
    BY <1>3 DEF EnterRule
  <2> QED BY <2>2, <2>3, <2>4 DEF FrontendInv
<1>4. CASE EnterToken
  <2> DEFINE t == Put(tree, counter, NewIR(source, at + 1))
  <2>1. /\ tree' = Attach(t, counter, Caller.id) /\ ~Returned
        /\ at' = at + 1 /\ counter' = counter + 1 /\ calls' = calls
    BY <1>4 DEF EnterToken, HasChild
  <2>2. DOMAIN t = DOMAIN tree \cup {counter}
    BY NodeAdded
  <2>3. \A n \in DOMAIN t : "kids" \in DOMAIN t[n] /\ t[n].kids \in Seq(DOMAIN t)
    BY NodeAdded
  <2> HIDE DEF t
  <2>4. counter \in DOMAIN t /\ Caller.id \in DOMAIN t
    BY <2>1, <2>2, CallerFacts
  <2>5. DOMAIN tree' = DOMAIN t
    BY <2>1, <2>3, <2>4, AttachFacts
  <2>6. TreeInv'
    BY <2>1, <2>3, <2>4, <2>5, AttachFacts DEF TreeInv
  <2> QED BY <2>1, <2>2, <2>5, <2>6 DEF FrontendInv
<1>5. CASE EnterEOF
  BY <1>5 DEF EnterEOF, TreeInv, FrontendInv
<1>6. CASE Return
  <2>1. ~Returned /\ calls' = Front(calls) /\ at' = at /\ counter' = counter
    BY <1>6 DEF Return
  <2>2. TreeInv' /\ DOMAIN tree' = DOMAIN tree
    <3>1. CASE Len(calls) = 1
      BY <1>6, <3>1 DEF Return, TreeInv
    <3>2. CASE Len(calls) # 1
      <4>1. tree' = Attach(tree, Caller.id, calls[Len(calls) - 1].id)
        BY <1>6, <3>2 DEF Return
      <4>2. Caller.id \in DOMAIN tree /\ calls[Len(calls) - 1].id \in DOMAIN tree
        <5>1. Caller.id \in DOMAIN tree /\ Len(calls) \in Nat /\ Len(calls) >= 1
          BY <2>1, CallerFacts
        <5>2. PICK k \in Nat : k = Len(calls)
          BY <5>1
        <5>3. k - 1 \in 1 .. k
          BY <3>2, <5>1, <5>2
        <5> QED BY <5>1, <5>2, <5>3 DEF FrontendInv
      <4>3. \A n \in DOMAIN tree : "kids" \in DOMAIN tree[n] /\ tree[n].kids \in Seq(DOMAIN tree)
        BY DEF TreeInv
      <4>4. DOMAIN tree' = DOMAIN tree
        BY <4>1, <4>2, <4>3, AttachFacts
      <4>5. TreeInv'
        BY <4>1, <4>2, <4>3, <4>4, AttachFacts DEF TreeInv
      <4> QED BY <4>4, <4>5
    <3> QED BY <3>1, <3>2
  <2>3. \A i \in 1 .. Len(calls') : i \in 1 .. Len(calls) /\ calls'[i] = calls[i]
    BY <2>1, CallerFacts
  <2>4. calls' \in Seq([node : Int, id : Nat])
    BY <2>1, CallerFacts
  <2> QED BY <2>1, <2>2, <2>3, <2>4 DEF FrontendInv
<1> QED BY <1>1, <1>2, <1>3, <1>4, <1>5, <1>6 DEF FrontendNext

-----------------------------------------------------------------------------
(* A subtree is the least set that holds its root and, with every node, the *)
(* children.                                                                *)
LEMMA SubtreeFacts ==
  ASSUME TreeInv, NEW n \in DOMAIN tree
  PROVE  /\ Kids(n) \subseteq DOMAIN tree
         /\ Subtree(n) \subseteq DOMAIN tree
         /\ n \in Subtree(n)
         /\ Closed(Subtree(n))
         /\ \A S \in SUBSET DOMAIN tree : n \in S /\ Closed(S) => Subtree(n) \subseteq S
<1>1. \A m \in DOMAIN tree : Kids(m) \subseteq DOMAIN tree
  <2> SUFFICES ASSUME NEW m \in DOMAIN tree PROVE Kids(m) \subseteq DOMAIN tree
    OBVIOUS
  <2>1. PICK s \in Seq(DOMAIN tree) : s = tree[m].kids
    BY DEF TreeInv
  <2> QED BY <2>1 DEF Kids, ToSet
<1>2. Subtree(n) \subseteq DOMAIN tree /\ n \in Subtree(n)
  BY DEF Subtree
<1>3. Closed(Subtree(n))
  BY <1>1 DEF Subtree, Closed
<1>4. \A S \in SUBSET DOMAIN tree : n \in S /\ Closed(S) => Subtree(n) \subseteq S
  BY DEF Subtree
<1> QED BY <1>1, <1>2, <1>3, <1>4

LEMMA SubtreeSplits ==
  ASSUME TreeInv, NEW n \in DOMAIN tree
  PROVE  Subtree(n) = {n} \cup Below(n)
<1>1. /\ Kids(n) \subseteq DOMAIN tree /\ Closed(Subtree(n)) /\ n \in Subtree(n)
      /\ Subtree(n) \subseteq DOMAIN tree
  BY SubtreeFacts
<1>2. \A c \in Kids(n) : /\ c \in Subtree(c) /\ Closed(Subtree(c))
                         /\ Subtree(c) \subseteq DOMAIN tree
  BY <1>1, SubtreeFacts
<1>3. Below(n) \subseteq Subtree(n)
  <2> SUFFICES ASSUME NEW c \in Kids(n) PROVE Subtree(c) \subseteq Subtree(n)
    BY DEF Below
  <2>1. c \in Subtree(n)
    BY <1>1 DEF Closed
  <2> QED BY <1>1, <2>1, SubtreeFacts
<1>4. Subtree(n) \subseteq {n} \cup Below(n)
  <2> DEFINE S == {n} \cup Below(n)
  <2>1. S \in SUBSET DOMAIN tree
    BY <1>2 DEF Below
  <2>2. Kids(n) \subseteq Below(n)
    BY <1>2 DEF Below
  <2>3. \A m \in Below(n) : Kids(m) \subseteq Below(n)
    BY <1>2 DEF Below, Closed
  <2>4. Closed(S)
    BY <2>2, <2>3 DEF Closed
  <2> QED BY <2>1, <2>4, SubtreeFacts
<1> QED BY <1>1, <1>3, <1>4

-----------------------------------------------------------------------------
Exited == ToSet(found) \cup filtered

(* Wanted, before NonEmpty drops nodes.                                     *)
Passes(n) ==
  /\ job.what = "terminals" => tree[n].terminal
  /\ job.what = "of_name" => tree[n].name = job.arg
  /\ job.what = "nonterminals_of_name" => ~tree[n].terminal /\ tree[n].name = job.arg
  /\ job.what = "of_type" => tree[n].type = job.arg
  /\ job.what \in {"below", "nonempty_below"} => \A m \in Subtree(n) : tree[m].type # job.arg
  /\ job.what = "below_incl" => Clear(n, job.arg)
  /\ job.what \in {"label", "label_incl"} => HasLabel(n)
  /\ job.what \in {"label_incl", "label_info"} => Clear(n, job.type)

(* The active calls of Walk: each node is the child its caller has come to, *)
(* and the children before that have been left.                             *)
Stack ==
  /\ frames \in Seq([node : DOMAIN tree, walked : Nat])
  /\ frames # << >> => frames[1].node = job.root
  /\ \A i \in 1 .. Len(frames) :
       /\ frames[i].node \in Subtree(job.root)
       /\ frames[i].walked <= Len(tree[frames[i].node].kids)
       /\ \A j \in 1 .. Len(tree[frames[i].node].kids) :
            j < frames[i].walked \/ (i = Len(frames) /\ j = frames[i].walked)
              => tree[frames[i].node].kids[j] \in Exited
       /\ i < Len(frames) => /\ frames[i].walked >= 1
                             /\ tree[frames[i].node].kids[frames[i].walked] = frames[i + 1].node

(* With a node, its subtree has been left; at the end, everything.          *)
Left ==
  /\ found \in Seq(DOMAIN tree) /\ filtered \subseteq DOMAIN tree
  /\ Exited \subseteq Subtree(job.root) /\ Closed(Exited)
  /\ frames = << >> => job.root \in Exited

(* What has been decided and remembered of the nodes that have been left.   *)
Remembered ==
  /\ \A n \in ToSet(found) : Passes(n)
  /\ \A n \in filtered : ~Passes(n)
  /\ job.what \in {"label", "label_incl"} => holding = ToSet(found)
  /\ job.what \in {"label_incl", "label_info"} =>
       /\ beyond \subseteq Exited
       /\ \A n \in Exited : n \in beyond <=> ~Clear(n, job.type)

Labelled ==
  job.what = "label_info" =>
    /\ \A n \in DOMAIN info : n \in ToSet(found) /\ info[n] = LabelsBelow(n) /\ info[n] # {}
    /\ \A n \in ToSet(found) : LabelsBelow(n) # {} => n \in DOMAIN info

JobOK == job.what \in What /\ job.root \in DOMAIN tree

WalkInv == job # NoJob => JobOK /\ Stack /\ Left /\ Remembered /\ Labelled

-----------------------------------------------------------------------------
(* When the children of a node have been left, the filter decides about the *)
(* node by what it remembers of them.                                       *)
LEMMA OutOfBoundExact ==
  ASSUME TreeInv, JobOK, Remembered, NEW n \in DOMAIN tree, Kids(n) \subseteq Exited,
         job.what \in {"label_incl", "label_info"}
  PROVE  OutOfBound(n) <=> ~Clear(n, job.type)
<1>1. \A c \in Kids(n) : c \in beyond <=> ~Clear(c, job.type)
  BY DEF Remembered
<1>2. \A c \in Kids(n) : c \in DOMAIN tree /\ Subtree(c) = {c} \cup Below(c)
  BY SubtreeFacts, SubtreeSplits
<1>3. Clear(n, job.type) <=> \A c \in Kids(n) : tree[c].type # job.type /\ Clear(c, job.type)
  BY <1>2 DEF Clear, Below
<1> QED BY <1>1, <1>3 DEF OutOfBound, HasKidOf

LEMMA HoldsExact ==
  ASSUME TreeInv, JobOK, Remembered, NEW n \in DOMAIN tree, Kids(n) \subseteq Exited,
         job.what = "label" \/ (job.what = "label_incl" /\ Clear(n, job.type))
  PROVE  HoldsLabel(n) <=> HasLabel(n)
<1>1. \A c \in Kids(n) : c \in DOMAIN tree /\ Subtree(c) = {c} \cup Below(c)
  BY SubtreeFacts, SubtreeSplits
<1>2. Subtree(n) = {n} \cup Below(n)
  BY SubtreeSplits
<1>3. HasLabel(n) <=> tree[n].label = job.arg \/ \E c \in Kids(n) : HasLabel(c)
  BY <1>2 DEF HasLabel, Below
<1>4. job.what = "label_incl" => \A c \in Kids(n) : Clear(c, job.type)
  BY <1>1 DEF Clear, Below
<1>5. \A c \in Kids(n) : Passes(c) <=> HasLabel(c)
  BY <1>4 DEF Passes, Plain
<1>6. \A c \in Kids(n) : c \in holding <=> HasLabel(c)
  BY <1>5 DEF Remembered, Exited
<1> QED BY <1>3, <1>6 DEF HoldsLabel

LEMMA FilterExact ==
  ASSUME TreeInv, JobOK, Remembered, NEW n \in DOMAIN tree, Kids(n) \subseteq Exited
  PROVE  /\ KeptBy(n) <=> Passes(n)
         /\ job.what \in Labelling => (FilteredOut(n) <=> ~Passes(n))
<1>1. \A c \in Kids(n) : c \in DOMAIN tree /\ Subtree(c) = {c} \cup Below(c)
  BY SubtreeFacts, SubtreeSplits
<1>2. Subtree(n) = {n} \cup Below(n)
  BY SubtreeSplits
<1>3. \A c \in Kids(n) : c \in filtered <=> ~Passes(c)
  BY DEF Remembered, Exited
<1>4. CASE job.what \in Plain
  <2>1. \A c \in Kids(n) : c \notin filtered
    BY <1>3, <1>4 DEF Passes, Plain
  <2> QED BY <1>4, <2>1 DEF KeptBy, FilteredOut, Passes, Labelling, Plain
<1>5. CASE job.what \in Selecting
  BY <1>5 DEF Selecting, KeptBy, CheckChildren, Bounded, FilteredOut, Passes, Labelling, Plain
<1>6. CASE job.what \in {"below", "nonempty_below"}
  <2>1. \A x : Passes(x) <=> \A m \in Subtree(x) : tree[m].type # job.arg
    BY <1>6 DEF Passes, Plain
  <2>2. FilteredOut(n) <=> tree[n].type = job.arg
    BY <1>6 DEF FilteredOut, Plain
  <2>3. Passes(n) <=> tree[n].type # job.arg /\ \A c \in Kids(n) : Passes(c)
    BY <1>2, <2>1 DEF Below
  <2> QED BY <1>3, <1>6, <2>2, <2>3 DEF KeptBy, CheckChildren, Bounded, Labelling
<1>7. CASE job.what = "below_incl"
  <2>1. \A x : Passes(x) <=> Clear(x, job.arg)
    BY <1>7 DEF Passes, Plain
  <2>2. FilteredOut(n) <=> HasKidOf(n, job.arg)
    BY <1>7 DEF FilteredOut, Plain
  <2>3. Passes(n) <=> ~HasKidOf(n, job.arg) /\ \A c \in Kids(n) : Passes(c)
    BY <1>1, <2>1 DEF Below, Clear, HasKidOf
  <2> QED BY <1>3, <1>7, <2>2, <2>3 DEF KeptBy, CheckChildren, Bounded, Labelling
<1>8. CASE job.what \in Labelling
  <2>1. FilteredOut(n) <=> ~Passes(n)
    <3>1. CASE job.what = "label"
      <4>1. (FilteredOut(n) <=> ~HoldsLabel(n)) /\ (Passes(n) <=> HasLabel(n))
        BY <3>1 DEF FilteredOut, Passes, Plain
      <4> QED BY <3>1, <4>1, HoldsExact
    <3>2. CASE job.what = "label_incl"
      <4>1. /\ FilteredOut(n) <=> (~HoldsLabel(n) \/ OutOfBound(n))
            /\ Passes(n) <=> (HasLabel(n) /\ Clear(n, job.type))
        BY <3>2 DEF FilteredOut, Passes, Plain
      <4>2. OutOfBound(n) <=> ~Clear(n, job.type)
        BY <3>2, OutOfBoundExact
      <4>3. Clear(n, job.type) => (HoldsLabel(n) <=> HasLabel(n))
        BY <3>2, HoldsExact
      <4> QED BY <4>1, <4>2, <4>3
    <3>3. CASE job.what = "label_info"
      <4>1. (FilteredOut(n) <=> OutOfBound(n)) /\ (Passes(n) <=> Clear(n, job.type))
        BY <3>3 DEF FilteredOut, Passes, Plain
      <4> QED BY <3>3, <4>1, OutOfBoundExact
    <3> QED BY <1>8, <3>1, <3>2, <3>3 DEF Labelling
  <2>2. ~CheckChildren
    BY <1>8 DEF CheckChildren, Labelling, Bounded
  <2> QED BY <2>1, <2>2 DEF KeptBy
<1> QED BY <1>4, <1>5, <1>6, <1>7, <1>8 DEF JobOK, What, Bounded

-----------------------------------------------------------------------------
LEMMA SameTree ==
  ASSUME tree' = tree, job' = job, NEW x
  PROVE  /\ Subtree(x)' = Subtree(x) /\ Below(x)' = Below(x) /\ Kids(x)' = Kids(x)
         /\ Passes(x)' = Passes(x) /\ Clear(x, job.type)' = Clear(x, job.type)
         /\ LabelsBelow(x)' = LabelsBelow(x)
BY DEF Subtree, Closed, Kids, Below, Passes, Clear, HasLabel, LabelsBelow

LEMMA TopFacts ==
  ASSUME TreeInv, Stack, frames # << >>
  PROVE  /\ Len(frames) \in Nat /\ Len(frames) >= 1 /\ Len(frames) \in 1 .. Len(frames)
         /\ Frame = frames[Len(frames)]
         /\ Frame.node \in DOMAIN tree /\ Frame.walked \in Nat
         /\ Frame = [node |-> Frame.node, walked |-> Frame.walked]
         /\ tree[Frame.node].kids \in Seq(DOMAIN tree)
         /\ Len(tree[Frame.node].kids) \in Nat
<1>1. PICK k \in Nat : k = Len(frames) /\ k >= 1
  BY DEF Stack
<1>2. Frame = frames[k] /\ k \in 1 .. k
  BY <1>1 DEF Frame, Last
<1>3. Frame \in [node : DOMAIN tree, walked : Nat]
  <2> DEFINE R == [node : DOMAIN tree, walked : Nat]
  <2>1. PICK s \in Seq(R) : s = frames
    BY DEF Stack
  <2> HIDE DEF R
  <2>2. s[k] \in R
    BY <1>1, <1>2, <2>1
  <2> QED BY <1>2, <2>1, <2>2 DEF R
<1>4. tree[Frame.node].kids \in Seq(DOMAIN tree)
  BY <1>3 DEF TreeInv
<1> QED BY <1>1, <1>2, <1>3, <1>4

(* What the stack is when a child has been entered.                         *)
LEMMA EnteredFrames ==
  ASSUME TreeInv, Stack, EnterIR
  PROVE  LET n == Frame.node
             w == Frame.walked
             kids == tree[n].kids
             L == Len(frames)
         IN /\ n \in DOMAIN tree /\ w \in Nat /\ L \in Nat /\ L >= 1 /\ frames[L] = Frame
            /\ kids \in Seq(DOMAIN tree) /\ Len(kids) \in Nat /\ w + 1 \in 1 .. Len(kids)
            /\ kids[w + 1] \in DOMAIN tree /\ kids[w + 1] \in Kids(n)
            /\ frames' \in Seq([node : DOMAIN tree, walked : Nat]) /\ Len(frames') = L + 1
            /\ frames'[L + 1].node = kids[w + 1] /\ frames'[L + 1].walked = 0
            /\ frames'[L].node = n /\ frames'[L].walked = w + 1
            /\ \A i \in 1 .. L : i # L => frames'[i] = frames[i]
<1> DEFINE n == Frame.node
           w == Frame.walked
           kids == tree[n].kids
           c == kids[w + 1]
           L == Len(frames)
           g == [frames EXCEPT ![L].walked = @ + 1]
<1>1. frames # << >>
  BY DEF EnterIR, Walking
<1>2. /\ n \in DOMAIN tree /\ w \in Nat /\ L \in Nat /\ L >= 1 /\ L \in 1 .. L
      /\ kids \in Seq(DOMAIN tree) /\ Len(kids) \in Nat /\ w < Len(kids)
      /\ frames[L] = [node |-> n, walked |-> w] /\ frames[L] = Frame
  BY <1>1, TopFacts DEF EnterIR
<1>3. frames' = Append(g, [node |-> c, walked |-> 0])
  BY <1>2 DEF EnterIR
<1>4. w + 1 \in 1 .. Len(kids) /\ c \in DOMAIN tree /\ c \in Kids(n)
  <2>1. w + 1 \in 1 .. Len(kids)
    BY <1>2
  <2>2. PICK s \in Seq(DOMAIN tree) : s = kids
    BY <1>2
  <2>3. s[w + 1] \in DOMAIN tree /\ w + 1 \in DOMAIN s
    BY <2>1, <2>2
  <2> QED BY <2>1, <2>2, <2>3 DEF Kids, ToSet
<1>5. /\ g \in Seq([node : DOMAIN tree, walked : Nat]) /\ Len(g) = L
      /\ g[L].node = n /\ g[L].walked = w + 1
      /\ \A i \in 1 .. L : i # L => g[i] = frames[i]
  <2> DEFINE top == [node |-> n, walked |-> w + 1]
  <2>1. g = [frames EXCEPT ![L] = top]
    <3>1. [frames[L] EXCEPT !.walked = frames[L].walked + 1] = top
      BY <1>2
    <3>2. g = [frames EXCEPT ![L] = [frames[L] EXCEPT !.walked = frames[L].walked + 1]]
      OBVIOUS
    <3> HIDE DEF g, top
    <3> QED BY <3>1, <3>2
  <2>2. top \in [node : DOMAIN tree, walked : Nat] /\ top.node = n /\ top.walked = w + 1
    BY <1>2
  <2> HIDE DEF top, g
  <2>3. frames \in Seq([node : DOMAIN tree, walked : Nat])
    BY DEF Stack
  <2> QED BY <1>2, <2>1, <2>2, <2>3
<1> HIDE DEF n, w, kids, c, g
<1>6. /\ frames' \in Seq([node : DOMAIN tree, walked : Nat]) /\ Len(frames') = L + 1
      /\ frames'[L + 1].node = c /\ frames'[L + 1].walked = 0
      /\ \A i \in 1 .. L : frames'[i] = g[i]
  <2> DEFINE r == [node |-> c, walked |-> 0]
  <2>1. r \in [node : DOMAIN tree, walked : Nat] /\ r.node = c /\ r.walked = 0
    BY <1>4
  <2>2. frames' = Append(g, r)
    BY <1>3
  <2> HIDE DEF r
  <2> QED BY <1>2, <1>5, <2>1, <2>2
<1> QED BY <1>2, <1>4, <1>5, <1>6 DEF n, w, kids, c

(* A child is entered.                                                      *)
LEMMA Entering ==
  ASSUME TreeInv, JobOK, Stack, Left, EnterIR
  PROVE  Stack' /\ Left'
<1> DEFINE n == Frame.node
           w == Frame.walked
           kids == tree[n].kids
           c == kids[w + 1]
           L == Len(frames)
<1>1. /\ tree' = tree /\ job' = job /\ found' = found /\ filtered' = filtered
      /\ frames # << >>
  BY DEF EnterIR, Walking
<1>2. /\ n \in DOMAIN tree /\ w \in Nat /\ L \in Nat /\ L >= 1 /\ L \in 1 .. L
      /\ kids \in Seq(DOMAIN tree) /\ Len(kids) \in Nat /\ w + 1 \in 1 .. Len(kids)
      /\ frames[L].node = n /\ frames[L].walked = w /\ c \in DOMAIN tree /\ c \in Kids(n)
  BY EnteredFrames
<1>3. /\ frames' \in Seq([node : DOMAIN tree, walked : Nat]) /\ Len(frames') = L + 1
      /\ frames'[L + 1].node = c /\ frames'[L + 1].walked = 0
      /\ frames'[L].node = n /\ frames'[L].walked = w + 1
      /\ \A i \in 1 .. L : i # L => frames'[i] = frames[i]
  BY EnteredFrames
<1> HIDE DEF n, w, kids, c
<1>4. n \in Subtree(job.root) /\ Closed(Subtree(job.root))
  BY <1>2, SubtreeFacts DEF Stack, JobOK
<1>5. c \in Subtree(job.root)
  BY <1>2, <1>4 DEF Closed
<1>6. ASSUME NEW i \in 1 .. L
      PROVE  /\ frames'[i].node = frames[i].node /\ frames[i].node \in Subtree(job.root)
             /\ frames'[i].walked <= Len(tree[frames[i].node].kids)
             /\ \A j \in 1 .. Len(tree[frames[i].node].kids) :
                  j < frames'[i].walked => tree[frames[i].node].kids[j] \in Exited
             /\ frames'[i].walked >= 1
             /\ tree[frames[i].node].kids[frames'[i].walked] = frames'[i + 1].node
  <2>1. CASE i = L
    <3>1. frames'[i].node = n /\ frames'[i].walked = w + 1 /\ frames[i].node = n
      BY <1>2, <1>3, <2>1
    <3>2. \A j \in 1 .. Len(kids) : j < w \/ j = w => kids[j] \in Exited
      BY <1>2, <2>1 DEF Stack, kids
    <3> QED BY <1>2, <1>3, <1>4, <2>1, <3>1, <3>2 DEF kids, c
  <2>2. CASE i # L
    <3>1. frames'[i] = frames[i] /\ i + 1 \in 1 .. L /\ i < L
      BY <1>2, <1>3, <2>2
    <3>2. frames'[i + 1].node = frames[i + 1].node
      BY <1>2, <1>3, <3>1
    <3> QED BY <3>1, <3>2 DEF Stack
  <2> QED BY <2>1, <2>2
<1>7. frames'[1].node = job.root
  BY <1>1, <1>2, <1>6 DEF Stack
<1>8. Exited' = Exited /\ Subtree(job.root)' = Subtree(job.root)
  BY <1>1, SameTree DEF Exited
<1>9. Stack'
  <2>1. ASSUME NEW i \in 1 .. L + 1
        PROVE  /\ frames'[i].node \in Subtree(job.root)
               /\ frames'[i].walked <= Len(tree[frames'[i].node].kids)
               /\ \A j \in 1 .. Len(tree[frames'[i].node].kids) :
                    j < frames'[i].walked \/ (i = L + 1 /\ j = frames'[i].walked)
                      => tree[frames'[i].node].kids[j] \in Exited
               /\ i < L + 1 => /\ frames'[i].walked >= 1
                               /\ tree[frames'[i].node].kids[frames'[i].walked] = frames'[i + 1].node
    <3>1. CASE i = L + 1
      <4>1. PICK s \in Seq(DOMAIN tree) : s = tree[c].kids
        BY <1>2 DEF TreeInv
      <4> QED BY <1>2, <1>5, <1>3, <3>1, <4>1
    <3>2. CASE i # L + 1
      <4>1. i \in 1 .. L /\ i < L + 1
        BY <1>2, <3>2
      <4> QED BY <1>6, <3>2, <4>1
    <3> QED BY <3>1, <3>2
  <2> QED BY <1>1, <1>3, <1>7, <1>8, <2>1 DEF Stack
<1>10. frames' # << >>
  BY <1>2, <1>3
<1>11. Left'
  BY <1>1, <1>8, <1>10 DEF Left, Closed, Kids
<1> QED BY <1>9, <1>11

(* When a node is left, its children have been.                             *)
LEMMA KidsHaveLeft ==
  ASSUME TreeInv, JobOK, Stack, ExitIR
  PROVE  /\ Frame.node \in DOMAIN tree /\ Kids(Frame.node) \subseteq Exited
         /\ Frame.node \in Subtree(job.root)
<1> DEFINE n == Frame.node
           kids == tree[n].kids
<1>1. /\ n \in DOMAIN tree /\ Len(frames) \in 1 .. Len(frames) /\ Frame = frames[Len(frames)]
      /\ kids \in Seq(DOMAIN tree) /\ Frame.walked = Len(kids) /\ Len(kids) \in Nat
  BY TopFacts DEF ExitIR, Walking
<1>2. /\ \A j \in 1 .. Len(kids) : j < Frame.walked \/ j = Frame.walked => kids[j] \in Exited
      /\ n \in Subtree(job.root)
  BY <1>1 DEF Stack
<1>3. \A j \in 1 .. Len(kids) : kids[j] \in Exited
  BY <1>1, <1>2
<1>4. DOMAIN kids = 1 .. Len(kids)
  <2>1. PICK s \in Seq(DOMAIN tree) : s = kids
    BY <1>1
  <2> QED BY <2>1
<1> QED BY <1>1, <1>2, <1>3, <1>4 DEF Kids, ToSet

LEMMA AppendToSet ==
  ASSUME NEW S, NEW s \in Seq(S), NEW e \in S
  PROVE  Append(s, e) \in Seq(S) /\ ToSet(Append(s, e)) = ToSet(s) \cup {e}
<1>1. PICK k \in Nat : k = Len(s)
  OBVIOUS
<1> DEFINE t == Append(s, e)
<1>2. /\ t \in Seq(S) /\ DOMAIN t = 1 .. k + 1 /\ DOMAIN s = 1 .. k
      /\ t[k + 1] = e /\ \A i \in 1 .. k : t[i] = s[i]
  BY <1>1
<1> HIDE DEF t
<1>3. \A i \in 1 .. k + 1 : i = k + 1 \/ i \in 1 .. k
  OBVIOUS
<1>4. k + 1 \in 1 .. k + 1 /\ \A i \in 1 .. k : i \in 1 .. k + 1
  OBVIOUS
<1>5. ToSet(t) = ToSet(s) \cup {e}
  BY <1>2, <1>3, <1>4 DEF ToSet
<1> QED BY <1>2, <1>5 DEF t

(* What the filter has decided is added to what has been left.              *)
LEMMA Decided ==
  ASSUME TreeInv, JobOK, Stack, Left, Remembered, ExitIR
  PROVE  LET n == Frame.node IN
         /\ found' \in Seq(DOMAIN tree) /\ filtered' \subseteq DOMAIN tree
         /\ Passes(n) => ToSet(found') = ToSet(found) \cup {n} /\ filtered' = filtered
         /\ ~Passes(n) => ToSet(found') = ToSet(found) /\ filtered' = filtered \cup {n}
         /\ Exited' = Exited \cup {n}
<1> DEFINE n == Frame.node
<1>1. n \in DOMAIN tree /\ Kids(n) \subseteq Exited
  BY KidsHaveLeft
<1>2. KeptBy(n) <=> Passes(n)
  BY <1>1, FilterExact
<1>3. found \in Seq(DOMAIN tree) /\ filtered \subseteq DOMAIN tree
  BY DEF Left
<1>4. CASE Passes(n)
  <2>1. found' = Append(found, n) /\ filtered' = filtered
    BY <1>2, <1>4 DEF ExitIR
  <2> QED BY <1>1, <1>3, <1>4, <2>1, AppendToSet DEF Exited
<1>5. CASE ~Passes(n)
  <2>1. found' = found /\ filtered' = filtered \cup {n}
    BY <1>2, <1>5 DEF ExitIR
  <2> QED BY <1>1, <1>3, <1>5, <2>1 DEF Exited
<1> QED BY <1>4, <1>5

LEMMA Leaving ==
  ASSUME TreeInv, JobOK, Stack, Left, Remembered, ExitIR
  PROVE  Stack' /\ Left'
<1> DEFINE n == Frame.node
           L == Len(frames)
<1>1. tree' = tree /\ job' = job /\ frames' = Front(frames) /\ frames # << >>
  BY DEF ExitIR, Walking
<1>2. /\ L \in Nat /\ L >= 1 /\ Frame = frames[L]
      /\ n \in DOMAIN tree /\ Kids(n) \subseteq Exited /\ n \in Subtree(job.root)
  BY <1>1, TopFacts, KidsHaveLeft
<1>3. /\ found' \in Seq(DOMAIN tree) /\ filtered' \subseteq DOMAIN tree
      /\ Exited' = Exited \cup {n}
  BY Decided
<1>4. Subtree(job.root)' = Subtree(job.root)
  BY <1>1, SameTree
<1>5. /\ frames' \in Seq([node : DOMAIN tree, walked : Nat]) /\ Len(frames') = L - 1
      /\ \A i \in 1 .. L - 1 : frames'[i] = frames[i]
  <2> DEFINE R == [node : DOMAIN tree, walked : Nat]
  <2>1. frames \in Seq(R)
    BY DEF Stack
  <2> HIDE DEF R
  <2>2. /\ Front(frames) \in Seq(R) /\ Len(Front(frames)) = L - 1
        /\ \A i \in 1 .. L - 1 : Front(frames)[i] = frames[i]
    BY <1>1, <2>1, FrontFacts
  <2> QED BY <1>1, <2>2 DEF R
<1>6. frames' # << >> => frames'[1].node = job.root
  <2>1. frames' # << >> => 1 \in 1 .. L - 1
    BY <1>2, <1>5
  <2> QED BY <1>1, <1>5, <2>1 DEF Stack
<1>7. ASSUME NEW i \in 1 .. L - 1
      PROVE  /\ frames[i].node \in Subtree(job.root)
             /\ frames[i].walked <= Len(tree[frames[i].node].kids)
             /\ \A j \in 1 .. Len(tree[frames[i].node].kids) :
                  j < frames[i].walked \/ (i = L - 1 /\ j = frames[i].walked)
                    => tree[frames[i].node].kids[j] \in Exited \cup {n}
             /\ i < L - 1 => /\ frames[i].walked >= 1
                             /\ tree[frames[i].node].kids[frames[i].walked] = frames[i + 1].node
  <2>1. i \in 1 .. L /\ i < L
    BY <1>2
  <2>2. i = L - 1 => tree[frames[i].node].kids[frames[i].walked] = n
    <3>1. i = L - 1 => i + 1 = L
      BY <1>2
    <3> QED BY <1>2, <2>1, <3>1 DEF Stack
  <2> QED BY <2>1, <2>2 DEF Stack
<1>8. Stack'
  <2>1. \A i \in 1 .. L - 1 : i < L - 1 => i + 1 \in 1 .. L - 1
    BY <1>2
  <2>2. ASSUME NEW i \in 1 .. L - 1
        PROVE  /\ frames'[i].node \in Subtree(job.root)
               /\ frames'[i].walked <= Len(tree[frames'[i].node].kids)
               /\ \A j \in 1 .. Len(tree[frames'[i].node].kids) :
                    j < frames'[i].walked \/ (i = L - 1 /\ j = frames'[i].walked)
                      => tree[frames'[i].node].kids[j] \in Exited \cup {n}
               /\ i < L - 1 => /\ frames'[i].walked >= 1
                               /\ tree[frames'[i].node].kids[frames'[i].walked] = frames'[i + 1].node
    BY <1>5, <1>7, <2>1
  <2> HIDE DEF n, L
  <2> QED BY <1>1, <1>3, <1>4, <1>5, <1>6, <2>2 DEF Stack
<1>9. frames' = << >> => job.root = n
  <2>1. frames' = << >> => L = 1
    BY <1>2, <1>5
  <2> QED BY <1>1, <1>2, <2>1 DEF Stack
<1>10. \A x : Kids(x)' = Kids(x)
  BY <1>1, SameTree
<1>11. Left'
  <2>1. Closed(Exited \cup {n})
    BY <1>2 DEF Left, Closed
  <2>2. Exited \cup {n} \subseteq Subtree(job.root)
    BY <1>2 DEF Left
  <2>3. frames' = << >> => job.root \in Exited'
    BY <1>3, <1>9
  <2> HIDE DEF n
  <2> QED BY <1>1, <1>3, <1>4, <2>1, <2>2, <2>3 DEF Left, Closed, Kids
<1> QED BY <1>8, <1>11

(* It remembers the right things of the node that is left.                  *)
LEMMA Remembering ==
  ASSUME TreeInv, JobOK, Stack, Left, Remembered, ExitIR
  PROVE  Remembered'
<1> DEFINE n == Frame.node
<1>1. tree' = tree /\ job' = job
  BY DEF ExitIR
<1>2. n \in DOMAIN tree /\ Kids(n) \subseteq Exited
  BY KidsHaveLeft
<1>3. /\ Passes(n) => ToSet(found') = ToSet(found) \cup {n} /\ filtered' = filtered
      /\ ~Passes(n) => ToSet(found') = ToSet(found) /\ filtered' = filtered \cup {n}
      /\ Exited' = Exited \cup {n}
  BY Decided
<1>4. /\ (\A x \in ToSet(found') : Passes(x)) /\ \A x \in filtered' : ~Passes(x)
  BY <1>3 DEF Remembered
<1>5. job.what \in {"label", "label_incl"} => holding' = ToSet(found')
  <2> SUFFICES ASSUME job.what \in {"label", "label_incl"} PROVE holding' = ToSet(found')
    OBVIOUS
  <2>1. FilteredOut(n) <=> ~Passes(n)
    BY <1>2, FilterExact DEF Labelling
  <2>2. holding' = IF ~FilteredOut(n) THEN holding \cup {n} ELSE holding
    BY DEF ExitIR
  <2> HIDE DEF n
  <2> QED BY <1>3, <2>1, <2>2 DEF Remembered
<1>6. job.what \in {"label_incl", "label_info"} =>
        /\ beyond' \subseteq Exited \cup {n}
        /\ \A x \in Exited \cup {n} : x \in beyond' <=> ~Clear(x, job.type)
  <2> SUFFICES ASSUME job.what \in {"label_incl", "label_info"}
               PROVE  /\ beyond' \subseteq Exited \cup {n}
                      /\ \A x \in Exited \cup {n} : x \in beyond' <=> ~Clear(x, job.type)
    OBVIOUS
  <2>1. OutOfBound(n) <=> ~Clear(n, job.type)
    BY <1>2, OutOfBoundExact
  <2>2. beyond' = IF OutOfBound(n) THEN beyond \cup {n} ELSE beyond
    BY DEF ExitIR
  <2>3. beyond \subseteq Exited /\ \A x \in Exited : x \in beyond <=> ~Clear(x, job.type)
    BY DEF Remembered
  <2> HIDE DEF n
  <2> QED BY <2>1, <2>2, <2>3
<1>7. \A x : Passes(x)' = Passes(x) /\ Clear(x, job.type)' = Clear(x, job.type)
  BY <1>1, SameTree
<1> HIDE DEF n
<1> QED BY <1>1, <1>3, <1>4, <1>5, <1>6, <1>7 DEF Remembered

(* The labels of a node that is left are its own and those of its children, *)
(* which have all been kept if it is.                                       *)
LEMMA LabelsExact ==
  ASSUME TreeInv, JobOK, Remembered, Labelled, job.what = "label_info",
         NEW n \in DOMAIN tree, Kids(n) \subseteq Exited, Passes(n)
  PROVE  LabelsAt(n) = LabelsBelow(n)
<1>1. \A c \in Kids(n) : c \in DOMAIN tree /\ Subtree(c) = {c} \cup Below(c)
  BY SubtreeFacts, SubtreeSplits
<1>2. Subtree(n) = {n} \cup Below(n)
  BY SubtreeSplits
<1>3. \A x : Passes(x) <=> Clear(x, job.type)
  BY DEF Passes
<1>4. \A c \in Kids(n) : Passes(c)
  BY <1>1, <1>3 DEF Clear, Below
<1>5. \A c \in Kids(n) : c \in ToSet(found)
  BY <1>4 DEF Remembered, Exited
<1>6. /\ \A c \in Kids(n) \cap DOMAIN info : info[c] = LabelsBelow(c)
      /\ \A c \in Kids(n) : c \notin DOMAIN info => LabelsBelow(c) = {}
  BY <1>5 DEF Labelled
<1>7. UNION {info[c] : c \in Kids(n) \cap DOMAIN info} = UNION {LabelsBelow(c) : c \in Kids(n)}
  BY <1>6
<1>8. LabelsBelow(n) = ({tree[n].label} \ {""}) \cup UNION {LabelsBelow(c) : c \in Kids(n)}
  <2>1. \A y, l : l \in LabelsBelow(y) <=> l # "" /\ \E m \in Subtree(y) : l = tree[m].label
    BY DEF LabelsBelow
  <2>2. \A l : (\E m \in Subtree(n) : l = tree[m].label)
               <=> l = tree[n].label \/ \E c \in Kids(n) : \E m \in Subtree(c) : l = tree[m].label
    BY <1>2 DEF Below
  <2>3. \A l : l \in LabelsBelow(n)
               <=> l \in {tree[n].label} \ {""} \/ \E c \in Kids(n) : l \in LabelsBelow(c)
    <3> TAKE l
    <3>1. CASE l = ""
      BY <2>1, <3>1
    <3>2. CASE l # ""
      <4>1. \A y : l \in LabelsBelow(y) <=> \E m \in Subtree(y) : l = tree[m].label
        BY <2>1, <3>2
      <4>2. l \in {tree[n].label} \ {""} <=> l = tree[n].label
        BY <3>2
      <4> QED BY <2>2, <4>1, <4>2
    <3> QED BY <3>1, <3>2
  <2> QED BY <2>3
<1> QED BY <1>7, <1>8 DEF LabelsAt

LEMMA LabelKeeping ==
  ASSUME TreeInv, JobOK, Stack, Left, Remembered, Labelled, ExitIR
  PROVE  Labelled'
<1> SUFFICES ASSUME job.what = "label_info" PROVE Labelled'
  BY DEF Labelled, ExitIR
<1> DEFINE n == Frame.node
<1>1. tree' = tree /\ job' = job
  BY DEF ExitIR
<1>2. n \in DOMAIN tree /\ Kids(n) \subseteq Exited
  BY KidsHaveLeft
<1>3. FilteredOut(n) <=> ~Passes(n)
  BY <1>2, FilterExact DEF Labelling
<1>4. info' = IF ~FilteredOut(n) /\ LabelsAt(n) # {} THEN Put(info, n, LabelsAt(n)) ELSE info
  BY DEF ExitIR
<1>5. /\ Passes(n) => ToSet(found') = ToSet(found) \cup {n}
      /\ ~Passes(n) => ToSet(found') = ToSet(found)
  BY Decided
<1>6. /\ \A x \in DOMAIN info : x \in ToSet(found) /\ info[x] = LabelsBelow(x) /\ info[x] # {}
      /\ \A x \in ToSet(found) : LabelsBelow(x) # {} => x \in DOMAIN info
  BY DEF Labelled
<1>7. \A x : LabelsBelow(x)' = LabelsBelow(x)
  BY <1>1, SameTree
<1>8. Passes(n) => LabelsAt(n) = LabelsBelow(n)
  BY <1>2, LabelsExact
<1> HIDE DEF n
<1>9. /\ \A x \in DOMAIN info' : x \in ToSet(found') /\ info'[x] = LabelsBelow(x) /\ info'[x] # {}
      /\ \A x \in ToSet(found') : LabelsBelow(x) # {} => x \in DOMAIN info'
  <2>1. CASE Passes(n) /\ LabelsAt(n) # {}
    <3>1. info' = Put(info, n, LabelsBelow(n)) /\ LabelsBelow(n) # {}
      BY <1>3, <1>4, <1>8, <2>1
    <3>2. /\ DOMAIN info' = DOMAIN info \cup {n} /\ info'[n] = LabelsBelow(n)
          /\ \A x \in DOMAIN info : x # n => info'[x] = info[x]
      BY <3>1 DEF Put
    <3> QED BY <1>5, <1>6, <2>1, <3>1, <3>2
  <2>2. CASE ~(Passes(n) /\ LabelsAt(n) # {})
    <3>1. info' = info
      BY <1>3, <1>4, <2>2
    <3> QED BY <1>5, <1>6, <1>8, <2>2, <3>1
  <2> QED BY <2>1, <2>2
<1> QED BY <1>1, <1>7, <1>9 DEF Labelled

-----------------------------------------------------------------------------
LEMMA WalkRests ==
  ASSUME WalkInv, tree' = tree, UNCHANGED walkVars
  PROVE  WalkInv'
<1>1. /\ job' = job /\ frames' = frames /\ found' = found /\ filtered' = filtered
      /\ holding' = holding /\ beyond' = beyond /\ info' = info
  BY DEF walkVars
<1>2. /\ \A x : Passes(x)' = Passes(x) /\ Clear(x, job.type)' = Clear(x, job.type)
      /\ \A x : LabelsBelow(x)' = LabelsBelow(x) /\ Kids(x)' = Kids(x)
      /\ Subtree(job.root)' = Subtree(job.root) /\ Exited' = Exited
  BY <1>1, SameTree DEF Exited
<1>3. JobOK => JobOK'
  BY <1>1 DEF JobOK
<1>4. Stack => Stack'
  BY <1>1, <1>2 DEF Stack
<1>5. Left => Left'
  BY <1>1, <1>2 DEF Left, Closed, Kids
<1>6. Remembered => Remembered'
  BY <1>1, <1>2 DEF Remembered
<1>7. Labelled => Labelled'
  BY <1>1, <1>2 DEF Labelled
<1> QED BY <1>1, <1>3, <1>4, <1>5, <1>6, <1>7 DEF WalkInv

(* A child that is entered changes nothing that has been decided.           *)
LEMMA EnteringRemembers ==
  ASSUME Remembered, Labelled, EnterIR
  PROVE  Remembered' /\ Labelled'
<1>1. /\ tree' = tree /\ job' = job /\ found' = found /\ filtered' = filtered
      /\ holding' = holding /\ beyond' = beyond /\ info' = info
  BY DEF EnterIR
<1>2. /\ \A x : Passes(x)' = Passes(x) /\ Clear(x, job.type)' = Clear(x, job.type)
      /\ \A x : LabelsBelow(x)' = LabelsBelow(x)
      /\ Exited' = Exited
  BY <1>1, SameTree DEF Exited
<1> QED BY <1>1, <1>2 DEF Remembered, Labelled

LEMMA WalkStarts ==
  ASSUME TreeInv, NEW c \in Calls, NEW n \in DOMAIN tree, StartWalk(c, n), tree' = tree
  PROVE  WalkInv'
<1>1. /\ job' = [what |-> c.what, arg |-> c.arg, type |-> c.type, root |-> n]
      /\ frames' = <<[node |-> n, walked |-> 0]>>
      /\ found' = << >> /\ filtered' = {} /\ holding' = {} /\ beyond' = {} /\ info' = << >>
  BY DEF StartWalk, Listen
<1>2. JobOK'
  BY <1>1, CallsAssumption DEF JobOK
<1>3. Exited' = {} /\ ToSet(found)' = {}
  BY <1>1 DEF Exited, ToSet
<1>4. n \in Subtree(n)'
  BY SubtreeFacts DEF Subtree, Closed, Kids
<1>5. PICK s \in Seq(DOMAIN tree) : s = tree[n].kids
  BY DEF TreeInv
<1>6. Stack'
  <2> DEFINE r == [node |-> n, walked |-> 0]
  <2>1. r \in [node : DOMAIN tree, walked : Nat] /\ r.node = n /\ r.walked = 0
    OBVIOUS
  <2>2. frames' = <<r>>
    BY <1>1
  <2> HIDE DEF r
  <2>3. frames' \in Seq([node : DOMAIN tree, walked : Nat]) /\ Len(frames') = 1 /\ frames'[1] = r
    BY <2>1, <2>2
  <2>4. job'.root = n
    BY <1>1
  <2> QED BY <1>4, <1>5, <2>1, <2>3, <2>4 DEF Stack
<1>7. Left'
  BY <1>1, <1>3 DEF Left, Closed
<1>8. Remembered'
  BY <1>1, <1>3 DEF Remembered
<1>9. Labelled'
  BY <1>1, <1>3 DEF Labelled
<1> QED BY <1>2, <1>6, <1>7, <1>8, <1>9 DEF WalkInv

-----------------------------------------------------------------------------
Inv == TreeInv /\ FrontendInv /\ WalkInv

LEMMA InvHolds == Spec => []Inv
<1>1. Init => Inv
  <2> SUFFICES ASSUME Init PROVE Inv
    OBVIOUS
  <2>1. tree = << >> /\ counter = 0 /\ calls = << >> /\ at = 0 /\ job = NoJob
    BY DEF Init, FrontendInit, CollectInit
  <2> QED BY <2>1 DEF Inv, TreeInv, FrontendInv, WalkInv
<1>2. Inv /\ [Next]_vars => Inv'
  <2> SUFFICES ASSUME Inv, [Next]_vars PROVE Inv'
    OBVIOUS
  <2>1. CASE job = NoJob /\ FrontendNext /\ UNCHANGED walkVars
    <3>1. WalkInv'
      BY <2>1 DEF walkVars, WalkInv
    <3> QED BY <2>1, <3>1, FrontendKeeps DEF Inv
  <2>2. CASE tree' = tree /\ UNCHANGED frontendVars /\ UNCHANGED walkVars
    <3>1. TreeInv' /\ FrontendInv'
      BY <2>2 DEF Inv, TreeInv, FrontendInv, frontendVars
    <3> QED BY <2>2, <3>1, WalkRests DEF Inv
  <2>3. CASE Collect
    <3>1. TreeInv' /\ FrontendInv'
      BY <2>3 DEF Inv, TreeInv, FrontendInv, frontendVars, Collect
    <3>2. PICK c \in Calls, n \in DOMAIN tree : StartWalk(c, n) /\ tree' = tree
      BY <2>3 DEF Collect
    <3> QED BY <3>1, <3>2, WalkStarts DEF Inv
  <2>4. CASE TakeResult
    <3>1. TreeInv' /\ FrontendInv' /\ job' = NoJob
      BY <2>4 DEF Inv, TreeInv, FrontendInv, frontendVars, TakeResult, EndWalk, Listen
    <3> QED BY <3>1 DEF Inv, WalkInv
  <2>5. CASE CollectNext /\ UNCHANGED frontendVars
    <3>1. tree' = tree /\ job' = job /\ job # NoJob
      BY <2>5 DEF CollectNext, EnterIR, ExitIR, Walking
    <3>2. TreeInv' /\ FrontendInv' /\ JobOK' /\ JobOK
      BY <2>5, <3>1 DEF Inv, TreeInv, FrontendInv, frontendVars, JobOK, WalkInv
    <3>3. CASE EnterIR
      BY <3>1, <3>2, <3>3, Entering, EnteringRemembers DEF Inv, WalkInv
    <3>4. CASE ExitIR
      BY <3>1, <3>2, <3>4, Leaving, Remembering, LabelKeeping DEF Inv, WalkInv
    <3> QED BY <2>5, <3>3, <3>4 DEF CollectNext
  <2>6. CASE Query
    BY <2>2, <2>6 DEF Query
  <2>7. CASE QueryNext /\ UNCHANGED <<frontendVars, walkVars>>
    <3>1. tree' = tree
      BY <2>7 DEF QueryNext, Fixed, Dynamic, Parent, Child, LSib, RSib, ParentUntil, Property,
                  Close, SyntaxError, End, Sibling, MoveTo, Take, Abort
    <3> QED BY <2>2, <2>7, <3>1
  <2>8. CASE UNCHANGED vars
    BY <2>2, <2>8 DEF vars
  <2> QED BY <2>1, <2>3, <2>4, <2>5, <2>6, <2>7, <2>8 DEF Next
<1> QED BY <1>1, <1>2, PTL DEF Spec

(* Whatever tree the front end has returned, whichever function is called   *)
(* for whichever node: it collects exactly the nodes it is for.             *)
THEOREM CollectsAlways == Spec => []CollectsExactly
<1>1. Inv => CollectsExactly
  <2> SUFFICES ASSUME Inv, Finished PROVE Result = {n \in Subtree(job.root) : Wanted(n)}
    BY DEF CollectsExactly
  <2>1. JobOK /\ Left /\ Remembered /\ TreeInv /\ frames = << >>
    BY DEF Inv, WalkInv, Finished
  <2>2. Exited = Subtree(job.root)
    BY <2>1, SubtreeFacts DEF Left, JobOK
  <2>3. ToSet(found) = {n \in Subtree(job.root) : Passes(n)}
    BY <2>1, <2>2 DEF Remembered, Exited
  <2>4. CASE job.what = "nonempty_below"
    <3>1. \A n : Wanted(n) <=> Passes(n) /\ \E m \in Subtree(n) : tree[m].terminal
      BY <2>4 DEF Wanted, Passes
    <3>2. \A n : Terminals(n) # {} <=> \E m \in Subtree(n) : tree[m].terminal
      BY DEF Terminals
    <3> QED BY <2>3, <2>4, <3>1, <3>2 DEF Result
  <2>5. CASE job.what # "nonempty_below"
    <3>1. \A n : Wanted(n) <=> Passes(n)
      BY <2>5 DEF Wanted, Passes
    <3> QED BY <2>3, <2>5, <3>1 DEF Result
  <2> QED BY <2>4, <2>5
<1> QED BY <1>1, InvHolds, PTL

(* The label information has exactly the collected nodes with a label in    *)
(* their subtree, and all the labels of each.                               *)
THEOREM LabelInfoIsExact == Spec => []LabelsAreExact
<1>1. Inv => LabelsAreExact
  <2> SUFFICES ASSUME Inv, Finished, job.what = "label_info"
               PROVE  /\ DOMAIN info = {n \in Result : LabelsBelow(n) # {}}
                      /\ \A n \in DOMAIN info : info[n] = LabelsBelow(n)
    BY DEF LabelsAreExact
  <2>1. Labelled
    BY DEF Inv, WalkInv, Finished
  <2>2. Result = ToSet(found)
    BY DEF Result
  <2> QED BY <2>1, <2>2 DEF Labelled
<1> QED BY <1>1, InvHolds, PTL
-----------------------------------------------------------------------------
(* The front end once more: what the nodes are. During a translation the ID *)
(* of a node of the parse tree is known, whether the IR exists or not.      *)
ID(p) == counter - at + p - 1

Seen == {p \in 1 .. at : p # source.eof}
Open == {calls[i].node : i \in 1 .. Len(calls)}

(* The calls are the way from the root to where the translation is, and a   *)
(* node without a call has no children left.                                *)
Progress ==
  /\ InPreorder(source) /\ at \in 1 .. Len(source.up) /\ counter - at \in Nat
  /\ \A i \in 1 .. Len(calls) :
       /\ calls[i].node \in source.rules /\ calls[i].node \in 1 .. at
       /\ calls[i].id = ID(calls[i].node)
       /\ IF i = 1 THEN calls[i].node = 1 ELSE source.up[calls[i].node] = calls[i - 1].node
       /\ \A j \in i + 1 .. Len(calls) : calls[i].node < calls[j].node
       /\ \A c \in calls[i].node + 1 .. at : source.up[c] >= calls[i].node
  /\ \A p \in (1 .. at) \ Open : \A c \in at + 1 .. Len(source.up) : source.up[c] # p
  /\ Returned => at = Len(source.up)

Record(p, up, kids) ==
  [type |-> source.type[p], name |-> source.name[p], terminal |-> p \notin source.rules,
   label |-> source.label[p], up |-> up, kids |-> kids]

Data(n, p) == n = Record(p, n.up, n.kids)

(* f is a copy of the nodes in S, and all but those in O are linked.        *)
Copies(f, S, O) ==
  /\ DOMAIN f = {ID(p) : p \in S}
  /\ \A p \in S :
       /\ Data(f[ID(p)], p)
       /\ f[ID(p)].up = IF p = 1 \/ p \in O THEN None ELSE ID(source.up[p])
       /\ ToSet(f[ID(p)].kids) = {ID(c) : c \in {c \in S \ O : source.up[c] = p}}
       /\ Ascending(f[ID(p)].kids)

(* A node is copied when it is entered, and linked when it is left.         *)
Copied == Copies(tree, Seen, Open)

Translation ==
  /\ parses \in Nat
  /\ at = 0 => calls = << >> /\ root = None
  /\ at # 0 => Progress /\ Copied
  /\ Returned /\ root # None => root = counter - at

Parented(n, up) == [n EXCEPT !.up = up]
Joined(n, kid)  == [n EXCEPT !.kids = Append(@, kid)]

LEMMA AttachGives ==
  ASSUME NEW f, NEW c \in DOMAIN f, NEW p \in DOMAIN f, c # p
  PROVE  /\ DOMAIN Attach(f, c, p) = DOMAIN f
         /\ Attach(f, c, p)[c] = Parented(f[c], p)
         /\ Attach(f, c, p)[p] = Joined(f[p], c)
         /\ \A n \in DOMAIN f \ {c, p} : Attach(f, c, p)[n] = f[n]
BY DEF Attach, Parented, Joined

LEMMA RecordFacts ==
  ASSUME NEW p, NEW up, NEW kids
  PROVE  /\ Record(p, up, kids).up = up /\ Record(p, up, kids).kids = kids
         /\ Data(Record(p, up, kids), p)
BY DEF Data, Record

LEMMA RecordUpdated ==
  ASSUME NEW p, NEW up, NEW kids, NEW z
  PROVE  /\ Parented(Record(p, up, kids), z) = Record(p, z, kids)
         /\ Joined(Record(p, up, kids), z) = Record(p, up, Append(kids, z))
<1>1. Parented(Record(p, up, kids), z) = Record(p, z, kids)
  BY DEF Record, Parented
<1>2. PICK s : s = Append(kids, z)
  OBVIOUS
<1>3. Joined(Record(p, up, kids), z) = [Record(p, up, kids) EXCEPT !.kids = s]
  BY <1>2, RecordFacts DEF Joined
<1>4. [Record(p, up, kids) EXCEPT !.kids = s] = Record(p, up, s)
  BY DEF Record
<1> QED BY <1>1, <1>2, <1>3, <1>4

LEMMA AppendAscends ==
  ASSUME NEW S \in SUBSET Int, NEW s \in Seq(S), NEW e \in S,
         Ascending(s), \A x \in ToSet(s) : x < e
  PROVE  Ascending(Append(s, e)) /\ ToSet(Append(s, e)) = ToSet(s) \cup {e}
<1>1. PICK k \in Nat : k = Len(s)
  OBVIOUS
<1> DEFINE t == Append(s, e)
<1>2. /\ DOMAIN t = 1 .. k + 1 /\ DOMAIN s = 1 .. k
      /\ t[k + 1] = e /\ \A i \in 1 .. k : t[i] = s[i]
  BY <1>1
<1> HIDE DEF t
<1>3. \A i \in 1 .. k : s[i] \in ToSet(s)
  BY <1>2 DEF ToSet
<1>4. Ascending(t)
  BY <1>2, <1>3 DEF Ascending
<1> QED BY <1>4, AppendToSet DEF t

(* The call that is active is for the largest node among the calls.         *)
LEMMA TopNode ==
  ASSUME Progress, FrontendInv, ~Returned
  PROVE  /\ source.up \in Seq(Nat) /\ at \in Nat /\ Len(source.up) \in Nat
         /\ at <= Len(source.up) /\ Caller = calls[Len(calls)]
         /\ Len(calls) \in Nat /\ Len(calls) >= 1
         /\ Caller.node \in Open /\ Caller.node \in source.rules /\ Caller.node \in 1 .. at
         /\ Caller.id = ID(Caller.node)
         /\ \A i \in 1 .. Len(calls) : calls[i].node <= Caller.node
<1>1. /\ source.up \in Seq(Nat) /\ at \in Nat /\ calls \in Seq([node : Int, id : Nat])
      /\ calls # << >> /\ at \in 1 .. Len(source.up)
  BY DEF Returned, Progress, InPreorder, FrontendInv
<1>2. PICK k \in Nat : k = Len(calls) /\ k >= 1
  BY <1>1
<1>3. Caller = calls[k] /\ k \in 1 .. k
  BY <1>2 DEF Caller, Last
<1>4. /\ Caller.node \in Open /\ Caller.node \in source.rules /\ Caller.node \in 1 .. at
      /\ Caller.id = ID(Caller.node)
  BY <1>2, <1>3 DEF Progress, Open
<1>5. \A i \in 1 .. k : calls[i].node <= Caller.node
  <2> SUFFICES ASSUME NEW i \in 1 .. k PROVE calls[i].node <= Caller.node
    OBVIOUS
  <2>1. CASE i = k
    BY <1>3, <1>4, <2>1
  <2>2. CASE i # k
    <3>1. k \in i + 1 .. k
      BY <2>2
    <3>2. calls[i].node < calls[k].node
      BY <1>2, <3>1 DEF Progress
    <3>3. calls[i].node \in 1 .. at
      BY <1>2 DEF Progress
    <3> QED BY <1>3, <1>4, <3>2, <3>3
  <2> QED BY <2>1, <2>2
<1> QED BY <1>1, <1>2, <1>3, <1>4, <1>5

(* What the parse tree says of the next node and of its parent.             *)
LEMMA NextNode ==
  ASSUME Progress, Translation, FrontendInv, HasChild
  PROVE  /\ at + 1 \in 2 .. Len(source.up) /\ at \in Nat /\ Len(source.up) \in Nat
         /\ source.up[at + 1] = Caller.node /\ Caller = calls[Len(calls)]
         /\ Len(calls) \in Nat /\ Len(calls) >= 1
         /\ Caller.node \in Open /\ Caller.node \in source.rules /\ Caller.node \in 1 .. at
         /\ Caller.id = ID(Caller.node)
         /\ \A i \in 1 .. Len(calls) : calls[i].node <= Caller.node
<1>1. ~Returned /\ at < Len(source.up) /\ source.up[at + 1] = Caller.node /\ at >= 1
  BY DEF HasChild, Progress
<1> QED BY <1>1, TopNode

LEMMA ParseCopies ==
  ASSUME Translation, FrontendInv, parses < Len(Texts), NEW pt \in Texts[parses + 1], Parse(pt)
  PROVE  Translation'
<1>1. InPreorder(pt)
  <2>1. parses + 1 \in 1 .. Len(Texts)
    BY TextsAssumption DEF Translation
  <2> QED BY <2>1, TextsAssumption
<1>2. /\ source' = pt /\ at' = 1 /\ calls' = <<[node |-> 1, id |-> counter]>> /\ root' = None
      /\ counter' = counter + 1 /\ counter \in Nat /\ parses' = parses + 1
      /\ tree' = Put(<< >>, counter, NewIR(pt, 1))
  BY DEF Parse, FrontendInv
<1>3. Len(pt.up) \in Nat /\ 1 \in 1 .. Len(pt.up) /\ pt.eof # 1 /\ 1 \in pt.rules /\ pt.up[1] = 0
  BY <1>1 DEF InPreorder
<1>4. Len(calls') = 1 /\ calls'[1] = [node |-> 1, id |-> counter] /\ ~Returned'
  BY <1>2 DEF Returned
<1>5. Open' = {1} /\ Seen' = {1} /\ ID(1)' = counter
  BY <1>2, <1>3, <1>4 DEF Open, Seen, ID
<1>6. Progress'
  <2>1. \A i \in 1 .. 1 : i = 1 /\ (i + 1) .. 1 = {}
    OBVIOUS
  <2> QED BY <1>1, <1>2, <1>3, <1>4, <1>5, <2>1 DEF Progress
<1>7. Copied'
  <2> DEFINE node == NewIR(pt, 1)
  <2>1. /\ node = [type |-> pt.type[1], name |-> pt.name[1], terminal |-> 1 \notin pt.rules,
                   label |-> pt.label[1], up |-> None, kids |-> << >>]
        /\ node.up = None /\ node.kids = << >>
    BY DEF NewIR
  <2> HIDE DEF node
  <2>2. DOMAIN tree' = {counter} /\ tree'[counter] = node
    <3>1. DOMAIN << >> = {}
      OBVIOUS
    <3> QED BY <1>2, <3>1 DEF Put, node
  <2>3. Ascending(node.kids) /\ ToSet(node.kids) = {}
    BY <2>1 DEF Ascending, ToSet
  <2>4. Data(node, 1)'
    BY <1>2, <2>1 DEF Data, Record
  <2> QED BY <1>2, <1>3, <1>5, <2>1, <2>2, <2>3, <2>4 DEF Copied, Copies, Data, Record
<1> QED BY <1>2, <1>4, <1>6, <1>7 DEF Translation

(* The next node has been entered: rule, token or EOF.                      *)
LEMMA OneMore ==
  ASSUME Progress, Translation, FrontendInv, HasChild,
         source' = source, at' = at + 1, counter' = counter + 1,
         \/ calls' = Append(calls, [node |-> at + 1, id |-> counter]) /\ at + 1 \in source.rules
         \/ calls' = calls /\ at + 1 \notin source.rules
  PROVE  /\ Progress' /\ ID(at + 1) = counter /\ \A p : ID(p)' = ID(p)
         /\ Seen' = Seen \cup ({at + 1} \ {source.eof}) /\ at + 1 \notin Open
         /\ Open' = Open \cup ({at + 1} \cap source.rules) /\ ~Returned'
<1> DEFINE L == Len(source.up)
           k == Len(calls)
<1>1. /\ at + 1 \in 2 .. L /\ at \in Nat /\ L \in Nat /\ source.up[at + 1] = Caller.node
      /\ k \in Nat /\ k >= 1
      /\ Caller.node \in 1 .. at /\ \A i \in 1 .. k : calls[i].node <= Caller.node
  BY NextNode
<1>2. counter \in Nat /\ counter - at \in Nat /\ InPreorder(source)
  BY DEF FrontendInv, Progress
<1>3. ID(at + 1) = counter /\ (\A p : ID(p)' = ID(p)) /\ (\A p \in Int : ID(p) \in Int)
  <2>1. counter' - at' = counter - at
    BY <1>1, <1>2
  <2> QED BY <1>1, <1>2, <2>1 DEF ID
<1>4. at' \in 1 .. L /\ Seen' = Seen \cup ({at + 1} \ {source.eof})
  BY <1>1 DEF Seen
<1>5. calls \in Seq([node : Int, id : Nat])
  BY DEF FrontendInv
<1>6. \A i \in 1 .. k : /\ calls[i].node \in source.rules /\ calls[i].node \in 1 .. at
                        /\ calls[i].id = ID(calls[i].node)
                        /\ calls[i].node <= source.up[at + 1]
  BY <1>1 DEF Progress
<1>7. \A i \in 1 .. k : \A c \in calls[i].node + 1 .. at + 1 : source.up[c] >= calls[i].node
  <2> SUFFICES ASSUME NEW i \in 1 .. k, NEW c \in calls[i].node + 1 .. at + 1
               PROVE  source.up[c] >= calls[i].node
    OBVIOUS
  <2>1. calls[i].node \in 1 .. at /\ calls[i].node <= source.up[at + 1]
    BY <1>6
  <2>2. CASE c = at + 1
    BY <1>1, <2>1, <2>2
  <2>3. CASE c # at + 1
    <3>1. c \in calls[i].node + 1 .. at
      BY <1>1, <2>1, <2>3
    <3> QED BY <3>1 DEF Progress
  <2> QED BY <2>2, <2>3
<1>8. at + 1 \notin Open
  BY <1>1, <1>6 DEF Open
<1>9. CASE calls' = calls /\ at + 1 \notin source.rules
  <2>1. Open' = Open
    BY <1>9 DEF Open
  <2>2. \A c \in 2 .. L : source.up[c] # at + 1
    BY <1>2, <1>9 DEF InPreorder
  <2>3. \A p \in 1 .. at + 1 : p = at + 1 \/ p \in 1 .. at
    BY <1>1
  <2>4. \A c \in at' + 1 .. L : c \in at + 1 .. L /\ c \in 2 .. L
    BY <1>1
  <2>5. \A p \in (1 .. at') \ Open' : \A c \in at' + 1 .. L : source.up[c] # p
    BY <2>1, <2>2, <2>3, <2>4 DEF Progress
  <2>6. \A i \in 1 .. k : calls[i].node \in 1 .. at'
    BY <1>1, <1>6
  <2>7. ~Returned'
    BY <1>9 DEF HasChild, Returned
  <2>8. \A i \in 1 .. k :
           /\ IF i = 1 THEN calls[i].node = 1 ELSE source.up[calls[i].node] = calls[i - 1].node
           /\ \A j \in i + 1 .. k : calls[i].node < calls[j].node
    BY DEF Progress
  <2>9. InPreorder(source') /\ at' \in 1 .. Len(source'.up) /\ counter' - at' \in Nat
    BY <1>1, <1>2, <1>4
  <2>10. /\ Len(calls') = k /\ at' = at + 1 /\ \A i : calls'[i] = calls[i]
         /\ \A p : source'.up[p] = source.up[p]
    BY <1>9
  <2>11. Progress'
    <3> HIDE DEF k, L
    <3> QED BY <1>3, <1>6, <1>7, <2>5, <2>6, <2>7, <2>8, <2>9, <2>10 DEF Progress, L
  <2> QED BY <1>3, <1>4, <1>8, <1>9, <2>1, <2>7, <2>11
<1>10. CASE calls' = Append(calls, [node |-> at + 1, id |-> counter]) /\ at + 1 \in source.rules
  <2> DEFINE f == [node |-> at + 1, id |-> counter]
  <2>1. /\ Len(calls') = k + 1 /\ calls'[k + 1] = f /\ calls' # << >>
        /\ \A i \in 1 .. k : calls'[i] = calls[i]
    <3>1. f \in [node : Int, id : Nat]
      BY <1>1, <1>2
    <3> QED BY <1>5, <1>10, <3>1
  <2>2. \A i \in 1 .. k + 1 : i = k + 1 \/ i \in 1 .. k
    BY <1>1
  <2>3. k + 1 \in 1 .. k + 1 /\ \A i \in 1 .. k : i \in 1 .. k + 1
    BY <1>1
  <2>4. Open' = Open \cup {at + 1}
    <3>1. Open' = {calls'[i].node : i \in 1 .. k + 1}
      BY <2>1 DEF Open
    <3> QED BY <2>1, <2>2, <2>3, <3>1 DEF Open
  <2>5. \A p \in (1 .. at') \ Open' : \A c \in at' + 1 .. L : source.up[c] # p
    <3>1. \A p \in (1 .. at') \ Open' : p \in (1 .. at) \ Open
      BY <1>1, <2>4
    <3>2. \A c \in at' + 1 .. L : c \in at + 1 .. L
      BY <1>1
    <3> QED BY <3>1, <3>2 DEF Progress
  <2>6. ASSUME NEW i \in 1 .. k + 1
        PROVE  /\ calls'[i].node \in source.rules /\ calls'[i].node \in 1 .. at'
               /\ calls'[i].id = ID(calls'[i].node)
               /\ IF i = 1 THEN calls'[i].node = 1
                           ELSE source.up[calls'[i].node] = calls'[i - 1].node
               /\ \A j \in i + 1 .. k + 1 : calls'[i].node < calls'[j].node
               /\ \A c \in calls'[i].node + 1 .. at' : source.up[c] >= calls'[i].node
    <3>1. CASE i = k + 1
      <4>1. f.node = at + 1 /\ f.id = counter /\ (at + 1) + 1 .. at' = {} /\ i + 1 .. k + 1 = {}
        BY <1>1, <3>1
      <4>2. calls'[i - 1].node = Caller.node /\ i # 1
        <5>1. i - 1 = k /\ k \in 1 .. k /\ i # 1
          BY <1>1, <3>1
        <5>2. Caller = calls[k]
          BY NextNode
        <5> QED BY <2>1, <5>1, <5>2
      <4>3. calls'[i] = f
        BY <2>1, <3>1
      <4>4. at + 1 \in 1 .. at'
        BY <1>1
      <4> HIDE DEF f
      <4> QED BY <1>1, <1>3, <1>10, <4>1, <4>2, <4>3, <4>4
    <3>2. CASE i \in 1 .. k
      <4>1. calls'[i] = calls[i] /\ (i # 1 => i - 1 \in 1 .. k)
        BY <1>1, <2>1, <3>2
      <4>2. i # 1 => calls'[i - 1] = calls[i - 1]
        BY <2>1, <4>1
      <4>3. \A j \in i + 1 .. k + 1 : calls[i].node < calls'[j].node
        <5> SUFFICES ASSUME NEW j \in i + 1 .. k + 1 PROVE calls[i].node < calls'[j].node
          OBVIOUS
        <5>1. CASE j = k + 1
          <6>1. calls'[j].node = at + 1
            BY <2>1, <5>1
          <6> QED BY <1>1, <1>6, <3>2, <6>1
        <5>2. CASE j # k + 1
          <6>1. j \in i + 1 .. k /\ j \in 1 .. k
            BY <1>1, <3>2, <5>2
          <6>2. calls[i].node < calls[j].node
            BY <3>2, <6>1 DEF Progress
          <6> QED BY <2>1, <6>1, <6>2
        <5> QED BY <5>1, <5>2
      <4>4. calls[i].node \in 1 .. at'
        BY <1>1, <1>6, <3>2
      <4>5. IF i = 1 THEN calls[i].node = 1 ELSE source.up[calls[i].node] = calls[i - 1].node
        BY <3>2 DEF Progress
      <4> QED BY <1>6, <1>7, <3>2, <4>1, <4>2, <4>3, <4>4, <4>5
    <3> QED BY <2>2, <3>1, <3>2
  <2>7. ~Returned'
    BY <2>1 DEF Returned
  <2>8. /\ InPreorder(source') /\ at' \in 1 .. Len(source'.up) /\ counter' - at' \in Nat
        /\ \A p : ID(p)' = ID(p)
    BY <1>1, <1>2, <1>3, <1>4
  <2>9. Progress'
    <3>1. Len(calls') = k + 1
      BY <2>1
    <3> HIDE DEF f, k
    <3> QED BY <2>5, <2>6, <2>7, <2>8, <3>1 DEF Progress
  <2> QED BY <1>3, <1>4, <1>8, <1>10, <2>4, <2>7, <2>9
<1> QED BY <1>9, <1>10

(* The copy is of the same parse tree under the same IDs.                  *)
LEMMA CopiedAfter ==
  ASSUME source' = source, \A p : ID(p)' = ID(p), Copies(tree', Seen', Open')
  PROVE  Copied'
<1>1. DOMAIN tree' = {ID(p)' : p \in Seen'}
  BY DEF Copies
<1>2. ASSUME NEW p \in Seen'
      PROVE  {ID(c) : c \in {c \in Seen' \ Open' : source.up[c] = p}}
               = {ID(c)' : c \in {c \in Seen' \ Open' : source'.up[c] = p}}
  OBVIOUS
<1>3. ASSUME NEW p \in Seen'
      PROVE  /\ Data(tree[ID(p)], p)'
             /\ (tree[ID(p)].up = IF p = 1 \/ p \in Open THEN None ELSE ID(source.up[p]))'
             /\ ToSet(tree'[ID(p)'].kids)
                  = {ID(c)' : c \in {c \in Seen' \ Open' : source'.up[c] = p}}
             /\ Ascending(tree'[ID(p)'].kids)
  <2>1. ID(p)' = ID(p)
    OBVIOUS
  <2>2. ID(source.up[p])' = ID(source.up[p])
    BY DEF ID
  <2>3. Data(tree[ID(p)], p)'
    BY <2>1 DEF Data, Record, Copies
  <2>4. /\ ToSet(tree'[ID(p)'].kids)
             = {ID(c)' : c \in {c \in Seen' \ Open' : source'.up[c] = p}}
        /\ Ascending(tree'[ID(p)'].kids)
    BY <1>2, <2>1 DEF Copies
  <2> QED BY <2>1, <2>2, <2>3, <2>4 DEF Copies
<1> QED BY <1>1, <1>3 DEF Copied, Copies

(* A new node is put under the next ID.                                     *)
LEMMA NewCopy ==
  ASSUME Progress, Copied, Translation, FrontendInv, HasChild,
         NEW t, t = Put(tree, counter, NewIR(source, at + 1)), at + 1 # source.eof
  PROVE  /\ DOMAIN t = {ID(p) : p \in Seen \cup {at + 1}} /\ ID(at + 1) = counter
         /\ t[counter] = NewIR(source, at + 1) /\ counter \notin DOMAIN tree
         /\ \A p \in Seen : t[ID(p)] = tree[ID(p)] /\ ID(p) # counter
         /\ \A c \in Seen : source.up[c] # at + 1
<1>1. /\ at \in Nat /\ at + 1 \in 2 .. Len(source.up) /\ Len(source.up) \in Nat
      /\ Caller.node \in 1 .. at /\ source.up[at + 1] = Caller.node
  BY NextNode
<1>2. counter \in Nat /\ counter - at \in Nat /\ DOMAIN tree = {ID(p) : p \in Seen}
  BY DEF FrontendInv, Progress, Copied, Copies
<1>3. ID(at + 1) = counter /\ \A p \in Seen : ID(p) # counter
  BY <1>1, <1>2 DEF ID, Seen
<1> DEFINE node == NewIR(source, at + 1)
<1>4. DOMAIN t = DOMAIN tree \cup {counter} /\ t[counter] = node
      /\ \A z \in DOMAIN tree : z # counter => t[z] = tree[z]
  <2> HIDE DEF node
  <2>1. t = Put(tree, counter, node)
    BY DEF node
  <2> QED BY <2>1 DEF Put
<1>5. ASSUME NEW c \in Seen PROVE source.up[c] # at + 1
  <2>1. c \in 1 .. at /\ InPreorder(source)
    BY DEF Seen, Progress
  <2>2. CASE c = 1
    BY <1>1, <2>1, <2>2 DEF InPreorder
  <2>3. CASE c # 1
    <3>1. c \in 2 .. Len(source.up) /\ c < at + 1
      BY <1>1, <2>1, <2>3
    <3>2. source.up[c] \in 1 .. c - 1
      BY <2>1, <3>1 DEF InPreorder
    <3> QED BY <1>1, <3>1, <3>2
  <2> QED BY <2>2, <2>3
<1> QED BY <1>2, <1>3, <1>4, <1>5

LEMMA NewData ==
  ASSUME NEW pt, NEW p, pt = source
  PROVE  /\ Data(NewIR(pt, p), p)
         /\ NewIR(pt, p).up = None /\ NewIR(pt, p).kids = << >>
         /\ ToSet(NewIR(pt, p).kids) = {} /\ Ascending(NewIR(pt, p).kids)
<1> DEFINE node == NewIR(pt, p)
<1>1. /\ node = [type |-> pt.type[p], name |-> pt.name[p], terminal |-> p \notin pt.rules,
                 label |-> pt.label[p], up |-> None, kids |-> << >>]
      /\ node.up = None /\ node.kids = << >>
  BY DEF NewIR
<1> HIDE DEF node
<1>2. ToSet(node.kids) = {} /\ Ascending(node.kids)
  BY <1>1 DEF Ascending, ToSet
<1> QED BY <1>1, <1>2 DEF Data, Record, node

LEMMA RuleCopies ==
  ASSUME Progress, Copied, Translation, FrontendInv, EnterRule
  PROVE  Progress' /\ Copied'
<1>1. /\ HasChild /\ at + 1 \in source.rules /\ at' = at + 1 /\ counter' = counter + 1
      /\ calls' = Append(calls, [node |-> at + 1, id |-> counter])
      /\ tree' = Put(tree, counter, NewIR(source, at + 1)) /\ source' = source
  BY DEF EnterRule
<1>2. at + 1 # source.eof
  BY <1>1 DEF Progress, InPreorder
<1>3. /\ Progress' /\ ID(at + 1) = counter /\ \A p : ID(p)' = ID(p)
      /\ Seen' = Seen \cup {at + 1} /\ Open' = Open \cup {at + 1} /\ at + 1 \notin Open
  BY <1>1, <1>2, OneMore
<1>4. /\ DOMAIN tree' = {ID(p) : p \in Seen \cup {at + 1}}
      /\ tree'[counter] = NewIR(source, at + 1)
      /\ \A p \in Seen : tree'[ID(p)] = tree[ID(p)] /\ ID(p) # counter
      /\ \A c \in Seen : source.up[c] # at + 1
  BY <1>1, <1>2, NewCopy
<1>5. at + 1 \notin Seen
  BY <1>1, NextNode DEF Seen
<1>6. Seen' \ Open' = Seen \ Open
  BY <1>3, <1>5
<1>7. ASSUME NEW p \in Seen'
      PROVE  /\ Data(tree'[ID(p)], p)
             /\ tree'[ID(p)].up = IF p = 1 \/ p \in Open' THEN None ELSE ID(source.up[p])
             /\ ToSet(tree'[ID(p)].kids) = {ID(c) : c \in {c \in Seen \ Open : source.up[c] = p}}
             /\ Ascending(tree'[ID(p)].kids)
  <2>1. CASE p = at + 1
    <3> DEFINE node == NewIR(source, at + 1)
    <3>1. /\ Data(node, p) /\ node.up = None /\ ToSet(node.kids) = {} /\ Ascending(node.kids)
      BY <2>1, NewData
    <3> HIDE DEF node
    <3>2. tree'[ID(p)] = node /\ p \in Open'
      BY <1>3, <1>4, <2>1 DEF node
    <3> QED BY <1>4, <2>1, <3>1, <3>2
  <2>2. CASE p \in Seen
    <3>1. tree'[ID(p)] = tree[ID(p)] /\ (p \in Open' <=> p \in Open)
      BY <1>3, <1>4, <1>5, <2>2
    <3> QED BY <2>2, <3>1 DEF Copied, Copies
  <2> QED BY <1>3, <2>1, <2>2
<1> QED BY <1>1, <1>3, <1>4, <1>6, <1>7, CopiedAfter DEF Copies

LEMMA EOFCopies ==
  ASSUME Progress, Copied, Translation, FrontendInv, EnterEOF
  PROVE  Progress' /\ Copied'
<1>1. /\ HasChild /\ at + 1 = source.eof /\ at' = at + 1 /\ counter' = counter + 1
      /\ calls' = calls /\ tree' = tree /\ source' = source
  BY DEF EnterEOF
<1>2. at + 1 \notin source.rules
  BY <1>1 DEF Progress, InPreorder
<1>3. Progress' /\ (\A p : ID(p)' = ID(p)) /\ Seen' = Seen /\ Open' = Open
  BY <1>1, <1>2, OneMore
<1> QED BY <1>1, <1>3, CopiedAfter DEF Copied

(* Node x of the parse tree is linked to its parent y: as the last child.   *)
(* S are the nodes with an IR, O those that stay without a link.            *)
LEMMA Linking ==
  ASSUME counter - at \in Int, NEW S \in SUBSET Int, NEW O, NEW f,
         NEW x \in S \ O, NEW y \in S, source.up[x] = y, x # y, x # 1,
         Copies(f, S, O \cup {x}), \A n \in DOMAIN f : f[n].kids \in Seq(DOMAIN f),
         \A c \in S \ (O \cup {x}) : source.up[c] = y => c < x
  PROVE  Copies(Attach(f, ID(x), ID(y)), S, O)
<1> DEFINE g == Attach(f, ID(x), ID(y))
<1> HIDE DEF g
<1>1. /\ DOMAIN f = {ID(p) : p \in S}
      /\ \A p \in S :
           /\ Data(f[ID(p)], p)
           /\ f[ID(p)].up = IF p = 1 \/ p \in O \cup {x} THEN None ELSE ID(source.up[p])
           /\ ToSet(f[ID(p)].kids)
                = {ID(c) : c \in {c \in S \ (O \cup {x}) : source.up[c] = p}}
           /\ Ascending(f[ID(p)].kids)
  BY DEF Copies
<1>2. \A p, q \in S : /\ ID(p) \in Int /\ (ID(p) = ID(q) => p = q)
                      /\ (p < q => ID(p) < ID(q))
  BY DEF ID
<1>3. PICK a, b : a = ID(x) /\ b = ID(y)
  OBVIOUS
<1>4. /\ a \in DOMAIN f /\ b \in DOMAIN f /\ a # b /\ a \in Int
      /\ \A p \in S \ {x, y} : ID(p) \in DOMAIN f \ {a, b}
  BY <1>1, <1>2, <1>3
<1>5. /\ DOMAIN g = DOMAIN f /\ g[a] = Parented(f[a], b) /\ g[b] = Joined(f[b], a)
      /\ \A n \in DOMAIN f \ {a, b} : g[n] = f[n]
  <2>1. g = Attach(f, a, b)
    BY <1>3 DEF g
  <2> QED BY <1>4, <2>1, AttachGives
<1>6. /\ g[a].up = b /\ g[a].kids = f[a].kids /\ Data(g[a], x)
      /\ g[b].up = f[b].up /\ g[b].kids = Append(f[b].kids, a) /\ Data(g[b], y)
  <2>1. PICK u, k : f[a] = Record(x, u, k)
    BY <1>1, <1>3 DEF Data
  <2>2. PICK v, l : f[b] = Record(y, v, l)
    BY <1>1, <1>3 DEF Data
  <2>3. f[a].kids = k /\ f[b].up = v /\ f[b].kids = l
    BY <2>1, <2>2, RecordFacts
  <2>4. g[a] = Record(x, b, k) /\ g[b] = Record(y, v, Append(l, a))
    BY <1>5, <2>1, <2>2, RecordUpdated
  <2>5. g[a].up = b /\ g[a].kids = k /\ Data(g[a], x)
    BY <2>4, RecordFacts
  <2>6. g[b].up = v /\ g[b].kids = Append(l, a) /\ Data(g[b], y)
    <3>1. PICK s : s = Append(l, a)
      OBVIOUS
    <3>2. g[b] = Record(y, v, s)
      BY <2>4, <3>1
    <3>3. Record(y, v, s).up = v /\ Record(y, v, s).kids = s /\ Data(Record(y, v, s), y)
      BY RecordFacts
    <3> QED BY <3>1, <3>2, <3>3
  <2> QED BY <2>3, <2>5, <2>6
<1>7. Ascending(Append(f[b].kids, a)) /\ ToSet(Append(f[b].kids, a)) = ToSet(f[b].kids) \cup {a}
  <2>1. f[b].kids \in Seq(DOMAIN f) /\ DOMAIN f \in SUBSET Int /\ Ascending(f[b].kids)
    <3>1. f[b].kids \in Seq(DOMAIN f)
      BY <1>4
    <3>2. DOMAIN f \in SUBSET Int
      BY <1>1, <1>2
    <3>3. Ascending(f[ID(y)].kids)
      BY <1>1
    <3> QED BY <1>3, <3>1, <3>2, <3>3
  <2>2. \A i \in ToSet(f[b].kids) : i < a
    <3> SUFFICES ASSUME NEW i \in ToSet(f[b].kids) PROVE i < a
      OBVIOUS
    <3>1. ToSet(f[ID(y)].kids) = {ID(c) : c \in {c \in S \ (O \cup {x}) : source.up[c] = y}}
      BY <1>1
    <3>2. PICK c \in S \ (O \cup {x}) : source.up[c] = y /\ i = ID(c)
      BY <1>3, <3>1
    <3> QED BY <1>2, <1>3, <3>2
  <2>3. PICK D, s : D = DOMAIN f /\ s = f[b].kids
    OBVIOUS
  <2>4. D \in SUBSET Int /\ s \in Seq(D) /\ a \in D /\ Ascending(s) /\ \A i \in ToSet(s) : i < a
    BY <1>4, <2>1, <2>2, <2>3
  <2> QED BY <2>3, <2>4, AppendAscends
<1>8. ASSUME NEW p \in S, p # y
      PROVE  {c \in S \ O : source.up[c] = p} = {c \in S \ (O \cup {x}) : source.up[c] = p}
  BY <1>8
<1>9. {ID(c) : c \in {c \in S \ O : source.up[c] = y}}
        = {ID(c) : c \in {c \in S \ (O \cup {x}) : source.up[c] = y}} \cup {ID(x)}
  OBVIOUS
<1>10. ASSUME NEW p \in S
      PROVE  /\ Data(g[ID(p)], p)
             /\ g[ID(p)].up = IF p = 1 \/ p \in O THEN None ELSE ID(source.up[p])
             /\ ToSet(g[ID(p)].kids) = {ID(c) : c \in {c \in S \ O : source.up[c] = p}}
             /\ Ascending(g[ID(p)].kids)
  <2>1. CASE p = x
    <3>1. g[ID(p)] = g[a] /\ f[ID(p)] = f[a] /\ p # y
      BY <1>3, <2>1
    <3> QED BY <1>1, <1>3, <1>6, <1>8, <2>1, <3>1
  <2>2. CASE p = y
    <3>1. g[ID(p)] = g[b] /\ f[ID(p)] = f[b] /\ p # x
      BY <1>3, <2>2
    <3>2. ToSet(g[b].kids) = {ID(c) : c \in {c \in S \ O : source.up[c] = p}}
      BY <1>1, <1>3, <1>6, <1>7, <1>9, <2>2, <3>1
    <3> QED BY <1>1, <1>6, <1>7, <2>2, <3>1, <3>2
  <2>3. CASE p # x /\ p # y
    <3>1. g[ID(p)] = f[ID(p)]
      BY <1>4, <1>5, <2>3
    <3> QED BY <1>1, <1>8, <2>3, <3>1
  <2> QED BY <2>1, <2>2, <2>3
<1> QED BY <1>1, <1>5, <1>10 DEF Copies, g

LEMMA TokenCopies ==
  ASSUME TreeInv, Progress, Copied, Translation, FrontendInv, EnterToken
  PROVE  Progress' /\ Copied'
<1>1. /\ HasChild /\ at + 1 \notin source.rules /\ at + 1 # source.eof
      /\ at' = at + 1 /\ counter' = counter + 1 /\ calls' = calls /\ source' = source
      /\ tree' = Attach(Put(tree, counter, NewIR(source, at + 1)), counter, Caller.id)
  BY DEF EnterToken
<1>2. /\ Progress' /\ ID(at + 1) = counter /\ \A p : ID(p)' = ID(p)
      /\ Seen' = Seen \cup {at + 1} /\ Open' = Open /\ at + 1 \notin Open
  BY <1>1, OneMore
<1>3. /\ at \in Nat /\ source.up[at + 1] = Caller.node /\ Caller.node \in 1 .. at
      /\ Caller.node \in source.rules /\ Caller.id = ID(Caller.node) /\ counter - at \in Int
  BY <1>1, NextNode DEF Progress
<1>4. Caller.node \in Seen /\ at + 1 \notin Seen
  BY <1>3 DEF Seen, Progress, InPreorder
<1> DEFINE t == Put(tree, counter, NewIR(source, at + 1))
<1>5. /\ DOMAIN t = {ID(p) : p \in Seen \cup {at + 1}}
      /\ t[counter] = NewIR(source, at + 1)
      /\ \A p \in Seen : t[ID(p)] = tree[ID(p)] /\ ID(p) # counter
      /\ \A c \in Seen : source.up[c] # at + 1
  BY <1>1, NewCopy
<1>6. \A n \in DOMAIN t : t[n].kids \in Seq(DOMAIN t)
  BY NodeAdded
<1> HIDE DEF t
<1>7. PICK S : S = Seen \cup {at + 1}
  OBVIOUS
<1>8. Copies(t, S, Open \cup {at + 1})
  <2>1. S \ (Open \cup {at + 1}) = Seen \ Open
    BY <1>4, <1>7
  <2>2. ASSUME NEW p \in S
        PROVE  /\ Data(t[ID(p)], p)
               /\ t[ID(p)].up
                    = IF p = 1 \/ p \in Open \cup {at + 1} THEN None ELSE ID(source.up[p])
               /\ ToSet(t[ID(p)].kids) = {ID(c) : c \in {c \in Seen \ Open : source.up[c] = p}}
               /\ Ascending(t[ID(p)].kids)
    <3>1. CASE p = at + 1
      <4> DEFINE node == NewIR(source, at + 1)
      <4>1. Data(node, p) /\ node.up = None /\ ToSet(node.kids) = {} /\ Ascending(node.kids)
        BY <3>1, NewData
      <4> HIDE DEF node
      <4>2. t[ID(p)] = node
        BY <1>2, <1>5, <3>1 DEF node
      <4> QED BY <1>5, <3>1, <4>1, <4>2
    <3>2. CASE p \in Seen
      <4>1. t[ID(p)] = tree[ID(p)] /\ (p \in Open \cup {at + 1} <=> p \in Open)
        BY <1>4, <1>5, <3>2
      <4> QED BY <3>2, <4>1 DEF Copied, Copies
    <3> QED BY <1>7, <3>1, <3>2
  <2> QED BY <1>5, <1>7, <2>1, <2>2 DEF Copies
<1>9. PICK x, y : x = at + 1 /\ y = Caller.node
  OBVIOUS
<1>10. /\ S \in SUBSET Int /\ x \in S \ Open /\ y \in S /\ x # y /\ x # 1
       /\ source.up[x] = y /\ Copies(t, S, Open \cup {x})
       /\ \A c \in S \ (Open \cup {x}) : source.up[c] = y => c < x
  BY <1>2, <1>3, <1>4, <1>7, <1>8, <1>9 DEF Seen
<1>11. tree' = Attach(t, ID(x), ID(y))
  BY <1>1, <1>2, <1>3, <1>9 DEF t
<1>12. Copies(Attach(t, ID(x), ID(y)), S, Open)
  BY <1>3, <1>6, <1>10, Linking
<1> QED BY <1>1, <1>2, <1>7, <1>11, <1>12, CopiedAfter

(* A call that returns leaves no child behind.                              *)
LEMMA NoChildLeft ==
  ASSUME Progress, FrontendInv, ~Returned, ~HasChild
  PROVE  /\ \A c \in at + 1 .. Len(source.up) : source.up[c] # Caller.node
         /\ Len(calls) = 1 => at = Len(source.up)
<1> DEFINE L == Len(source.up)
           x == Caller.node
<1>1. /\ source.up \in Seq(Nat) /\ at \in Nat /\ L \in Nat /\ at <= L /\ x \in 1 .. at
      /\ Caller = calls[Len(calls)] /\ \A i \in 1 .. Len(calls) : calls[i].node <= x
  BY TopNode
<1>2. /\ \A p \in (1 .. at) \ Open : \A c \in at + 1 .. L : source.up[c] # p
      /\ \A p \in 2 .. L : /\ source.up[p] \in 1 .. p - 1
                           /\ \A q \in source.up[p] + 1 .. p - 1 : source.up[q] >= source.up[p]
      /\ at >= 1
  BY DEF Progress, InPreorder
<1>3. ASSUME at < L PROVE source.up[at + 1] \in 1 .. at /\ source.up[at + 1] # x
                          /\ source.up[at + 1] \in Open
  <2>1. at + 1 \in 2 .. L /\ at + 1 \in at + 1 .. L
    BY <1>1, <1>2, <1>3
  <2>2. source.up[at + 1] \in 1 .. at
    BY <1>1, <1>2, <2>1
  <2> QED BY <1>2, <1>3, <2>1, <2>2 DEF HasChild
<1>4. \A p \in Open : p <= x
  BY <1>1 DEF Open
<1>5. ASSUME NEW c \in at + 1 .. L, source.up[c] = x PROVE FALSE
  <2>1. at < L /\ c \in 2 .. L /\ c \in Int
    BY <1>1, <1>2, <1>5
  <2>2. c # at + 1
    BY <1>3, <1>5, <2>1
  <2>3. at + 1 \in source.up[c] + 1 .. c - 1
    BY <1>1, <1>5, <2>1, <2>2
  <2>4. source.up[at + 1] >= x
    BY <1>2, <1>5, <2>1, <2>3
  <2> QED BY <1>1, <1>3, <1>4, <2>1, <2>4
<1>6. ASSUME Len(calls) = 1 PROVE ~(at < L)
  <2>1. Open = {x}
    BY <1>1, <1>6 DEF Open
  <2> QED BY <1>3, <2>1
<1> QED BY <1>1, <1>5, <1>6

LEMMA ReturnCopies ==
  ASSUME TreeInv, Progress, Copied, Translation, FrontendInv, Return
  PROVE  /\ Progress' /\ Copied' /\ at' = at /\ counter' = counter /\ parses' = parses
         /\ Returned' => root' = counter - at
<1> DEFINE L == Len(source.up)
           x == Caller.node
           k == Len(calls)
           y == calls[k - 1].node
<1>1. /\ ~Returned /\ ~HasChild /\ calls' = Front(calls) /\ parses' = parses
      /\ source' = source /\ at' = at /\ counter' = counter
  BY DEF Return
<1>2. /\ source.up \in Seq(Nat) /\ at \in Nat /\ L \in Nat /\ at <= L /\ x \in 1 .. at
      /\ x \in Open /\ x \in source.rules /\ Caller = calls[k] /\ k \in Nat /\ k >= 1
      /\ Caller.id = ID(x) /\ \A i \in 1 .. k : calls[i].node <= x
  BY <1>1, TopNode
<1>3. Len(calls') = k - 1 /\ \A i \in 1 .. k - 1 : calls'[i] = calls[i]
  BY <1>1, CallerFacts
<1>4. \A p : ID(p)' = ID(p)
  BY <1>1 DEF ID
<1>5. Seen' = Seen
  BY <1>1 DEF Seen
<1>6. Open = Open' \cup {x} /\ x \notin Open'
  <2>1. Open' = {calls[i].node : i \in 1 .. k - 1}
    BY <1>3 DEF Open
  <2>2. \A i \in 1 .. k : i = k \/ i \in 1 .. k - 1
    BY <1>2
  <2>3. ASSUME NEW i \in 1 .. k - 1 PROVE calls[i].node # x /\ i \in 1 .. k
    <3>1. i \in 1 .. k /\ k \in i + 1 .. k
      BY <1>2
    <3>2. calls[i].node < calls[k].node /\ calls[i].node \in 1 .. at
      BY <3>1 DEF Progress
    <3> QED BY <1>2, <3>1, <3>2
  <2>4. k \in 1 .. k
    BY <1>2
  <2> QED BY <1>2, <2>1, <2>2, <2>3, <2>4 DEF Open
<1>7. Progress'
  <2>1. \A p \in (1 .. at) \ Open' : \A c \in at + 1 .. L : source.up[c] # p
    BY <1>1, <1>6, NoChildLeft DEF Progress
  <2>2. Returned' => at = L
    <3>1. Returned' => k = 1
      BY <1>2, <1>3 DEF Returned
    <3> QED BY <1>1, <3>1, NoChildLeft
  <2>3. ASSUME NEW i \in 1 .. k - 1
        PROVE  /\ calls'[i].node \in source.rules /\ calls'[i].node \in 1 .. at
               /\ calls'[i].id = ID(calls'[i].node)
               /\ IF i = 1 THEN calls'[i].node = 1
                           ELSE source.up[calls'[i].node] = calls'[i - 1].node
               /\ \A j \in i + 1 .. k - 1 : calls'[i].node < calls'[j].node
               /\ \A c \in calls'[i].node + 1 .. at : source.up[c] >= calls'[i].node
    <3>1. i \in 1 .. k /\ (i # 1 => i - 1 \in 1 .. k - 1)
          /\ \A j \in i + 1 .. k - 1 : j \in i + 1 .. k /\ j \in 1 .. k - 1
      BY <1>2
    <3>2. calls'[i] = calls[i] /\ (i # 1 => calls'[i - 1] = calls[i - 1])
          /\ \A j \in i + 1 .. k - 1 : calls'[j] = calls[j]
      BY <1>3, <3>1
    <3> QED BY <3>1, <3>2 DEF Progress
  <2>4. InPreorder(source) /\ at \in 1 .. L /\ counter - at \in Nat
    BY DEF Progress
  <2> HIDE DEF k
  <2> QED BY <1>1, <1>3, <1>4, <2>1, <2>2, <2>3, <2>4 DEF Progress
<1>8. CASE k = 1
  <2>1. root' = Caller.id /\ tree' = tree
    BY <1>8 DEF Return
  <2>2. x = 1
    BY <1>2, <1>8 DEF Progress
  <2>3. root' = counter - at
    BY <1>2, <2>1, <2>2 DEF ID, FrontendInv, Progress
  <2>4. source.up[1] = 0 /\ 0 \notin Seen
    BY DEF Progress, InPreorder, Seen
  <2>5. ASSUME NEW p \in Seen
        PROVE  {c \in Seen \ Open' : source.up[c] = p} = {c \in Seen \ Open : source.up[c] = p}
    BY <1>6, <2>2, <2>4
  <2>6. Copies(tree, Seen, Open')
    BY <1>6, <2>2, <2>5 DEF Copied, Copies
  <2> QED BY <1>1, <1>4, <1>5, <1>7, <2>1, <2>3, <2>6, CopiedAfter
<1>9. CASE k # 1
  <2>1. tree' = Attach(tree, Caller.id, calls[k - 1].id)
    BY <1>9 DEF Return
  <2>2. k \in 1 .. k /\ k - 1 \in 1 .. k
    <3>1. k \in Nat /\ k >= 1 /\ k # 1
      BY <1>2, <1>9
    <3> HIDE DEF k
    <3> QED BY <3>1
  <2>3. y \in source.rules /\ y \in 1 .. at /\ calls[k - 1].id = ID(y) /\ source.up[x] = y
    BY <1>2, <1>9, <2>2 DEF Progress
  <2>4. y < x
    <3>1. k \in (k - 1) + 1 .. k
      BY <1>2
    <3> QED BY <1>2, <2>2, <3>1 DEF Progress
  <2>5. y \in Seen /\ x \in Seen /\ Seen \in SUBSET Int /\ counter - at \in Int
    BY <1>2, <2>3 DEF Seen, Progress, InPreorder
  <2>6. ASSUME NEW c \in Seen \ Open, source.up[c] = y PROVE c < x
    <3>1. c \in 1 .. at /\ c # x
      BY <1>2 DEF Seen
    <3>2. SUFFICES ASSUME c > x PROVE FALSE
      BY <1>2, <3>1
    <3>3. c \in calls[k].node + 1 .. at
      BY <1>2, <3>1, <3>2
    <3>4. source.up[c] >= x
      BY <1>2, <2>2, <3>3 DEF Progress
    <3> QED BY <1>2, <2>3, <2>4, <2>6, <3>4
  <2>7. PICK a, b, O : a = x /\ b = y /\ O = Open'
    OBVIOUS
  <2>8. /\ a \in Seen \ O /\ b \in Seen /\ source.up[a] = b /\ a # b /\ a # 1
        /\ Copies(tree, Seen, O \cup {a})
        /\ \A n \in DOMAIN tree : tree[n].kids \in Seq(DOMAIN tree)
        /\ \A c \in Seen \ (O \cup {a}) : source.up[c] = b => c < a
    BY <1>2, <1>6, <2>3, <2>4, <2>5, <2>6, <2>7 DEF Copied, TreeInv
  <2>9. Copies(Attach(tree, ID(a), ID(b)), Seen, O)
    BY <2>5, <2>8, Linking
  <2>10. tree' = Attach(tree, ID(a), ID(b))
    BY <1>2, <2>1, <2>3, <2>7
  <2>11. ~Returned'
    <3>1. Len(calls') # 0
      BY <1>2, <1>3, <1>9
    <3> QED BY <3>1 DEF Returned
  <2> QED BY <1>1, <1>4, <1>5, <1>7, <2>7, <2>9, <2>10, <2>11, CopiedAfter
<1> QED BY <1>8, <1>9

LEMMA TranslationKeeps ==
  ASSUME TreeInv, FrontendInv, Translation, FrontendNext
  PROVE  Translation'
<1>1. CASE Reject
  <2>1. /\ parses' = parses + 1 /\ root' = None /\ source' = source /\ at' = at
        /\ calls' = calls /\ counter' = counter /\ tree' = tree
    BY <1>1 DEF Reject
  <2>2. (Progress <=> Progress') /\ (Copied <=> Copied')
    BY <2>1 DEF Progress, Copied, Copies, Data, Record, Seen, Open, ID, Returned
  <2> QED BY <2>1, <2>2 DEF Translation
<1>2. CASE parses < Len(Texts) /\ \E pt \in Texts[parses + 1] : Parse(pt)
  BY <1>2, ParseCopies
<1>3. CASE EnterRule \/ EnterToken \/ EnterEOF
  <2>1. /\ HasChild /\ at' = at + 1 /\ parses' = parses /\ ~Returned /\ calls' # << >>
    BY <1>3 DEF EnterRule, EnterToken, EnterEOF, HasChild, Returned, FrontendInv
  <2>2. Progress /\ Copied /\ at \in Nat
    BY <2>1 DEF Translation, Returned, FrontendInv
  <2>3. Progress' /\ Copied'
    BY <1>3, <2>2, RuleCopies, TokenCopies, EOFCopies
  <2>4. at + 1 # 0
    BY <2>2
  <2> QED BY <2>1, <2>3, <2>4 DEF Translation, Returned
<1>4. CASE Return
  <2>1. ~Returned
    BY <1>4 DEF Return
  <2>2. Progress /\ Copied /\ at # 0
    BY <2>1 DEF Translation, Returned
  <2>3. /\ Progress' /\ Copied' /\ at' = at /\ counter' = counter /\ parses' = parses
        /\ (Returned' => root' = counter - at)
    BY <1>4, <2>2, ReturnCopies
  <2> QED BY <2>2, <2>3 DEF Translation
<1> QED BY <1>1, <1>2, <1>3, <1>4 DEF FrontendNext

LEMMA TranslationAlways == Spec => []Translation
<1>1. Init => Translation
  BY DEF Init, FrontendInit, Translation
<1>2. Inv /\ Translation /\ [Next]_vars => Translation'
  <2> SUFFICES ASSUME Inv, Translation, [Next]_vars PROVE Translation'
    OBVIOUS
  <2>1. CASE FrontendNext
    BY <2>1, TranslationKeeps DEF Inv
  <2>2. CASE UNCHANGED <<tree, frontendVars>>
    <3>1. /\ tree' = tree /\ parses' = parses /\ source' = source /\ at' = at
          /\ calls' = calls /\ counter' = counter /\ root' = root
      BY <2>2 DEF frontendVars
    <3>2. (Progress <=> Progress') /\ (Copied <=> Copied')
      BY <3>1 DEF Progress, Copied, Copies, Data, Record, Seen, Open, ID, Returned
    <3> QED BY <3>1, <3>2 DEF Translation, Returned
  <2>3. CASE CollectNext /\ UNCHANGED frontendVars
    BY <2>2, <2>3 DEF CollectNext, EnterIR, ExitIR
  <2>4. CASE QueryNext /\ UNCHANGED frontendVars
    <3>1. tree' = tree
      BY <2>4 DEF QueryNext, Fixed, Dynamic, Parent, Child, LSib, RSib, ParentUntil, Property,
                  Close, SyntaxError, End, Sibling, MoveTo, Take, Abort
    <3> QED BY <2>2, <2>4, <3>1
  <2>5. CASE Collect \/ Query \/ TakeResult \/ UNCHANGED vars
    BY <2>2, <2>5 DEF Collect, Query, TakeResult, vars
  <2> QED BY <2>1, <2>3, <2>4, <2>5 DEF Next
<1> QED BY <1>1, <1>2, InvHolds, PTL DEF Spec

(* When a translation is over, the IDs are those of the tree.               *)
LEMMA ReturnedTree ==
  ASSUME FrontendInv, Translation, Returned, root # None
  PROVE  /\ Progress /\ Copied /\ root \in Nat /\ Kept \in Nat /\ Open = {} /\ Seen = 1 .. Kept
         /\ \A p : ID(p) = root + p - 1
<1>1. at # 0 /\ root = counter - at
  BY DEF Translation
<1>2. Progress /\ Copied /\ at = Len(source.up) /\ root \in Nat
  BY <1>1 DEF Translation, Progress
<1>3. PICK L \in Nat : L = Len(source.up) /\ L >= 1
  BY <1>2 DEF Progress, InPreorder
<1>4. source.eof \in {0, L}
  BY <1>2, <1>3 DEF Progress, InPreorder
<1>5. Kept \in Nat /\ Seen = 1 .. Kept
  <2>1. CASE source.eof = 0
    BY <1>2, <1>3, <2>1 DEF Kept, Seen
  <2>2. CASE source.eof = L
    <3>1. Kept = L - 1
      <4>1. source.eof # 0
        BY <1>3, <2>2
      <4> QED BY <1>3, <4>1 DEF Kept
    <3> QED BY <1>2, <1>3, <2>2, <3>1 DEF Seen
  <2> QED BY <1>4, <2>1, <2>2
<1>6. Open = {}
  BY DEF Open, Returned
<1> QED BY <1>1, <1>2, <1>5, <1>6 DEF ID

(* Whatever the texts are and whatever has been parsed before, the front    *)
(* end returns the parse tree node by node with consecutive IDs in preorder.*)
THEOREM FrontEndTranslates == Spec => []IRIsTree
<1>1. Inv /\ Translation => IRIsTree
  <2> SUFFICES ASSUME Inv, Translation, Returned, root # None
               PROVE  /\ DOMAIN tree = {IDOf(p) : p \in 1 .. Kept}
                      /\ \A p \in 1 .. Kept :
                           /\ tree[IDOf(p)].type = source.type[p]
                           /\ tree[IDOf(p)].name = source.name[p]
                           /\ tree[IDOf(p)].label = source.label[p]
                           /\ tree[IDOf(p)].terminal = (p \notin source.rules)
                           /\ tree[IDOf(p)].up = IDOf(source.up[p])
                           /\ ToSet(tree[IDOf(p)].kids)
                                = {IDOf(c) : c \in {c \in 1 .. Kept : source.up[c] = p}}
                           /\ Ascending(tree[IDOf(p)].kids)
    BY DEF IRIsTree
  <2>1. /\ Progress /\ Copied /\ root \in Nat /\ Kept \in Nat /\ Open = {} /\ Seen = 1 .. Kept
        /\ \A p : ID(p) = root + p - 1
    BY ReturnedTree DEF Inv
  <2>2. \A p \in 1 .. Kept : IDOf(p) = ID(p)
    BY <2>1 DEF IDOf
  <2>3. ASSUME NEW p \in 1 .. Kept
        PROVE  IDOf(source.up[p]) = IF p = 1 THEN None ELSE ID(source.up[p])
    <3>1. p = 1 => source.up[p] = 0
      BY <2>1 DEF Progress, InPreorder
    <3>2. ASSUME p # 1 PROVE source.up[p] # 0
      <4>1. p \in 2 .. Len(source.up)
        <5>1. p \in Seen /\ at \in 1 .. Len(source.up) /\ source.up \in Seq(Nat)
          BY <2>1 DEF Progress, InPreorder
        <5>2. p \in 1 .. at /\ Len(source.up) \in Nat
          BY <5>1 DEF Seen
        <5> QED BY <3>2, <5>1, <5>2
      <4>2. source.up[p] \in 1 .. p - 1
        BY <2>1, <4>1 DEF Progress, InPreorder
      <4> QED BY <4>2
    <3>3. CASE p = 1
      <4>1. IDOf(source.up[p]) = None
        BY <3>1, <3>3 DEF IDOf
      <4> QED BY <3>3, <4>1
    <3>4. CASE p # 1
      <4>1. IDOf(source.up[p]) = root + source.up[p] - 1
        BY <3>2, <3>4 DEF IDOf
      <4>2. ID(source.up[p]) = root + source.up[p] - 1
        BY <2>1
      <4> QED BY <3>4, <4>1, <4>2
    <3> QED BY <3>3, <3>4
  <2>4. \A p \in 1 .. Kept :
          /\ Data(tree[ID(p)], p)
          /\ tree[ID(p)].up = IF p = 1 THEN None ELSE ID(source.up[p])
          /\ ToSet(tree[ID(p)].kids) = {ID(c) : c \in {c \in 1 .. Kept : source.up[c] = p}}
          /\ Ascending(tree[ID(p)].kids)
    <3>1. PICK S : S = 1 .. Kept
      OBVIOUS
    <3>2. Copies(tree, S, {}) /\ S \ {} = S
      BY <2>1, <3>1 DEF Copied
    <3> QED BY <3>1, <3>2 DEF Copies
  <2>5. DOMAIN tree = {IDOf(p) : p \in 1 .. Kept}
    <3>1. PICK S : S = 1 .. Kept
      OBVIOUS
    <3>2. DOMAIN tree = {ID(p) : p \in S}
      BY <2>1, <3>1 DEF Copied, Copies
    <3>3. {ID(p) : p \in S} = {IDOf(p) : p \in S}
      BY <2>2, <3>1
    <3> QED BY <3>1, <3>2, <3>3
  <2>6. ASSUME NEW p \in 1 .. Kept
        PROVE  {IDOf(c) : c \in {c \in 1 .. Kept : source.up[c] = p}}
                 = {ID(c) : c \in {c \in 1 .. Kept : source.up[c] = p}}
    BY <2>2
  <2>7. \A n, p : Data(n, p) => /\ n.type = source.type[p] /\ n.name = source.name[p]
                                /\ n.label = source.label[p]
                                /\ n.terminal = (p \notin source.rules)
    BY DEF Data, Record
  <2> QED BY <2>2, <2>3, <2>4, <2>5, <2>6, <2>7
<1> QED BY <1>1, InvHolds, TranslationAlways, PTL

-----------------------------------------------------------------------------
(* What walking needs of such a tree: a node has a larger ID than its       *)
(* parent, and between the two IDs there are only nodes below the parent.   *)
TreeOrder ==
  /\ \E lo, hi \in Int : DOMAIN tree = lo .. hi
  /\ \A n \in DOMAIN tree : /\ Ascending(tree[n].kids)
                            /\ \A c \in DOMAIN tree : c \in Kids(n) <=> tree[c].up = n
  /\ \A c \in DOMAIN tree :
       /\ tree[c].up \in Int /\ tree[c].up < c
       /\ \A m \in DOMAIN tree : tree[c].up < m /\ m < c => tree[m].up >= tree[c].up

LEMMA TreesAreInOrder ==
  ASSUME FrontendInv, Translation, Returned, root # None
  PROVE  TreeOrder
<1>1. /\ Progress /\ Copied /\ root \in Nat /\ Kept \in Nat /\ Open = {} /\ Seen = 1 .. Kept
      /\ \A p : ID(p) = root + p - 1
  BY ReturnedTree
<1>2. /\ DOMAIN tree = {root + p - 1 : p \in 1 .. Kept}
      /\ \A p \in 1 .. Kept :
          /\ tree[root + p - 1].up = IF p = 1 THEN None ELSE root + source.up[p] - 1
          /\ Kids(root + p - 1) = {root + c - 1 : c \in {c \in 1 .. Kept : source.up[c] = p}}
          /\ Ascending(tree[root + p - 1].kids)
  <2>1. PICK S : S = 1 .. Kept
    OBVIOUS
  <2>2. Copies(tree, S, {}) /\ S \ {} = S
    BY <1>1, <2>1 DEF Copied
  <2>3. /\ DOMAIN tree = {ID(p) : p \in S}
        /\ \A p \in S : /\ tree[ID(p)].up = IF p = 1 \/ p \in {} THEN None ELSE ID(source.up[p])
                        /\ Kids(ID(p)) = {ID(c) : c \in {c \in S : source.up[c] = p}}
                        /\ Ascending(tree[ID(p)].kids)
    BY <2>2 DEF Copies, Kids
  <2>4. DOMAIN tree = {root + p - 1 : p \in S}
    BY <1>1, <2>3
  <2>5. ASSUME NEW p \in S
        PROVE  /\ tree[root + p - 1].up = IF p = 1 THEN None ELSE root + source.up[p] - 1
               /\ Kids(root + p - 1) = {root + c - 1 : c \in {c \in S : source.up[c] = p}}
               /\ Ascending(tree[root + p - 1].kids)
    <3>1. {ID(c) : c \in {c \in S : source.up[c] = p}}
            = {root + c - 1 : c \in {c \in S : source.up[c] = p}}
      BY <1>1
    <3> QED BY <1>1, <2>3, <3>1
  <2> QED BY <2>1, <2>4, <2>5
<1>3. /\ source.up[1] = 0
      /\ \A p \in 2 .. Kept :
           /\ source.up[p] \in 1 .. p - 1
           /\ \A q \in source.up[p] + 1 .. p - 1 : source.up[q] >= source.up[p]
  <2>1. InPreorder(source) /\ at \in 1 .. Len(source.up)
    BY <1>1 DEF Progress
  <2>2. Len(source.up) \in Nat
    BY <2>1 DEF InPreorder
  <2>3. \A p \in 2 .. Kept : p \in 1 .. at
    <3>1. \A p \in 2 .. Kept : p \in Seen
      BY <1>1
    <3> QED BY <3>1 DEF Seen
  <2>4. \A p \in 2 .. Kept : p \in 2 .. Len(source.up)
    BY <2>1, <2>2, <2>3
  <2> QED BY <2>1, <2>4 DEF InPreorder
<1>4. \A n \in DOMAIN tree : n - root + 1 \in 1 .. Kept /\ n \in Int /\ n = root + (n - root + 1) - 1
  BY <1>1, <1>2
<1>5. DOMAIN tree = root .. root + Kept - 1
  <2>1. \A n \in root .. root + Kept - 1 : n - root + 1 \in 1 .. Kept /\ n = root + (n - root + 1) - 1
    BY <1>1
  <2>2. \A p \in 1 .. Kept : root + p - 1 \in root .. root + Kept - 1
    BY <1>1
  <2> QED BY <1>2, <2>1, <2>2
<1>6. ASSUME NEW n \in DOMAIN tree
      PROVE  tree[n].up = IF n = root THEN None ELSE root + source.up[n - root + 1] - 1
  <2>1. PICK p \in 1 .. Kept : n = root + p - 1 /\ p = n - root + 1
    BY <1>4
  <2>2. p = 1 <=> n = root
    BY <1>1, <2>1
  <2> QED BY <1>2, <2>1, <2>2
<1>7. ASSUME NEW n \in DOMAIN tree, n # root
      PROVE  /\ n - root + 1 \in 2 .. Kept /\ source.up[n - root + 1] \in 1 .. n - root
             /\ \A q \in source.up[n - root + 1] + 1 .. n - root :
                  source.up[q] >= source.up[n - root + 1]
  <2>1. PICK p \in 1 .. Kept : p = n - root + 1 /\ p # 1
    BY <1>1, <1>4, <1>7
  <2>2. p \in 2 .. Kept /\ p - 1 = n - root
    BY <1>1, <1>4, <2>1
  <2> QED BY <1>3, <2>1, <2>2
<1>8. ASSUME NEW n \in DOMAIN tree, NEW c \in DOMAIN tree
      PROVE  c \in Kids(n) <=> tree[c].up = n
  <2>1. PICK p \in 1 .. Kept : n = root + p - 1
    BY <1>4
  <2>2. PICK q \in 1 .. Kept : c = root + q - 1 /\ q = c - root + 1
    BY <1>4
  <2>3. Kids(n) = {root + d - 1 : d \in {d \in 1 .. Kept : source.up[d] = p}}
    BY <1>2, <2>1
  <2>4. c \in Kids(n) <=> source.up[q] = p
    BY <1>1, <2>2, <2>3
  <2>5. CASE q = 1
    <3>1. tree[c].up = None /\ source.up[q] = 0
      BY <1>2, <1>3, <2>2, <2>5
    <3> QED BY <1>1, <2>1, <2>4, <3>1 DEF None
  <2>6. CASE q # 1
    <3>1. tree[c].up = root + source.up[q] - 1 /\ source.up[q] \in Int
      <4>1. q \in 2 .. Kept
        BY <1>1, <2>6
      <4> QED BY <1>2, <1>3, <2>2, <2>6, <4>1
    <3> QED BY <1>1, <2>1, <2>4, <3>1
  <2> QED BY <2>5, <2>6
<1>9. ASSUME NEW c \in DOMAIN tree
      PROVE  /\ tree[c].up \in Int /\ tree[c].up < c
             /\ \A m \in DOMAIN tree : tree[c].up < m /\ m < c => tree[m].up >= tree[c].up
  <2>1. CASE c = root
    <3>1. tree[c].up = -1
      BY <1>6, <2>1 DEF None
    <3>2. \A m \in DOMAIN tree : m >= c
      BY <1>1, <1>5, <2>1
    <3> QED BY <1>1, <1>5, <2>1, <3>1, <3>2
  <2>2. CASE c # root
    <3>1. PICK u \in Int : u = source.up[c - root + 1]
      BY <1>7, <2>2
    <3>2. tree[c].up = root + u - 1 /\ u \in 1 .. c - root /\ c \in Int
          /\ \A q \in u + 1 .. c - root : source.up[q] >= u
      BY <1>4, <1>6, <1>7, <2>2, <3>1
    <3>3. ASSUME NEW m \in DOMAIN tree, tree[c].up < m, m < c PROVE tree[m].up >= tree[c].up
      <4>1. m \in Int /\ m # root
        BY <1>1, <1>4, <3>2, <3>3
      <4>2. PICK v \in Int : v = source.up[m - root + 1]
        BY <1>7, <4>1
      <4>3. m - root + 1 \in u + 1 .. c - root
        BY <1>1, <3>2, <3>3, <4>1
      <4>4. v >= u /\ tree[m].up = root + v - 1
        BY <1>6, <3>2, <4>1, <4>2, <4>3
      <4> QED BY <1>1, <3>2, <4>4
    <3> QED BY <1>1, <3>2, <3>3
  <2> QED BY <2>1, <2>2
<1>10. \A n \in DOMAIN tree : Ascending(tree[n].kids)
  BY <1>2
<1>11. root \in Int /\ root + Kept - 1 \in Int
  BY <1>1
<1> QED BY <1>5, <1>8, <1>9, <1>10, <1>11 DEF TreeOrder

-----------------------------------------------------------------------------
(* A walk in such a tree reaches the nodes by ascending IDs, so that at any *)
(* time the nodes reached are an interval from the root to the last one, k, *)
(* and the children still to come are beyond it.                            *)
Reached == Exited \cup {frames[i].node : i \in 1 .. Len(frames)}

Upto(n, w, k) ==
  /\ n \notin Exited /\ n .. k \subseteq Subtree(n)
  /\ \A j \in 1 .. Len(tree[n].kids) : j > w => tree[n].kids[j] > k

Walked(k) ==
  /\ Reached = job.root .. k
  /\ job.what # "all_conditional" => current = k
  /\ \A i \in 1 .. Len(frames) : Upto(frames[i].node, frames[i].walked, k)
  /\ \A i \in 1 .. Len(frames) : \A h \in 1 .. i - 1 : frames[h].node < frames[i].node

Bounds(n, k) == Subtree(n) = {m \in DOMAIN tree : n <= m /\ m <= k}

MaxIDs ==
  /\ IsInjective(found)
  /\ DOMAIN maxID = IF job.what = "all_conditional" THEN {} ELSE Exited
  /\ \A n \in DOMAIN maxID : Bounds(n, maxID[n])

WalkOrder ==
  job # NoJob => Returned /\ root # None /\ MaxIDs /\ \E k \in Int : Walked(k)

(* A child that is entered is the node after the last one reached.          *)
LEMMA NextReached ==
  ASSUME TreeInv, TreeOrder, JobOK, Stack, Left, EnterIR, NEW k \in Int, Walked(k)
  PROVE  tree[Frame.node].kids[Frame.walked + 1] = k + 1
<1> DEFINE n == Frame.node
           w == Frame.walked
           kids == tree[n].kids
           c == kids[w + 1]
           L == Len(frames)
<1>1. /\ n \in DOMAIN tree /\ w \in Nat /\ L \in 1 .. L /\ frames[L] = Frame
      /\ kids \in Seq(DOMAIN tree) /\ Len(kids) \in Nat /\ w + 1 \in 1 .. Len(kids)
      /\ c \in DOMAIN tree /\ c \in Kids(n)
  BY EnteredFrames
<1>2. PICK lo, hi \in Int : DOMAIN tree = lo .. hi
  BY DEF TreeOrder
<1>3. DOMAIN kids = 1 .. Len(kids) /\ Ascending(kids) /\ tree[c].up = n
  <2>1. PICK s \in Seq(DOMAIN tree) : s = kids
    BY <1>1
  <2>2. Ascending(kids) /\ tree[c].up = n
    BY <1>1 DEF TreeOrder
  <2> QED BY <2>1, <2>2
<1>4. Reached = job.root .. k /\ n \in Reached /\ Exited \subseteq Reached
  BY <1>1 DEF Walked, Reached
<1>5. Upto(n, w, k)
  BY <1>1 DEF Walked
<1>6. c > k
  BY <1>1, <1>5 DEF Upto
<1>7. \A i \in 1 .. L : frames[i].node <= n
  <2> SUFFICES ASSUME NEW i \in 1 .. L PROVE frames[i].node <= n
    OBVIOUS
  <2>1. CASE i = L
    BY <1>1, <1>2, <2>1
  <2>2. CASE i # L
    <3>1. i \in 1 .. L - 1
      BY <1>1, <2>2
    <3>2. frames[i].node < frames[L].node
      BY <1>1, <3>1 DEF Walked
    <3>3. frames[i].node \in job.root .. k /\ job.root \in Int /\ n \in Int
      <4>1. frames[i].node \in Reached
        BY DEF Reached
      <4>2. job.root \in Int /\ n \in Int
        BY <1>1, <1>2 DEF JobOK
      <4> QED BY <1>4, <4>1, <4>2
    <3>4. frames[i].node \in Int /\ frames[L].node = n
      BY <1>1, <3>3
    <3> QED BY <3>2, <3>3, <3>4
  <2> QED BY <2>1, <2>2
<1>8. \A j \in 1 .. Len(kids) : j <= w => kids[j] \in Exited
  <2>1. \A j \in 1 .. Len(tree[frames[L].node].kids) :
          j < frames[L].walked \/ j = frames[L].walked
            => tree[frames[L].node].kids[j] \in Exited
    BY <1>1 DEF Stack
  <2> QED BY <1>1, <2>1
<1> HIDE DEF n, w, kids, c, L
<1> SUFFICES ASSUME c # k + 1 PROVE FALSE
  BY DEF n, w, kids, c
<1>9. /\ n \in Int /\ c \in Int /\ n <= k /\ k + 1 < c /\ n < k + 1
      /\ k + 1 \in DOMAIN tree /\ k + 1 \notin Reached
  BY <1>1, <1>2, <1>4, <1>6
<1>10. PICK u \in Int : u = tree[k + 1].up /\ u < k + 1 /\ u >= n
  <2>1. PICK m \in DOMAIN tree : m = k + 1 /\ n < m /\ m < c
    BY <1>9
  <2>2. tree[m].up \in Int /\ tree[m].up < m /\ tree[m].up >= tree[c].up
    BY <1>1, <1>3, <2>1 DEF TreeOrder
  <2>3. PICK v \in Int : v = tree[m].up
    BY <2>2
  <2> QED BY <1>3, <2>1, <2>2, <2>3
<1>11. u \in DOMAIN tree /\ u \in Reached
  <2>1. job.root \in Int /\ job.root <= n /\ u <= k /\ lo <= n /\ c <= hi
    BY <1>1, <1>2, <1>4, <1>9, <1>10 DEF JobOK
  <2>2. u \in lo .. hi /\ u \in job.root .. k
    BY <1>9, <1>10, <2>1
  <2> QED BY <1>2, <1>4, <2>2
<1>12. k + 1 \in Kids(u)
  BY <1>9, <1>10, <1>11 DEF TreeOrder
<1>13. CASE u = n
  <2>1. PICK j \in 1 .. Len(kids) : kids[j] = k + 1
    BY <1>3, <1>12, <1>13 DEF Kids, ToSet, kids
  <2>2. ~(w + 1 < j) /\ j # w + 1
    BY <1>1, <1>3, <1>9, <2>1 DEF Ascending, c
  <2>3. j <= w
    BY <1>1, <2>1, <2>2
  <2> QED BY <1>4, <1>8, <1>9, <2>1, <2>3
<1>14. CASE u # n
  <2>1. u \notin {frames[i].node : i \in 1 .. L}
    BY <1>7, <1>9, <1>10, <1>14
  <2>2. u \in Exited
    BY <1>11, <2>1 DEF Reached, L
  <2>3. k + 1 \in Exited
    BY <1>12, <2>2 DEF Left, Closed
  <2> QED BY <1>4, <1>9, <2>3
<1> QED BY <1>13, <1>14

LEMMA OrderEntering ==
  ASSUME TreeInv, TreeOrder, JobOK, Stack, Left, EnterIR, NEW k \in Int, Walked(k)
  PROVE  Walked(k + 1)'
<1> DEFINE n == Frame.node
           w == Frame.walked
           kids == tree[n].kids
           L == Len(frames)
<1>1. /\ n \in DOMAIN tree /\ w \in Nat /\ L \in Nat /\ L \in 1 .. L /\ frames[L] = Frame
      /\ kids \in Seq(DOMAIN tree) /\ Len(kids) \in Nat /\ w + 1 \in 1 .. Len(kids)
      /\ k + 1 \in DOMAIN tree /\ k + 1 \in Kids(n) /\ kids[w + 1] = k + 1
  BY EnteredFrames, NextReached
<1>2. /\ Len(frames') = L + 1
      /\ frames'[L + 1].node = k + 1 /\ frames'[L + 1].walked = 0
      /\ frames'[L].node = n /\ frames'[L].walked = w + 1
      /\ \A i \in 1 .. L : i # L => frames'[i] = frames[i]
  BY EnteredFrames, NextReached
<1>3. /\ tree' = tree /\ job' = job /\ Exited' = Exited
      /\ \A x : Subtree(x)' = Subtree(x)
      /\ (job.what # "all_conditional" => current' = k + 1)
  <2>1. tree' = tree /\ job' = job /\ found' = found /\ filtered' = filtered
    BY DEF EnterIR
  <2>2. job.what # "all_conditional" => current' = tree[Frame.node].kids[Frame.walked + 1]
    BY DEF EnterIR
  <2> QED BY <2>1, <2>2, NextReached, SameTree DEF Exited
<1>4. Reached = job.root .. k /\ Exited \subseteq Reached
      /\ \A i \in 1 .. L : frames[i].node \in Reached
  BY DEF Walked, Reached
<1>5. \A i \in 1 .. L : frames'[i].node = frames[i].node
  BY <1>1, <1>2
<1>6. PICK lo, hi \in Int : DOMAIN tree = lo .. hi
  BY DEF TreeOrder
<1>7. /\ \A i \in 1 .. L : Upto(frames[i].node, frames[i].walked, k)
      /\ \A i \in 1 .. L : \A h \in 1 .. i - 1 : frames[h].node < frames[i].node
  BY DEF Walked
<1> HIDE DEF n, w, kids, L
<1>8. n \in Int /\ job.root \in Int /\ job.root <= k /\ n <= k /\ frames[L].node = n
      /\ frames[L].walked = w
  BY <1>1, <1>4, <1>6 DEF JobOK, n, w
<1>9. Reached' = job'.root .. k + 1
  <2>1. {frames'[i].node : i \in 1 .. L + 1} = {frames[i].node : i \in 1 .. L} \cup {k + 1}
    <3>1. \A i \in 1 .. L + 1 : i = L + 1 \/ i \in 1 .. L
      BY <1>1
    <3>2. L + 1 \in 1 .. L + 1 /\ \A i \in 1 .. L : i \in 1 .. L + 1
      BY <1>1
    <3> QED BY <1>2, <1>5, <3>1, <3>2
  <2>2. Reached' = Reached \cup {k + 1}
    BY <1>2, <1>3, <2>1 DEF Reached, L
  <2>3. \A x : x \in job.root .. k + 1 <=> x \in job.root .. k \/ x = k + 1
    BY <1>8
  <2> QED BY <1>3, <1>4, <2>2, <2>3
<1>10. Upto(k + 1, 0, k + 1)
  <2>1. k + 1 \notin Exited
    BY <1>4
  <2>2. k + 1 .. k + 1 \subseteq Subtree(k + 1)
    BY <1>1, SubtreeFacts
  <2>3. ASSUME NEW j \in 1 .. Len(tree[k + 1].kids) PROVE tree[k + 1].kids[j] > k + 1
    <3>1. PICK s \in Seq(DOMAIN tree) : s = tree[k + 1].kids
      BY <1>1 DEF TreeInv
    <3>2. s[j] \in DOMAIN tree /\ j \in DOMAIN s
      BY <2>3, <3>1
    <3>3. s[j] \in Kids(k + 1)
      BY <3>1, <3>2 DEF Kids, ToSet
    <3>4. tree[s[j]].up = k + 1 /\ tree[s[j]].up < s[j]
      BY <1>1, <3>2, <3>3 DEF TreeOrder
    <3> QED BY <1>6, <3>1, <3>2, <3>4
  <2> QED BY <2>1, <2>2, <2>3 DEF Upto
<1>11. Upto(n, w + 1, k + 1)
  <2>1. Upto(n, w, k)
    BY <1>1, <1>7, <1>8
  <2>2. Closed(Subtree(n)) /\ n \in Subtree(n)
    BY <1>1, SubtreeFacts
  <2>3. k + 1 \in Subtree(n)
    BY <1>1, <2>2 DEF Closed
  <2>4. n .. k + 1 \subseteq Subtree(n)
    BY <1>8, <2>1, <2>3 DEF Upto
  <2>5. DOMAIN kids = 1 .. Len(kids) /\ Ascending(kids)
    <3>1. PICK s \in Seq(DOMAIN tree) : s = kids
      BY <1>1
    <3> QED BY <1>1, <3>1 DEF TreeOrder, kids
  <2>6. \A j \in 1 .. Len(kids) : j > w + 1 => kids[j] > k + 1
    <3> SUFFICES ASSUME NEW j \in 1 .. Len(kids), j > w + 1 PROVE kids[j] > k + 1
      OBVIOUS
    <3>1. kids[w + 1] < kids[j]
      BY <1>1, <2>5 DEF Ascending
    <3>2. kids[j] \in DOMAIN tree
      <4>1. PICK s \in Seq(DOMAIN tree) : s = kids
        BY <1>1
      <4> QED BY <4>1
    <3> QED BY <1>1, <1>6, <3>1, <3>2
  <2> QED BY <2>1, <2>4, <2>6 DEF Upto, kids
<1>12. ASSUME NEW i \in 1 .. L, i # L
       PROVE  Upto(frames[i].node, frames[i].walked, k + 1)
  <2>1. PICK m \in DOMAIN tree : m = frames[i].node
    BY <1>4, <1>6 DEF Stack, JobOK, Subtree, L
  <2>2. PICK v : v = frames[i].walked
    OBVIOUS
  <2>3. Upto(m, v, k) /\ m < n
    <3>1. L \in 1 .. L /\ i \in 1 .. L - 1
      BY <1>1, <1>12
    <3> QED BY <1>7, <1>8, <2>1, <2>2, <3>1
  <2>4. n \in Subtree(m) /\ Closed(Subtree(m))
    BY <1>6, <1>8, <2>1, <2>3, SubtreeFacts DEF Upto
  <2>5. k + 1 \in Subtree(m)
    BY <1>1, <2>4 DEF Closed
  <2>6. m .. k + 1 \subseteq Subtree(m)
    BY <1>6, <2>1, <2>3, <2>5 DEF Upto
  <2>7. ASSUME NEW j \in 1 .. Len(tree[m].kids), j > v PROVE tree[m].kids[j] > k + 1
    <3>1. PICK s \in Seq(DOMAIN tree) : s = tree[m].kids
      BY <2>1 DEF TreeInv
    <3>2. s[j] \in DOMAIN tree /\ j \in DOMAIN s /\ s[j] > k
      BY <2>3, <2>7, <3>1 DEF Upto
    <3>3. s[j] \in Kids(m)
      BY <3>1, <3>2 DEF Kids, ToSet
    <3>4. tree[s[j]].up = m
      BY <2>1, <3>2, <3>3 DEF TreeOrder
    <3>5. tree[k + 1].up = n
      BY <1>1 DEF TreeOrder
    <3>6. s[j] # k + 1
      BY <1>6, <1>8, <2>1, <2>3, <3>4, <3>5
    <3> QED BY <1>6, <3>1, <3>2, <3>6
  <2> QED BY <2>1, <2>2, <2>3, <2>6, <2>7 DEF Upto
<1>13. ASSUME NEW i \in 1 .. L + 1
       PROVE  Upto(frames'[i].node, frames'[i].walked, k + 1)
  <2>1. CASE i = L + 1
    BY <1>2, <1>10, <2>1
  <2>2. CASE i = L
    BY <1>2, <1>11, <2>2
  <2>3. CASE i # L /\ i # L + 1
    <3>1. i \in 1 .. L /\ frames'[i] = frames[i]
      BY <1>1, <1>2, <2>3
    <3> QED BY <1>12, <2>3, <3>1
  <2> QED BY <2>1, <2>2, <2>3
<1>14. ASSUME NEW i \in 1 .. L + 1, NEW h \in 1 .. i - 1
       PROVE  frames'[h].node < frames'[i].node
  <2>1. h \in 1 .. L
    BY <1>1
  <2>2. CASE i = L + 1
    <3>1. frames'[h].node \in job.root .. k
      BY <1>4, <1>5, <2>1
    <3> QED BY <1>2, <1>8, <2>2, <3>1
  <2>3. CASE i # L + 1
    BY <1>1, <1>5, <1>7, <2>1, <2>3
  <2> QED BY <2>2, <2>3
<1>15. ASSUME NEW i \in 1 .. L + 1
       PROVE  Upto(frames[i].node, frames[i].walked, k + 1)'
  BY <1>3, <1>13 DEF Upto
<1> QED BY <1>2, <1>3, <1>9, <1>14, <1>15 DEF Walked

(* The subtree of a node that is left is what has been reached from it on.  *)
LEMMA OrderLeaving ==
  ASSUME TreeInv, TreeOrder, JobOK, Stack, Left, Remembered, MaxIDs, ExitIR,
         NEW k \in Int, Walked(k)
  PROVE  Walked(k)' /\ MaxIDs'
<1> DEFINE n == Frame.node
           L == Len(frames)
<1>1. /\ tree' = tree /\ job' = job /\ current' = current /\ frames' = Front(frames)
      /\ frames # << >>
  BY DEF ExitIR, Walking
<1>2. /\ L \in Nat /\ L >= 1 /\ L \in 1 .. L /\ frames[L] = Frame /\ n \in DOMAIN tree
  BY <1>1, TopFacts
<1>3. Len(frames') = L - 1 /\ \A i \in 1 .. L - 1 : frames'[i] = frames[i]
  <2> DEFINE R == [node : DOMAIN tree, walked : Nat]
  <2>1. frames \in Seq(R)
    BY DEF Stack
  <2> HIDE DEF R
  <2> QED BY <1>1, <2>1, FrontFacts
<1>4. /\ Exited' = Exited \cup {n} /\ found \in Seq(DOMAIN tree) /\ n \notin Exited
      /\ (found' = found \/ found' = Append(found, n))
      /\ maxID' = IF job.what = "all_conditional" THEN maxID ELSE Put(maxID, n, current)
  <2>1. Upto(n, Frame.walked, k)
    BY <1>2 DEF Walked
  <2> QED BY <2>1, Decided DEF Left, Upto, ExitIR, SetMaxID, MaxIDOnExit
<1>5. PICK lo, hi \in Int : DOMAIN tree = lo .. hi
  BY DEF TreeOrder
<1>6. /\ Reached = job.root .. k /\ n \in Reached /\ Exited \subseteq Reached
      /\ job.root \in Int /\ n \in Int
  BY <1>2, <1>5 DEF Walked, Reached, JobOK
<1>7. \A x : Subtree(x)' = Subtree(x)
  BY <1>1, SameTree
<1>8. /\ \A i \in 1 .. L : Upto(frames[i].node, frames[i].walked, k)
      /\ \A i \in 1 .. L : \A h \in 1 .. i - 1 : frames[h].node < frames[i].node
  BY DEF Walked
<1>9. Bounds(n, k)
  <2>1. n .. k \subseteq Subtree(n)
    BY <1>2, <1>8 DEF Upto
  <2>2. Exited \cup {n} \in SUBSET DOMAIN tree /\ Closed(Exited \cup {n})
    <3>1. Kids(n) \subseteq Exited
      BY <1>1, KidsHaveLeft
    <3> QED BY <1>2, <3>1 DEF Left, Closed, Exited, ToSet
  <2> DEFINE S == {m \in DOMAIN tree : n <= m}
  <2>3. Closed(S)
    <3> SUFFICES ASSUME NEW m \in S, NEW c \in Kids(m) PROVE c \in S
      BY DEF Closed
    <3>1. c \in DOMAIN tree
      BY SubtreeFacts
    <3>2. tree[c].up = m /\ m < c
      BY <3>1 DEF TreeOrder
    <3> QED BY <1>5, <1>6, <3>1, <3>2
  <2>4. Subtree(n) \subseteq Exited \cup {n}
    BY <1>2, <2>2, SubtreeFacts
  <2>5. Subtree(n) \subseteq S
    <3>1. n \in S /\ S \in SUBSET DOMAIN tree
      BY <1>2, <1>6
    <3> HIDE DEF S
    <3> QED BY <1>2, <2>3, <3>1, SubtreeFacts
  <2>6. \A m \in Subtree(n) : m \in DOMAIN tree /\ n <= m /\ m <= k
    BY <1>5, <1>6, <2>4, <2>5
  <2>7. \A m \in DOMAIN tree : n <= m /\ m <= k => m \in Subtree(n)
    BY <1>5, <1>6, <2>1
  <2> QED BY <2>6, <2>7 DEF Bounds
<1> HIDE DEF n, L
<1>10. Reached' = Reached
  <2>1. {frames[i].node : i \in 1 .. L} = {frames'[i].node : i \in 1 .. L - 1} \cup {n}
    <3>1. \A i \in 1 .. L : i = L \/ i \in 1 .. L - 1
      BY <1>2
    <3>2. frames[L].node = n /\ \A i \in 1 .. L - 1 : i \in 1 .. L
      BY <1>2 DEF n
    <3> QED BY <1>2, <1>3, <3>1, <3>2
  <2> QED BY <1>3, <1>4, <2>1 DEF Reached, L
<1>11. ASSUME NEW i \in 1 .. L - 1
       PROVE  Upto(frames[i].node, frames[i].walked, k)'
  <2>1. i \in 1 .. L /\ L \in 1 .. L /\ i \in 1 .. L - 1 /\ frames[L].node = n
    BY <1>2 DEF n
  <2>2. frames[i].node < n
    BY <1>8, <2>1
  <2>3. frames[i].node \notin Exited \cup {n}
    BY <1>6, <1>8, <2>1, <2>2 DEF Upto
  <2> QED BY <1>1, <1>3, <1>4, <1>7, <1>8, <2>1, <2>3 DEF Upto
<1>12. Walked(k)'
  <2>1. \A i \in 1 .. L - 1 : \A h \in 1 .. i - 1 : frames'[h].node < frames'[i].node
    <3>1. \A i \in 1 .. L - 1 : i \in 1 .. L /\ \A h \in 1 .. i - 1 : h \in 1 .. L - 1
      BY <1>2
    <3> QED BY <1>3, <1>8, <3>1
  <2> QED BY <1>1, <1>3, <1>6, <1>10, <1>11, <2>1 DEF Walked
<1>13. IsInjective(found)'
  <2>1. CASE found' = found
    BY <2>1 DEF MaxIDs, IsInjective
  <2>2. CASE found' = Append(found, n)
    <3>1. PICK l \in Nat : l = Len(found)
      BY <1>4
    <3>2. /\ DOMAIN found' = 1 .. l + 1 /\ DOMAIN found = 1 .. l
          /\ found'[l + 1] = n /\ \A i \in 1 .. l : found'[i] = found[i]
      BY <1>4, <2>2, <3>1
    <3>3. \A i \in 1 .. l : found[i] \in Exited
      BY <3>2 DEF Exited, ToSet
    <3>4. \A i \in 1 .. l + 1 : i = l + 1 \/ i \in 1 .. l
      OBVIOUS
    <3> QED BY <1>4, <3>2, <3>3, <3>4 DEF MaxIDs, IsInjective
  <2> QED BY <1>4, <2>1, <2>2
<1>14. /\ DOMAIN maxID' = IF job'.what = "all_conditional" THEN {} ELSE Exited'
       /\ \A x \in DOMAIN maxID' : Bounds(x, maxID'[x])
  <2>1. CASE job.what = "all_conditional"
    BY <1>1, <1>4, <2>1 DEF MaxIDs
  <2>2. CASE job.what # "all_conditional"
    <3>1. maxID' = Put(maxID, n, k)
      BY <1>4, <2>2 DEF Walked
    <3>2. /\ DOMAIN maxID' = DOMAIN maxID \cup {n} /\ maxID'[n] = k
          /\ \A x \in DOMAIN maxID : x # n => maxID'[x] = maxID[x]
      BY <3>1 DEF Put
    <3>3. DOMAIN maxID = Exited /\ \A x \in DOMAIN maxID : Bounds(x, maxID[x])
      BY <2>2 DEF MaxIDs
    <3> QED BY <1>1, <1>4, <1>9, <2>2, <3>2, <3>3
  <2> QED BY <2>1, <2>2
<1>15. \A x, y : Bounds(x, y)' <=> Bounds(x, y)
  BY <1>1, <1>7 DEF Bounds
<1>16. MaxIDs'
  BY <1>13, <1>14, <1>15 DEF MaxIDs
<1> QED BY <1>12, <1>16

LEMMA OrderStarts ==
  ASSUME TreeInv, TreeOrder, Returned, root # None, NEW c \in Calls, NEW n \in DOMAIN tree,
         StartWalk(c, n), tree' = tree, UNCHANGED frontendVars
  PROVE  WalkOrder'
<1>1. /\ job' = [what |-> c.what, arg |-> c.arg, type |-> c.type, root |-> n]
      /\ frames' = <<[node |-> n, walked |-> 0]>>
      /\ found' = << >> /\ filtered' = {} /\ maxID' = << >>
      /\ current' = IF c.what = "all_conditional" THEN None ELSE n
  BY DEF StartWalk, Listen
<1>2. Exited' = {} /\ MaxIDs'
  <2>1. Exited' = {}
    BY <1>1 DEF Exited, ToSet
  <2>2. DOMAIN << >> = {}
    OBVIOUS
  <2>3. IsInjective(found)'
    BY <1>1, <2>2 DEF IsInjective
  <2>4. DOMAIN maxID' = {}
    BY <1>1, <2>2
  <2> QED BY <2>1, <2>3, <2>4 DEF MaxIDs
<1>3. PICK lo, hi \in Int : DOMAIN tree = lo .. hi
  BY DEF TreeOrder
<1>4. Len(frames') = 1 /\ frames'[1].node = n /\ frames'[1].walked = 0
  <2> DEFINE r == [node |-> n, walked |-> 0]
  <2>1. r.node = n /\ r.walked = 0
    OBVIOUS
  <2> HIDE DEF r
  <2>2. frames' = <<r>>
    BY <1>1 DEF r
  <2> QED BY <2>1, <2>2
<1>5. n \in Int /\ job'.root = n /\ job'.what = c.what
  BY <1>1, <1>3
<1>6. Reached' = job'.root .. n
  <2>1. Reached' = {n}
    BY <1>2, <1>4 DEF Reached
  <2>2. n .. n = {n}
    BY <1>5
  <2> QED BY <1>5, <2>1, <2>2
<1>7. n \notin Exited' /\ n .. n \subseteq Subtree(n)
      /\ \A j \in 1 .. Len(tree[n].kids) : tree[n].kids[j] > n
  <2>1. n .. n \subseteq Subtree(n)
    BY <1>5, SubtreeFacts
  <2>2. ASSUME NEW j \in 1 .. Len(tree[n].kids) PROVE tree[n].kids[j] > n
    <3>1. PICK s \in Seq(DOMAIN tree) : s = tree[n].kids
      BY DEF TreeInv
    <3>2. s[j] \in DOMAIN tree /\ j \in DOMAIN s
      BY <2>2, <3>1
    <3>3. s[j] \in Kids(n)
      BY <3>1, <3>2 DEF Kids, ToSet
    <3>4. tree[s[j]].up = n /\ tree[s[j]].up < s[j]
      BY <3>2, <3>3 DEF TreeOrder
    <3> QED BY <1>3, <1>5, <3>1, <3>2, <3>4
  <2> QED BY <1>2, <2>1, <2>2
<1>8. Subtree(n)' = Subtree(n)
  BY DEF Subtree, Closed, Kids
<1>9. Upto(n, 0, n)'
  BY <1>7, <1>8 DEF Upto
<1>10. Walked(n)'
  <2>1. ASSUME NEW i \in 1 .. 1 PROVE Upto(frames[i].node, frames[i].walked, n)'
    <3>1. i = 1
      OBVIOUS
    <3> QED BY <1>4, <1>9, <3>1 DEF Upto
  <2>2. \A i \in 1 .. 1 : \A h \in 1 .. i - 1 : frames'[h].node < frames'[i].node
    OBVIOUS
  <2> QED BY <1>1, <1>4, <1>5, <1>6, <2>1, <2>2 DEF Walked
<1>11. Returned' /\ root' # None
  BY DEF Returned, frontendVars
<1> QED BY <1>2, <1>5, <1>10, <1>11 DEF WalkOrder

LEMMA OrderRests ==
  ASSUME WalkOrder, tree' = tree, UNCHANGED frontendVars, UNCHANGED walkVars
  PROVE  WalkOrder'
<1>1. /\ job' = job /\ frames' = frames /\ found' = found /\ filtered' = filtered
      /\ current' = current /\ maxID' = maxID /\ calls' = calls /\ root' = root
  BY DEF walkVars, frontendVars
<1>2. Exited' = Exited /\ Reached' = Reached /\ \A x : Subtree(x)' = Subtree(x)
  BY <1>1, SameTree DEF Exited, Reached
<1>3. MaxIDs => MaxIDs'
  BY <1>1, <1>2 DEF MaxIDs, Bounds
<1>4. \A k \in Int : Walked(k) => Walked(k)'
  BY <1>1, <1>2 DEF Walked, Upto
<1> QED BY <1>1, <1>3, <1>4 DEF WalkOrder, Returned

LEMMA OrderAlways == Spec => []WalkOrder
<1>1. Init => WalkOrder
  BY DEF Init, CollectInit, WalkOrder
<1>2. Inv /\ Translation /\ WalkOrder /\ [Next]_vars => WalkOrder'
  <2> SUFFICES ASSUME Inv, Translation, WalkOrder, [Next]_vars PROVE WalkOrder'
    OBVIOUS
  <2>1. CASE job = NoJob /\ UNCHANGED walkVars
    BY <2>1 DEF walkVars, WalkOrder
  <2>2. CASE tree' = tree /\ UNCHANGED frontendVars /\ UNCHANGED walkVars
    BY <2>2, OrderRests
  <2>3. CASE Collect
    <3>1. Ready /\ tree' = tree /\ UNCHANGED frontendVars
      BY <2>3 DEF Collect
    <3>2. PICK c \in Calls, n \in DOMAIN tree : StartWalk(c, n)
      BY <2>3 DEF Collect
    <3>3. TreeInv /\ TreeOrder /\ Returned /\ root # None
      BY <3>1, TreesAreInOrder DEF Inv, Ready
    <3> QED BY <3>1, <3>2, <3>3, OrderStarts
  <2>4. CASE TakeResult
    BY <2>4 DEF TakeResult, EndWalk, Listen, WalkOrder
  <2>5. CASE CollectNext /\ UNCHANGED frontendVars
    <3>1. job # NoJob /\ job' = job /\ Returned /\ root # None /\ Returned' /\ root' # None
      BY <2>5 DEF CollectNext, EnterIR, ExitIR, Walking, WalkOrder, Returned, frontendVars
    <3>2. /\ TreeInv /\ TreeOrder /\ JobOK /\ Stack /\ Left /\ Remembered /\ MaxIDs
      BY <3>1, TreesAreInOrder DEF Inv, WalkInv, WalkOrder
    <3>3. PICK k \in Int : Walked(k)
      BY <3>1 DEF WalkOrder
    <3>4. CASE EnterIR
      <4>1. Walked(k + 1)' /\ k + 1 \in Int
        BY <3>2, <3>3, <3>4, OrderEntering
      <4>2. MaxIDs'
        <5>1. /\ tree' = tree /\ job' = job /\ found' = found /\ filtered' = filtered
              /\ maxID' = maxID
          BY <3>4 DEF EnterIR
        <5> QED BY <3>2, <5>1, SameTree DEF MaxIDs, Bounds, Exited
      <4> QED BY <3>1, <4>1, <4>2 DEF WalkOrder
    <3>5. CASE ExitIR
      BY <3>1, <3>2, <3>3, <3>5, OrderLeaving DEF WalkOrder
    <3> QED BY <2>5, <3>4, <3>5 DEF CollectNext
  <2>6. CASE QueryNext /\ UNCHANGED <<frontendVars, walkVars>>
    <3>1. tree' = tree
      BY <2>6 DEF QueryNext, Fixed, Dynamic, Parent, Child, LSib, RSib, ParentUntil, Property,
                  Close, SyntaxError, End, Sibling, MoveTo, Take, Abort
    <3> QED BY <2>2, <2>6, <3>1
  <2>7. CASE Query \/ UNCHANGED vars
    BY <2>2, <2>7 DEF Query, vars
  <2> QED BY <2>1, <2>3, <2>4, <2>5, <2>6, <2>7 DEF Next
<1> QED BY <1>1, <1>2, InvHolds, TranslationAlways, PTL DEF Spec

(* Whatever tree the front end has returned, and wherever a walk starts in  *)
(* it: every node of the subtree is left once, and the largest ID kept for  *)
(* a node bounds exactly its own subtree.                                   *)
THEOREM WalksBoundSubtrees == Spec => []SubtreesAreIntervals
<1>1. Inv /\ WalkOrder => SubtreesAreIntervals
  <2> SUFFICES ASSUME Inv, WalkOrder, Finished
               PROVE  /\ Exited = Subtree(job.root) /\ IsInjective(found)
                      /\ \A n \in DOMAIN maxID : Bounds(n, maxID[n])
                      /\ job.what # "all_conditional" => DOMAIN maxID = Subtree(job.root)
    BY DEF SubtreesAreIntervals, Exited, Bounds
  <2>1. JobOK /\ Left /\ TreeInv /\ MaxIDs /\ frames = << >>
    BY DEF Inv, WalkInv, WalkOrder, Finished
  <2>2. Exited = Subtree(job.root)
    BY <2>1, SubtreeFacts DEF Left, JobOK
  <2> QED BY <2>1, <2>2 DEF MaxIDs
<1> QED BY <1>1, InvHolds, OrderAlways, PTL

-----------------------------------------------------------------------------
(***************************************************************************)
(* Context queries.                                                         *)
(***************************************************************************)
(* A set of natural numbers that is not empty has a least element.          *)
LEMMA LeastOf ==
  ASSUME NEW T, T \subseteq Nat, T # {}
  PROVE  \E x \in T : \A y \in T : x <= y
<1> DEFINE R == OpToRel(<, Nat)
<1>1. IsWellFoundedOn(R, Nat)
  BY NatLessThanWellFounded
<1>2. PICK x \in T : \A y \in T : ~(<<y, x>> \in R)
  <2> HIDE DEF R
  <2> QED BY <1>1, WFMin
<1>3. \A y \in T : ~(y < x)
  BY <1>2 DEF OpToRel
<1> QED BY <1>3

(* Between two places of an ascending sequence there are as many elements   *)
(* as places.                                                               *)
LEMMA PlacesBetween ==
  ASSUME NEW s \in Seq(Nat), Ascending(s), NEW i \in 1 .. Len(s), NEW j \in 1 .. Len(s), i <= j
  PROVE  Between(ToSet(s), s[i], s[j]) = j - i
<1> DEFINE T == {x \in ToSet(s) : s[i] <= x /\ x < s[j]}
           f == [k \in 1 .. j - i |-> s[i + k - 1]]
<1>1. Len(s) \in Nat /\ DOMAIN s = 1 .. Len(s) /\ \A k \in 1 .. Len(s) : s[k] \in Nat
  OBVIOUS
<1>2. \A k, l \in 1 .. Len(s) : (k < l => s[k] < s[l]) /\ (k <= l => s[k] <= s[l])
  <2> SUFFICES ASSUME NEW k \in 1 .. Len(s), NEW l \in 1 .. Len(s)
               PROVE  (k < l => s[k] < s[l]) /\ (k <= l => s[k] <= s[l])
    OBVIOUS
  <2>1. k < l => s[k] < s[l]
    BY <1>1 DEF Ascending
  <2>2. s[k] \in Nat /\ s[l] \in Nat
    BY <1>1
  <2>3. k < l \/ k = l \/ k > l
    BY <1>1
  <2> QED BY <2>1, <2>2, <2>3
<1>3. \A k \in 1 .. j - i : /\ i + k - 1 \in 1 .. Len(s) /\ i <= i + k - 1 /\ i + k - 1 < j
                            /\ f[k] = s[i + k - 1]
  BY <1>1
<1>4. \A k \in 1 .. j - i : f[k] \in T
  BY <1>1, <1>2, <1>3 DEF ToSet
<1>5. \A k, l \in 1 .. j - i : f[k] = f[l] => k = l
  <2> SUFFICES ASSUME NEW k \in 1 .. j - i, NEW l \in 1 .. j - i, k < l
               PROVE  f[k] # f[l]
    BY <1>1
  <2>1. i + k - 1 < i + l - 1
    BY <1>1
  <2>2. s[i + k - 1] < s[i + l - 1] /\ s[i + k - 1] \in Nat
    BY <1>1, <1>2, <1>3, <2>1
  <2> QED BY <1>1, <1>3, <2>2
<1>6. \A x \in T : \E k \in 1 .. j - i : f[k] = x
  <2> SUFFICES ASSUME NEW x \in T PROVE \E k \in 1 .. j - i : f[k] = x
    OBVIOUS
  <2>1. PICK l \in 1 .. Len(s) : s[l] = x
    BY <1>1 DEF ToSet
  <2>2. i <= l /\ l < j
    BY <1>1, <1>2, <2>1
  <2>3. PICK k \in 1 .. j - i : l = i + k - 1
    <3>1. l - i + 1 \in 1 .. j - i /\ l = i + (l - i + 1) - 1
      BY <1>1, <2>2
    <3> QED BY <3>1
  <2> QED BY <1>3, <2>1, <2>3
<1>7. f \in Bijection(1 .. j - i, T)
  <2>1. f \in [1 .. j - i -> T]
    BY <1>4
  <2> HIDE DEF f, T
  <2> QED BY <1>5, <1>6, <2>1 DEF Bijection, Injection, Surjection, IsInjective
<1>8. j - i \in Nat
  BY <1>1
<1>9. Cardinality(T) = j - i
  <2> HIDE DEF f, T
  <2> QED BY <1>7, <1>8, FS_CountingElements DEF ExistsBijection
<1> QED BY <1>9 DEF Between

(* The element k places to the left of the i-th, k places to the right, and *)
(* the k-th from 0: what the offsets of the navigators mean.                *)
LEMMA PlacesCounted ==
  ASSUME NEW s \in Seq(Nat), Ascending(s), NEW i \in 1 .. Len(s), NEW k \in Nat
  PROVE  /\ Between(ToSet(s), 0, s[i]) = i - 1
         /\ \A m \in ToSet(s) : m <= s[i] /\ Between(ToSet(s), m, s[i]) = k
              <=> i - k \in 1 .. Len(s) /\ m = s[i - k]
         /\ \A m \in ToSet(s) : s[i] <= m /\ Between(ToSet(s), s[i], m) = k
              <=> i + k \in 1 .. Len(s) /\ m = s[i + k]
<1>1. Len(s) \in Nat /\ DOMAIN s = 1 .. Len(s) /\ \A j \in 1 .. Len(s) : s[j] \in Nat
  OBVIOUS
<1>2. \A j, l \in 1 .. Len(s) : j < l => s[j] < s[l]
  BY <1>1 DEF Ascending
<1>3. \A j, l \in 1 .. Len(s) : j <= l <=> s[j] <= s[l]
  <2> SUFFICES ASSUME NEW j \in 1 .. Len(s), NEW l \in 1 .. Len(s) PROVE j <= l <=> s[j] <= s[l]
    OBVIOUS
  <2>1. j < l \/ j = l \/ l < j
    BY <1>1
  <2>2. s[j] \in Nat /\ s[l] \in Nat
    BY <1>1
  <2> QED BY <1>2, <2>1, <2>2
<1>7. ASSUME NEW j \in 1 .. Len(s), NEW l \in 1 .. Len(s), s[j] = s[l] PROVE l = j
  <2>1. s[j] \in Nat
    BY <1>1
  <2>2. ~(j < l) /\ ~(l < j)
    BY <1>2, <1>7, <2>1
  <2> QED BY <1>1, <2>2
<1>4. Between(ToSet(s), 0, s[i]) = i - 1
  <2>1. 1 \in 1 .. Len(s) /\ 1 <= i
    BY <1>1
  <2>2. \A x \in ToSet(s) : x \in Nat /\ s[1] <= x
    BY <1>1, <1>3, <2>1 DEF ToSet
  <2>3. {x \in ToSet(s) : 0 <= x /\ x < s[i]} = {x \in ToSet(s) : s[1] <= x /\ x < s[i]}
    BY <2>2
  <2>4. Between(ToSet(s), 0, s[i]) = Between(ToSet(s), s[1], s[i])
    BY <2>3 DEF Between
  <2> QED BY <2>1, <2>4, PlacesBetween
<1>5. ASSUME NEW m \in ToSet(s)
      PROVE  m <= s[i] /\ Between(ToSet(s), m, s[i]) = k
               <=> i - k \in 1 .. Len(s) /\ m = s[i - k]
  <2>1. PICK j \in 1 .. Len(s) : m = s[j]
    BY <1>1 DEF ToSet
  <2>2. m <= s[i] <=> j <= i
    BY <1>3, <2>1
  <2>3. j <= i => Between(ToSet(s), m, s[i]) = i - j
    BY <2>1, PlacesBetween
  <2>4. \A l \in 1 .. Len(s) : m = s[l] => l = j
    BY <1>7, <2>1
  <2>5. i - k \in 1 .. Len(s) /\ m = s[i - k] <=> k = i - j
    <3>1. i - k \in 1 .. Len(s) => (m = s[i - k] <=> i - k = j)
      BY <2>1, <2>4
    <3>2. i - k = j <=> k = i - j
      BY <1>1
    <3> QED BY <2>1, <3>1, <3>2
  <2>6. m <= s[i] /\ Between(ToSet(s), m, s[i]) = k <=> j <= i /\ k = i - j
    BY <2>2, <2>3
  <2>7. k = i - j => j <= i
    BY <1>1
  <2> QED BY <2>5, <2>6, <2>7
<1>6. ASSUME NEW m \in ToSet(s)
      PROVE  s[i] <= m /\ Between(ToSet(s), s[i], m) = k
               <=> i + k \in 1 .. Len(s) /\ m = s[i + k]
  <2>1. PICK j \in 1 .. Len(s) : m = s[j]
    BY <1>1 DEF ToSet
  <2>2. s[i] <= m <=> i <= j
    BY <1>3, <2>1
  <2>3. i <= j => Between(ToSet(s), s[i], m) = j - i
    BY <2>1, PlacesBetween
  <2>4. \A l \in 1 .. Len(s) : m = s[l] => l = j
    BY <1>7, <2>1
  <2>5. i + k \in 1 .. Len(s) /\ m = s[i + k] <=> k = j - i
    <3>1. i + k \in 1 .. Len(s) => (m = s[i + k] <=> i + k = j)
      BY <2>1, <2>4
    <3>2. i + k = j <=> k = j - i
      BY <1>1
    <3> QED BY <2>1, <3>1, <3>2
  <2>6. s[i] <= m /\ Between(ToSet(s), s[i], m) = k <=> i <= j /\ k = j - i
    BY <2>2, <2>3
  <2>7. k = j - i => i <= j
    BY <1>1
  <2> QED BY <2>5, <2>6, <2>7
<1> QED BY <1>4, <1>5, <1>6

-----------------------------------------------------------------------------
(* A tree that is returned, for the navigators.                             *)
Shaped ==
  /\ TreeInv /\ TreeOrder /\ DOMAIN tree \subseteq Nat
  /\ \A n \in DOMAIN tree : tree[n].up = None \/ tree[n].up \in DOMAIN tree

(* Its number does not wrap around to a node.                               *)
Fits(p) == \A n \in DOMAIN tree : p.num + Len(tree[n].kids) <= Word

LEMMA ShapedKids ==
  ASSUME Shaped, NEW n \in DOMAIN tree
  PROVE  /\ tree[n].kids \in Seq(Nat) /\ tree[n].kids \in Seq(DOMAIN tree)
         /\ Ascending(tree[n].kids)
         /\ Len(tree[n].kids) \in Nat /\ DOMAIN tree[n].kids = 1 .. Len(tree[n].kids)
         /\ Kids(n) \subseteq DOMAIN tree
         /\ n \in Nat /\ n # None
         /\ \A c \in Kids(n) : c \in DOMAIN tree /\ n < c
<1>1. DOMAIN tree \subseteq Nat /\ n \in Nat /\ n # None
  BY DEF Shaped, None
<1>2. PICK s \in Seq(DOMAIN tree) : s = tree[n].kids
  BY DEF Shaped, TreeInv
<1>3. s \in Seq(Nat) /\ Len(s) \in Nat /\ DOMAIN s = 1 .. Len(s)
  BY <1>1, <1>2
<1>4. Ascending(s)
  BY <1>2 DEF Shaped, TreeOrder
<1>5. Kids(n) = ToSet(s) /\ ToSet(s) \subseteq DOMAIN tree
  BY <1>2 DEF Kids, ToSet
<1>6. \A c \in Kids(n) : c \in DOMAIN tree /\ n < c
  <2>1. \A c \in Kids(n) : c \in DOMAIN tree /\ tree[c].up = n
    BY <1>5 DEF Shaped, TreeOrder
  <2> QED BY <2>1 DEF Shaped, TreeOrder
<1> QED BY <1>1, <1>2, <1>3, <1>4, <1>5, <1>6

(* Where n is below m, so is its parent, and nothing is below itself.       *)
LEMMA Ancestors ==
  ASSUME Shaped, NEW m \in DOMAIN tree, NEW n \in DOMAIN tree
  PROVE  /\ n \in Subtree(m) => m <= n
         /\ n \in Subtree(m) <=>
              n = m \/ (tree[n].up # None /\ tree[n].up \in Subtree(m))
<1>1. TreeInv /\ TreeOrder /\ DOMAIN tree \subseteq Nat
  BY DEF Shaped
<1>2. /\ m \in Subtree(m) /\ Closed(Subtree(m)) /\ Subtree(m) \subseteq DOMAIN tree
      /\ \A S \in SUBSET DOMAIN tree : m \in S /\ Closed(S) => Subtree(m) \subseteq S
  BY <1>1, SubtreeFacts
<1>3. n \in Subtree(m) => m <= n
  <2> DEFINE S == {x \in DOMAIN tree : m <= x}
  <2>1. \A x \in DOMAIN tree : \A c \in Kids(x) : c \in DOMAIN tree /\ x < c /\ x \in Nat /\ c \in Nat
    BY <1>1, ShapedKids
  <2>2. Closed(S)
    BY <1>1, <2>1 DEF Closed
  <2>3. m \in S
    BY <1>1
  <2> QED BY <1>2, <2>2, <2>3
<1>4. ASSUME n \in Subtree(m), n # m PROVE tree[n].up # None /\ tree[n].up \in Subtree(m)
  <2> SUFFICES ASSUME tree[n].up \notin Subtree(m) PROVE FALSE
    <3>1. None \notin Subtree(m)
      BY <1>1, <1>2 DEF None
    <3> QED BY <3>1
  <2> DEFINE S == Subtree(m) \ {n}
  <2>1. \A x \in S : n \notin Kids(x)
    BY <1>1, <1>2 DEF TreeOrder
  <2>2. Closed(S) /\ m \in S /\ S \in SUBSET DOMAIN tree
    BY <1>2, <1>4, <2>1 DEF Closed
  <2> QED BY <1>2, <1>4, <2>2
<1>5. ASSUME tree[n].up # None, tree[n].up \in Subtree(m) PROVE n \in Subtree(m)
  <2>1. n \in Kids(tree[n].up)
    BY <1>1, <1>2, <1>5 DEF TreeOrder
  <2> QED BY <1>2, <1>5, <2>1 DEF Closed
<1> QED BY <1>2, <1>3, <1>4, <1>5

-----------------------------------------------------------------------------
(* The navigators by their places among the siblings.                       *)
LEMMA ChildAt ==
  ASSUME Shaped, NEW n \in DOMAIN tree, NEW p \in Tokens, p.is = "child"
  PROVE  Navigate(n, p) = IF p.num < Len(tree[n].kids) THEN tree[n].kids[p.num + 1] ELSE None
<1>1. PICK s : s = tree[n].kids
  OBVIOUS
<1>2. /\ s \in Seq(Nat) /\ Ascending(s) /\ Len(s) \in Nat /\ DOMAIN s = 1 .. Len(s)
      /\ n # None /\ Kids(n) = ToSet(s)
  BY <1>1, ShapedKids DEF Kids
<1>3. PICK k \in Nat : k = p.num
  BY DEF Tokens
<1> DEFINE P(m) == Between(ToSet(s), 0, m) = k
<1>4. Navigate(n, p) = IF \E m \in ToSet(s) : P(m) THEN CHOOSE m \in ToSet(s) : P(m) ELSE None
  BY <1>2, <1>3 DEF Navigate, Only
<1>5. \A j \in 1 .. Len(s) : s[j] \in ToSet(s) /\ (P(s[j]) <=> j = k + 1)
  <2> SUFFICES ASSUME NEW j \in 1 .. Len(s) PROVE s[j] \in ToSet(s) /\ (P(s[j]) <=> j = k + 1)
    OBVIOUS
  <2>1. Between(ToSet(s), 0, s[j]) = j - 1
    BY <1>2, PlacesCounted
  <2>2. s[j] \in ToSet(s)
    BY <1>2 DEF ToSet
  <2> QED BY <1>2, <1>3, <2>1, <2>2
<1>6. \A m \in ToSet(s) : \E j \in 1 .. Len(s) : m = s[j]
  BY <1>2 DEF ToSet
<1> HIDE DEF P
<1>7. CASE k < Len(s)
  <2>1. k + 1 \in 1 .. Len(s)
    BY <1>2, <1>3, <1>7
  <2>2. s[k + 1] \in ToSet(s) /\ P(s[k + 1]) /\ \A m \in ToSet(s) : P(m) => m = s[k + 1]
    BY <1>5, <1>6, <2>1
  <2> QED BY <1>1, <1>3, <1>4, <1>7, <2>2
<1>8. CASE ~(k < Len(s))
  <2>1. \A j \in 1 .. Len(s) : j # k + 1
    BY <1>2, <1>8
  <2>2. \A m \in ToSet(s) : ~P(m)
    BY <1>5, <1>6, <2>1
  <2> QED BY <1>1, <1>3, <1>4, <1>8, <2>2
<1> QED BY <1>7, <1>8

LEMMA SiblingAt ==
  ASSUME Shaped, NEW n \in DOMAIN tree, tree[n].up # None, NEW p \in Tokens,
         NEW i \in 1 .. Len(tree[tree[n].up].kids), tree[tree[n].up].kids[i] = n
  PROVE  LET s == tree[tree[n].up].kids IN
         /\ p.is = "lsib" => Navigate(n, p) = IF p.num < i THEN s[i - p.num] ELSE None
         /\ p.is = "rsib" => Navigate(n, p) = IF i + p.num <= Len(s) THEN s[i + p.num] ELSE None
<1>1. PICK u \in DOMAIN tree : u = tree[n].up
  BY DEF Shaped
<1>2. PICK s : s = tree[u].kids
  OBVIOUS
<1>3. /\ s \in Seq(Nat) /\ Ascending(s) /\ Len(s) \in Nat /\ DOMAIN s = 1 .. Len(s)
      /\ i \in 1 .. Len(s) /\ s[i] = n
  BY <1>1, <1>2, ShapedKids
<1>4. n # None /\ Siblings(n) = ToSet(s)
  BY <1>1, <1>2, ShapedKids DEF Siblings, Kids
<1>5. PICK k \in Nat : k = p.num
  BY DEF Tokens
<1>6. ASSUME p.is = "lsib"
      PROVE  Navigate(n, p) = IF k < i THEN s[i - k] ELSE None
  <2> DEFINE P(m) == m <= n /\ Between(ToSet(s), m, n) = k
  <2>1. Navigate(n, p) = IF \E m \in ToSet(s) : P(m) THEN CHOOSE m \in ToSet(s) : P(m) ELSE None
    BY <1>4, <1>5, <1>6 DEF Navigate, Only
  <2>2. \A m \in ToSet(s) : P(m) <=> i - k \in 1 .. Len(s) /\ m = s[i - k]
    BY <1>3, PlacesCounted
  <2>3. \A j \in 1 .. Len(s) : s[j] \in ToSet(s)
    BY <1>3 DEF ToSet
  <2>4. i - k \in 1 .. Len(s) <=> k < i
    BY <1>3
  <2> HIDE DEF P
  <2> QED BY <2>1, <2>2, <2>3, <2>4
<1>7. ASSUME p.is = "rsib"
      PROVE  Navigate(n, p) = IF i + k <= Len(s) THEN s[i + k] ELSE None
  <2> DEFINE P(m) == n <= m /\ Between(ToSet(s), n, m) = k
  <2>1. Navigate(n, p) = IF \E m \in ToSet(s) : P(m) THEN CHOOSE m \in ToSet(s) : P(m) ELSE None
    BY <1>4, <1>5, <1>7 DEF Navigate, Only
  <2>2. \A m \in ToSet(s) : P(m) <=> i + k \in 1 .. Len(s) /\ m = s[i + k]
    <3>1. \A m \in ToSet(s) : s[i] <= m /\ Between(ToSet(s), s[i], m) = k
            <=> i + k \in 1 .. Len(s) /\ m = s[i + k]
      BY <1>3, PlacesCounted
    <3> QED BY <1>3, <3>1
  <2>3. \A j \in 1 .. Len(s) : s[j] \in ToSet(s)
    BY <1>3 DEF ToSet
  <2>4. i + k \in 1 .. Len(s) <=> i + k <= Len(s)
    BY <1>3
  <2> HIDE DEF P
  <2> QED BY <2>1, <2>2, <2>3, <2>4
<1> QED BY <1>1, <1>2, <1>5, <1>6, <1>7

(* The nearest node of a type: the node itself, or the nearest above its    *)
(* parent.                                                                  *)
LEMMA NearestAbove ==
  ASSUME Shaped, NEW n \in DOMAIN tree, NEW p \in Tokens, p.is = "parentuntil"
  PROVE  /\ tree[n].name = p.arg => Navigate(n, p) = n
         /\ tree[n].name # p.arg /\ tree[n].up = None => Navigate(n, p) = None
         /\ tree[n].name # p.arg /\ tree[n].up # None => Navigate(n, p) = Navigate(tree[n].up, p)
<1> DEFINE above(x) == {m \in DOMAIN tree : x \in Subtree(m) /\ tree[m].name = p.arg}
<1>1. \A x \in DOMAIN tree : Navigate(x, p) = IF above(x) = {} THEN None ELSE Max(above(x))
  <2>1. \A x \in DOMAIN tree : x # None
    BY DEF Shaped, None
  <2> QED BY <2>1 DEF Navigate
<1>2. \A m \in DOMAIN tree : /\ n \in Subtree(m) => m <= n
                             /\ n \in Subtree(m) <=> n = m \/ (tree[n].up # None /\ tree[n].up \in Subtree(m))
  BY Ancestors
<1>3. ASSUME tree[n].name = p.arg PROVE Navigate(n, p) = n
  <2>1. n \in above(n)
    BY <1>2, <1>3
  <2>2. \A m \in above(n) : m <= n
    BY <1>2
  <2>3. above(n) \subseteq Nat
    BY DEF Shaped
  <2> HIDE DEF above
  <2>4. Max(above(n)) = n
    BY <2>1, <2>2, <2>3 DEF Max
  <2> QED BY <1>1, <2>1, <2>4
<1>4. ASSUME tree[n].name # p.arg, tree[n].up = None PROVE Navigate(n, p) = None
  <2>1. ASSUME NEW m \in above(n) PROVE FALSE
    <3>1. m \in DOMAIN tree /\ n \in Subtree(m) /\ tree[m].name = p.arg
      OBVIOUS
    <3>2. n = m
      BY <1>2, <1>4, <3>1
    <3> QED BY <1>4, <3>1, <3>2
  <2> QED BY <1>1, <2>1
<1>5. ASSUME tree[n].name # p.arg, tree[n].up # None PROVE Navigate(n, p) = Navigate(tree[n].up, p)
  <2>1. tree[n].up \in DOMAIN tree
    BY <1>5 DEF Shaped
  <2>2. ASSUME NEW m \in DOMAIN tree
        PROVE  m \in above(n) <=> m \in above(tree[n].up)
    <3>1. tree[m].name = p.arg => n # m
      BY <1>5
    <3>2. tree[m].name = p.arg => (n \in Subtree(m) <=> tree[n].up \in Subtree(m))
      BY <1>2, <1>5, <3>1
    <3> QED BY <3>2
  <2>3. above(n) = above(tree[n].up)
    BY <2>2
  <2> QED BY <1>1, <2>1, <2>3
<1> QED BY <1>3, <1>4, <1>5

-----------------------------------------------------------------------------
(* Numbers of width Word.                                                   *)
LEMMA Wrapping ==
  ASSUME NEW a \in Int
  PROVE  /\ 0 <= a /\ a < Word => a % Word = a
         /\ a < 0 /\ 0 <= a + Word => a % Word = a + Word
<1>1. Word \in Nat /\ Word > 1
  BY WordAssumption
<1>2. a = Word * (a \div Word) + (a % Word) /\ a % Word \in 0 .. Word - 1 /\ a \div Word \in Int
  BY <1>1
<1>3. ASSUME NEW q \in Int, NEW r \in 0 .. Word - 1, NEW w \in Nat, w > 1, a = w * q + r, r < w,
             0 <= a, a < w
      PROVE  r = a
  <2>1. CASE q >= 1
    <3>1. w * q >= w
      BY <1>3, <2>1
    <3> QED BY <1>1, <1>3, <3>1
  <2>2. CASE q <= -1
    <3>1. w * q <= -w
      BY <1>3, <2>2
    <3> QED BY <1>1, <1>3, <3>1
  <2>3. CASE q = 0
    BY <1>1, <1>3, <2>3
  <2> QED BY <2>1, <2>2, <2>3
<1> QED BY <1>1, <1>2, <1>3
(* A navigator moves to the node it means, or the process ends where it     *)
(* means none.                                                              *)
LEMMA SiblingMoves ==
  ASSUME Shaped, here \in DOMAIN tree, NEW p \in Tokens, p = Token, Fits(p), p.is \in {"lsib", "rsib"},
         LSib \/ RSib
  PROVE  \/ \E m \in DOMAIN tree : Navigate(here, p) = m /\ MoveTo(m)
         \/ Navigate(here, p) = None /\ Abort
<1>1. PICK k \in Nat : k = p.num /\ k < Word
  BY WordAssumption DEF Tokens
<1>2. CASE tree[here].up = None
  <2>1. Abort
    BY <1>2 DEF LSib, RSib, Sibling
  <2>2. here # None /\ Siblings(here) = {}
    BY <1>2, ShapedKids DEF Siblings
  <2>3. Navigate(here, p) = None
    BY <2>2 DEF Navigate, Only
  <2> QED BY <2>1, <2>3
<1>3. CASE tree[here].up # None
  <2>1. PICK u \in DOMAIN tree : u = tree[here].up
    BY <1>3 DEF Shaped
  <2>2. PICK s : s = tree[u].kids
    OBVIOUS
  <2>3. /\ Sibs = s /\ s \in Seq(DOMAIN tree) /\ s \in Seq(Nat) /\ Ascending(s)
        /\ Len(s) \in Nat /\ DOMAIN s = 1 .. Len(s)
    BY <2>1, <2>2, ShapedKids DEF Sibs
  <2>10. k + Len(s) <= Word
    BY <1>1, <2>1, <2>2 DEF Fits
  <2>4. here \in ToSet(s)
    BY <2>1, <2>2 DEF Shaped, TreeOrder, Kids
  <2>5. PICK i \in 1 .. Len(s) : i = CHOOSE j \in DOMAIN Sibs : Sibs[j] = here
    BY <2>3, <2>4 DEF ToSet
  <2>6. s[i] = here
    BY <2>3, <2>4, <2>5 DEF ToSet
  <2>7. /\ p.is = "lsib" => Navigate(here, p) = IF k < i THEN s[i - k] ELSE None
        /\ p.is = "rsib" => Navigate(here, p) = IF i + k <= Len(s) THEN s[i + k] ELSE None
    BY <1>1, <1>3, <2>1, <2>2, <2>6, SiblingAt
  <2>8. CASE LSib
    <3>1. p.is = "lsib"
      BY <2>8 DEF LSib, Moving
    <3>2. PICK x : x = (i - 1 - k) % Word
      OBVIOUS
    <3>3. IF x < Len(s) THEN MoveTo(s[x + 1]) ELSE Abort
      BY <1>1, <1>3, <2>3, <2>5, <2>8, <3>2 DEF LSib, Sibling, LeftOf
    <3>4. CASE k < i
      <4>1. x = i - 1 - k
        <5>1. i - 1 - k \in Int /\ 0 <= i - 1 - k /\ i - 1 - k < Word
          BY <1>1, <2>3, <3>4, <2>10, WordAssumption
        <5> QED BY <3>2, <5>1, Wrapping
      <4>2. x < Len(s) /\ x + 1 = i - k /\ i - k \in 1 .. Len(s)
        BY <1>1, <2>3, <3>4, <4>1
      <4>3. s[i - k] \in DOMAIN tree
        BY <2>3, <4>2
      <4> QED BY <2>7, <3>1, <3>3, <3>4, <4>2, <4>3
    <3>5. CASE ~(k < i)
      <4>1. x = i - 1 - k + Word
        <5>1. i - 1 - k \in Int /\ i - 1 - k < 0 /\ 0 <= i - 1 - k + Word
          BY <1>1, <2>3, <3>5, WordAssumption
        <5> QED BY <3>2, <5>1, Wrapping
      <4>2. ~(x < Len(s))
        BY <1>1, <2>3, <2>10, <4>1, WordAssumption
      <4> QED BY <2>7, <3>1, <3>3, <3>5, <4>2
    <3> QED BY <3>4, <3>5
  <2>9. CASE RSib
    <3>1. p.is = "rsib"
      BY <2>9 DEF RSib, Moving
    <3>2. PICK x : x = (i - 1 + k) % Word
      OBVIOUS
    <3>3. IF x < Len(s) THEN MoveTo(s[x + 1]) ELSE Abort
      BY <1>1, <1>3, <2>3, <2>5, <2>9, <3>2 DEF RSib, Sibling, RightOf
    <3>4. x = i - 1 + k
      <4>1. i - 1 + k \in Int /\ 0 <= i - 1 + k /\ i - 1 + k < Word
        BY <1>1, <2>3, <2>10, WordAssumption
      <4> QED BY <3>2, <4>1, Wrapping
    <3>5. CASE i + k <= Len(s)
      <4>1. x < Len(s) /\ x + 1 = i + k /\ i + k \in 1 .. Len(s)
        BY <1>1, <2>3, <3>4, <3>5
      <4>2. s[i + k] \in DOMAIN tree
        BY <2>3, <4>1
      <4> QED BY <2>7, <3>1, <3>3, <3>5, <4>1, <4>2
    <3>6. CASE ~(i + k <= Len(s))
      <4>1. ~(x < Len(s))
        BY <1>1, <2>3, <3>4, <3>6
      <4> QED BY <2>7, <3>1, <3>3, <3>6, <4>1
    <3> QED BY <3>5, <3>6
  <2> QED BY <2>8, <2>9
<1> QED BY <1>2, <1>3

LEMMA NavigatorsMove ==
  ASSUME Shaped, here \in DOMAIN tree, NEW p \in Tokens, p = Token, Fits(p),
         Parent \/ Child \/ LSib \/ RSib \/ ParentUntil
  PROVE  \/ \E m \in DOMAIN tree : Navigate(here, p) = m /\ MoveTo(m)
         \/ Navigate(here, p) = None /\ Abort
         \/ /\ p.is = "parentuntil" /\ here' \in DOMAIN tree /\ Navigate(here', p) = Navigate(here, p)
            /\ UNCHANGED <<expr, next, expect, starting, context, status, values, tree>>
<1>1. here # None
  BY ShapedKids
<1>2. CASE Parent
  <2>1. p.is = "parent" /\ IF tree[here].up # None THEN MoveTo(tree[here].up) ELSE Abort
    BY <1>2 DEF Parent, Moving
  <2>2. Navigate(here, p) = tree[here].up
    BY <1>1, <2>1 DEF Navigate
  <2> QED BY <2>1, <2>2 DEF Shaped
<1>3. CASE Child
  <2>1. PICK s : s = tree[here].kids
    OBVIOUS
  <2>2. p.is = "child" /\ IF p.num < Len(s) THEN MoveTo(s[p.num + 1]) ELSE Abort
    BY <1>3, <2>1 DEF Child, Moving
  <2>3. Navigate(here, p) = IF p.num < Len(s) THEN s[p.num + 1] ELSE None
    BY <2>1, <2>2, ChildAt
  <2>4. p.num < Len(s) => s[p.num + 1] \in DOMAIN tree
    <3>1. s \in Seq(DOMAIN tree) /\ Len(s) \in Nat
      BY <2>1, ShapedKids
    <3>2. PICK k \in Nat : k = p.num
      BY DEF Tokens
    <3> QED BY <3>1, <3>2
  <2> QED BY <2>2, <2>3, <2>4
<1>4. CASE LSib \/ RSib
  <2>1. p.is \in {"lsib", "rsib"}
    BY <1>4 DEF LSib, RSib, Moving
  <2> QED BY <1>4, <2>1, SiblingMoves
<1>5. CASE ParentUntil
  <2>1. p.is = "parentuntil"
    BY <1>5 DEF ParentUntil, Moving
  <2>2. CASE tree[here].name = p.arg
    <3>1. MoveTo(here)
      BY <1>5, <2>2 DEF ParentUntil
    <3> QED BY <2>1, <2>2, <3>1, NearestAbove
  <2>3. CASE tree[here].name # p.arg /\ tree[here].up = None
    <3>1. Abort
      BY <1>5, <2>3 DEF ParentUntil
    <3> QED BY <2>1, <2>3, <3>1, NearestAbove
  <2>4. CASE tree[here].name # p.arg /\ tree[here].up # None
    <3>1. /\ here' = tree[here].up
          /\ UNCHANGED <<expr, next, expect, starting, context, status, values, tree>>
      BY <1>5, <2>4 DEF ParentUntil
    <3>2. Navigate(here, p) = Navigate(tree[here].up, p)
      BY <2>1, <2>4, NearestAbove
    <3>3. tree[here].up \in DOMAIN tree
      BY <2>4 DEF Shaped
    <3> QED BY <2>1, <3>1, <3>2, <3>3
  <2> QED BY <2>2, <2>3, <2>4
<1> QED BY <1>2, <1>3, <1>4, <1>5

-----------------------------------------------------------------------------
(* The route is the function its recursion describes.                       *)
Going(r, j) ==
  IF j = 0 \/ expr[j].is = "open" THEN starting
  ELSE IF expr[j].is \in Pointers THEN Navigate(r[j - 1], expr[j])
  ELSE r[j - 1]

LEMMA RouteUnfolds ==
  ASSUME expr \in Seq(Tokens)
  PROVE  \A j \in 0 .. Len(expr) : Route[j] = Going(Route, j)
<1> DEFINE n == Len(expr)
           Solves(f, k) == \A j \in 0 .. k : f[j] = Going(f, j)
           Missing == {k \in 0 .. n : \A f : ~Solves(f, k)}
<1>1. n \in Nat
  OBVIOUS
<1>2. ASSUME NEW f, NEW g, NEW j \in 0 .. n, j # 0 => f[j - 1] = g[j - 1]
      PROVE  Going(f, j) = Going(g, j)
  BY <1>2 DEF Going
<1>3. Missing = {}
  <2> SUFFICES ASSUME Missing # {} PROVE FALSE
    OBVIOUS
  <2>1. PICK k \in Missing : \A l \in Missing : k <= l
    <3>1. Missing \subseteq Nat
      BY <1>1
    <3> HIDE DEF Missing
    <3> QED BY <3>1, LeastOf
  <2>2. k \in 0 .. n /\ \A f : ~Solves(f, k)
    OBVIOUS
  <2>3. CASE k = 0
    <3>1. Solves([j \in 0 .. n |-> starting], 0)
      BY <1>1 DEF Going
    <3> QED BY <2>2, <2>3, <3>1
  <2>4. CASE k # 0
    <3>1. k - 1 \in 0 .. n /\ k - 1 < k
      BY <1>1, <2>2, <2>4
    <3>2. k - 1 \notin Missing
      <4> HIDE DEF Missing
      <4> QED BY <1>1, <2>1, <2>2, <3>1
    <3>3. PICK f : Solves(f, k - 1)
      BY <3>1, <3>2
    <3> DEFINE g == [j \in 0 .. n |-> IF j = k THEN Going(f, k) ELSE f[j]]
    <3>4. ASSUME NEW j \in 0 .. k PROVE g[j] = Going(g, j)
      <4>1. j \in 0 .. n /\ (j # 0 => j - 1 \in 0 .. n /\ j - 1 # k)
        BY <1>1, <2>2
      <4>2. j # 0 => f[j - 1] = g[j - 1]
        BY <4>1
      <4>3. g[j] = IF j = k THEN Going(f, k) ELSE f[j]
        BY <4>1
      <4> HIDE DEF g
      <4>4. Going(f, j) = Going(g, j)
        BY <1>2, <4>1, <4>2
      <4>5. j # k => f[j] = Going(f, j)
        <5>1. j # k => j \in 0 .. k - 1
          BY <1>1, <2>2
        <5> QED BY <3>3, <5>1
      <4> QED BY <4>3, <4>4, <4>5
    <3>5. Solves(g, k)
      BY <3>4
    <3> HIDE DEF g, Solves
    <3> QED BY <2>2, <3>5
  <2> QED BY <2>3, <2>4
<1>4. PICK f : Solves(f, n)
  <2>1. n \in 0 .. n
    BY <1>1
  <2> QED BY <1>3, <2>1
<1>5. \E h : h = [j \in 0 .. n |-> Going(h, j)]
  <2> DEFINE h == [j \in 0 .. n |-> f[j]]
  <2>1. ASSUME NEW j \in 0 .. n PROVE f[j] = Going(h, j)
    <3>1. j # 0 => j - 1 \in 0 .. n
      BY <1>1
    <3>2. j # 0 => h[j - 1] = f[j - 1]
      BY <3>1
    <3> HIDE DEF h
    <3>3. Going(h, j) = Going(f, j)
      BY <1>2, <3>2
    <3> QED BY <1>4, <3>3
  <2>2. h = [j \in 0 .. n |-> Going(h, j)]
    <3>1. h = [j \in 0 .. n |-> f[j]]
      OBVIOUS
    <3> HIDE DEF h
    <3> QED BY <2>1, <3>1
  <2> HIDE DEF h
  <2> QED BY <2>2
<1>6. Route = CHOOSE r : r = [j \in 0 .. n |-> Going(r, j)]
  BY DEF Route, Going
<1>7. Route = [j \in 0 .. n |-> Going(Route, j)]
  <2> DEFINE P(r) == r = [j \in 0 .. n |-> Going(r, j)]
  <2>1. Route = CHOOSE r : P(r)
    BY <1>6
  <2>2. \E r : P(r)
    BY <1>5
  <2> HIDE DEF P
  <2>3. P(Route)
    BY <2>1, <2>2
  <2> QED BY <2>3 DEF P
<1> DEFINE q == [j \in 0 .. n |-> Going(Route, j)]
<1>8. \A j \in 0 .. n : q[j] = Going(Route, j)
  OBVIOUS
<1>9. Route = q
  BY <1>7
<1> HIDE DEF q
<1> QED BY <1>8, <1>9

-----------------------------------------------------------------------------
(* The values are noted in the order of the tokens that ask for them.       *)
Rank(i) == Cardinality({j \in Valued : j <= i})

Entry(i) ==
  IF expr[i].is = "ident" THEN [of |-> None, get |-> "plain", arg |-> expr[i].arg]
  ELSE [of |-> Target(i), get |-> expr[i].is, arg |-> expr[i].arg]

Words == {"plain", "ident", "open", "close"} \cup Pointers \cup Properties
Contexts == [of : Int, get : Words, arg : STRING]

Noted(nx, cx) ==
  /\ cx \in Seq(Contexts) /\ Len(cx) = Cardinality({j \in Valued : j < nx})
  /\ \A i \in Valued : i < nx => cx[Rank(i)] = Entry(i)

LEMMA ValuedFinite ==
  ASSUME expr \in Seq(Tokens)
  PROVE  /\ Valued \subseteq 1 .. Len(expr) /\ Len(expr) \in Nat
         /\ \A S \in SUBSET Valued : IsFiniteSet(S) /\ Cardinality(S) \in Nat
<1>1. Valued \subseteq 1 .. Len(expr) /\ Len(expr) \in Nat
  BY DEF Valued
<1>2. IsFiniteSet(1 .. Len(expr))
  BY <1>1, FS_Interval
<1>3. ASSUME NEW S \in SUBSET Valued PROVE IsFiniteSet(S) /\ Cardinality(S) \in Nat
  <2>1. IsFiniteSet(S)
    BY <1>1, <1>2, FS_Subset
  <2> QED BY <2>1, FS_CardinalityType
<1> QED BY <1>1, <1>3

LEMMA NotedOn ==
  ASSUME expr \in Seq(Tokens), NEW nx \in 1 .. Len(expr), NEW cx, Noted(nx, cx)
  PROVE  /\ nx \notin Valued => Noted(nx + 1, cx)
         /\ nx \in Valued /\ Entry(nx) \in Contexts => Noted(nx + 1, Append(cx, Entry(nx)))
<1> DEFINE V == {j \in Valued : j < nx}
           W == {j \in Valued : j < nx + 1}
<1>1. /\ Valued \subseteq 1 .. Len(expr) /\ Len(expr) \in Nat /\ nx \in Nat
      /\ \A S \in SUBSET Valued : IsFiniteSet(S) /\ Cardinality(S) \in Nat
  BY ValuedFinite
<1>2. \A i \in Valued : i \in Nat /\ (i < nx + 1 <=> i < nx \/ i = nx)
  BY <1>1
<1>3. cx \in Seq(Contexts) /\ Len(cx) = Cardinality(V)
  BY DEF Noted
<1>4. ASSUME nx \notin Valued PROVE Noted(nx + 1, cx)
  <2>1. W = V
    BY <1>2, <1>4
  <2>2. \A i \in Valued : i < nx + 1 => cx[Rank(i)] = Entry(i)
    BY <1>2, <1>4 DEF Noted
  <2> QED BY <1>3, <2>1, <2>2 DEF Noted
<1>5. ASSUME nx \in Valued, Entry(nx) \in Contexts PROVE Noted(nx + 1, Append(cx, Entry(nx)))
  <2>1. W = V \cup {nx} /\ nx \notin V /\ IsFiniteSet(V) /\ Cardinality(V) \in Nat
    <3>1. V \in SUBSET Valued /\ nx \notin V
      BY <1>1
    <3>2. W = V \cup {nx}
      BY <1>2, <1>5
    <3> HIDE DEF V, W
    <3> QED BY <1>1, <3>1, <3>2
  <2>2. {j \in Valued : j <= nx} = W
    <3>1. \A j \in Valued : j <= nx <=> j < nx + 1
      BY <1>1
    <3> QED BY <3>1
  <2> HIDE DEF V, W
  <2>3. Cardinality(W) = Cardinality(V) + 1
    BY <2>1, FS_AddElement
  <2>4. Rank(nx) = Len(cx) + 1
    BY <1>3, <2>2, <2>3 DEF Rank
  <2>5. PICK e \in Contexts : e = Entry(nx)
    BY <1>5
  <2>6. /\ Append(cx, e) \in Seq(Contexts) /\ Len(Append(cx, e)) = Len(cx) + 1 /\ Len(cx) \in Nat
        /\ Append(cx, e)[Len(cx) + 1] = e
        /\ \A k \in 1 .. Len(cx) : Append(cx, e)[k] = cx[k]
    BY <1>3
  <2>7. ASSUME NEW i \in Valued, i < nx PROVE Rank(i) \in 1 .. Len(cx)
    <3> DEFINE R == {j \in Valued : j <= i}
    <3>1. R \subseteq V /\ R # {}
      <4>1. \A j \in Valued : j <= i => j < nx
        BY <1>1, <2>7
      <4>2. i \in R
        BY <1>1
      <4> QED BY <4>1, <4>2 DEF V
    <3>2. R \in SUBSET Valued
      OBVIOUS
    <3> HIDE DEF R
    <3>3. IsFiniteSet(R) /\ Cardinality(R) \in Nat /\ Cardinality(R) <= Cardinality(V)
      BY <1>1, <2>1, <3>1, <3>2, FS_Subset
    <3>4. Cardinality(R) # 0
      BY <3>1, <3>3, FS_EmptySet
    <3> QED BY <1>3, <2>1, <3>3, <3>4 DEF Rank, R
  <2>8. ASSUME NEW i \in Valued, i < nx + 1 PROVE Append(cx, e)[Rank(i)] = Entry(i)
    <3>1. CASE i = nx
      BY <2>4, <2>5, <2>6, <3>1
    <3>2. CASE i < nx
      <4>1. cx[Rank(i)] = Entry(i)
        BY <3>2 DEF Noted
      <4> QED BY <2>6, <2>7, <3>2, <4>1
    <3> QED BY <1>2, <2>8, <3>1, <3>2
  <2> QED BY <1>3, <2>3, <2>5, <2>6, <2>8 DEF Noted, W
<1> QED BY <1>4, <1>5

-----------------------------------------------------------------------------
(* What the parser has accepted.                                            *)
Kinds == {"ident", "open", "close", "pointer", "property"}

Expected(k) ==
  IF k \in {"open", "pointer"} THEN "pointer" ELSE IF k = "property" THEN "close" ELSE "term"

Grammar(nx, ex) ==
  /\ nx = 1 => ex = "term"
  /\ nx > 1 => Kind(expr, 1) \in {"ident", "open"} /\ ex = Expected(Kind(expr, nx - 1))
  /\ \A i \in 2 .. nx - 1 : Kind(expr, i - 1) \in Follows[Kind(expr, i)]

LEMMA KindFacts ==
  ASSUME expr \in Seq(Tokens), NEW i \in 1 .. Len(expr)
  PROVE  /\ expr[i] \in Tokens /\ Kind(expr, i) \in Kinds
         /\ Kind(expr, i) = "pointer" <=> expr[i].is \in Pointers
         /\ Kind(expr, i) = "property" <=> expr[i].is \in Properties
         /\ Kind(expr, i) = "ident" <=> expr[i].is = "ident"
         /\ Kind(expr, i) = "open" <=> expr[i].is = "open"
         /\ Kind(expr, i) = "close" <=> expr[i].is = "close"
<1>1. expr[i] \in Tokens
  OBVIOUS
<1>2. expr[i].is \in {"ident", "open", "close"} \cup Pointers \cup Properties
  BY <1>1 DEF Tokens
<1> QED BY <1>1, <1>2 DEF Kind, Kinds, Pointers, Properties

LEMMA GrammarOn ==
  ASSUME expr \in Seq(Tokens), NEW nx \in 1 .. Len(expr), NEW ex, Grammar(nx, ex),
         \/ ex = "term" /\ Kind(expr, nx) \in {"ident", "open"}
         \/ ex = "pointer" /\ Kind(expr, nx) \in {"pointer", "property"}
         \/ ex = "close" /\ Kind(expr, nx) = "close"
  PROVE  Grammar(nx + 1, Expected(Kind(expr, nx)))
<1>1. Len(expr) \in Nat /\ nx \in Nat
  OBVIOUS
<1>2. nx + 1 # 1 /\ nx + 1 - 1 = nx /\ nx + 1 > 1
  BY <1>1
<1>3. Kind(expr, 1) \in {"ident", "open"}
  <2>1. CASE nx = 1
    BY <2>1 DEF Grammar
  <2>2. CASE nx > 1
    BY <2>2 DEF Grammar
  <2> QED BY <1>1, <2>1, <2>2
<1>4. nx > 1 => Kind(expr, nx - 1) \in Follows[Kind(expr, nx)]
  <2> SUFFICES ASSUME nx > 1 PROVE Kind(expr, nx - 1) \in Follows[Kind(expr, nx)]
    OBVIOUS
  <2>1. nx - 1 \in 1 .. Len(expr)
    BY <1>1
  <2>2. PICK k \in Kinds : k = Kind(expr, nx - 1)
    BY <2>1, KindFacts
  <2>3. ex = Expected(k)
    BY <2>2 DEF Grammar
  <2>4. PICK l \in Kinds : l = Kind(expr, nx)
    BY KindFacts
  <2>5. k \in Follows[l]
    BY <2>3, <2>4 DEF Expected, Follows, Kinds
  <2> QED BY <2>2, <2>4, <2>5
<1>5. \A i \in 2 .. nx : Kind(expr, i - 1) \in Follows[Kind(expr, i)]
  <2>1. \A i \in 2 .. nx : i \in 2 .. nx - 1 \/ i = nx
    BY <1>1
  <2> QED BY <1>1, <1>4, <2>1 DEF Grammar
<1> QED BY <1>2, <1>3, <1>5 DEF Grammar

-----------------------------------------------------------------------------
(* What ends the process.                                                   *)
Doomed == ~WellFormed(expr) \/ \E i \in Asked : Target(i) = None

(* Where the parser stops the expression is not well formed.                *)
LEMMA Malformed ==
  ASSUME expr \in Seq(Tokens), next \in 1 .. Len(expr) + 1, Grammar(next, expect), SyntaxError
  PROVE  ~WellFormed(expr)
<1> SUFFICES ASSUME WellFormed(expr) PROVE FALSE
  OBVIOUS
<1>1. Len(expr) \in Nat /\ expr # << >> /\ Len(expr) >= 1
  BY DEF WellFormed
<1>2. CASE next > Len(expr)
  <2>1. next = Len(expr) + 1 /\ next # 1 /\ next > 1 /\ next - 1 = Len(expr)
    BY <1>1, <1>2
  <2>2. expect # "term"
    BY <1>2, <2>1 DEF SyntaxError
  <2>3. Kind(expr, Len(expr)) \in {"ident", "close"} /\ expect = Expected(Kind(expr, Len(expr)))
    BY <2>1 DEF Grammar, WellFormed
  <2>4. PICK k \in {"ident", "close"} : k = Kind(expr, Len(expr))
    BY <2>3
  <2>5. Expected(k) = "term"
    BY DEF Expected
  <2> QED BY <2>2, <2>3, <2>4, <2>5
<1>3. CASE ~(next > Len(expr))
  <2>1. next \in 1 .. Len(expr)
    BY <1>1, <1>3
  <2>2. PICK k \in Kinds : k = Kind(expr, next)
    BY <2>1, KindFacts
  <2>3. CASE next = 1
    <3>1. expect = "term" /\ k \in {"ident", "open"}
      BY <2>2, <2>3 DEF Grammar, WellFormed
    <3>2. expr[next].is \in {"ident", "open"}
      BY <2>1, <2>2, <3>1, KindFacts
    <3> QED BY <1>3, <3>1, <3>2 DEF SyntaxError, Token
  <2>4. CASE next # 1
    <3>1. next > 1 /\ next \in 2 .. Len(expr) /\ next - 1 \in 1 .. Len(expr)
      BY <1>1, <2>1, <2>4
    <3>2. PICK l \in Kinds : l = Kind(expr, next - 1)
      BY <3>1, KindFacts
    <3>3. expect = Expected(l) /\ l \in Follows[k]
      BY <2>2, <3>1, <3>2 DEF Grammar, WellFormed
    <3>4. \/ expect = "term" /\ k \in {"ident", "open"}
          \/ expect = "pointer" /\ k \in {"pointer", "property"}
          \/ expect = "close" /\ k = "close"
      BY <3>3 DEF Expected, Follows, Kinds
    <3>5. \/ expect = "term" /\ expr[next].is \in {"ident", "open"}
          \/ expect = "pointer" /\ expr[next].is \in Pointers \cup Properties
          \/ expect = "close" /\ expr[next].is = "close"
      BY <2>1, <2>2, <3>4, KindFacts
    <3> QED BY <1>3, <3>5 DEF SyntaxError, Token
  <2> QED BY <2>3, <2>4
<1> QED BY <1>2, <1>3

(* A navigator that leaves the tree leaves it for the property after it.    *)
LEMMA LeftForGood ==
  ASSUME expr \in Seq(Tokens), NEW j \in 1 .. Len(expr), expr[j].is \in Pointers, Route[j] = None
  PROVE  Doomed
<1> SUFFICES ASSUME WellFormed(expr) PROVE \E i \in Asked : Target(i) = None
  BY DEF Doomed
<1> DEFINE Other == {k \in j .. Len(expr) : Kind(expr, k) # "pointer"}
<1>1. Len(expr) \in Nat /\ Len(expr) \in 1 .. Len(expr) /\ DOMAIN expr = 1 .. Len(expr)
  BY DEF WellFormed
<1>2. Len(expr) \in Other
  BY <1>1 DEF WellFormed
<1>3. PICK k \in Other : \A l \in Other : k <= l
  <2>1. Other \subseteq Nat
    BY <1>1
  <2> HIDE DEF Other
  <2> QED BY <1>2, <2>1, LeastOf
<1>4. k \in 1 .. Len(expr) /\ j < k /\ Kind(expr, k) # "pointer"
  <2>1. Kind(expr, j) = "pointer"
    BY KindFacts
  <2>2. k # j
    BY <2>1
  <2> QED BY <1>1, <2>2
<1>5. ASSUME NEW l \in j .. k - 1 PROVE l \in 1 .. Len(expr) /\ expr[l].is \in Pointers
  <2>1. l \in 1 .. Len(expr) /\ l \in j .. Len(expr) /\ ~(k <= l)
    BY <1>1, <1>4
  <2>2. l \notin Other
    <3> HIDE DEF Other
    <3> QED BY <1>3, <2>1
  <2>3. Kind(expr, l) = "pointer"
    BY <2>1, <2>2
  <2> QED BY <2>1, <2>3, KindFacts
<1> HIDE DEF Other
<1>6. \A l \in j .. k - 1 : Route[l] = None
  <2> DEFINE Inside == {l \in j .. k - 1 : Route[l] # None}
  <2> SUFFICES ASSUME Inside # {} PROVE FALSE
    OBVIOUS
  <2>1. PICK l \in Inside : \A m \in Inside : l <= m
    <3>1. Inside \subseteq Nat
      BY <1>1
    <3> HIDE DEF Inside
    <3> QED BY <3>1, LeastOf
  <2>2. l \in j .. k - 1 /\ Route[l] # None
    OBVIOUS
  <2>3. l # j /\ l - 1 \in j .. k - 1 /\ ~(l <= l - 1) /\ l # 0
    BY <1>4, <2>2
  <2>4. l - 1 \notin Inside
    <3> HIDE DEF Inside
    <3> QED BY <2>1, <2>3
  <2>5. Route[l - 1] = None
    BY <2>3, <2>4
  <2>6. l \in 1 .. Len(expr) /\ expr[l].is \in Pointers
    BY <1>5, <2>2
  <2>7. l \in 0 .. Len(expr) /\ expr[l].is # "open"
    BY <1>1, <2>6 DEF Pointers
  <2>8. Route[l] = Navigate(Route[l - 1], expr[l])
    BY <2>3, <2>6, <2>7, RouteUnfolds DEF Going
  <2>9. Navigate(Route[l - 1], expr[l]) = None
    BY <2>5 DEF Navigate
  <2> QED BY <2>2, <2>8, <2>9
<1>7. k - 1 \in j .. k - 1 /\ k \in 2 .. Len(expr)
  BY <1>1, <1>4
<1>8. Kind(expr, k - 1) = "pointer"
  BY <1>5, <1>7, KindFacts
<1>9. Kind(expr, k - 1) \in Follows[Kind(expr, k)]
  BY <1>7 DEF WellFormed
<1>10. Kind(expr, k) = "property"
  <2>1. PICK x \in Kinds : x = Kind(expr, k)
    BY <1>4, KindFacts
  <2>2. x # "pointer" /\ "pointer" \in Follows[x]
    BY <1>4, <1>8, <1>9, <2>1
  <2>3. x = "property"
    BY <2>2 DEF Kinds, Follows
  <2> QED BY <2>1, <2>3
<1>11. k \in Asked
  BY <1>1, <1>4, <1>10, KindFacts DEF Asked
<1>12. Target(k) = None
  BY <1>6, <1>7 DEF Target
<1> QED BY <1>11, <1>12

-----------------------------------------------------------------------------
(* Between two callbacks the listener is where the route leads, or on its   *)
(* way up in parentuntil.                                                   *)
OnRoute(nx, hr, ex) ==
  \/ hr = Route[nx - 1]
  \/ /\ ex = "pointer" /\ nx <= Len(expr) /\ expr[nx].is = "parentuntil"
     /\ Navigate(hr, expr[nx]) = Navigate(Route[nx - 1], expr[nx])

Listens(nx, hr, ex, cx) ==
  /\ nx \in 1 .. Len(expr) + 1 /\ hr \in DOMAIN tree
  /\ OnRoute(nx, hr, ex)
  /\ \A j \in 0 .. nx - 1 : Route[j] \in DOMAIN tree
  /\ Grammar(nx, ex) /\ Noted(nx, cx)

LEMMA TokenTaken ==
  ASSUME Shaped, expr \in Seq(Tokens), NEW nx \in 1 .. Len(expr), NEW hr, NEW ex, NEW cx,
         Listens(nx, hr, ex, cx), Route[nx] \in DOMAIN tree,
         \/ ex = "term" /\ Kind(expr, nx) \in {"ident", "open"}
         \/ ex = "pointer" /\ Kind(expr, nx) \in {"pointer", "property"}
         \/ ex = "close" /\ Kind(expr, nx) = "close"
  PROVE  Listens(nx + 1, Route[nx], Expected(Kind(expr, nx)),
                 IF nx \in Valued THEN Append(cx, Entry(nx)) ELSE cx)
<1>1. Len(expr) \in Nat /\ nx \in Nat /\ nx + 1 - 1 = nx /\ nx + 1 \in 1 .. Len(expr) + 1
  OBVIOUS
<1>2. Grammar(nx + 1, Expected(Kind(expr, nx)))
  BY GrammarOn DEF Listens
<1>3. \A j \in 0 .. nx + 1 - 1 : Route[j] \in DOMAIN tree
  <2>1. \A j \in 0 .. nx + 1 - 1 : j \in 0 .. nx - 1 \/ j = nx
    BY <1>1
  <2> QED BY <2>1 DEF Listens
<1>4. Entry(nx) \in Contexts
  <2>1. PICK e \in Tokens : e = expr[nx]
    OBVIOUS
  <2>2. e.arg \in STRING /\ e.is \in Words
    BY DEF Tokens, Words
  <2>3. Target(nx) \in Int
    <3>1. nx - 1 \in 0 .. nx - 1
      BY <1>1
    <3> QED BY <3>1 DEF Target, Listens, Shaped
  <2>4. "plain" \in Words /\ None \in Int
    BY DEF Words, None
  <2>5. \A t \in Int, w \in Words, a \in STRING : [of |-> t, get |-> w, arg |-> a] \in Contexts
    BY DEF Contexts
  <2>6. /\ [of |-> None, get |-> "plain", arg |-> e.arg] \in Contexts
        /\ [of |-> Target(nx), get |-> e.is, arg |-> e.arg] \in Contexts
    BY <2>2, <2>3, <2>4, <2>5
  <2> QED BY <2>1, <2>6 DEF Entry
<1>5. Noted(nx + 1, IF nx \in Valued THEN Append(cx, Entry(nx)) ELSE cx)
  BY <1>4, NotedOn DEF Listens
<1>6. OnRoute(nx + 1, Route[nx], Expected(Kind(expr, nx)))
  BY <1>1 DEF OnRoute
<1> QED BY <1>1, <1>2, <1>3, <1>5, <1>6 DEF Listens

(* Every callback keeps that, or ends the process for a reason.             *)
LEMMA QueryStep ==
  ASSUME Shaped, expr \in Seq(Tokens), \A i \in DOMAIN expr : Fits(expr[i]), status = "parsing",
         Listens(next, here, expect, context), QueryNext
  PROVE  /\ UNCHANGED <<expr, starting, tree>>
         /\ \/ status' = "parsing" /\ Listens(next', here', expect', context')
            \/ status' = "fatal" /\ Doomed
            \/ End
<1>1. Len(expr) \in Nat /\ DOMAIN expr = 1 .. Len(expr) /\ next \in 1 .. Len(expr) + 1
      /\ here \in DOMAIN tree
  BY DEF Listens
<1> DEFINE Goal == /\ UNCHANGED <<expr, starting, tree>>
                   /\ \/ status' = "parsing" /\ Listens(next', here', expect', context')
                      \/ status' = "fatal" /\ Doomed
                      \/ End
<1>2. ASSUME Take, next \in 1 .. Len(expr), here' = Route[next], Route[next] \in DOMAIN tree,
             \/ expect = "term" /\ Kind(expr, next) \in {"ident", "open"}
             \/ expect = "pointer" /\ Kind(expr, next) \in {"pointer", "property"}
             \/ expect = "close" /\ Kind(expr, next) = "close",
             expect' = Expected(Kind(expr, next)),
             context' = IF next \in Valued THEN Append(context, Entry(next)) ELSE context
      PROVE  Goal
  <2>1. Listens(next + 1, Route[next], Expected(Kind(expr, next)),
                IF next \in Valued THEN Append(context, Entry(next)) ELSE context)
    BY <1>2, TokenTaken
  <2>2. next' = next + 1 /\ status' = status /\ UNCHANGED <<expr, starting, tree>>
    BY <1>2 DEF Take
  <2> QED BY <1>2, <2>1, <2>2
<1>3. ASSUME Parsing
      PROVE  /\ next \in 1 .. Len(expr) /\ next \in DOMAIN expr /\ next \in 0 .. Len(expr)
             /\ next # 0 /\ Token = expr[next] /\ Token \in Tokens /\ Fits(Token)
             /\ Route[next] = Going(Route, next) /\ Route[next - 1] \in DOMAIN tree
  <2>1. next \in 1 .. Len(expr) /\ next \in 0 .. Len(expr) /\ next # 0 /\ next - 1 \in 0 .. next - 1
    BY <1>1, <1>3 DEF Parsing
  <2> QED BY <1>1, <2>1, RouteUnfolds DEF Token, Listens
<1>4. Parsing /\ Token.is # "parentuntil" => here = Route[next - 1]
  BY <1>3 DEF Listens, OnRoute
<1>5. CASE Fixed
  <2>1. /\ Parsing /\ Token.is = "ident" /\ expect = "term" /\ Take /\ expect' = expect /\ here' = here
        /\ context' = Append(context, [of |-> None, get |-> "plain", arg |-> Token.arg])
    BY <1>5 DEF Fixed
  <2>2. here' = Route[next] /\ Route[next] \in DOMAIN tree
    <3>1. Token.is \notin Pointers /\ Token.is # "open" /\ Token.is # "parentuntil"
      BY <2>1 DEF Pointers
    <3> QED BY <1>3, <1>4, <2>1, <3>1 DEF Going
  <2>3. Kind(expr, next) = "ident"
    BY <1>3, <2>1, KindFacts
  <2>4. next \in Valued /\ Entry(next) = [of |-> None, get |-> "plain", arg |-> Token.arg]
    BY <1>3, <2>1 DEF Valued, Entry
  <2>5. Expected("ident") = "term"
    BY DEF Expected
  <2> QED BY <1>2, <1>3, <2>1, <2>2, <2>3, <2>4, <2>5
<1>6. CASE Dynamic
  <2>1. /\ Parsing /\ Token.is = "open" /\ expect = "term" /\ Take /\ expect' = "pointer"
        /\ here' = starting /\ context' = context
    BY <1>6 DEF Dynamic, GoTo
  <2>2. here' = Route[next] /\ Route[next] \in DOMAIN tree
    <3>1. Route[next] = starting
      BY <1>3, <2>1 DEF Going
    <3>2. 0 \in 0 .. next - 1 /\ 0 \in 0 .. Len(expr)
      BY <1>1
    <3>3. Route[0] = starting
      BY <3>2, RouteUnfolds DEF Going
    <3>4. Route[0] \in DOMAIN tree
      BY <3>2 DEF Listens
    <3> QED BY <2>1, <3>1, <3>3, <3>4
  <2>3. Kind(expr, next) = "open"
    BY <1>3, <2>1, KindFacts
  <2>4. next \notin Valued
    BY <1>3, <2>1 DEF Valued
  <2>5. Expected("open") = "pointer"
    BY DEF Expected
  <2> QED BY <1>2, <1>3, <2>1, <2>2, <2>3, <2>4, <2>5
<1>7. CASE Parent \/ Child \/ LSib \/ RSib \/ ParentUntil
  <2>1. Parsing /\ expect = "pointer" /\ Token.is \in Pointers
    BY <1>7 DEF Parent, Child, LSib, RSib, ParentUntil, Moving, Pointers
  <2>2. Kind(expr, next) = "pointer" /\ next \notin Valued
    <3>1. next \notin Valued
      BY <1>3, <2>1 DEF Valued, Pointers
    <3> QED BY <1>3, <2>1, <3>1, KindFacts
  <2>3. Route[next] = Navigate(Route[next - 1], Token)
    <3>1. Token.is # "open"
      BY <2>1 DEF Pointers
    <3> QED BY <1>3, <2>1, <3>1 DEF Going
  <2>4. Route[next] = Navigate(here, Token)
    BY <1>3, <2>1, <2>3 DEF Listens, OnRoute
  <2>5. \/ \E m \in DOMAIN tree : Navigate(here, Token) = m /\ MoveTo(m)
        \/ Navigate(here, Token) = None /\ Abort
        \/ /\ Token.is = "parentuntil" /\ here' \in DOMAIN tree
           /\ Navigate(here', Token) = Navigate(here, Token)
           /\ UNCHANGED <<expr, next, expect, starting, context, status, values, tree>>
    BY <1>1, <1>3, <1>7, <2>1, NavigatorsMove
  <2>6. ASSUME NEW m \in DOMAIN tree, Navigate(here, Token) = m, MoveTo(m) PROVE Goal
    <3>1. Take /\ here' = m /\ expect' = expect /\ context' = context
      BY <2>6 DEF MoveTo
    <3>2. Expected("pointer") = "pointer"
      BY DEF Expected
    <3> QED BY <1>2, <1>3, <2>1, <2>2, <2>4, <2>6, <3>1, <3>2
  <2>7. ASSUME Navigate(here, Token) = None, Abort PROVE Goal
    <3>1. Doomed
      BY <1>3, <2>1, <2>4, <2>7, LeftForGood
    <3> QED BY <2>7, <3>1 DEF Abort
  <2>8. ASSUME Token.is = "parentuntil", here' \in DOMAIN tree,
               Navigate(here', Token) = Navigate(here, Token),
               UNCHANGED <<expr, next, expect, starting, context, status, values, tree>>
        PROVE  Goal
    <3>1. OnRoute(next, here', expect)
      <4>1. next <= Len(expr) /\ Token = expr[next]
        BY <1>1, <1>3, <2>1
      <4>2. Navigate(here', Token) = Navigate(Route[next - 1], Token)
        BY <2>3, <2>4, <2>8
      <4> QED BY <2>1, <2>8, <4>1, <4>2 DEF OnRoute
    <3>2. Listens(next, here', expect, context)
      BY <2>8, <3>1 DEF Listens
    <3> QED BY <2>8, <3>2
  <2> QED BY <2>5, <2>6, <2>7, <2>8
<1>8. CASE Property
  <2>1. /\ Parsing /\ expect = "pointer" /\ Token.is \in Properties /\ expect' = "close" /\ Take
        /\ here' = here
        /\ context' = IF Token.is \in {"sym_def_type", "sym_inval_type"} THEN context
                      ELSE Append(context, [of |-> here, get |-> Token.is, arg |-> Token.arg])
    BY <1>8 DEF Property
  <2>2. here = Route[next - 1] /\ here' = Route[next] /\ Route[next] \in DOMAIN tree
    <3>1. Token.is \notin Pointers /\ Token.is # "open" /\ Token.is # "parentuntil"
      BY <2>1 DEF Pointers, Properties
    <3> QED BY <1>3, <1>4, <2>1, <3>1 DEF Going
  <2>3. Kind(expr, next) = "property"
    BY <1>3, <2>1, KindFacts
  <2>4. next \in Valued <=> Token.is \notin {"sym_def_type", "sym_inval_type"}
    BY <1>3, <2>1 DEF Valued, Properties
  <2>5. Entry(next) = [of |-> here, get |-> Token.is, arg |-> Token.arg]
    <3>1. Token.is # "ident"
      BY <2>1 DEF Properties
    <3>2. Token = expr[next] /\ Target(next) = here
      BY <1>3, <2>1, <2>2 DEF Target
    <3> QED BY <3>1, <3>2 DEF Entry
  <2>6. Expected("property") = "close"
    BY DEF Expected
  <2>7. context' = IF next \in Valued THEN Append(context, Entry(next)) ELSE context
    BY <2>1, <2>4, <2>5
  <2> QED BY <1>2, <1>3, <2>1, <2>2, <2>3, <2>6, <2>7
<1>9. CASE Close
  <2>1. /\ Parsing /\ expect = "close" /\ Token.is = "close" /\ expect' = "term" /\ Take
        /\ here' = here /\ context' = context
    BY <1>9 DEF Close
  <2>2. here' = Route[next] /\ Route[next] \in DOMAIN tree
    <3>1. Token.is \notin Pointers /\ Token.is # "open" /\ Token.is # "parentuntil"
      BY <2>1 DEF Pointers
    <3> QED BY <1>3, <1>4, <2>1, <3>1 DEF Going
  <2>3. Kind(expr, next) = "close"
    BY <1>3, <2>1, KindFacts
  <2>4. next \notin Valued
    BY <1>3, <2>1 DEF Valued
  <2>5. Expected("close") = "term"
    BY DEF Expected
  <2> QED BY <1>2, <1>3, <2>1, <2>2, <2>3, <2>4, <2>5
<1>10. CASE SyntaxError
  <2>1. ~WellFormed(expr)
    BY <1>1, <1>10, Malformed DEF Listens
  <2>2. Abort
    BY <1>10 DEF SyntaxError
  <2> QED BY <2>1, <2>2 DEF Doomed, Abort
<1>11. CASE End
  BY <1>11 DEF End
<1> QED BY <1>5, <1>6, <1>7, <1>8, <1>9, <1>10, <1>11 DEF QueryNext

-----------------------------------------------------------------------------
(* The tree that is asked comes from one of the texts.                      *)
SourceKnown ==
  calls # << >> \/ root # None => \E i \in 1 .. Len(Texts) : source \in Texts[i]

LEMMA SourceAlways == Spec => []SourceKnown
<1>1. Init => SourceKnown
  BY DEF Init, FrontendInit, SourceKnown
<1>2. Inv /\ Translation /\ SourceKnown /\ [Next]_vars => SourceKnown'
  <2> SUFFICES ASSUME Inv, Translation, SourceKnown, [Next]_vars PROVE SourceKnown'
    OBVIOUS
  <2>1. CASE UNCHANGED frontendVars
    BY <2>1 DEF frontendVars, SourceKnown
  <2>2. CASE Reject
    BY <2>2 DEF Reject, Returned, SourceKnown
  <2>3. CASE parses < Len(Texts) /\ \E pt \in Texts[parses + 1] : Parse(pt)
    <3>1. PICK pt \in Texts[parses + 1] : source' = pt
      BY <2>3 DEF Parse
    <3>2. parses + 1 \in 1 .. Len(Texts)
      <4>1. parses \in Nat /\ Len(Texts) \in Nat
        BY TextsAssumption DEF Translation
      <4> QED BY <2>3, <4>1
    <3> QED BY <3>1, <3>2 DEF SourceKnown
  <2>4. CASE EnterRule \/ EnterToken \/ EnterEOF \/ Return
    <3>1. calls # << >> /\ source' = source
      BY <2>4 DEF EnterRule, EnterToken, EnterEOF, Return, HasChild, Returned
    <3> QED BY <3>1 DEF SourceKnown
  <2>5. FrontendNext \/ UNCHANGED frontendVars
    BY DEF Next, vars, Collect, Query, TakeResult
  <2> QED BY <2>1, <2>2, <2>3, <2>4, <2>5 DEF FrontendNext
<1> QED BY <1>1, <1>2, InvHolds, TranslationAlways, PTL DEF Spec

(* No expression wraps around in that tree, and node_num counts no token.   *)
LEMMA TreeFits ==
  ASSUME OffsetsFit, NamesDiffer, TreeInv, FrontendInv, Translation, SourceKnown,
         Returned, root # None
  PROVE  /\ Shaped
         /\ \A e \in Expressions : \A i \in DOMAIN e : Fits(e[i])
         /\ \A e \in Expressions : \A i \in DOMAIN e : e[i].is = "node_num" =>
              \A m \in DOMAIN tree : tree[m].terminal => tree[m].name # e[i].arg
<1>1. PICK k \in 1 .. Len(Texts) : source \in Texts[k]
  BY DEF SourceKnown
<1>2. /\ Progress /\ Copied /\ root \in Nat /\ Kept \in Nat /\ Seen = 1 .. Kept /\ Open = {}
      /\ \A p : ID(p) = root + p - 1
  BY ReturnedTree
<1>3. TreeOrder
  BY TreesAreInOrder
<1>4. PICK L \in Nat : L = Len(source.up) /\ L >= 1 /\ source.up \in Seq(Nat)
  BY <1>2 DEF Progress, InPreorder
<1>5. Kept <= L
  <2>1. CASE Kept = 0
    BY <1>4, <2>1
  <2>2. CASE Kept # 0
    <3>1. Kept \in Seen
      BY <1>2, <2>2
    <3>2. Kept \in 1 .. at /\ at \in 1 .. L
      BY <1>2, <1>4, <3>1 DEF Seen, Progress
    <3> QED BY <3>2
  <2> QED BY <2>1, <2>2
<1>6. /\ DOMAIN tree = {root + p - 1 : p \in 1 .. Kept}
      /\ \A p \in 1 .. Kept :
           /\ tree[root + p - 1].name = source.name[p]
           /\ tree[root + p - 1].terminal = (p \notin source.rules)
           /\ tree[root + p - 1].up = IF p = 1 THEN None ELSE root + source.up[p] - 1
  <2>1. PICK S : S = 1 .. Kept
    OBVIOUS
  <2>2. Copies(tree, S, {})
    BY <1>2, <2>1 DEF Copied
  <2>3. \A n, p : Data(n, p) => n.name = source.name[p] /\ n.terminal = (p \notin source.rules)
    BY DEF Data, Record
  <2>4. /\ DOMAIN tree = {ID(p) : p \in S}
        /\ \A p \in S : /\ Data(tree[ID(p)], p)
                        /\ tree[ID(p)].up = IF p = 1 \/ p \in {} THEN None ELSE ID(source.up[p])
    BY <2>2 DEF Copies
  <2>5. DOMAIN tree = {root + p - 1 : p \in S}
    BY <1>2, <2>4
  <2> QED BY <1>2, <2>1, <2>3, <2>4, <2>5
<1>7. ASSUME NEW n \in DOMAIN tree
      PROVE  /\ n \in Nat /\ n \in root .. root + Kept - 1
             /\ tree[n].up = None \/ tree[n].up \in DOMAIN tree
  <2>1. PICK p \in 1 .. Kept : n = root + p - 1
    BY <1>6
  <2>2. CASE p = 1
    BY <1>2, <1>6, <2>1, <2>2
  <2>3. CASE p # 1
    <3>1. p \in 2 .. Len(source.up)
      BY <1>2, <1>4, <1>5, <2>3
    <3>2. PICK u \in 1 .. p - 1 : u = source.up[p]
      BY <1>2, <3>1 DEF Progress, InPreorder
    <3>3. u \in 1 .. Kept
      BY <1>2, <3>2
    <3>4. tree[n].up = root + u - 1
      BY <1>6, <2>1, <2>3, <3>2
    <3>5. root + u - 1 \in DOMAIN tree
      BY <1>6, <3>3
    <3>6. n \in Nat /\ n \in root .. root + Kept - 1
      BY <1>2, <2>1
    <3> QED BY <3>4, <3>5, <3>6
  <2> QED BY <2>2, <2>3
<1>8. Shaped
  BY <1>3, <1>7 DEF Shaped
<1>9. ASSUME NEW n \in DOMAIN tree PROVE Len(tree[n].kids) <= L
  <2>1. PICK s : s = tree[n].kids
    OBVIOUS
  <2>2. s \in Seq(Nat) /\ s \in Seq(DOMAIN tree) /\ Ascending(s) /\ Len(s) \in Nat
    BY <1>8, <2>1, ShapedKids
  <2>3. CASE Len(s) = 0
    BY <1>4, <2>1, <2>3
  <2>4. CASE Len(s) # 0
    <3>1. 1 \in 1 .. Len(s) /\ Len(s) \in 1 .. Len(s) /\ 1 <= Len(s)
      BY <2>2, <2>4
    <3>2. Between(ToSet(s), s[1], s[Len(s)]) = Len(s) - 1
      BY <2>2, <3>1, PlacesBetween
    <3> DEFINE T == {x \in ToSet(s) : s[1] <= x /\ x < s[Len(s)]}
               I == root .. root + Kept - 2
    <3>3. T \subseteq I
      <4>1. ToSet(s) \subseteq DOMAIN tree /\ s[Len(s)] \in DOMAIN tree
        BY <2>2, <3>1 DEF ToSet
      <4> QED BY <1>2, <1>7, <4>1
    <3>4. IsFiniteSet(I) /\ Cardinality(I) = IF root > root + Kept - 2 THEN 0 ELSE root + Kept - 2 - root + 1
      BY <1>2, FS_Interval
    <3>5. Cardinality(T) = Len(s) - 1
      BY <3>2 DEF Between
    <3> HIDE DEF T, I
    <3>6. Cardinality(T) <= Cardinality(I)
      BY <3>3, <3>4, FS_Subset
    <3>7. Kept >= 1
      BY <1>2, <1>6
    <3>8. Len(s) - 1 <= Kept - 1
      BY <1>2, <2>2, <3>4, <3>5, <3>6, <3>7
    <3> QED BY <1>2, <1>4, <1>5, <2>1, <2>2, <3>8
  <2> QED BY <2>3, <2>4
<1>10. ASSUME NEW e \in Expressions, NEW i \in DOMAIN e
       PROVE  Fits(e[i])
  <2>1. e[i].num + L <= Word
    BY <1>1, <1>4 DEF OffsetsFit
  <2>2. e \in Seq(Tokens)
    BY ExpressionsAssumption
  <2>3. e[i] \in Tokens
    BY <2>2
  <2>4. PICK k2 \in Nat : k2 = e[i].num
    BY <2>3 DEF Tokens
  <2>5. \A n \in DOMAIN tree : Len(tree[n].kids) \in Nat
    BY <1>8, ShapedKids
  <2> QED BY <1>4, <1>9, <2>1, <2>4, <2>5, WordAssumption DEF Fits
<1>11. ASSUME NEW e \in Expressions, NEW i \in DOMAIN e, e[i].is = "node_num",
              NEW m \in DOMAIN tree, tree[m].terminal
       PROVE  tree[m].name # e[i].arg
  <2>1. PICK p \in 1 .. Kept : m = root + p - 1
    BY <1>6
  <2>2. tree[m].name = source.name[p] /\ p \notin source.rules
    BY <1>6, <1>11, <2>1
  <2>3. p \in DOMAIN source.up
    BY <1>2, <1>4, <1>5
  <2> QED BY <1>1, <1>11, <2>2, <2>3 DEF NamesDiffer
<1> QED BY <1>8, <1>10, <1>11

-----------------------------------------------------------------------------
(* What the listener is about, once an expression has been given to it.     *)
QueryInv ==
  status # "idle" =>
    /\ Returned /\ root # None /\ expr \in Expressions
    /\ status \in {"parsing", "done", "fatal"}
    /\ status \in {"parsing", "done"} => Listens(next, here, expect, context)
    /\ status = "done" => /\ next > Len(expr) /\ next > 1 /\ expect = "term"
                          /\ values = [i \in DOMAIN context |-> Evaluate(context[i])]
    /\ status = "fatal" => Doomed

LEMMA ListeningStarts ==
  Shaped /\ next = 1 /\ expect = "term" /\ starting \in DOMAIN tree /\ here = starting
    /\ context = << >> /\ expr \in Seq(Tokens)
  => Listens(next, here, expect, context)
<1> SUFFICES ASSUME Shaped, next = 1, expect = "term", starting \in DOMAIN tree, here = starting,
                    context = << >>, expr \in Seq(Tokens)
             PROVE  Listens(next, here, expect, context)
  OBVIOUS
<1>1. Len(expr) \in Nat /\ next \in 1 .. Len(expr) + 1 /\ next - 1 = 0
  OBVIOUS
<1>2. Route[0] = starting
  <2>1. 0 \in 0 .. Len(expr)
    BY <1>1
  <2> QED BY <2>1, RouteUnfolds DEF Going
<1>3. OnRoute(next, here, expect) /\ \A j \in 0 .. next - 1 : Route[j] \in DOMAIN tree
  BY <1>1, <1>2 DEF OnRoute
<1>4. Grammar(next, expect)
  BY DEF Grammar
<1>5. Noted(next, context)
  <2>1. \A j \in Valued : j \in Nat /\ j >= 1
    BY ValuedFinite
  <2>2. {j \in Valued : j < next} = {} /\ \A i \in Valued : ~(i < next)
    BY <2>1
  <2>3. << >> \in Seq(Contexts) /\ Len(<< >>) = 0
    OBVIOUS
  <2>4. Cardinality({j \in Valued : j < next}) = 0
    BY <2>2, FS_EmptySet
  <2> QED BY <2>2, <2>3, <2>4 DEF Noted
<1> QED BY <1>1, <1>3, <1>4, <1>5 DEF Listens

(* None of it changes while the expression and the tree stay.               *)
LEMMA RouteRests ==
  ASSUME tree' = tree, expr' = expr, starting' = starting
  PROVE  /\ Route' = Route /\ Valued' = Valued
         /\ \A n, p : Navigate(n, p)' = Navigate(n, p)
         /\ \A c : Evaluate(c)' = Evaluate(c)
         /\ Doomed => Doomed'
         /\ Listens(next', here', expect', context') => Listens(next, here, expect, context)'
<1>1. Route' = Route
  BY DEF Route, Navigate, Only, Kids, ToSet, Siblings, Between, Subtree, Closed, Max
<1>2. Valued' = Valued
  BY DEF Valued
<1>3. \A n, p : Navigate(n, p)' = Navigate(n, p)
  BY DEF Navigate, Only, Kids, ToSet, Siblings, Between, Subtree, Closed, Max
<1>4. \A c : Evaluate(c)' = Evaluate(c)
  BY DEF Evaluate, ToSource, InOrder, Terminals, Kids, ToSet, Subtree, Closed
<1>5. Doomed => Doomed'
  BY <1>1 DEF Doomed, WellFormed, Kind, Follows, Asked, Target
<1>6. Grammar(next', expect') => Grammar(next, expect)'
  BY DEF Grammar, Kind, Follows
<1>7. OnRoute(next', here', expect') => OnRoute(next, here, expect)'
  BY <1>1, <1>3 DEF OnRoute
<1>8. Noted(next', context') => Noted(next, context)'
  BY <1>1, <1>2 DEF Noted, Rank, Entry, Target
<1>9. Listens(next', here', expect', context') => Listens(next, here, expect, context)'
  BY <1>1, <1>6, <1>7, <1>8 DEF Listens
<1> QED BY <1>1, <1>2, <1>3, <1>4, <1>5, <1>9

LEMMA QueryAlways ==
  ASSUME OffsetsFit, NamesDiffer
  PROVE  Spec => []QueryInv
<1>1. Init => QueryInv
  BY DEF Init, QueryInit, QueryInv
<1>2. Inv /\ Translation /\ SourceKnown /\ QueryInv /\ [Next]_vars
        /\ (Inv /\ Translation /\ SourceKnown)' => QueryInv'
  <2> SUFFICES ASSUME Inv, Translation, SourceKnown, QueryInv, [Next]_vars,
                      (Inv /\ Translation /\ SourceKnown)'
               PROVE  QueryInv'
    OBVIOUS
  <2>1. CASE status' = "idle"
    BY <2>1 DEF QueryInv
  <2>2. CASE UNCHANGED <<tree, frontendVars, queryVars>>
    <3>1. /\ tree' = tree /\ calls' = calls /\ root' = root /\ expr' = expr /\ next' = next
          /\ expect' = expect /\ starting' = starting /\ here' = here /\ context' = context
          /\ status' = status /\ values' = values
      BY <2>2 DEF frontendVars, queryVars
    <3>2. SUFFICES ASSUME status # "idle" PROVE QueryInv'
      BY <2>1, <3>1
    <3>3. \A c : Evaluate(c)' = Evaluate(c)
      BY <3>1, RouteRests
    <3>4. Doomed => Doomed'
      BY <3>1, RouteRests
    <3>5. Listens(next, here, expect, context) => Listens(next, here, expect, context)'
      BY <3>1, RouteRests
    <3> QED BY <3>1, <3>2, <3>3, <3>4, <3>5 DEF QueryInv, Returned
  <2>3. CASE Query
    <3>1. PICK e \in Expressions, n \in DOMAIN tree : StartQuery(e, n)
      BY <2>3 DEF Query
    <3>2. /\ Returned /\ root # None /\ tree' = tree /\ calls' = calls /\ root' = root
      BY <2>3 DEF Query, Ready, frontendVars
    <3>3. /\ expr' = e /\ next' = 1 /\ expect' = "term" /\ starting' = n /\ here' = n
          /\ context' = << >> /\ status' = "parsing"
      BY <3>1 DEF StartQuery, Listening
    <3>4. Shaped
      BY <3>2, TreeFits DEF Inv
    <3>5. Shaped'
      <4>1. TreeInv => TreeInv'
        BY <3>2 DEF TreeInv
      <4>2. \A x : Kids(x)' = Kids(x)
        BY <3>2 DEF Kids
      <4>3. TreeOrder => TreeOrder'
        BY <3>2, <4>2 DEF TreeOrder, Ascending
      <4> QED BY <3>2, <3>4, <4>1, <4>3 DEF Shaped
    <3>6. e \in Seq(Tokens)
      BY ExpressionsAssumption
    <3>7. Listens(next, here, expect, context)'
      <4>1. (Shaped /\ next = 1 /\ expect = "term" /\ starting \in DOMAIN tree /\ here = starting
               /\ context = << >> /\ expr \in Seq(Tokens))'
        BY <3>2, <3>3, <3>5, <3>6
      <4> QED BY <4>1, ListeningStarts, PTL
    <3> QED BY <3>2, <3>3, <3>7 DEF QueryInv, Returned
  <2>4. CASE QueryNext /\ UNCHANGED <<frontendVars, walkVars>>
    <3>1. status = "parsing" /\ calls' = calls /\ root' = root
      BY <2>4 DEF QueryNext, Fixed, Dynamic, Parent, Child, LSib, RSib, ParentUntil, Property,
                  Close, SyntaxError, End, Moving, Parsing, frontendVars
    <3>2. /\ Returned /\ root # None /\ expr \in Expressions
          /\ Listens(next, here, expect, context)
      BY <3>1 DEF QueryInv
    <3>3. Shaped /\ \A i \in DOMAIN expr : Fits(expr[i])
      BY <3>2, TreeFits DEF Inv
    <3>4. expr \in Seq(Tokens)
      BY <3>2, ExpressionsAssumption
    <3>5. /\ tree' = tree /\ expr' = expr /\ starting' = starting
          /\ \/ status' = "parsing" /\ Listens(next', here', expect', context')
             \/ status' = "fatal" /\ Doomed
             \/ End
      BY <2>4, <3>1, <3>2, <3>3, <3>4, QueryStep
    <3>6. /\ Doomed => Doomed'
          /\ Listens(next', here', expect', context') => Listens(next, here, expect, context)'
          /\ \A c : Evaluate(c)' = Evaluate(c)
      BY <3>5, RouteRests
    <3>7. CASE status' = "parsing" /\ Listens(next', here', expect', context')
      BY <3>1, <3>2, <3>5, <3>6, <3>7 DEF QueryInv, Returned
    <3>8. CASE status' = "fatal" /\ Doomed
      BY <3>1, <3>2, <3>5, <3>6, <3>8 DEF QueryInv, Returned
    <3>9. CASE End
      <4>1. /\ next > Len(expr) /\ expect = "term" /\ next > 1 /\ status' = "done"
            /\ values' = [i \in DOMAIN context |-> Evaluate(context[i])]
            /\ next' = next /\ here' = here /\ expect' = expect /\ context' = context
        BY <3>9 DEF End
      <4>2. Listens(next', here', expect', context')
        BY <3>2, <4>1
      <4>3. values' = [i \in DOMAIN context' |-> Evaluate(context[i])']
        BY <3>6, <4>1
      <4> QED BY <3>1, <3>2, <3>5, <3>6, <4>1, <4>2, <4>3 DEF QueryInv, Returned
    <3> QED BY <3>5, <3>7, <3>8, <3>9
  <2>5. CASE TakeResult
    BY <2>1, <2>5 DEF TakeResult, EndQuery, Listening
  <2>6. CASE status = "idle" /\ UNCHANGED queryVars
    BY <2>1, <2>6 DEF queryVars
  <2>7. CASE CollectNext /\ UNCHANGED <<frontendVars, queryVars>>
    <3>1. tree' = tree
      BY <2>7 DEF CollectNext, EnterIR, ExitIR
    <3> QED BY <2>2, <2>7, <3>1
  <2> QED BY <2>2, <2>3, <2>4, <2>5, <2>6, <2>7 DEF Next, Collect, Ready, vars
<1> QED BY <1>1, <1>2, InvHolds, TranslationAlways, SourceAlways, PTL DEF Spec

(* Whatever the tree and the expression are, an expression that is done has *)
(* the documented values, and one that ends the process is malformed or     *)
(* leads out of the tree: as long as no offset is so near to 2^64 that it   *)
(* wraps around, and no token has the name that a node_num counts.          *)
THEOREM QueriesAreDocumented ==
  ASSUME OffsetsFit, NamesDiffer
  PROVE  Spec => []QueryAsDocumented
<1>1. Inv /\ Translation /\ SourceKnown /\ QueryInv => QueryAsDocumented
  <2> SUFFICES ASSUME Inv, Translation, SourceKnown, QueryInv PROVE QueryAsDocumented
    OBVIOUS
  <2>1. status = "fatal" => ~WellFormed(expr) \/ \E i \in Asked : Target(i) = None
    BY DEF QueryInv, Doomed
  <2>2. ASSUME status = "done"
        PROVE  /\ WellFormed(expr) /\ \A i \in Asked : Target(i) # None
               /\ DOMAIN values = 1 .. Cardinality(Valued)
               /\ \A i \in Valued : values[Cardinality({j \in Valued : j <= i})] = Documented(i)
    <3>1. /\ Returned /\ root # None /\ expr \in Expressions
          /\ Listens(next, here, expect, context)
          /\ next > Len(expr) /\ next > 1 /\ expect = "term"
          /\ values = [i \in DOMAIN context |-> Evaluate(context[i])]
      BY <2>2 DEF QueryInv
    <3>2. /\ Shaped
          /\ \A i \in DOMAIN expr : expr[i].is = "node_num" =>
               \A m \in DOMAIN tree : tree[m].terminal => tree[m].name # expr[i].arg
      BY <3>1, TreeFits DEF Inv
    <3>3. expr \in Seq(Tokens)
      BY <3>1, ExpressionsAssumption
    <3>4. /\ Len(expr) \in Nat /\ DOMAIN expr = 1 .. Len(expr) /\ next = Len(expr) + 1
          /\ Len(expr) \in 1 .. Len(expr) /\ next - 1 = Len(expr)
      <4>1. next \in 1 .. Len(expr) + 1 /\ Len(expr) \in Nat /\ DOMAIN expr = 1 .. Len(expr)
        BY <3>1, <3>3 DEF Listens
      <4> QED BY <3>1, <4>1
    <3>5. WellFormed(expr)
      <4>1. /\ Kind(expr, 1) \in {"ident", "open"} /\ "term" = Expected(Kind(expr, Len(expr)))
            /\ \A i \in 2 .. Len(expr) : Kind(expr, i - 1) \in Follows[Kind(expr, i)]
        BY <3>1, <3>4 DEF Listens, Grammar
      <4>2. PICK k \in Kinds : k = Kind(expr, Len(expr))
        BY <3>3, <3>4, KindFacts
      <4>3. k \in {"ident", "close"}
        BY <4>1, <4>2 DEF Expected, Kinds
      <4>4. expr # << >>
        BY <3>4
      <4> QED BY <4>1, <4>2, <4>3, <4>4 DEF WellFormed
    <3>6. \A i \in 1 .. Len(expr) : Target(i) \in DOMAIN tree
      <4>1. \A i \in 1 .. Len(expr) : i - 1 \in 0 .. next - 1
        BY <3>4
      <4> QED BY <3>1, <4>1 DEF Listens, Target
    <3>7. \A i \in Asked : Target(i) # None
      <4>1. None \notin DOMAIN tree
        BY <3>2 DEF Shaped, None
      <4> QED BY <3>4, <3>6, <4>1 DEF Asked
    <3>8. /\ Valued \subseteq 1 .. Len(expr)
          /\ \A S \in SUBSET Valued : IsFiniteSet(S) /\ Cardinality(S) \in Nat
      BY <3>3, ValuedFinite
    <3>9. {j \in Valued : j < next} = Valued
      <4>1. \A j \in Valued : j < next
        BY <3>4, <3>8
      <4> QED BY <4>1
    <3>10. /\ context \in Seq(Contexts) /\ Len(context) = Cardinality(Valued)
           /\ \A i \in Valued : context[Rank(i)] = Entry(i)
      <4>1. \A i \in Valued : i < next
        BY <3>4, <3>8
      <4> QED BY <3>1, <3>9, <4>1 DEF Listens, Noted
    <3>11. DOMAIN context = 1 .. Cardinality(Valued) /\ DOMAIN values = 1 .. Cardinality(Valued)
      BY <3>1, <3>10
    <3>12. ASSUME NEW i \in Valued PROVE values[Rank(i)] = Documented(i)
      <4>1. Rank(i) \in 1 .. Cardinality(Valued)
        <5> DEFINE R == {j \in Valued : j <= i}
        <5>1. R \in SUBSET Valued /\ R # {}
          BY <3>8
        <5> HIDE DEF R
        <5>2. IsFiniteSet(Valued) /\ Cardinality(Valued) \in Nat
          BY <3>8
        <5>3. Cardinality(R) \in Nat /\ IsFiniteSet(R) /\ Cardinality(R) <= Cardinality(Valued)
          BY <3>8, <5>1, <5>2, FS_Subset
        <5>4. Cardinality(R) # 0
          BY <5>1, <5>3, FS_EmptySet
        <5> QED BY <5>2, <5>3, <5>4 DEF Rank, R
      <4>2. values[Rank(i)] = Evaluate(Entry(i))
        BY <3>1, <3>10, <3>11, <4>1
      <4>3. Evaluate(Entry(i)) = Documented(i)
        <5>1. CASE expr[i].is = "ident"
          BY <5>1 DEF Evaluate, Entry, Documented
        <5>2. CASE expr[i].is = "node_num"
          <6>1. Entry(i) = [of |-> Target(i), get |-> "node_num", arg |-> expr[i].arg]
            BY <5>2 DEF Entry
          <6>2. Evaluate(Entry(i))
                  = Cardinality({m \in Subtree(Target(i)) : tree[m].name = expr[i].arg})
            BY <6>1 DEF Evaluate
          <6>3. Subtree(Target(i)) \subseteq DOMAIN tree
            BY DEF Subtree
          <6>4. \A m \in Subtree(Target(i)) : tree[m].name = expr[i].arg => ~tree[m].terminal
            BY <3>2, <3>4, <3>8, <5>2, <6>3
          <6>5. {m \in Subtree(Target(i)) : tree[m].name = expr[i].arg}
                  = {m \in Subtree(Target(i)) : ~tree[m].terminal /\ tree[m].name = expr[i].arg}
            BY <6>4
          <6> QED BY <5>2, <6>2, <6>5 DEF Documented
        <5>3. CASE expr[i].is # "ident" /\ expr[i].is # "node_num"
          BY <5>3 DEF Documented, Entry
        <5> QED BY <5>1, <5>2, <5>3
      <4> QED BY <4>2, <4>3
    <3> QED BY <3>5, <3>7, <3>11, <3>12 DEF Rank
  <2> QED BY <2>1, <2>2 DEF QueryAsDocumented
<1> QED BY <1>1, InvHolds, TranslationAlways, SourceAlways, QueryAlways, PTL
=============================================================================
