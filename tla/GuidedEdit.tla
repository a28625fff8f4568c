----------------------------- MODULE GuidedEdit -----------------------------
(***************************************************************************)
(* The mutation pools and the edits of GuidedMutate. Test cases are parsed  *)
(* and their subtrees saved under the labels they contain; then one is      *)
(* parsed to be mutated, and its nodes are replaced, joined and deleted one *)
(* after the other, with trees that can use the symbols the analyzer finds  *)
(* there, or any of the right type.                                         *)
(*                                                                          *)
(* The parse trees are those of Frontend, without EOF; the symbols at a     *)
(* node, which SymbolAnalysis finds (Available), are any.                   *)
(***************************************************************************)
EXTENDS TreeEdit, Guidance

CONSTANTS
  Corpus,             (* the parse trees of the test cases to be saved      *)
  TestCases,          (* the parse trees of the test cases to be mutated    *)
  MaxSaves,           (* bound: how many are saved                          *)
  Types,              (* the types symbols have                             *)
  Boundary,           (* replaceable_type_boundary_                         *)
  insertable_types    (* where what is inserted: location_type, target_type, *)
                      (* insert_before, sep                                 *)

(* The nodes of a parse tree are numbered in preorder, as Frontend says;    *)
(* those that an annotation tags have its label.                            *)
ASSUME ParseTreesAssumption ==
  \A pt \in Corpus \cup TestCases :
    /\ pt.up \in Seq(Nat) /\ pt.up # << >> /\ pt.up[1] = 0
    /\ \A p \in 2 .. Len(pt.up) :
         /\ pt.up[p] \in 1 .. p - 1 /\ pt.up[p] \in pt.rules
         /\ \A q \in pt.up[p] + 1 .. p - 1 : pt.up[q] >= pt.up[p]
    /\ \A p \in DOMAIN pt.up : pt.label[p] \in {NoLabel} \cup {NodeLabel(a) : a \in Annotations}

VARIABLES
  read,   (* what has been parsed: the parse trees and the IRs of their roots; *)
          (* the last is mutated if test # None                              *)
  pool    (* tree_pool_ (label AnyLabel) and guided_mutation_pool_: the type, the *)
          (* label and the tree                                             *)

vars == <<tree, test, editVars, read, pool>>

AnyLabel == Label(NoPart, "any", NoPart)

(* Two sets of nodes together.                                              *)
With(nodes, new) ==
  [n \in DOMAIN nodes \cup DOMAIN new |-> IF n \in DOMAIN nodes THEN nodes[n] ELSE new[n]]

(* The IR of a parse tree whose root gets the ID `base`.                    *)
IRs(pt, base) ==
  LET id(p) == IF p = 0 THEN None ELSE base + p - 1 IN
  [n \in {id(p) : p \in DOMAIN pt.up} |->
     LET p == n - base + 1 IN
     [type |-> pt.type[p], name |-> pt.name[p], terminal |-> p \notin pt.rules,
      label |-> pt.label[p], up |-> id(pt.up[p]),
      kids |-> InOrder({id(c) : c \in {c \in DOMAIN pt.up : pt.up[c] = p}})]]

Parsed(r) == IRs(r.parse, r.root)

NextID == IF read = << >> THEN 0 ELSE Last(read).root + Len(Last(read).parse.up)

Read(pt) == read' = Append(read, [parse |-> pt, root |-> NextID])

Init ==
  /\ tree = << >> /\ test = None /\ read = << >> /\ pool = {}
  /\ EditInit

-----------------------------------------------------------------------------
(* SaveSubtreesToPool: the nodes the subtree collector finds below and      *)
(* including the boundary (CollectsExactly), by type, and by the labels in   *)
(* their subtree (LabelsAreExact).                                          *)
(* A mutant: a tree is saved under the labels of all test cases so far.     *)
LabelsAround(heap, below) == {heap[m].label : m \in DOMAIN heap} \ {NoLabel}

LabelsIn(heap, below) == {heap[m].label : m \in below} \ {NoLabel}

(* What a test case has for the pools, each with the key of its pool.       *)
Kept(heap, new) ==
  {n \in DOMAIN new : \A m \in NodesOf(heap, n) \ {n} : heap[m].type # Boundary}

Offered(heap, new) ==
  UNION {{<<heap[n].type, l, n>> : l \in LabelsIn(heap, NodesOf(heap, n)) \cup {AnyLabel}} :
           n \in Kept(heap, new)}

(* A pool does not take a tree if it has one with the same text.            *)
Twins(heap, e, f) ==
  <<e[1], e[2]>> = <<f[1], f[2]>> /\ TextOf(heap, e[3]) = TextOf(heap, f[3])

(* Of the trees of one test case with the same text, it takes the one that  *)
(* comes first; the order is that of a hash table.                          *)
Save(pt) ==
  /\ test = None /\ Len(read) < MaxSaves
  /\ Read(pt)
  /\ LET new   == IRs(pt, NextID)
         heap  == With(tree, new)
         fresh == {e \in Offered(heap, new) : \A f \in pool : ~Twins(heap, e, f)}
     IN  /\ tree' = heap
         /\ \E late \in SUBSET {e \in fresh : \E f \in fresh \ {e} : Twins(heap, e, f)} :
              /\ \A e \in fresh : \E f \in fresh \ late : Twins(heap, e, f)
              /\ \A e, f \in fresh \ late : Twins(heap, e, f) => e = f
              /\ pool' = pool \cup (fresh \ late)
  /\ UNCHANGED <<test, editVars>>

(* MutateOneOnString parses the test case.                                  *)
Load(pt) ==
  /\ test = None
  /\ Read(pt) /\ test' = NextID
  /\ tree' = With(tree, IRs(pt, NextID))
  /\ UNCHANGED <<editVars, pool>>

-----------------------------------------------------------------------------
Pooled(type, label) == {e[3] : e \in {e \in pool : e[1] = type /\ e[2] = label}}

Differs(c, n) == TextOf(tree, c) # TextOf(tree, n)

(* CollectNonEmptyNodesBelowBoundary                                        *)
Replaceable ==
  {n \in Nodes(test) : /\ Leaves(n) # {} /\ Pooled(tree[n].type, AnyLabel) # {}
                         /\ \A m \in Nodes(n) : tree[m].type # Boundary}

(* GuidedMutateReplaceMany, with one of the symbols that can be used at n.  *)
GuidedCandidates(n, type) ==
  {c \in UNION {Pooled(tree[n].type, l) : l \in GetSupportingLabelsForSymbolType(type)} :
     Differs(c, n)}

GuidedReplace ==
  /\ phase = "idle" /\ test # None
  /\ \E n \in Replaceable, type \in Types :
       \E c \in GuidedCandidates(n, type) : Replace(n, c, {type})
  /\ UNCHANGED <<read, pool>>

RandomReplace ==
  /\ phase = "idle" /\ test # None
  /\ \E n \in Replaceable : \E c \in Pooled(tree[n].type, AnyLabel) : Differs(c, n) /\ Replace(n, c, {})
  /\ UNCHANGED <<read, pool>>

Locations(type) == {n \in Nodes(test) : tree[n].type = type}

(* GuidedMutateInsertMany, with the symbols that can be used at a location. *)
LabelsForInsertion(types) ==
  {WithoutLastPart(l) : l \in GetLabelsForDefiningSymbol
                              \cup UNION {GetSupportingLabelsForSymbolType(t) : t \in types}}

GuidedInsert ==
  /\ phase = "idle" /\ test # None
  /\ \E i \in insertable_types, types \in SUBSET Types \ {{}} :
       \E n \in Locations(i.location_type), l \in LabelsForInsertion(types) :
         \E c \in Pooled(i.target_type, l) : Insert(n, c, i.insert_before, i.sep, types)
  /\ UNCHANGED <<read, pool>>

(* ManyMutateInsert                                                         *)
RandomInsert ==
  /\ phase = "idle" /\ test # None
  /\ \E i \in insertable_types :
       \E n \in Locations(i.location_type), c \in Pooled(i.target_type, AnyLabel) :
         Insert(n, c, i.insert_before, i.sep, {})
  /\ UNCHANGED <<read, pool>>

(* GuidedMutateDeleteMany                                                   *)
DeleteAny ==
  /\ test # None
  /\ \E n \in Nodes(test) : Delete(n)
  /\ UNCHANGED <<read, pool>>

Next ==
  \/ \E pt \in Corpus : Save(pt)
  \/ \E pt \in TestCases : Load(pt)
  \/ GuidedReplace \/ RandomReplace
  \/ GuidedInsert \/ RandomInsert
  \/ DeleteAny
  \/ EditNext /\ UNCHANGED <<read, pool>>

Spec == Init /\ [][Next]_vars

-----------------------------------------------------------------------------
(* "The original tree is not modified after this operation": when an edit   *)
(* has made its clone and returns, every node of the test case and of the   *)
(* pools is as the parser made it.                                          *)
OriginalsRestored ==
  phase \in {"idle", "parsing", "done"} =>
    \A i \in DOMAIN read : \A n \in DOMAIN Parsed(read[i]) : tree[n] = Parsed(read[i])[n]

(* A pool holds trees of its type that contain its label and no boundary    *)
(* strictly below the root, no text twice, and nothing of the test case     *)
(* that is being mutated: what hangs in its place during a replacement does *)
(* not contain it.                                                          *)
PoolsFit ==
  phase = "idle" =>
    /\ \A e \in pool :
         /\ tree[e[3]].type = e[1]
         /\ e[2] # AnyLabel => \E m \in Nodes(e[3]) : tree[m].label = e[2]
         /\ \A m \in Nodes(e[3]) \ {e[3]} : tree[m].type # Boundary
         /\ test # None => Nodes(e[3]) \cap Nodes(test) = {}
    /\ \A e, f \in pool :
         <<e[1], e[2]>> = <<f[1], f[2]>> /\ TextOf(tree, e[3]) = TextOf(tree, f[3]) => e = f

(* What is put in for a symbol contains a node that can do something with a *)
(* symbol of its type or, next to a statement, define one.                  *)
GuidedEditsFit ==
  edit.by \in {"replace", "insert"} =>
    (edit.aim # {} =>
       \E a \in Annotations, m \in Nodes(edit.other) :
         /\ tree[m].label = NodeLabel(a)
         /\ \/ \E type \in edit.aim : CanUse(a, type)
            \/ edit.by = "insert" /\ a.action = "DefineSymbol")

(* "try to see if any IR from the pool can use this symbol" (mutator.cc     *)
(* 580): if the pool has one with another text, there is a candidate.       *)
PooledUsersAreFound ==
  phase = "idle" /\ test # None =>
    \A n \in Replaceable, type \in Types :
      (\E c \in Pooled(tree[n].type, AnyLabel), a \in Annotations :
         /\ Differs(c, n) /\ a.action = "UseSymbol" /\ CanUse(a, type)
         /\ \E m \in Nodes(c) : tree[m].label = NodeLabel(a))
      => GuidedCandidates(n, type) # {}
=============================================================================
