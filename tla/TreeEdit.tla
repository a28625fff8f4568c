------------------------------ MODULE TreeEdit ------------------------------
(***************************************************************************)
(* How the mutator edits a test case: ReplaceSubtreeWithAnother and         *)
(* DeleteNodeFromIR change the children of one node of the original tree,   *)
(* DeepClone the whole of it, put the original back, and give a text to the *)
(* parser; GetSourceAndInsert only reads the tree.                          *)
(*                                                                          *)
(* `tree` holds the nodes of the test case and of the trees in the pools;   *)
(* the nodes of a clone keep the IDs of the originals and are known by the  *)
(* order they are made in.                                                  *)
(***************************************************************************)
EXTENDS IRTree

CONSTANT removable_types   (* for each type that may be removed: what goes with it *)

VARIABLES
  test,      (* the root of the test case                                   *)
  edit,      (* the function that was called, with its arguments            *)
  phase,     (* "idle", "cloning", "restoring", "parsing" or "done"         *)
  frames,    (* the active calls of DeepClone                               *)
  clone,     (* the nodes it has made                                       *)
  removed,   (* the children that were taken out, in their order            *)
  parsed     (* the text that was given to the parser                       *)

editVars == <<edit, phase, frames, clone, removed, parsed>>

NoEdit == [by |-> "none"]

EditInit ==
  /\ edit = NoEdit /\ phase = "idle" /\ frames = << >> /\ clone = << >>
  /\ removed = << >> /\ parsed = << >>

ParentOf(n)    == tree[n].up
IndexOf(n)     == CHOOSE i \in DOMAIN tree[ParentOf(n)].kids : tree[ParentOf(n)].kids[i] = n
WithKids(n, s) == [tree EXCEPT ![n].kids = s]

(* ToSource by the children, whatever their IDs are.                        *)
TextOf(nodes, n) ==
  LET text[m \in DOMAIN nodes] ==
        IF nodes[m].terminal THEN <<nodes[m].name>>
        ELSE FlattenSeq([i \in DOMAIN nodes[m].kids |-> text[nodes[m].kids[i]]])
  IN  text[n]

(* The nodes of a subtree of the test case or of a pooled tree.             *)
NodesOf(nodes, n) ==
  LET below[m \in DOMAIN nodes] ==
        {m} \cup UNION {below[c] : c \in ToSet(nodes[m].kids)}
  IN  below[n]

Nodes(n) == NodesOf(tree, n)
Leaves(n) == {m \in Nodes(n) : tree[m].terminal}

-----------------------------------------------------------------------------
(* DeepClone, one step for every node it makes and for every return.        *)
Clone(n) ==
  [id |-> n, type |-> tree[n].type, name |-> tree[n].name, terminal |-> tree[n].terminal,
   label |-> tree[n].label, up |-> None, kids |-> << >>]

StartClone(n) ==
  /\ phase' = "cloning" /\ clone' = <<Clone(n)>>
  /\ frames' = <<[of |-> n, copy |-> 1, cloned |-> 0]>>

Frame == Last(frames)
KidsOfFrame == tree[Frame.of].kids

CloneChild ==
  /\ phase = "cloning" /\ Frame.cloned < Len(KidsOfFrame)
  /\ LET c == KidsOfFrame[Frame.cloned + 1] IN
     /\ clone' = Append(clone, Clone(c))
     /\ frames' = Append([frames EXCEPT ![Len(frames)].cloned = @ + 1],
                         [of |-> c, copy |-> Len(clone) + 1, cloned |-> 0])
  /\ UNCHANGED <<tree, test, edit, phase, removed, parsed>>

(* A mutant: a copy does not learn its parent.                              *)
Orphaned(nodes, child, parent) ==
  [nodes EXCEPT ![parent].kids = Append(@, child)]

(* A mutant: the copies of the children end up in reverse order.            *)
Prepended(nodes, child, parent) ==
  [nodes EXCEPT ![child].up = parent, ![parent].kids = <<child>> \o @]

(* cloned_child->SetParent(new_ir); new_ir->children_.push_back(...)        *)
Adopted(nodes, child, parent) ==
  [nodes EXCEPT ![child].up = parent, ![parent].kids = Append(@, child)]

ReturnClone ==
  /\ phase = "cloning" /\ Frame.cloned = Len(KidsOfFrame)
  /\ IF Len(frames) = 1
     THEN phase' = "restoring" /\ UNCHANGED clone
     ELSE /\ clone' = Adopted(clone, Frame.copy, frames[Len(frames) - 1].copy)
          /\ UNCHANGED phase
  /\ frames' = Front(frames)
  /\ UNCHANGED <<tree, test, edit, removed, parsed>>

-----------------------------------------------------------------------------
(* ReplaceSubtreeWithAnother, up to the clone: the pooled tree hangs among  *)
(* the children of a node that is not its parent.                           *)
Replace(n, another, aim) ==
  /\ phase = "idle"
  /\ edit' = [by |-> "replace", node |-> n, other |-> another, aim |-> aim,
              at |-> IF n = test THEN 0 ELSE IndexOf(n)]
  /\ IF n = test
     THEN StartClone(another) /\ UNCHANGED tree
     ELSE /\ tree' = WithKids(ParentOf(n), ReplaceAt(tree[ParentOf(n)].kids, IndexOf(n), another))
          /\ StartClone(test)
  /\ UNCHANGED <<test, removed, parsed>>

(* each = subtree                                                           *)
Revert ==
  /\ phase = "restoring" /\ edit.by = "replace"
  /\ LET parent == ParentOf(edit.node) IN
     tree' = IF edit.node = test THEN tree
             ELSE WithKids(parent, ReplaceAt(tree[parent].kids, edit.at, edit.node))
  /\ phase' = "parsing"
  /\ UNCHANGED <<test, edit, frames, clone, removed, parsed>>

(* How many children behind the i-th are stripped with it.                  *)
Stripped(kids, i, strip) ==
  Cardinality({j \in i + 1 .. Len(kids) : \A k \in i + 1 .. j : tree[kids[k]].type \in strip})

(* DeleteNodeFromIR, up to the clone.                                       *)
Delete(n) ==
  /\ phase = "idle" /\ tree[n].type \in DOMAIN removable_types /\ ParentOf(n) # None
  /\ LET kids == tree[ParentOf(n)].kids
         i    == IndexOf(n)
         last == i + Stripped(kids, i, removable_types[tree[n].type])
     IN  /\ edit' = [by |-> "delete", node |-> n, at |-> i]
         /\ removed' = SubSeq(kids, i, last)
         /\ tree' = WithKids(ParentOf(n),
                             SubSeq(kids, 1, i - 1) \o SubSeq(kids, last + 1, Len(kids)))
  /\ StartClone(test)
  /\ UNCHANGED <<test, parsed>>

(* A mutant: what was removed first is put back first.                      *)
ReinsertFirst == [child |-> Head(removed), rest |-> Tail(removed)]

(* for (auto each = removed.rbegin(); ...) iter = insert(iter, *each)       *)
ReinsertLast == [child |-> Last(removed), rest |-> Front(removed)]

Reinsert ==
  /\ phase = "restoring" /\ edit.by = "delete"
  /\ LET parent == ParentOf(edit.node) IN
     tree' = WithKids(parent, InsertAt(tree[parent].kids, edit.at, ReinsertLast.child))
  /\ removed' = ReinsertLast.rest
  /\ phase' = IF removed' = << >> THEN "parsing" ELSE phase
  /\ UNCHANGED <<test, edit, frames, clone, parsed>>

(* A replacement parses the clone, a deletion the restored tree.            *)
ParseEdit ==
  /\ phase = "parsing"
  /\ parsed' = IF edit.by = "replace" THEN TextOf(clone, 1) ELSE TextOf(tree, test)
  /\ phase' = "done"
  /\ UNCHANGED <<tree, test, edit, frames, clone, removed>>

-----------------------------------------------------------------------------
(* A mutant: nothing separates what is inserted.                            *)
Unseparated(text, sep) == text

EndingWith(text, sep) ==
  IF text = << >> \/ Last(text) = sep THEN text ELSE Append(text, sep)

(* GetSourceAndInsert: the text before, of and behind the i-th child.       *)
GetSourceAndInsert(location, target, before, sep) ==
  LET source[m \in DOMAIN tree] ==
        LET own     == [i \in DOMAIN tree[m].kids |-> source[tree[m].kids[i]]]
            upto(i) == FlattenSeq(SubSeq(own, 1, i))
            from(i) == FlattenSeq(SubSeq(own, i, Len(own)))
            at      == IndexOf(location)
        IN  IF tree[m].terminal THEN <<tree[m].name>>
            ELSE IF location \notin Kids(m) THEN upto(Len(own))
            ELSE IF before
            THEN EndingWith(upto(at - 1) \o TextOf(tree, target), sep) \o from(at)
            ELSE EndingWith(upto(at), sep) \o TextOf(tree, target) \o from(at + 1)
  IN  source[test]

Insert(location, target, before, sep, aim) ==
  /\ phase = "idle"
  /\ edit' = [by |-> "insert", node |-> location, other |-> target, before |-> before,
              sep |-> sep, aim |-> aim]
  /\ parsed' = GetSourceAndInsert(location, target, before, sep)
  /\ phase' = "done"
  /\ UNCHANGED <<tree, test, frames, clone, removed>>

(* The caller goes on with the original tree.                               *)
EndEdit ==
  /\ phase = "done"
  /\ edit' = NoEdit /\ phase' = "idle" /\ clone' = << >> /\ parsed' = << >>
  /\ UNCHANGED <<tree, test, frames, removed>>

EditNext == CloneChild \/ ReturnClone \/ Revert \/ Reinsert \/ ParseEdit \/ EndEdit

-----------------------------------------------------------------------------
(* The text to the left and to the right of a subtree of the test case.     *)
TextWhere(S) ==
  LET ids == InOrder(S) IN [i \in DOMAIN ids |-> tree[ids[i]].name]

Before(n) == TextWhere({m \in Leaves(test) : m < n})
After(n)  == TextWhere({m \in Leaves(test) : m > Max(Nodes(n))})

(* Two texts with one separator between them. Where the first is empty, the *)
(* text before it decides, if its parent has any.                           *)
Joins(first, second, sep) ==
  IF first = << >> THEN {second, <<sep>> \o second}
  ELSE IF Last(first) = sep THEN {first \o second}
  ELSE {first \o <<sep>> \o second}

(* What a deletion takes out: the node and the separators right behind it.  *)
Gone(n) ==
  LET strip   == removable_types[tree[n].type]
      siblings == {s \in Kids(ParentOf(n)) : s > n}
  IN  Nodes(n) \cup UNION {Nodes(s) : s \in {s \in siblings :
        \A r \in siblings : r <= s => tree[r].type \in strip}}

(* What the parser gets or the clone has is the text of the test case with  *)
(* the text of one node exchanged for that of the pooled tree, or with the  *)
(* pooled tree and a separator next to the location, or without the node    *)
(* and the separators behind it, and nothing else is different.             *)
EditsAreExact ==
  phase = "done" =>
    /\ edit.by = "replace" => parsed = Before(edit.node) \o TextOf(tree, edit.other)
                                       \o After(edit.node)
    /\ edit.by = "insert" =>
         LET own == TextOf(tree, edit.node)
             new == TextOf(tree, edit.other)
         IN  IF edit.node = test THEN parsed = own
             ELSE \E text \in IF edit.before THEN Joins(new, own, edit.sep)
                              ELSE Joins(own, new, edit.sep) :
                    parsed = Before(edit.node) \o text \o After(edit.node)
    /\ edit.by = "delete" =>
         TextOf(clone, 1) =
           Before(edit.node) \o TextWhere({m \in Leaves(test) : m > Max(Gone(edit.node))})

(* A finished clone is a tree of its own: every node but the first is once  *)
(* among the children of the node it has for a parent, and of no other.     *)
ClonesAreTrees ==
  phase \in {"restoring", "parsing", "done"} /\ edit.by # "insert" =>
    /\ clone[1].up = None
    /\ \A p \in 2 .. Len(clone) :
         /\ clone[p].up \in 1 .. p - 1
         /\ \A q \in DOMAIN clone : Cardinality({i \in DOMAIN clone[q].kids : clone[q].kids[i] = p})
                                    = IF q = clone[p].up THEN 1 ELSE 0

(* When the first call of DeepClone is about to return, the clone has what  *)
(* the edited tree has, node by node and with the children in their order.  *)
ClonesAreCopies ==
  phase = "cloning" /\ Len(frames) = 1 /\ Frame.cloned = Len(KidsOfFrame) =>
    \A p \in DOMAIN clone :
      LET n == tree[clone[p].id] IN
      /\ clone[p].type = n.type /\ clone[p].name = n.name /\ clone[p].terminal = n.terminal
      /\ clone[p].label = n.label
      /\ [i \in DOMAIN clone[p].kids |-> clone[clone[p].kids[i]].id] = n.kids
=============================================================================
