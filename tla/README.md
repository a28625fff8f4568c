# TLA+ verification of BuzzBee

BuzzBee is a fuzzer for database systems. A grammar annotated with *symbol
actions* (DefineSymbol, UseSymbol, InvalidateSymbol, CreateScope, AlterOrder)
tells it what a statement does to the symbols of a test case; after a mutation
the *error fixer* renames terminals until every use finds a definition again.
afl-fuzz drives it through the custom mutator interface. This directory models
the parts of `src/` that decide what a mutated test case means, checks them on
small instances with TLC, and proves invariants of them with TLAPS.

Paths below are relative to the repository; `cc` stands for
`src/core/symbol_analysis.cc`.

## 1. The system

| component | state | operations | correct when |
|---|---|---|---|
| IR and `IRWalker` (`ir.cc`) | a tree of nodes with IDs, names, annotations | `Walk`, `DeepClone`, `ToSource` | a subtree is an interval of IDs; a clone shares nothing with its original |
| dependency graph (`cc` 842-950, 1525-1635) | adjacency lists, OrderIDs, counters of children to exit | the builder's `EnterIR`, `PerformTopoSort`, `TopoWalk` | topological order, ties by ID; an abort exactly on a cycle; `ExitIR` exactly when a subtree is complete |
| symbol tables and scopes (`symbol_analysis.h` 118-248) | symbols, a list of define/use/invalidate markers per symbol, scope ranges and parents | define, use, invalidate, look up | one symbol per name and table; every list a legal sequence |
| analyzer walk (`cc` 163-635, 952-991) | `current_scope_`, `scopes_`, `errors_`, `ir_errors_map_` | `Analyze` | every node with an action ends as a marker or as an error |
| error fixer (`cc` 993-1308, 1405-1502) | the same | `FixUnresolvedErrors`, `RevokeAll`, `RemoveIRSymbol*` | it ends; what it reports as fixed is correct |
| context queries (`anno_context.cc`) | the position of a listener in a tree | `AnalyzeSequence`, `Evaluate` | each value is that of the node the expression describes, and only read when it is final |
| mutation pools (`mutator.cc` 129-206) | a hash set and a vector per node type and label | `AddIR`, `InsertIRToPool`, random choice | set and vector agree; bounded |
| mutator (`mutator.cc`) | pools, `stage_results_` and an iterator | `Mutate`, `GetNextMutation`, `SaveSubtreesToPool`; replace, insert, delete | each promised mutation is there, and whole; an edit changes what it says and nothing else |
| AFL++ glue (`aflpp_mutator.cc`) | the mutator | `afl_custom_fuzz_count`, `_fuzz`, `_queue_new_entry` | no call fails, whatever the order of calls |
| front end (`template_frontend.cc`) | the static counter of IDs, the tree being built | `ParseSourceToIR`, `TranslateANTLR4ParseTreeToIR` | the IR is the parse tree without EOF, with consecutive IDs in preorder |
| subtree collector (`subtree_collector.cc`) | results, filtered nodes, what a filter remembers | twelve kinds of filtered walks | exactly the nodes each function is for |
| label information (`frontend_codegen.py`, `mutator.cc` 55-127) | `sym_info` | labels that can use or define a symbol of a type | every tree that can use a symbol is found |
| utilities | none | random choice | - |
| rest of the generator, scripts, input specifications | files | text processing, process start | - |

How they interact: afl-fuzz calls the glue, one call at a time on one thread.
`fuzz_count` parses the text, `Analyze`s it, builds mutations from the pools,
and for each of them calls `Analyze` and `FixUnresolvedErrors`. `Analyze` walks
the tree twice: in textual order to build the dependency graph, then in
topological order, where a callback per node runs the node's action. Actions
read texts and types of other nodes through the context queries, and so does
the fixer, *while it changes those texts*.

What is hard: there are no threads, but there is a lot of ordering. Analysis
order is not textual order; a fix renames a terminal that other nodes' types
are made of; a fix may undo what was already recorded (cascade); fixes are
chosen at random and new errors arise while fixing; the scope that is current
during the walk and the scope found by ID range are computed in two ways; the
results of a stage are fetched one by one while the pools change and after a
parse failure may be gone. `PROJECT.json` lists these hazards line by line.

## 2. The modules

**Reading a test case.** `IRTree` is the tree of `ir::IR` nodes everything walks:
a map from IDs to type, name, label, `kids` (`children_`) and `up` (`parent_`).
On top of it

- `Frontend` - `ParseSourceToIR` of the template: the ANTLR parser is external
  and yields a parse tree or an error; `Parse`, `EnterRule`, `EnterToken`,
  `EnterEOF` and `Return` are the recursive calls of
  `TranslateANTLR4ParseTreeToIR`, one per node and per return. `counter` is the
  static counter of `NewIR`, which also counts the node of EOF that is dropped,
  and goes on from text to text.
- `SubtreeCollector` - `IRWalker::Walk` with a listener whose filter looks at a
  node when its children have been left. `frames` are the active calls, `job`
  the function that was called; `FilteredOut` has one case per function,
  `holding`, `beyond` and `info` are what the lambdas capture.
- `ContextQuery` - a CQL expression. The generated parser and the listener run
  together: one step takes a token and makes the listener's callback for it.
  `Word` is 2^64, for the offsets of `lsib` and `rsib`.
- `Reading` composes the three: texts are parsed, and between two parses any
  function of the collector and any query is called for any node.

**The analyzer.** `AnnotatedTree` - its input: a tree of `N` nodes in preorder
with the action, text and annotation of every node (`Source`), the dependency
relation `GetDependencies` and `AddEdge` derive from it (`Dependencies`), and
what it means for OrderIDs to be the result of the sort (`IsTopoOrder`). A node
with a symbol action is a leaf, because `UpdateTerminalWithNewName` aborts on
anything that does not have exactly one terminal; the rule node and its terminal
are one node. A name is a number (`i` for the generated `v<i>`); a type is a
literal part and a sequence of embedded names, which is what
`"xgroup_of_key_{...@text}"` evaluates to.

`DependencyGraph` - the builder listener, `PerformTopoSort` and `TopoWalk` as a
state machine: one step per `EnterIR` of the builder, per element taken from the
priority queue, per `EnterIR` and per `ExitIR`. Counters are unsigned and wrap
at `Wrap` (2^64). What it establishes (`TopologicalOrder`, `ExitsWhenComplete`)
is what `SymbolAnalysis` assumes (`WellFormed`) and builds into `Advance`.

`SymbolAnalysis` - `Analyze` and `FixUnresolvedErrors`, on top of a finished
dependency graph.

| variable | code |
|---|---|
| `pos` | how many nodes `TopoWalk` has entered |
| `cur`, `chain` | `current_scope_`; every opened scope with its `GetParent()` chain |
| `tab` | all symbols of all tables (`type_name_to_symbol_map_`) |
| `on`, `before` | `symbol_markers_map_`: which nodes are in the list of a symbol, and in which order |
| `errors` | `errors_` and `ir_errors_map_` (always updated together) |
| `text` | the terminals' names, which fixes change |
| `phase` | `analyze`, and how it ended: `fixed`, `failed` (returned false), `fatal` (`MYLOG(FATAL)`) |
| `round` | 2 during the second analysis of a fixed test case |

`EnterScope`, `EnterOther`, `EnterDefine` and `EnterUseOrInvalidate` are one
`EnterIR` each, together with the `ExitIR` calls that follow it (`Advance`).
`FixDefine`, `FixUse`, `FixInvalidate` and `GiveUp` are one round of the loop of
`FixUnresolvedErrors` each. `FixInvalidate` contains the whole cascade: what the
new invalidate cuts off (`CutOff`) and everything `RevokeAll` and the three
`RemoveIRSymbol*` reach from there (`Revoked`, the least set closed under their
mutual calls). `AbortWalk` and `AbortFix` are the FATALs. `Reanalyze` starts the
second analysis, as the tests do after a fix. The random choices of the code
(`utils::RandomChoice`, iteration over hash sets) are `\E`.

`std::upper_bound` is modelled by its halving search (`UpperBound`), since the
list it runs on need not be sorted by the key it is given: that is one of the
findings.

`Cascade` - the same program with the cascade spelled out: the loop of
`InsertMarkerForSymbol` and the loops of the `RemoveIRSymbolDefine` calls inside
it are a `stack` of walks, each with an iterator into a marker list (`at`) and
the dependents of that marker it has not yet revoked (`todo`, in any order: the
code iterates over a hash set). Every call of `RemoveIRSymbolUse`,
`RemoveIRSymbolInvalidate` and `RemoveIRSymbolDefine` is a step, and so is every
`erase`. While a cascade is under way, `origin` remembers the tables before it.

`Repair` - the abstract specification of the analyzer: items are classified as
settled or as errors, an error that needs no other error is repaired, a repair
may turn settled items back into errors, and what remains settled was computed
from names the repair left alone. It knows no scopes, symbols, types or lists.

Two refinements connect the three. `ImplementsAnalysis` (in `Cascade`): with the
tables read as `origin` during a cascade, `Cascade` implements `SymbolAnalysis`,
so its one-step closure `Revoked` is what the nested loops compute, in whatever
order. `ImplementsRepair` (in `SymbolAnalysis`): with a node `settled` when a
list holds its marker, `SymbolAnalysis` implements `Repair`.

**The mutator.** `IRPool` - a bounded pool as set and vector; `class IRPool` and
the pair `tree_pool_`/`tree_pool_idx_map_` are maintained alike.

`Mutator` - the calls of afl-fuzz and what is behind them. A test case is a list
of statements with one argument each; the parser (`Grammatical`) and the error
fixer (`Repaired`: the test cases it leaves alone) are parameters, so that this
module is about the stage and the pools and `SymbolAnalysis` about the fixer.
`NewEntry`/`SaveSubtree` are `afl_custom_queue_new_entry` and the loading of the
corpus, `StartMutate`/`RejectText`/`KeepMutation`/`EndMutate` are
`afl_custom_fuzz_count`, `Fuzz` is `afl_custom_fuzz`, and `LeaveStage` is afl-fuzz
leaving the loop. An iterator that `clear()` has invalidated is `valid = FALSE`.

`TreeEdit` - the edits on trees. `Replace` and `Delete` are the code up to
`DeepClone`: the pooled tree hangs among the children of a node that is not its
parent, or children are missing. `CloneChild` and `ReturnClone` copy the tree as
it is then, one step per node and per return; `Revert` and `Reinsert` put the
original back (one step per `insert` of the loop); `ParseEdit` gives a text to
the parser. `Insert` is `GetSourceAndInsert`, which only reads.

`Guidance` - the labels `frontend_codegen.py` puts on nodes and into `sym_info`,
and the functions that answer which labels can use or define a symbol of a type.

`GuidedEdit` composes them: test cases are saved into `pool` by type and label
(`Save`), one is loaded to be mutated, and the mutations of `GuidedMutate` edit
it one after the other, each of which must find the test case and the pools as
the parser made them. `read` keeps the parse trees and the ID of each root, and
`Parsed` says what the parser made of them. Of the subtrees of one test case
with the same text a pool takes one, whichever the hash table of the collector
yields first. The collections of nodes are those `Reading` is about
(`CollectsExactly`, `LabelsAreExact`); the symbols at a node are any.

`MC*` give the constants values; `*Proofs` hold theorems, and `TreeLemmas` facts
about preorder trees.

Definitions whose comment says *A mutant* belong to no behaviour: each is a
plausible mistake in one definition, and shows that the property it is meant
for would notice.

## 3. The runs

Run with `tlc -config <run>.cfg <module>`.

| run | module | bounds | what it shows |
|---|---|---|---|
| `reading` | MCReading | every parse tree of 4 nodes, then one of 2; 12 calls of the collector, 74 expressions; `Word` = 16 | the IR is the parse tree; every function collects exactly its nodes; labels exact; subtrees are intervals; queries as documented |
| `graph` | MCDependencyGraph | N = 5, all trees, all pairs of references | order, cycle check, `ExitIR` |
| `textual` | MCSymbolAnalysis | N = 7, three families (all triples of 13 statements after a definition; types embedding names and copied types; a scope in a scope) | legal marker sequences, unique names, nothing stale, no undeserved abort, the fixer ends, fixes move forward, the result is clean, refinement of `Repair` |
| `awkward` | MCSymbolAnalysis | N = 6, AlterOrder; nodes outside scopes; types copied without a use or from an inner scope | types, no node lost, dependents wait, cascades find their markers, aborts only where they are deserved |
| `cascade` | MCCascade | N = 8, chains of defines and uses that fall together; AlterOrder | iterators stay valid, cascades end and succeed, refinement of `SymbolAnalysis` |
| `stage` | MCMutator | pools of 2, 3 grammatical statements, at most 2 statements and 2 mutations | pools, results, every call served |
| `edit` | MCGuidedEdit | 2 saved test cases, then any edits of a third with 1 or 2 statements (and two with 3), 4 commands, 2 keys | edits exact, clones are copies and trees of their own, originals and pools unchanged, what is put in fits the symbol |
| `delayed_returns`, `guided`, `shadowed`, `own_child`, `deletion` | | | findings, section 6 |

Why the bounds are enough to be interesting. A cascade needs a define, a node
whose type embeds its name, and a use of that one: three nodes beside the scope;
`textual` has six, so that cascades meet a second chain and a name that is given
out while another is revoked, an invalidate between a define and its uses, texts
that collide with generated names (0 and 1), fixed names and blocked types, and
statements before, in and after an inner scope. `cascade` has seven, for a walk
inside a walk inside a walk. In `graph` five nodes allow a tree of depth four and
two references that cross, nest, form cycles or point into the node's own
subtree. In `stage` three different statements and pools of two force evictions,
and one of the texts does not parse. In `reading` four nodes have a boundary or a
label two levels below, and siblings to both sides; EOF comes as a child and is
left out or absent; the second text starts at an ID that is not 0. In `edit`
three statements give a node to delete with a separator behind it and a sibling
on both sides, and two saved test cases of one text, of texts in common, and one
of two statements, where one test case offers the same text twice. `Wrap` and `Word` are 16: they stand for 2^64, the counters
count at most five children and the offsets are at most 2, and the only thing
that matters of 2^64 is that going below zero is far from zero.

The runs of `SymbolAnalysis` are families of programs, not all programs: the
whole space for N = 7 is out of reach. A family is a product of alternatives per
position (`MCSymbolAnalysis`), chosen for one kind of interaction each.
`CHECK_DEADLOCK FALSE` is set where the modelled call simply returns, or, in
`reading`, where an expression with an error ends the process; `stage` and
`edit` model a loop without an end and are checked for deadlock.

An annotation can ask for what its place in the tree does not offer: a scope
where there is none, or the type of a symbol that is not there, which
`GetSymbolAssociateWithIR` (`anno_context.cc` 17) includes when the symbol lives
in an inner scope, because it takes the outermost scope, or when it is the symbol
of the IR itself. These abort by design
of the code (`Misplaced`; `awkward` contains each). `AbortsAreDeserved` says that
nothing else does, whatever the texts are and in whatever order errors are fixed.

**Fairness.** `FairSpec` adds `WF_vars(Next)` to `SymbolAnalysis` and
`DependencyGraph`, and `FairCascade` adds it to `Cascade`: each is one call on
one thread that nothing else waits for or interrupts, so if it can make a step it
does. Nothing is assumed about the random choices; `FixerReturns` and
`CascadesReturn` hold for every sequence of them. `Mutator` is driven by
afl-fuzz, which promises nothing, and has no fairness; nor have `Reading` and
`GuidedEdit`, about which only safety is stated.

## 4. What is proved

With TLAPS, for every value of the constants, from the named assumptions
`NAssumption` (there is a node), `ProgramsAssumption` (the programs are well
formed: a preorder tree, annotated leaves, each define with one type, the
dependency relation and order of `AnnotatedTree`), `SourcesAssumption` and
`WrapAssumption` (the counters can hold the number of nodes),
`MaxPoolSizeAssumption`, `GrammaticalAssumption`, `TextsAssumption`,
`BoundsAssumption`, `AnnotationsAssumption` (the parts of a label are not empty)
and `ParseTreesAssumption` (the nodes of a parse tree are numbered in preorder,
the order in which the front end translates them; a label is that of an
annotation).

`DependencyGraphProofs` (with `TreeLemmas`: ancestors are below in ID, subtrees
are intervals, two subtrees nest or are disjoint):

- `GraphTyped`: `TypeOK`.
- `OrderIsTopological`: `TopologicalOrder`. Kahn's algorithm: the counters of
  unfinished predecessors are exact, so a node is queued when and only when all
  its predecessors have an OrderID, and the queue hands out the smallest ID.
- `AbortsOnCycles`: `FatalIffCycle`. A cycle is stated as a non-empty set of
  nodes each of which waits for another of the set; the nodes without an
  OrderID at the end are such a set, and no node of such a set ever gets one.
- `ExitsAreInsideOut`, `ExitsAreComplete`: `ExitsInsideOut`, `ExitsWhenComplete`.
  The invariant ties the wrapping counter of every node to the children that
  have exited, before it is entered (below zero) and after; the second property
  is for graphs in which no node waits for its own subtree (the excluded case is
  finding 4).

`SymbolAnalysisProofs`:

- `TypeCorrect`: `TypeOK`. Its inductive form `Typed` adds that the program is
  one of `Programs` and that the symbols are finitely many.
- `NamesAreUnique`: `UniqueNames`. Inductive relative to `Typed`: both ways a
  symbol enters a table are guarded by the absence of its name.
- `DependentsAlwaysWait`: `DependentsWait`. The inductive invariant `Waiting`
  speaks of the transitive dependents (`desc`) only through the closure of
  `Revoked`; a fix removes only the error with the smallest rank, and a
  dependent of it has a larger one.
- `MarkersAndErrors`: `MarkerOrError`. This needs to know that during the walk
  every list is chronological (`Walked`): a use or invalidate is then appended
  at the end, the last define or invalidate decides about liveness, and an
  invalidate that is accepted really leaves a marker. On top of it `Accounted`
  says that a node is either an error without a marker or has exactly one.

The last part of `SymbolAnalysisProofs` is for programs that are analysed in
textual order. Nothing in the code asks for that order, but the sort returns it
for every program without an annotation that puts a node off or refers forward
(`InOrder`). It is what the properties need: with another order an insertion by
ID is not an insertion by OrderID (finding 1), and a scope can be current that
the node does not lie in.

- `SequencesAreLegit`: `LegitSequences`. The invariant `Sequenced`: every list is
  ordered by OrderIDs, starts with its only define, and has an invalidate at its
  end only. The search of `std::upper_bound` then returns the one place where the
  node belongs (`SplitSequenced`), and what a cascade removes leaves such a list.
- `FixerGoesForward`: `FixesMoveForward`. All a cascade reaches comes after the
  node that was fixed.
- `MarkersNeverStale`: `NothingStale`, with the invariant `Meant`. It holds
  without `InOrder` too if the whole program is one scope (`HoldersRest`): the
  scope that `GetSymbolAssociateWithIR` reads a type from must be the same ever
  after. The other hypothesis, `NoSelfText`, excludes a type that embeds the text
  of its own node, which a fix changes after resolving the type.
- `AbortsDeserved`: `AbortsAreDeserved`. It needs to know which scopes are open:
  `Scoped` says that the current scope and its parents are exactly the scopes
  around the node the walk is at, and `InScope` that a define is recorded in the
  innermost of those around it, where a copy of its type finds it.
- `FixesHold`: `FixedIsClean`, for programs without scopes in scopes
  (`FlatScopes`; finding 3 is what happens otherwise). `Replays` compares the
  second walk with the markers the fixer left: what the walk has recorded so far
  is what they say of the nodes it has entered.

`SymbolAnalysisProofs` again, for the refinement of `Repair`:

- `Refinement`: `ImplementsRepair`, initial states and every action of
  `SymbolAnalysis` against the action of `Repair` it maps to; the cascade case
  rests on `Waiting` and `Accounted`.
- `BasesRest`: `BasisRests`, the property `NamesRest` of `Repair` for the code:
  a settled marker never outlives the text it was computed from. Only an error
  is renamed, and by `Waiting` nothing settled depends on one.
- `MarkersAreFound`: `CascadesFindMarkers`: no revocation in one step meets a
  node without a marker.

`CascadeProofs`, for the step-by-step cascade and without assuming anything of
the order of visits: a cascade only moves forward. What depends on a node has a
larger OrderID, a define has the smallest of its list (`Lists`), so an inner walk
is over a list whose nodes all come after the markers the outer walks stand at
(`Sound`). `Booked` says who has a marker while walks are under way.

- `CascadeAlways`: the inductive invariant of these.
- `IteratorsNeverDangle`: `IteratorsValid`.
- `CascadesNeverAbort`: `CascadesSucceed`.
- `CascadesAreAtomic`: `ImplementsAnalysis`. While no walk is under way a step is
  the same step of `SymbolAnalysis` (`AtomicDoes`, operator by operator). While
  one is, the abstract state is the one the cascade began in, and the invariant
  `Underway` relates it to the lists. They are the lists it began with, less what
  has been revoked, except for the markers the walks stand at (`Without`); what a
  revoked node needs is revoked or a walk will come to it (`Covers`); and all of
  it belongs to `Revoked` (`Within`). The first is what `EraseAndProceed` must
  prove of an iterator that goes on from an erased marker: by `Advances` it loses
  nothing of the orphans of the define, since the list is an order (`Ordered`)
  and has only one define (`Lone`). When no walk is left, what has been revoked
  is closed, and `Revoked` is the least such set.

`MutatorProofs`:

- `PoolsStayInSync`, `PoolsOnlyGrow`: set and vector of a pool are bijective,
  through additions, evictions and shuffles, for every pool size.
- `CallsAreServed`: the calls afl-fuzz has left never exceed what the iterator
  has left. The invariant `CallInv` adds that results are complete when `Mutate`
  returns and unchanged until the next one.
- `ResultsAreWhole`: `WholeResults`, with `KindInv` for what kinds of trees the
  mutations are.
- `TypeCorrect`: `TypeOK`.

`ReadingProofs`, for every grammar, tree, node and argument:

- `CollectsAlways`: `CollectsExactly`. `TreeInv` (children are nodes of the tree)
  is kept by the front end, with the counter above every ID in use. During a
  walk, `Stack` says that the children before the one a call has come to have
  been left, `Left` that with a node its subtree has, `Remembered` that the
  filter has decided right about what has been left, and that what it has
  captured is exact. Subtrees are the least sets closed under children, so that
  no induction is needed: a subtree is its root and the subtrees of the children
  (`SubtreeSplits`), and the set of nodes left at the end is closed.
- `LabelInfoIsExact`: `LabelsAreExact`, from the same invariant.
- `FrontEndTranslates`: `IRIsTree`, for every sequence of parse trees. All that is
  assumed of these is how their nodes are numbered (`TextsAssumption`: in
  preorder, EOF last if there is one). The invariant `Translation`: the active
  calls are the path from the root to where the translation is (`Progress`), a
  node without a call has no children left to come, and the IR is a copy of the
  nodes entered so far (`Copied`).
- `WalksBoundSubtrees`: `SubtreesAreIntervals`. `TreeOrder` says of the trees the
  front end returns that between a node and its parent there are only nodes below
  the parent; it follows from `IRIsTree`. By `WalkOrder` the nodes a walk has
  reached are at any time an interval of IDs, and the children that are still to
  come lie beyond it, so that a node is left with the largest ID of its subtree
  as the last one reached.
- `QueriesAreDocumented`: `QueryAsDocumented`, for every tree, tagged node and
  expression (any sequence of tokens, malformed ones included). Documented is
  what the navigators mean as relations between nodes (`Navigate`: the n-th child
  from the left, the nearest node of a type above), one after the other from the
  tagged node (`Route`); the code goes by positions in children_ and ends the
  process where there is none. By `PlacesCounted` a position among ascending
  children is the number of children before it, and `NavigatorsMove` has one step
  for every navigator. The invariant (`Listens`): the parser expects what the
  grammar allows after the tokens so far (`Grammar`), the listener is where the
  route has led (`OnRoute`), and the contexts it has collected are those asked
  for so far, in their order (`Noted`); when it has ended the process, the
  expression is malformed or a navigator has no node to go to (`Doomed`). Two
  hypotheses, which TLC evaluates for the instance (`QueriesAreOrdinary`):
  `OffsetsFit`, that an offset plus the number of a node's siblings stays below
  2^64 (`index + offset` in `enterPointerRSib` wraps around), and `NamesDiffer`,
  that no terminal has for its text the name that a `node_num` counts (the code
  counts all nodes with the name). Both can be false of the program.

`GuidedEditProofs`, for parse trees of any size, any corpus and any number of
edits. `Heap` is every node as the parser made it, computed from `read`. IDs of
children are larger than that of their parent (`HeapFits`), so that facts about
the recursive functions `below` and `text` follow by well-founded induction on
an explicit set: `NodesUnfold`, `NodesWithin` (the nodes of a subtree are the
least closed set) and `TextUnfold`; a node keeps both when nodes are added that
it does not reach (`NodesExtended`, `TextExtended`).

- `OriginalsAlwaysRestored`: `OriginalsRestored`. The inductive invariant
  `EditInv`: `TestFits` says that the test case is the last tree that was read and
  that a node which has a parent is once among its children; `EditFits` that an
  edit was made at a node of it, where it stands, and that `removed` is what is
  still missing behind the place; `TreeFits` that the tree is `Heap` with the
  children of one node edited (`EditedKids`) as long as the edit is unfinished,
  and `Heap` itself otherwise. A `Reinsert` is the step from `k + 1` missing
  children to `k` (`PutBack`).
- `PoolsAlwaysFit`: `PoolsFit`, with `PoolInv`, which speaks of `Heap` and so
  needs nothing of the edits. The test case is apart from the pools because what
  was read before it has smaller IDs and is closed under children
  (`BeforeTestClosed`).
- `GuidedEditsAlwaysFit`: `GuidedEditsFit`, with `AimInv`: what was chosen is in a
  pool whose label is, whole or without its last part, that of an annotation
  that can use or define the symbol (`LabelParts`), and the edit itself, which
  changes a node of the test case, does not reach it (`OtherRests`).
- `ClonesAreAlwaysCopies`: `ClonesAreCopies`. `CloneInv` says of an unfinished
  clone (`Copying`) that the active calls are a path in the edited tree
  (`FramesFit`); that the copies of these calls do not have a parent and are
  nobody's child yet, while every other copy is once among the children of its
  parent and nowhere else (`Hanging`); and that the children a copy has are the
  copies of the first children of its original: all of them if its call has
  returned, all but the one being copied if it is active (`Advance`). A step to
  the next child keeps it (`CopyingDescends`), and so does a return
  (`CopyingAscends`). Nothing is said of the shape of the edited tree but that
  children are nodes of it (`TreeSeqKids`), which needs what is inserted to be a
  node (`AimInv`).
- `ClonesAreAlwaysTrees`: `ClonesAreTrees`. When the first call returns, the first
  copy is the only one without a parent (`CopyingEnds`); the clone does not change
  while the original is restored.

`EditTextProofs`, on top of it, for the texts that the edits lead to:

- `EditsAreAlwaysExact`: `EditsAreExact`. The code goes by positions among
  children, the property by IDs: it is the parser's preorder that makes both the
  same. `WordingParts` says that texts of sets of places, all of one set before
  all of the next, make up the text of their union; `InOrderIsUnique` and
  `FlattenRuns` are what it needs of enumerations and of `FlattenSeq`. From it
  and `NodesBetween` (a subtree has everything from its root to its last node)
  the text of a tree is that of its leaves in the order of their IDs
  (`TextIsWording`). For an edited tree, which is not in preorder and in which a
  pooled tree has two parents, nothing can be said by IDs; but a text of all
  nodes that fits each of them is the only one (`TextIs`, by induction on a rank),
  and one that fits can be given: that of the original with a text X in the place
  of the leaves that are gone (`TextLeft`, `TextReparented`). `TextReplaced`,
  `TextDeleted` and `TextInserted` are the three edits. The invariant `ExactInv`:
  while the clone is made, the edited tree tells the outcome (`Told`); when it is
  finished, the clone does (`TextCloned`, by the invariant `CloneInv`), and goes
  on doing so while the original is restored. What `DeleteNodeFromIR` strips
  behind a node by position is what the property takes out by ID (`GoneIs`).
  Where the first of two joined texts is empty, the separator depends on what its
  parent has before it, and the property allows both (`Joins`); an insertion at
  the root of the test case does nothing, and the property says so.

## 5. What is only model-checked, and why

- Liveness (`FixerReturns`, `CascadesReturn`, `Terminates`): the prover has no
  rules for ENABLED and fairness.
- What textual order excludes. `AbortsAreDeserved` is checked by `awkward` for
  programs with AlterOrder, and `FixedIsClean` by `textual` for a scope in a scope
  whose names do not clash; the proofs are for textual order and for flat scopes.
  `LegitSequences`, `FixesMoveForward` and `FixedIsClean` are false for some of
  the programs excluded (section 6).

## 6. Where code and documentation disagree

Each is a run that TLC must refute.

1. `delayed_returns` - `InsertMarkerForSymbol` (`cc` 1134) inserts by ID, all
   look-ups search by OrderID. With `AlterOrder` a fixed invalidate lands in
   front of markers it depends on, revokes itself, and the fixer repeats the same
   two fixes for ever.
2. `guided` - `GuidedMutateReplaceMany` (`mutator.cc` 580) looks for trees under
   labels with an option; the pools are keyed by labels without. A symbol whose
   type only typed annotations can use gets no guided candidate.
   `GuidedMutateInsertMany` strips the option first, but also the last part of
   labels that have none.
3. `shadowed` - a fix may pick an outer symbol hidden by an inner one of the same
   name; the fixed test case is then semantically wrong.
4. `own_child` - `TopoWalk` overwrites the counter of a node whose child has
   already exited; its `ExitIR` never comes.
5. `deletion` - `DeleteNodeFromIR` parses the restored tree: deletions do
   nothing. In `TreeEdit`, `EditsAreExact` shows that the clone which is
   thrown away would have been right.

Met on the way, without a run of its own: `UnresolvedError::operator<` ignores
the error code that the comment at `symbol_analysis.h` 106 says decides (the
implemented order is the one that works); `node_num` counts what the comment
calls non-terminals by name (`QueryAsDocumented` holds because terminals do not
have names of rules).

## 7. What is not modelled, and why

- Custom resolvers and action selectors: user code; their results are part of an
  annotated program.
- An annotation that puts literal text around `{@text}` in a *name* (a name is
  the text of its node), and several terminals below an annotated node (an abort
  in the code).
- The tables and the error recovery of the generated parsers: an ANTLR parser is
  what it accepts.
- Which symbols are visible at a node in `GuidedEdit`: any set. With the
  condition `after_ir` (`cc` 1311) the code looks behind the first child of a
  location instead of behind the location; nothing says what is meant.
- Evictions from the pools in `GuidedEdit` (`Mutator` and `IRPool` have them).
- Weights, label frequencies, `ReplaceSubtreeWithAnotherByString`,
  `ClassifySubIRs` and string helpers that only tests use; the table of types of
  the front end and `GetIRTypeNameFromGrammar` (no caller; its test
  `ir_type & 3 == 0` is always false); logging, printing, process and file handling;
  scripts and data.

## 8. What is left of the plan

1. Names with literal text around `{@text}` (`cc` 1053).
2. `SymbolAnalysis` on the trees of `GuidedEdit`: the symbols at a location
   instead of any, and sizes in characters (`mutator.cc` 236).
3. Proofs: `FixedIsClean` for scopes in scopes whose names do not clash.
