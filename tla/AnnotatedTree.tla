--------------------------- MODULE AnnotatedTree ---------------------------
(***************************************************************************)
(* The data the symbol analysis works on: one parsed test case (an AST      *)
(* whose nodes are numbered in preorder, as IRWalker meets them) together   *)
(* with the annotation of every node, and the dependency relation and the   *)
(* topological order that SymbolAnalyzerBuildDependencyGraphListener and    *)
(* DependencyGraph derive from it.                                          *)
(*                                                                          *)
(* A node with a symbol action stands for the annotated rule node and the   *)
(* one terminal below it (UpdateTerminalWithNewName aborts on any other     *)
(* shape), so it is a leaf here and owns the text of that terminal.         *)
(*                                                                          *)
(* Names are natural numbers: i stands for the generated name v<i>, which   *)
(* a test case may also contain because an earlier mutation put it there.   *)
(***************************************************************************)
EXTENDS Integers, Sequences, FiniteSets

CONSTANTS
  N,    (* number of AST nodes                                              *)
  Base  (* the type names that occur in the annotations                     *)

ASSUME NAssumption == N \in Nat \ {0}

Node == 1 .. N
Name == Nat

Op       == {"none", "scope", "define", "use", "invalidate", "order"}
SymbolOp == {"define", "use", "invalidate"}

(* A resolved symbol type: the literal part of the annotation and the texts *)
(* of the nodes whose {...@text} it embeds, e.g. xgroup_of_key_<text>.      *)
Type == [base : Base, key : Seq(Name)]

(***************************************************************************)
(* An annotated program.                                                    *)
(*   last   the largest ID in the node's subtree (GetMaxIDInTheTree)        *)
(*   op     the action GetAction selects for the node                       *)
(*   text   the source text below the node                                  *)
(*   names  "name": the allowed names of a use or an invalidate ({}: any);  *)
(*          for a define {} is the default "{@text}", {x} the fixed name x  *)
(*   bases  "type": the literal parts ({}: absent, any type)                *)
(*   of     the nodes whose text the type embeds                            *)
(*   copy   the node of a "{...@sym_use_type}" type, 0 if there is none     *)
(*   block  "type_block"                                                    *)
(*   into   "scope": the CreateScope node a define names, 0 if absent       *)
(*   after  "after" of AlterOrder                                           *)
(***************************************************************************)
Source ==
  [ last  : [Node -> Node],
    op    : [Node -> Op],
    text  : [Node -> Name],
    names : [Node -> SUBSET Name],
    bases : [Node -> SUBSET Base],
    of    : [Node -> Seq(Node)],
    copy  : [Node -> Node \cup {0}],
    block : [Node -> SUBSET Base],
    into  : [Node -> Node \cup {0}],
    after : [Node -> SUBSET Node] ]

Subtree(p, n) == n .. p.last[n]

IsTree(p) ==
  /\ p.last[1] = N
  /\ \A n \in Node : n <= p.last[n]
  /\ \A m \in Node : \A n \in Subtree(p, m) : p.last[n] <= p.last[m]

Annotated(p) == {n \in Node : p.op[n] \in SymbolOp}

(* The nodes GetDependencies finds in the arguments of n's action.          *)
References(p, n) ==
  LET named == {p.of[n][i] : i \in DOMAIN p.of[n]} \cup p.after[n]
      typed == {p.copy[n]} \ {0}
  IN  (named \cup typed) \ {n}

(* The direct dependencies of x: an annotation on n that refers to d makes  *)
(* every node below n depend on every node below d.                         *)
Dependencies(p) ==
  [x \in Node |->
     {y \in Node \ {x} :
        \E n \in Node : /\ x \in Subtree(p, n)
                        /\ \E d \in References(p, n) : y \in Subtree(p, d)}]

(* PerformTopoSort: always the smallest ID whose dependencies have all been *)
(* taken; rank[n] is the OrderID it gives to n.                             *)
IsTopoOrder(rank, dep) ==
  LET taken(n) == {m \in Node : rank[m] < rank[n]}
  IN  \A n \in Node : /\ dep[n] \subseteq taken(n)
                      /\ Cardinality(taken(n)) = rank[n]
                      /\ \A m \in Node \ taken(n) : m < n => ~(dep[m] \subseteq taken(n))

(* GetAllDescendentsOfVertex: everything that depends on x, transitively.   *)
AreDependents(desc, dep) ==
  /\ \A x, y \in Node : x \in dep[y] => y \in desc[x]
  /\ \A x, y, z \in Node : y \in desc[x] /\ z \in desc[y] => z \in desc[x]
  /\ \A x \in Node : \A y \in desc[x] : x \in dep[y] \/ \E z \in dep[y] : z \in desc[x]

(* A node never depends on a part of its own subtree.                       *)
NoSelfReach(p) ==
  \A n \in Node : References(p, n) \cap Subtree(p, n) = {}

(* No type embeds the text of its own node.                                 *)
NoSelfText(p) == \A n \in Annotated(p) : \A i \in DOMAIN p.of[n] : p.of[n][i] # n

(* No scope lies inside another one.                                        *)
FlatScopes(p) ==
  \A a, b \in Node : p.op[a] = "scope" /\ p.op[b] = "scope" /\ a \in Subtree(p, b) => a = b

(***************************************************************************)
(* What Analyze has of the program once the graph is final: the OrderID of  *)
(* every node and the two adjacency relations.                              *)
(***************************************************************************)
Program ==
  [ src  : Source,
    rank : [Node -> 0 .. N-1],
    dep  : [Node -> SUBSET Node],
    desc : [Node -> SUBSET Node] ]

(* Nothing is put off: PerformTopoSort returns the nodes as they are in the *)
(* text, since every annotation only refers to what comes before it.        *)
InTextualOrder(p) == \A n \in Node : p.rank[n] = n - 1

WellFormed(p) ==
  /\ p \in Program
  /\ IsTree(p.src)
  /\ \A n \in Annotated(p.src) : p.src.last[n] = n
  /\ \A n \in Node : p.src.op[n] = "define" =>
        /\ (p.src.bases[n] # {}) # (p.src.copy[n] # 0)
        /\ \A a, b \in p.src.bases[n] : a = b
        /\ \A a, b \in p.src.names[n] : a = b
  /\ NoSelfReach(p.src)
  /\ p.dep = Dependencies(p.src)
  /\ IsTopoOrder(p.rank, p.dep)
  /\ AreDependents(p.desc, p.dep)
=============================================================================
