---------------------------- MODULE ContextQuery ----------------------------
(***************************************************************************)
(* A CQL expression such as x_{.parent.rsib(1)@text}: AnalyzeSequence       *)
(* parses it with the generated parser of AnnoContext.g4 and walks the      *)
(* parse tree with MyAnnoContextListener, which moves from the tagged node  *)
(* to another one and notes which property of it is asked for; Evaluate     *)
(* reads the properties. The parser has no state of its own: one step takes *)
(* the next token and makes the listener's callback for it. An expression   *)
(* that is not well formed, or that leaves the tree, ends the process.      *)
(***************************************************************************)
EXTENDS IRTree

CONSTANT Word   (* 2^64: offsets and indices are size_t                     *)

ASSUME WordAssumption == Word \in Nat /\ Word > 1

VARIABLES
  expr,      (* its tokens: what they are, a name and a number              *)
  next,      (* the position of the next one                                *)
  expect,    (* where the parser is: "term", "pointer" or "close"           *)
  starting,  (* starting_ir_, the tagged node                               *)
  here,      (* current_ir_                                                 *)
  context,   (* context_seq_: what to read of which node                    *)
  status,    (* "idle", "parsing", "done" or "fatal"                        *)
  values     (* what Evaluate returned for each context                     *)

queryVars == <<expr, next, expect, starting, here, context, status, values>>

QueryInit ==
  /\ expr = << >> /\ next = 1 /\ expect = "term" /\ starting = None /\ here = None
  /\ context = << >> /\ status = "idle" /\ values = << >>

Listening(e, n, st) ==
  /\ expr' = e /\ next' = 1 /\ expect' = "term" /\ starting' = n /\ here' = n
  /\ context' = << >> /\ status' = st /\ values' = << >>

StartQuery(e, n) == Listening(e, n, "parsing")
EndQuery         == Listening(<< >>, None, "idle")

Pointers   == {"parent", "child", "lsib", "rsib", "parentuntil"}
Properties == {"id", "text", "term_num", "node_num",
               "sym_use_type", "sym_def_type", "sym_inval_type"}

(* What the lexer makes of an expression; strtoul yields at most ULONG_MAX.  *)
Tokens ==
  [is : {"ident", "open", "close"} \cup Pointers \cup Properties, arg : STRING,
   num : 0 .. Word - 1]

Parsing == status = "parsing" /\ next <= Len(expr)
Token   == expr[next]
Take    == next' = next + 1 /\ UNCHANGED <<expr, starting, status, values, tree>>
Abort   == status' = "fatal" /\ UNCHANGED <<expr, next, expect, starting, here, context,
                                            values, tree>>

(* enterFixed                                                               *)
Fixed ==
  /\ Parsing /\ expect = "term" /\ Token.is = "ident"
  /\ context' = Append(context, [of |-> None, get |-> "plain", arg |-> Token.arg])
  /\ Take /\ UNCHANGED <<expect, here>>

(* A mutant: a term goes on where the one before it ended.                  *)
GoOn(n, m) == n
GoTo(n, m) == m

(* enterDynamic                                                             *)
Dynamic ==
  /\ Parsing /\ expect = "term" /\ Token.is = "open"
  /\ here' = GoTo(here, starting) /\ expect' = "pointer"
  /\ Take /\ UNCHANGED context

Moving(kind) == Parsing /\ expect = "pointer" /\ Token.is = kind
MoveTo(n)    == here' = n /\ Take /\ UNCHANGED <<expect, context>>

Parent ==
  /\ Moving("parent")
  /\ IF tree[here].up # None THEN MoveTo(tree[here].up) ELSE Abort

Child ==
  /\ Moving("child")
  /\ LET kids == tree[here].kids IN
     IF Token.num < Len(kids) THEN MoveTo(kids[Token.num + 1]) ELSE Abort

Sibs == tree[tree[here].up].kids

LeftOf(i, k)  == (i - k) % Word
RightOf(i, k) == (i + k) % Word

(* The root has no parent: a null pointer is followed.                      *)
Sibling(idx(_, _)) ==
  IF tree[here].up = None THEN Abort
  ELSE LET i == idx((CHOOSE j \in DOMAIN Sibs : Sibs[j] = here) - 1, Token.num)
       IN  IF i < Len(Sibs) THEN MoveTo(Sibs[i + 1]) ELSE Abort

LSib == Moving("lsib") /\ Sibling(LeftOf)
RSib == Moving("rsib") /\ Sibling(RightOf)

(* One round of the loop of parentuntil, and its end.                       *)
ParentUntil ==
  /\ Moving("parentuntil")
  /\ IF tree[here].name = Token.arg THEN MoveTo(here)
     ELSE IF tree[here].up = None THEN Abort
     ELSE /\ here' = tree[here].up
          /\ UNCHANGED <<expr, next, expect, starting, context, status, values, tree>>

(* The callbacks of sym_def_type and sym_inval_type note nothing.           *)
Property ==
  /\ Parsing /\ expect = "pointer" /\ Token.is \in Properties
  /\ context' = IF Token.is \in {"sym_def_type", "sym_inval_type"} THEN context
                ELSE Append(context, [of |-> here, get |-> Token.is, arg |-> Token.arg])
  /\ expect' = "close" /\ Take /\ UNCHANGED here

Close ==
  /\ Parsing /\ expect = "close" /\ Token.is = "close"
  /\ expect' = "term" /\ Take /\ UNCHANGED <<here, context>>

SyntaxError ==
  /\ status = "parsing"
  /\ IF next > Len(expr) THEN expect # "term" \/ next = 1
     ELSE CASE expect = "term"    -> Token.is \notin {"ident", "open"}
            [] expect = "pointer" -> Token.is \notin Pointers \cup Properties
            [] OTHER              -> Token.is # "close"
  /\ Abort

(* The symbol an IR uses is looked up in the scopes (SymbolAnalysis).       *)
Evaluate(c) ==
  CASE c.get = "plain"    -> c.arg
    [] c.get = "id"       -> c.of
    [] c.get = "text"     -> ToSource(c.of)
    [] c.get = "term_num" -> Cardinality(Terminals(c.of))
    [] c.get = "node_num" -> Cardinality({m \in Subtree(c.of) : tree[m].name = c.arg})
    [] OTHER              -> <<"type of the symbol used at", c.of>>

End ==
  /\ status = "parsing" /\ next > Len(expr) /\ expect = "term" /\ next > 1
  /\ values' = [i \in DOMAIN context |-> Evaluate(context[i])]
  /\ status' = "done"
  /\ UNCHANGED <<expr, next, expect, starting, here, context, tree>>

QueryNext ==
  \/ Fixed \/ Dynamic \/ Parent \/ Child \/ LSib \/ RSib \/ ParentUntil
  \/ Property \/ Close \/ SyntaxError \/ End

-----------------------------------------------------------------------------
(* What docs/annotation.md says of an expression. Before each token comes   *)
(* what the grammar allows.                                                 *)
Kind(e, i) ==
  IF e[i].is \in Pointers THEN "pointer" ELSE IF e[i].is \in Properties THEN "property"
  ELSE e[i].is

Follows ==
  [ident |-> {"ident", "close"}, open |-> {"ident", "close"}, close |-> {"property"},
   pointer |-> {"open", "pointer"}, property |-> {"open", "pointer"}]

WellFormed(e) ==
  /\ e # << >> /\ Kind(e, 1) \in {"ident", "open"}
  /\ \A i \in 2 .. Len(e) : Kind(e, i - 1) \in Follows[Kind(e, i)]
  /\ Kind(e, Len(e)) \in {"ident", "close"}

(* The only node of S that satisfies P, if there is one.                    *)
Only(S, P(_)) == IF \E m \in S : P(m) THEN CHOOSE m \in S : P(m) ELSE None

Siblings(n) == IF tree[n].up = None THEN {} ELSE Kids(tree[n].up)
Between(S, m, n) == Cardinality({s \in S : m <= s /\ s < n})

(* The navigators: the n-th child from 0; the n-th sibling to one side;     *)
(* the nearest node of a type on the way up, from the node itself on.       *)
Navigate(n, p) ==
  IF n = None THEN None
  ELSE CASE p.is = "parent" -> tree[n].up
         [] p.is = "child"  -> Only(Kids(n), LAMBDA m : Between(Kids(n), 0, m) = p.num)
         [] p.is = "lsib"   -> Only(Siblings(n),
                                    LAMBDA m : m <= n /\ Between(Siblings(n), m, n) = p.num)
         [] p.is = "rsib"   -> Only(Siblings(n),
                                    LAMBDA m : n <= m /\ Between(Siblings(n), n, m) = p.num)
         [] OTHER           -> LET above == {m \in DOMAIN tree : /\ n \in Subtree(m)
                                                                 /\ tree[m].name = p.arg}
                               IN  IF above = {} THEN None ELSE Max(above)

(* Where the navigators have led after the j-th token: every pair of braces *)
(* begins at the tagged node.                                               *)
Route[j \in 0 .. Len(expr)] ==
  IF j = 0 \/ expr[j].is = "open" THEN starting
  ELSE IF expr[j].is \in Pointers THEN Navigate(Route[j - 1], expr[j])
  ELSE Route[j - 1]

(* The node whose property the i-th token asks for.                         *)
Target(i) == Route[i - 1]

Asked == {i \in DOMAIN expr : expr[i].is \in Properties}
Valued == {i \in DOMAIN expr : expr[i].is \in {"ident", "id", "text", "term_num", "node_num",
                                              "sym_use_type"}}

(* node_num counts "non-terminal nodes" (anno_context.h:109).               *)
Documented(i) ==
  CASE expr[i].is = "ident"    -> expr[i].arg
    [] expr[i].is = "node_num" -> Cardinality({m \in Subtree(Target(i)) :
                                     ~tree[m].terminal /\ tree[m].name = expr[i].arg})
    [] OTHER -> Evaluate([of |-> Target(i), get |-> expr[i].is, arg |-> expr[i].arg])

(* An expression yields one value per text and per pair of braces, in that  *)
(* order, each of the node its own navigators lead to from the tagged node; *)
(* it ends the process only if it is malformed or leads out of the tree.    *)
QueryAsDocumented ==
  /\ status = "done" =>
       /\ WellFormed(expr) /\ \A i \in Asked : Target(i) # None
       /\ DOMAIN values = 1 .. Cardinality(Valued)
       /\ \A i \in Valued : values[Cardinality({j \in Valued : j <= i})] = Documented(i)
  /\ status = "fatal" => ~WellFormed(expr) \/ \E i \in Asked : Target(i) = None
=============================================================================
