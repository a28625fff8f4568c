------------------------------ MODULE Guidance ------------------------------
(***************************************************************************)
(* The labels that guide the mutator. frontend_codegen.py derives from the  *)
(* annotations of a grammar which labels can do something with a symbol of  *)
(* a type (sym_info); the mutator asks it for the labels of the symbols it  *)
(* finds, and looks for trees with these labels in guided_mutation_pool_.   *)
(***************************************************************************)
EXTENDS Integers, Sequences

CONSTANTS
  Annotations,   (* the actions of all annotations: rule, label, option,    *)
                 (* action and the canonical types, or no type at all       *)
  Describes      (* which canonical type (with ?) describes which type      *)

NoPart == ""

(* A marker is "rule->label", where the label names a member of the rule's  *)
(* context in the generated listener; an option is a key of the annotation, *)
(* and an empty one is not told from none.                                  *)
ASSUME AnnotationsAssumption ==
  \A a \in Annotations : a.rule # NoPart /\ a.label # NoPart /\ a.option # NoPart

(* "rule->label->option"; parts may be left out.                            *)
Label(rule, label, option) == [rule |-> rule, label |-> label, option |-> option]

NoLabel == Label(NoPart, NoPart, NoPart)

(* The label a node gets (tagged_rules_).                                   *)
NodeLabel(a) == Label(a.rule, a.label, NoPart)

Canonical == UNION {a.types : a \in Annotations}

(* type_def_use_info_dict: the entry of a type and an action. The labels of *)
(* annotations without a type stand under every type, without an option.    *)
SymInfo(type, action) ==
  {Label(a.rule, a.label, a.option) : a \in {a \in Annotations : a.action = action /\ type \in a.types}}
  \cup {NodeLabel(a) : a \in {a \in Annotations : a.action = action /\ a.types = {}}}

Actions == {"DefineSymbol", "UseSymbol", "InvalidateSymbol"}

(* A mutant: the labels of every type.                                      *)
AllLabels(type) == UNION {SymInfo(c, action) : c \in Canonical, action \in Actions}

GetSupportingLabelsForSymbolType(type) ==
  UNION {UNION {SymInfo(c, action) : action \in Actions} :
           c \in {c \in Canonical : <<c, type>> \in Describes}}

GetLabelsForDefiningSymbol == UNION {SymInfo(c, "DefineSymbol") : c \in Canonical}

(* each.substr(0, each.rfind('>') - 1), whatever its last part is.          *)
WithoutLastPart(l) ==
  IF l.option # NoPart THEN Label(l.rule, l.label, NoPart) ELSE Label(l.rule, NoPart, NoPart)

(* The annotations that can do something with a symbol of a type.           *)
CanUse(a, type) ==
  a.action \in Actions /\ (a.types = {} \/ \E c \in a.types : <<c, type>> \in Describes)
=============================================================================
