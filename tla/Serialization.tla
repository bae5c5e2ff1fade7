---------------------------- MODULE Serialization ----------------------------
(***************************************************************************)
(* What becomes of an IR that is written out: model_dump(_json) and back   *)
(* through model_validate_json, to_llm_dict, and the traversal walk().     *)
(*                                                                         *)
(* An IR is its nodes, parents before children, each with its class and    *)
(* the values of its fields; a document is the same without the classes.   *)
(* Reading chooses them again, and only by which fields there are.         *)
(***************************************************************************)
EXTENDS IRClasses

\* The class of what a field of type Any holds after reading: a plain dict.
Dict == "dict"

KidsOf(fields) == UNION {ToSet(fields[f].kids) : f \in DOMAIN fields}
FieldOf(fields, k) == CHOOSE f \in DOMAIN fields : k \in ToSet(fields[f].kids)

IsSequence(s) == Len(s) \in Nat /\ s = [k \in 1 .. Len(s) |-> s[k]]

\* The JSON that a field which is no atom is read from.
FormsOf(shape) ==
  CASE shape = "one" -> {"one"} [] shape = "optional" -> {"one", "null"}
    [] shape = "many" -> {"list", "empty"} [] shape = "pairs" -> {"lists", "empty"}

IsUnion(type) == type.shape \notin {"any", "atom"}
JsonForms(type) ==
  CASE type.shape = "any" -> Forms [] type.shape = "atom" -> type.of
    [] OTHER -> FormsOf(type.shape)

(***************************************************************************)
(* What the classes' tables have to be like for reading to work, of which  *)
(* TLC makes sure when it starts.                                          *)
(***************************************************************************)
Unions == UNION {{Fields[C][f].of : f \in {f \in DOMAIN Fields[C] : IsUnion(Fields[C][f])}} :
                   C \in Classes}

\* By the names of its fields, C may read what was a D.
MayRead(C, D) ==
  /\ DOMAIN Fields[D] \subseteq DOMAIN Fields[C]
  /\ \A f \in DOMAIN Fields[C] \ DOMAIN Fields[D] : Fields[C][f].default # Missing

\* C has the fields of D, and accepts in them what they held.
Fits(C, D) ==
  /\ DOMAIN Fields[C] = DOMAIN Fields[D]
  /\ \A f \in DOMAIN Fields[D] :
       LET c == Fields[C][f]
           d == Fields[D][f]
       IN /\ c.shape = "any" <=> d.shape = "any"
          /\ IsUnion(c) <=> IsUnion(d)
          /\ IsUnion(d) => ToSet(d.of) \subseteq ToSet(c.of)

Covers(C, D) ==
  /\ Fits(C, D)
  /\ \A f \in DOMAIN Fields[D] : JsonForms(Fields[D][f]) \subseteq JsonForms(Fields[C][f])

Clash(C, D) ==
  \E f \in DOMAIN Fields[C] \cap DOMAIN Fields[D] :
    JsonForms(Fields[C][f]) \cap JsonForms(Fields[D][f]) = {}

\* In a smart union fields of one name have one type, and a class with more fields,
\* all with defaults, stands behind the class without them.
SmartUnion(union) ==
  /\ \A C, D \in ToSet(union) : \A f \in DOMAIN Fields[C] \cap DOMAIN Fields[D] :
       Fields[C][f].shape = Fields[D][f].shape /\ Fields[C][f].of = Fields[D][f].of
  /\ \A j \in DOMAIN union : \A i \in 1 .. j - 1 :
       MayRead(union[i], union[j]) => DOMAIN Fields[union[i]] = DOMAIN Fields[union[j]]

\* An operator that may read another's fields before it does reads them right, or an
\* operator before both does.
FirstUnion(union) ==
  /\ ToSet(union) \subseteq OperatorClasses
  /\ \A j \in DOMAIN union : \A i \in 1 .. j - 1 :
       MayRead(union[i], union[j]) =>
         \/ Fits(union[i], union[j]) \/ Clash(union[i], union[j])
         \/ \E h \in 1 .. i - 1 : Covers(union[h], union[j])

ASSUME TablesAssumption ==
  /\ Dict \notin Classes
  /\ \A C \in Classes : IsFiniteSet(DOMAIN Fields[C])
  /\ \A C \in Classes : \A f \in DOMAIN Fields[C] :
       LET type == Fields[C][f]
       IN /\ type.shape \in {"any", "atom", "one", "optional", "many", "pairs"}
          /\ type.shape = "any" <=> C \in {"MaterializeExpr", "ToScalarExpr"} /\ f = "pipeline"
          /\ type.shape = "pairs" <=> C = "CaseExpr" /\ f = "branches"
          /\ type.shape = "atom" => ("pairs" \in type.of <=> "lists" \in type.of)
  /\ \A union \in Unions :
       /\ IsSequence(union) /\ ToSet(union) \subseteq Classes
       /\ IF union = Operators THEN FirstUnion(union) ELSE SmartUnion(union)

\* The value of a field, over some nodes.
Holding == {"one", "list", "pairs", "lists"}
IsValue(v, nodes) ==
  /\ v = Value(v.form, v.data, v.kids) /\ v.form \in Forms /\ v.kids \in Seq(nodes)
  /\ v.form = "one" => Len(v.kids) = 1
  /\ v.form \notin Holding => v.kids = << >>
  /\ v.form \in {"null", "empty", "nomap"} => v.data = ""

\* A node has the fields of its class, and in them what they are declared for.
IsField(type, v, ir) ==
  /\ v.form \in CASE type.shape = "any" -> Forms
                    [] type.shape = "atom" -> type.of
                    [] type.shape = "pairs" -> {"pairs", "empty"}
                    [] OTHER -> FormsOf(type.shape)
  /\ type.shape = "atom" => v.kids = << >>
  /\ type.shape # "any" => \A k \in ToSet(v.kids) : ir[k].class \in ToSet(type.of)

IsNode(ir, n) ==
  LET C == ir[n].class
      fields == ir[n].fields
  IN /\ ir[n] = [class |-> C, fields |-> fields] /\ C \in Classes \cup {Dict}
     /\ fields = [f \in DOMAIN fields |-> fields[f]]
     /\ \A f \in DOMAIN fields : IsValue(fields[f], n + 1 .. Len(ir))
     /\ C # Dict => /\ DOMAIN fields = DOMAIN Fields[C]
                    /\ \A f \in DOMAIN fields : IsField(Fields[C][f], fields[f], ir)

\* Every node but the first stands in one field of one node.
IsTree(ir) ==
  \A k \in DOMAIN ir \ {1} :
    \E n \in DOMAIN ir : \E f \in DOMAIN ir[n].fields :
      /\ k \in ToSet(ir[n].fields[f].kids)
      /\ \A m \in DOMAIN ir : \A g \in DOMAIN ir[m].fields :
           k \in ToSet(ir[m].fields[g].kids) => m = n /\ g = f

IsIR(ir) == IsSequence(ir) /\ IsTree(ir) /\ \A n \in DOMAIN ir : IsNode(ir, n)

(***************************************************************************)
(* Writing.                                                                *)
(***************************************************************************)
AsJson(v) == IF v.form = "pairs" THEN [v EXCEPT !.form = "lists"] ELSE v

ModelDump(ir) == [n \in DOMAIN ir |-> ir[n].fields]
ModelDumpJson(ir) ==
  [n \in DOMAIN ir |-> [f \in DOMAIN ir[n].fields |-> AsJson(ir[n].fields[f])]]

(***************************************************************************)
(* Reading.  read[n] has the classes that accept node n, with the number   *)
(* of fields that reading it so sets, in the node and below it.            *)
(***************************************************************************)
Accepts(type, v, read) ==
  CASE type.shape = "any" -> TRUE
    [] type.shape = "atom" -> v.form \in type.of
    [] OTHER -> /\ v.form \in FormsOf(type.shape)
                /\ \A i \in DOMAIN v.kids :
                     \E C \in DOMAIN read[v.kids[i]] : Contains(type.of, C)

\* Slip: fields a class does not have are passed over in operators, too
\* (DataSurvives).
TakesExtras(C, fields, read) ==
  \A f \in DOMAIN Fields[C] :
    IF f \in DOMAIN fields THEN Accepts(Fields[C][f], fields[f], read)
    ELSE Fields[C][f].default # Missing

\* Operators forbid extra fields, the other classes ignore them.
Takes(C, fields, read) ==
  /\ C \in OperatorClasses => DOMAIN fields \subseteq DOMAIN Fields[C]
  /\ \A f \in DOMAIN Fields[C] :
       IF f \in DOMAIN fields THEN Accepts(Fields[C][f], fields[f], read)
       ELSE Fields[C][f].default # Missing

\* The union of operators takes the first class that accepts; a smart one the
\* class that sets the most fields, the leftmost of those.  (How exactly the data
\* fits, by which pydantic settles what is level then, settles nothing here: in a
\* smart union fields of one name have one type, SmartUnion.)
Pick(type, k, read) ==
  LET fits == {i \in DOMAIN type.of : type.of[i] \in DOMAIN read[k]}
      most == Max({read[k][type.of[i]] : i \in fits})
      best == {i \in fits : read[k][type.of[i]] = most}
  IN type.of[Min(IF type.of = Operators THEN fits ELSE best)]

\* The fields that reading a value sets, and a node.
ValueSets(type, v, read) ==
  IF type.shape \in {"any", "atom"} THEN 1
  ELSE 1 + SumFunction([k \in ToSet(v.kids) |-> read[k][Pick(type, k, read)]])

FieldsSet(C, fields, read) ==
  SumFunction([f \in DOMAIN fields |->
                 IF f \in DOMAIN Fields[C] THEN ValueSets(Fields[C][f], fields[f], read) ELSE 0])

Reading(fields, read) ==
  [C \in {C \in Classes : Takes(C, fields, read)} |-> FieldsSet(C, fields, read)]

Readings(doc) ==
  LET read[k \in 0 .. Len(doc)] ==
        IF k = 0 THEN [n \in DOMAIN doc |-> << >>]
        ELSE LET n == Len(doc) - k + 1
                 below == read[k - 1]
             IN [below EXCEPT ![n] = Reading(doc[n], below)]
  IN read[Len(doc)]

\* The classes of a document's nodes, from the root down.
ClassBelow(C, fields, k, read) ==
  LET f == FieldOf(fields, k)
  IN IF C = Dict \/ f \notin DOMAIN Fields[C] \/ Fields[C][f].shape = "any" THEN Dict
     ELSE Pick(Fields[C][f], k, read)

ParentOf(doc, k) == CHOOSE n \in DOMAIN doc : k \in KidsOf(doc[n])

ClassesRead(doc, root) ==
  LET read == Readings(doc)
      class[k \in DOMAIN doc] ==
        IF k = 1 THEN root
        ELSE ClassBelow(class[ParentOf(doc, k)], doc[ParentOf(doc, k)], k, read)
  IN class

FieldsRead(C, fields) ==
  IF C = Dict THEN fields
  ELSE [f \in DOMAIN Fields[C] |->
          IF f \notin DOMAIN fields THEN Fields[C][f].default
          ELSE IF fields[f].form = "lists" THEN [fields[f] EXCEPT !.form = "pairs"]
          ELSE fields[f]]

ModelValidateJson(doc, root) ==
  LET class == ClassesRead(doc, root)
  IN [n \in DOMAIN doc |-> [class |-> class[n], fields |-> FieldsRead(class[n], doc[n])]]

(***************************************************************************)
(* walk(): the nodes that are reached from one of them.                    *)
(***************************************************************************)
Reach(ir, from, inside) ==
  LET reached[n \in 0 .. Len(ir)] ==
        IF n = 0 THEN {from}
        ELSE LET before == reached[n - 1]
             IN IF n \in before THEN before \cup inside[n] ELSE before
  IN reached[Len(ir)]

\* The nodes in fields of some forms.
Held(ir, n, forms) ==
  UNION {ToSet(ir[n].fields[f].kids) :
           f \in {f \in DOMAIN ir[n].fields : ir[n].fields[f].form \in forms}}
Models(ir, nodes) == {n \in nodes : ir[n].class # Dict}

\* Slip: walk() does not look into lists (WalkReaches).
WalkFields(ir, from) ==
  Reach(ir, from, [n \in DOMAIN ir |-> Models(ir, Held(ir, n, {"one"}))])

Walk(ir, from) ==
  Reach(ir, from, [n \in DOMAIN ir |-> Models(ir, Held(ir, n, {"one", "list"}))])

(***************************************************************************)
(* to_llm_dict: what one node is rendered as.                              *)
(***************************************************************************)
OmitFields == {"schema_attached"}
FieldRenames == [RenderOp |-> "render_kind", JoinOp |-> "join_kind", LookupOp |-> "lookup_kind"]

Renamed(C, f) == IF f = "kind" /\ C \in DOMAIN FieldRenames THEN FieldRenames[C] ELSE f

Without(out, key) == [k \in DOMAIN out \ {key} |-> out[k]]

\* _canonical_literal_repr
LiteralText(v) == CASE v.form = "str" -> "\"" \o v.data \o "\""
                    [] v.form = "null" -> "null"
                    [] OTHER -> v.data

DropRedundantCanonicalForm(C, out) ==
  IF /\ "canonical_form" \in DOMAIN out
     /\ \/ C = "ColumnRef" /\ out["canonical_form"].data = out["name"].data
        \/ C = "LiteralExpr" /\ out["canonical_form"].data = LiteralText(out["value"])
  THEN Without(out, "canonical_form") ELSE out

\* The operator said in place of the polarity.
WithOp(out, op) ==
  [k \in (DOMAIN out \ {"polarity"}) \cup {"op"} |-> IF k = "op" THEN Text(op) ELSE out[k]]

\* Slip: the polarity of ranges is taken to be in their operator, too
\* (ViewTellsApart).
DropPolarity(C, out) ==
  IF C \in {"BinOp", "Between"} THEN Without(out, "polarity")
  ELSE IF C = "SetMembership"
  THEN WithOp(out, IF out["polarity"].data = "exclusion" THEN "!in" ELSE "in")
  ELSE out

CollapsePolarityIntoOp(C, out) ==
  LET negated == out["polarity"].data = "exclusion"
  IN CASE C = "BinOp" -> Without(out, "polarity")
       [] C = "SetMembership" -> WithOp(out, IF negated THEN "!in" ELSE "in")
       [] C = "Between" -> WithOp(out, IF negated THEN "!between" ELSE "between")
       [] OTHER -> out

\* The fields that are rendered: none at its default, no empty list or dict.
Rendered(C, fields) ==
  {f \in DOMAIN fields \ OmitFields : /\ fields[f] # Fields[C][f].default
                                     /\ fields[f].form \notin {"empty", "nomap"}}
Render(C, fields) ==
  LET named == {Renamed(C, f) : f \in Rendered(C, fields)}
      fieldOf(k) == CHOOSE f \in Rendered(C, fields) : Renamed(C, f) = k
  IN [k \in {"kind"} \cup named |-> IF k \in named THEN AsJson(fields[fieldOf(k)]) ELSE Text(C)]

Convert(C, fields) ==
  IF C = Dict THEN fields
  ELSE CollapsePolarityIntoOp(C, DropRedundantCanonicalForm(C, Render(C, fields)))

ToLlmDict(ir) == [n \in DOMAIN ir |-> Convert(ir[n].class, ir[n].fields)]

\* What the tables have to be like for the view: no field is rendered under the name of
\* another or as the kind, and one that is left out can have been but one thing.
ASSUME ViewAssumption ==
  \A C \in Classes : \A f \in DOMAIN Fields[C] :
    LET type == Fields[C][f]
        leftOut == {"empty", "nomap"} \cap IF type.shape = "atom" THEN type.of ELSE {"empty"}
    IN /\ Renamed(C, f) # "kind"
       /\ \A g \in DOMAIN Fields[C] : Renamed(C, g) = Renamed(C, f) => g = f
       /\ type.shape \in {"atom", "many", "pairs"} =>
            /\ leftOut # {"empty", "nomap"}
            /\ \A form \in leftOut : type.default \in {Missing, Value(form, "", << >>)}
=============================================================================
