------------------------------ MODULE IRClasses ------------------------------
(***************************************************************************)
(* The classes of the IR as pydantic sees them: the fields each declares,  *)
(* in their order, what a field accepts, and its default.                  *)
(*                                                                         *)
(* A field of primitive data (an atom) accepts JSON values of some forms;  *)
(* any other holds one node, none or one, many, or pairs of nodes, each    *)
(* read as one class of a union.  The field span, which tells no classes   *)
(* of a union apart, is left out everywhere.                               *)
(***************************************************************************)
EXTENDS Integers, SequencesExt

\* The value of a field: data of its own, or the nodes it holds.  JSON has no
\* tuples: pairs are written as "lists".
Forms == {"str", "int", "real", "bool", "null", "strs", "map", "nomap",
          "one", "list", "empty", "pairs", "lists"}
Value(form, data, kids) == [form |-> form, data |-> data, kids |-> kids]
Null == Value("null", "", << >>)
Empty == Value("empty", "", << >>)
NoMap == Value("nomap", "", << >>)
Text(s) == Value("str", s, << >>)
Bool(s) == Value("bool", s, << >>)
Missing == Value("missing", "", << >>)

(***************************************************************************)
(* Types of fields.                                                        *)
(***************************************************************************)
Type(shape, of, default) == [shape |-> shape, of |-> of, default |-> default]
Atom(forms) == Type("atom", forms, Missing)
One(union) == Type("one", union, Missing)
Optional(union) == Type("optional", union, Null)
Many(union) == Type("many", union, Missing)
PairsOf(union) == Type("pairs", union, Missing)
OrElse(type, default) == [type EXCEPT !.default = default]

Str == Atom({"str"})
OptionalStr == OrElse(Atom({"str", "null"}), Null)
Integer == Atom({"int"})
Strs == Atom({"strs", "empty"})
Map == Atom({"map", "nomap"})
TrueByDefault == OrElse(Atom({"bool"}), Bool("true"))
FalseByDefault == OrElse(Atom({"bool"}), Bool("false"))

(***************************************************************************)
(* Unions, in their order.                                                 *)
(***************************************************************************)
AnyExpr ==
  <<"BinOp", "UnaryOp", "SetMembership", "Between", "And", "Or", "Not", "Exists",
    "RegexMatch", "CaseExpr", "ColumnRef", "LiteralExpr", "FuncCall", "PathExpr",
    "ElementExpr", "StarExpr", "NamedExpr", "CompoundNamedExpr", "BracketedExpr",
    "MaterializeExpr", "ToScalarExpr", "ExternalDataExpr", "UnknownExpr", "Expr">>

Operators ==
  <<"GetSchemaOp", "ConsumeOp", "ExecuteAndCacheOp", "FilterOp", "ExtendOp",
    "SummarizeOp", "ProjectOp", "ProjectAwayOp", "ProjectKeepOp", "ProjectReorderOp",
    "ProjectRenameOp", "ProjectByNamesOp", "DistinctOp", "TakeOp", "SortOp", "TopOp",
    "TopHittersOp", "SampleOp", "SearchOp", "UnionOp", "MakeSeriesOp", "MvExpandOp",
    "MvApplyOp", "ParseOp", "ParseWhereOp", "EvaluateOp", "CountOp", "PrintOp", "AsOp",
    "RangeOp", "LookupOp", "PartitionOp", "RenderOp", "JoinOp", "FacetOp", "InvokeOp",
    "FindOp", "ForkOp", "ScanOp", "SerializeOp", "AssertSchemaOp", "ParseKvOp",
    "SampleDistinctOp", "TopNestedOp", "MakeGraphOp", "MacroExpandOp", "GraphMatchOp",
    "GraphMarkComponentsOp", "GraphShortestPathsOp", "GraphToTableOp",
    "GraphWhereEdgesOp", "GraphWhereNodesOp", "Operator">>

Sources == <<"TableRef", "LetRef", "FuncCallSource", "ImplicitSource",
             "UnknownSource", "Pipeline">>

Exprs == Many(AnyExpr)
Assignments == Many(<<"Assignment">>)
ColumnList == Many(<<"ColumnRef", "Assignment">> \o AnyExpr)
NameList == Many(<<"ColumnRef">> \o AnyExpr)
Grouping == Many(<<"ColumnRef">> \o AnyExpr \o <<"Assignment">>)
APipeline == One(<<"Pipeline">>)
Pipelines == Many(<<"Pipeline">>)
Anything == Type("any", {}, Missing)
NoFields == << >>
RawText == [raw_text |-> Str]

(***************************************************************************)
(* The classes.                                                            *)
(***************************************************************************)
ExprBase == [result_type |-> OrElse(Str, Text("unknown")), result_type_inner |-> OptionalStr,
             nullable |-> TrueByDefault, canonical_form |-> OptionalStr]

ExprFields ==
  [Expr |-> NoFields, StarExpr |-> NoFields,
   LiteralExpr |-> [value |-> Atom({"str", "int", "real", "bool", "null"}), literal_kind |-> Str],
   ColumnRef |-> [name |-> Str, table |-> OptionalStr],
   FuncCall |-> [name |-> Str, args |-> Exprs, is_time_func |-> FalseByDefault],
   BinOp |-> [op |-> Str, polarity |-> Str, case_sensitive |-> TrueByDefault,
              left |-> One(AnyExpr), right |-> One(AnyExpr)],
   SetMembership |-> [column |-> One(AnyExpr), values |-> Exprs, polarity |-> Str,
                      case_sensitive |-> FalseByDefault],
   Between |-> [target |-> One(AnyExpr), low |-> One(AnyExpr), high |-> One(AnyExpr),
                polarity |-> Str],
   And |-> [operands |-> Exprs], Or |-> [operands |-> Exprs],
   Not |-> [operand |-> One(AnyExpr)],
   UnaryOp |-> [op |-> Str, operand |-> One(AnyExpr)],
   RegexMatch |-> [target |-> One(AnyExpr), pattern |-> Str, case_sensitive |-> TrueByDefault],
   Exists |-> [target |-> One(AnyExpr)],
   CaseExpr |-> [branches |-> PairsOf(AnyExpr), default |-> Optional(AnyExpr)],
   PathExpr |-> [expression |-> One(AnyExpr), selector |-> One(AnyExpr)],
   ElementExpr |-> [expression |-> One(AnyExpr), selector |-> One(AnyExpr)],
   NamedExpr |-> [name |-> Str, expression |-> One(AnyExpr)],
   CompoundNamedExpr |-> [names |-> Strs, expression |-> One(AnyExpr)],
   BracketedExpr |-> [expression |-> One(AnyExpr)],
   MaterializeExpr |-> [pipeline |-> Anything], ToScalarExpr |-> [pipeline |-> Anything],
   ExternalDataExpr |-> [columns |-> Atom({"pairs", "lists", "empty"}), uri |-> Str,
                         format |-> OptionalStr],
   UnknownExpr |-> [raw_text |-> Str, ast_kind |-> Str, reason |-> Str]]

OperatorFields ==
  [Operator |-> NoFields, GetSchemaOp |-> NoFields, ConsumeOp |-> NoFields,
   ExecuteAndCacheOp |-> NoFields,
   FilterOp |-> [predicate |-> One(AnyExpr)], SearchOp |-> [predicate |-> Optional(AnyExpr)],
   FindOp |-> [predicate |-> Optional(AnyExpr), tables |-> OrElse(Strs, Empty)],
   GraphWhereEdgesOp |-> [predicate |-> One(AnyExpr)],
   GraphWhereNodesOp |-> [predicate |-> One(AnyExpr)],
   ExtendOp |-> [assignments |-> Assignments],
   SerializeOp |-> [assignments |-> OrElse(Assignments, Empty)],
   SummarizeOp |-> [aggregations |-> Assignments, by |-> Grouping],
   MakeSeriesOp |-> [aggregations |-> Assignments, by |-> Assignments,
                     range_from |-> Optional(AnyExpr), range_to |-> Optional(AnyExpr),
                     step |-> Optional(AnyExpr)],
   ProjectOp |-> [columns |-> ColumnList], DistinctOp |-> [columns |-> ColumnList],
   ProjectAwayOp |-> [columns |-> NameList], ProjectKeepOp |-> [columns |-> NameList],
   ProjectReorderOp |-> [columns |-> NameList], ProjectRenameOp |-> [columns |-> Assignments],
   ProjectByNamesOp |-> [names |-> Exprs], MvExpandOp |-> [columns |-> Exprs],
   PrintOp |-> [columns |-> Many(<<"Assignment">> \o AnyExpr)],
   TakeOp |-> [count |-> Integer], SampleOp |-> [count |-> Integer],
   TopOp |-> [count |-> Integer, by |-> One(AnyExpr)],
   TopHittersOp |-> [count |-> Integer, by |-> One(AnyExpr)],
   SampleDistinctOp |-> [count |-> Integer, of |-> One(AnyExpr)],
   SortOp |-> [expressions |-> Exprs],
   UnionOp |-> [pipelines |-> Pipelines], ForkOp |-> [pipelines |-> OrElse(Pipelines, Empty)],
   MvApplyOp |-> [assignments |-> Assignments, right |-> APipeline],
   PartitionOp |-> [by |-> One(AnyExpr), right |-> APipeline],
   JoinOp |-> [kind |-> OptionalStr, right |-> APipeline, on_columns |-> Strs,
               on_expressions |-> OrElse(Exprs, Empty)],
   LookupOp |-> [kind |-> OptionalStr, right |-> APipeline, on_columns |-> Strs,
                 on_expressions |-> OrElse(Exprs, Empty)],
   FacetOp |-> [columns |-> OrElse(Exprs, Empty), with_pipeline |-> Optional(<<"Pipeline">>)],
   ParseOp |-> [target |-> One(AnyExpr), patterns |-> Exprs],
   ParseWhereOp |-> [target |-> One(AnyExpr), patterns |-> Exprs],
   ParseKvOp |-> [target |-> One(AnyExpr), columns |-> OrElse(Assignments, Empty)],
   EvaluateOp |-> [func |-> One(<<"FuncCall">>)], InvokeOp |-> [func |-> One(<<"FuncCall">>)],
   CountOp |-> [as_name |-> OptionalStr], AsOp |-> [name |-> Str], RenderOp |-> [kind |-> Str],
   RangeOp |-> [column |-> Str, start |-> One(AnyExpr), end |-> One(AnyExpr),
                step |-> One(AnyExpr)],
   AssertSchemaOp |-> [columns |-> OrElse(Map, NoMap)],
   MacroExpandOp |-> [raw_text |-> Str, pipeline |-> Optional(<<"Pipeline">>)],
   ScanOp |-> RawText, TopNestedOp |-> RawText, MakeGraphOp |-> RawText,
   GraphMatchOp |-> RawText, GraphMarkComponentsOp |-> RawText,
   GraphShortestPathsOp |-> RawText, GraphToTableOp |-> RawText]

OtherFields ==
  [Assignment |-> [name |-> Str, expr |-> One(AnyExpr)],
   TableRef |-> [name |-> Str], LetRef |-> [name |-> Str], ImplicitSource |-> NoFields,
   UnknownSource |-> RawText,
   FuncCallSource |-> [name |-> Str, args |-> OrElse(Exprs, Empty)],
   TabularSchema |-> [columns |-> OrElse(Map, NoMap)],
   Pipeline |-> [source |-> One(Sources), operators |-> Many(Operators),
                 result_schema |-> Optional(<<"TabularSchema">>)],
   LetBinding |-> [name |-> Str, category |-> Str, rhs_expr |-> Optional(AnyExpr),
                   rhs_pipeline |-> Optional(<<"Pipeline">>),
                   inner_tables |-> OrElse(Strs, Empty), inner_time_exprs |-> OrElse(Exprs, Empty)],
   Diagnostic |-> [message |-> Str, severity |-> Str, code |-> OptionalStr,
                   category |-> OptionalStr],
   QueryIR |-> [raw_text |-> Str, structural_hash |-> Str,
                let_bindings |-> Many(<<"LetBinding">>), main_pipeline |-> APipeline,
                diagnostics |-> OrElse(Many(<<"Diagnostic">>), Empty),
                schema_attached |-> FalseByDefault, parse_warnings |-> OrElse(Strs, Empty)]]

ExprClasses == DOMAIN ExprFields
OperatorClasses == DOMAIN OperatorFields
Classes == ExprClasses \cup OperatorClasses \cup DOMAIN OtherFields

Fields ==
  [C \in Classes |->
     CASE C \in ExprClasses -> [f \in DOMAIN ExprFields[C] \cup DOMAIN ExprBase |->
                                  IF f \in DOMAIN ExprBase THEN ExprBase[f] ELSE ExprFields[C][f]]
       [] C \in OperatorClasses -> OperatorFields[C]
       [] OTHER -> OtherFields[C]]
=============================================================================
