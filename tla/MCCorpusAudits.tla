---------------------------- MODULE MCCorpusAudits ----------------------------
(***************************************************************************)
(* Queries for TLC: every operator, expression and source once, pairs of   *)
(* them whose nodes have the same fields, and gaps in every place an       *)
(* expression or a pipeline can stand.                                     *)
(***************************************************************************)
EXTENDS CorpusAuditsProps

(***************************************************************************)
(* Trees before their nodes are numbered.  A kid is a field's name, its    *)
(* form and its trees; fields left out have their defaults.                *)
(***************************************************************************)
Tree(C, data, kids) == [class |-> C, data |-> data, kids |-> kids]
Kid(f, form, trees) == [field |-> f, form |-> form, trees |-> trees]
A(f, t) == Kid(f, "one", <<t>>)
Ls(f, ts) == Kid(f, "list", ts)
None == << >>

RECURSIVE Size(_)
Size(t) ==
  1 + FoldLeft(LAMBDA s, k : s + FoldLeft(LAMBDA r, u : r + Size(u), 0, k.trees), 0, t.kids)

RECURSIVE Numbered(_, _)
Numbered(t, n) ==
  LET all == FlattenSeq([i \in DOMAIN t.kids |-> t.kids[i].trees])
      starts == FoldLeft(LAMBDA ss, u : Append(ss, Last(ss) + Size(u)), <<n + 1>>, all)
      before(i) == FoldLeft(LAMBDA s, k : s + Len(k.trees), 0, SubSeq(t.kids, 1, i - 1))
      value(i) == Value(t.kids[i].form, "",
                        SubSeq(starts, before(i) + 1, before(i) + Len(t.kids[i].trees)))
      held == {t.kids[i].field : i \in DOMAIN t.kids}
      valueOf(f) ==
        IF f \in held THEN value(CHOOSE i \in DOMAIN t.kids : t.kids[i].field = f)
        ELSE IF f \in DOMAIN t.data THEN t.data[f]
        ELSE Fields[t.class][f].default
      fields == FoldSet(LAMBDA f, r : (f :> valueOf(f)) @@ r, << >>, DOMAIN Fields[t.class])
  IN <<[class |-> t.class, fields |-> fields]>>
     \o FlattenSeq([j \in DOMAIN all |-> Numbered(all[j], starts[j])])

(***************************************************************************)
(* Expressions.                                                            *)
(***************************************************************************)
D(f, s) == f :> Text(s)
Number == Value("int", "5", << >>)
X == Tree("ColumnRef", D("name", "x"), None)
Five == Tree("LiteralExpr", ("value" :> Number) @@ D("literal_kind", "long"), None)
Gap == Tree("UnknownExpr", D("raw_text", "?") @@ D("ast_kind", "Odd") @@ D("reason", "r"), None)
Call(ts) == Tree("FuncCall", D("name", "f"),
                 <<IF ts = None THEN Kid("args", "empty", ts) ELSE Ls("args", ts)>>)
BinOp(op, p, t, u) == Tree("BinOp", D("op", op) @@ D("polarity", p), <<A("left", t), A("right", u)>>)
Case(t) == Tree("CaseExpr", None, <<Kid("branches", "pairs", <<X, t>>), A("default", Five)>>)
NoCase == Tree("CaseExpr", None, <<Kid("branches", "empty", None)>>)
InSet(p, ts) == Tree("SetMembership", D("polarity", p), <<A("column", X), Ls("values", ts)>>)
Ranged(p, t) == Tree("Between", D("polarity", p),
                    <<A("target", X), A("low", Five), A("high", t)>>)
External(form) == Tree("ExternalDataExpr",
                       ("columns" :> Value(form, "", None)) @@ D("uri", "u"), None)

Table == Tree("TableRef", D("name", "T"), None)
UnknownSource == Tree("UnknownSource", D("raw_text", "?"), None)
Pipe(s, ops) ==
  Tree("Pipeline", None,
       <<A("source", s), IF ops = None THEN Kid("operators", "empty", ops) ELSE Ls("operators", ops)>>)
Where(t) == Tree("FilterOp", None, <<A("predicate", t)>>)
Sub(C, t) == Tree(C, None, <<A("pipeline", Pipe(Table, <<Where(t)>>))>>)

\* Expressions around another, which may be a gap.
Around(t) ==
  <<BinOp("==", "inclusion", t, Five), Tree("UnaryOp", D("op", "-"), <<A("operand", t)>>),
    InSet("inclusion", <<t>>), Ranged("inclusion", t), Tree("And", None, <<Ls("operands", <<X, t>>)>>),
    Tree("Or", None, <<Ls("operands", <<X, t>>)>>), Tree("Not", None, <<A("operand", t)>>),
    Tree("Exists", None, <<A("target", t)>>), Tree("RegexMatch", D("pattern", "p"), <<A("target", t)>>),
    Case(t), Call(<<t>>), Tree("PathExpr", None, <<A("expression", t), A("selector", X)>>),
    Tree("ElementExpr", None, <<A("expression", X), A("selector", t)>>),
    Tree("NamedExpr", D("name", "n"), <<A("expression", t)>>),
    Tree("CompoundNamedExpr", "names" :> Value("strs", "ab", None), <<A("expression", t)>>),
    Tree("BracketedExpr", None, <<A("expression", t)>>), Sub("MaterializeExpr", t),
    Sub("ToScalarExpr", Case(t)), Sub("ToScalarExpr", External("pairs"))>>

\* Expressions that differ from one of these in a field, and leaves.
Beside ==
  <<BinOp("!=", "exclusion", X, Five), InSet("exclusion", <<X>>), Ranged("exclusion", X),
    Call(None), NoCase, External("pairs"), External("empty"),
    Tree("StarExpr", None, None), Tree("Expr", None, None), Gap, X, Five,
    Tree("ColumnRef", D("name", "x") @@ D("canonical_form", "x"), None),
    Tree("ColumnRef", D("name", "x") @@ D("table", "T"), None),
    Tree("ColumnRef", D("name", "x") @@ D("result_type", "long"), None),
    Tree("ColumnRef", D("name", "x") @@ ("nullable" :> Bool("false")), None),
    Tree("LiteralExpr", ("value" :> Text("5")) @@ D("literal_kind", "string"), None),
    Tree("LiteralExpr", ("value" :> Text("5")) @@ D("literal_kind", "string")
                        @@ D("canonical_form", "\"5\""), None),
    Tree("LiteralExpr", ("value" :> Null) @@ D("literal_kind", "null"), None),
    Tree("SetMembership", D("polarity", "inclusion") @@ ("case_sensitive" :> Bool("true")),
         <<A("column", X), Ls("values", <<X>>)>>),
    Tree("And", D("canonical_form", "x and x"), <<Ls("operands", <<X, X>>)>>)>>

(***************************************************************************)
(* Operators around an expression, and without one.                        *)
(***************************************************************************)
Assign(t) == Tree("Assignment", D("name", "y"), <<A("expr", t)>>)
On == "on_columns" :> Value("strs", "x", None)
Cnt == "count" :> Number
Op(C, data, kids) == Tree(C, data, kids)
Rows(t) == Pipe(Tree("ImplicitSource", None, None), <<Where(t)>>)

OpsAround(t) ==
  <<Op("ExtendOp", None, <<Ls("assignments", <<Assign(t)>>)>>),
    Op("SerializeOp", None, <<Ls("assignments", <<Assign(t)>>)>>),
    Op("SummarizeOp", None, <<Ls("aggregations", <<Assign(t)>>), Ls("by", <<X, Assign(X)>>)>>),
    Op("SummarizeOp", None, <<Ls("aggregations", <<Assign(X)>>), Ls("by", <<Call(<<X>>), t>>)>>),
    Op("MakeSeriesOp", None, <<Ls("aggregations", <<Assign(X)>>), Ls("by", <<Assign(X)>>), A("step", t)>>),
    Op("ProjectOp", None, <<Ls("columns", <<X, Assign(t)>>)>>),
    Op("DistinctOp", None, <<Ls("columns", <<X, t>>)>>),
    Op("ProjectAwayOp", None, <<Ls("columns", <<X, t>>)>>),
    Op("ProjectKeepOp", None, <<Ls("columns", <<t>>)>>),
    Op("ProjectReorderOp", None, <<Ls("columns", <<t>>)>>),
    Op("ProjectRenameOp", None, <<Ls("columns", <<Assign(t)>>)>>),
    Op("ProjectByNamesOp", None, <<Ls("names", <<t>>)>>),
    Op("MvExpandOp", None, <<Ls("columns", <<t>>)>>),
    Op("PrintOp", None, <<Ls("columns", <<Assign(t), X>>)>>),
    Op("TopOp", Cnt, <<A("by", t)>>), Op("TopHittersOp", Cnt, <<A("by", t)>>),
    Op("SampleDistinctOp", Cnt, <<A("of", t)>>),
    Op("SortOp", None, <<Ls("expressions", <<t, X>>)>>),
    Op("UnionOp", None, <<Ls("pipelines", <<Pipe(Table, None), Rows(t)>>)>>),
    Op("ForkOp", None, <<Ls("pipelines", <<Rows(t)>>)>>),
    Op("MvApplyOp", None, <<Ls("assignments", <<Assign(t)>>), A("right", Rows(X))>>),
    Op("PartitionOp", None, <<A("by", X), A("right", Rows(t))>>),
    Op("JoinOp", D("kind", "inner") @@ On, <<A("right", Rows(t)), Ls("on_expressions", <<X>>)>>),
    Op("LookupOp", On, <<A("right", Rows(X)), Ls("on_expressions", <<t>>)>>),
    Op("FacetOp", None, <<Ls("columns", <<X>>), A("with_pipeline", Rows(t))>>),
    Op("ParseOp", None, <<A("target", t), Ls("patterns", <<Five>>)>>),
    Op("ParseWhereOp", None, <<A("target", X), Ls("patterns", <<t>>)>>),
    Op("ParseKvOp", None, <<A("target", t), Ls("columns", <<Assign(X)>>)>>),
    Op("SearchOp", None, <<A("predicate", t)>>), Op("FindOp", None, <<A("predicate", t)>>),
    Op("GraphWhereEdgesOp", None, <<A("predicate", t)>>),
    Op("GraphWhereNodesOp", None, <<A("predicate", t)>>),
    Op("EvaluateOp", None, <<A("func", Call(<<t>>))>>), Op("InvokeOp", None, <<A("func", Call(<<t>>))>>),
    Op("RangeOp", D("column", "c"), <<A("start", t), A("end", Five), A("step", Five)>>),
    Op("MacroExpandOp", D("raw_text", "m"), <<A("pipeline", Rows(t))>>)>>

Raw == <<"ScanOp", "TopNestedOp", "MakeGraphOp", "GraphMatchOp", "GraphMarkComponentsOp",
        "GraphShortestPathsOp", "GraphToTableOp", "MacroExpandOp">>
OpsAlone ==
  [i \in DOMAIN Raw |-> Op(Raw[i], D("raw_text", "r"), None)] \o
  <<Op("Operator", None, None), Op("GetSchemaOp", None, None), Op("ConsumeOp", None, None),
    Op("ExecuteAndCacheOp", None, None), Op("TakeOp", Cnt, None), Op("SampleOp", Cnt, None),
    Op("SearchOp", None, None), Op("FindOp", None, None), Op("CountOp", None, None),
    Op("CountOp", D("as_name", "n"), None), Op("AsOp", D("name", "n"), None),
    Op("RenderOp", D("kind", "pie"), None), Op("RenderOp", D("kind", "bar"), None),
    Op("AssertSchemaOp", None, None), Op("AssertSchemaOp", "columns" :> Value("map", "c", None), None),
    Op("ForkOp", None, None), Op("SerializeOp", None, None), Op("FacetOp", None, None),
    Op("LookupOp", D("kind", "leftouter") @@ On, <<A("right", Rows(X))>>)>>

(***************************************************************************)
(* Queries.                                                                *)
(***************************************************************************)
Of(lets, main, rest) ==
  Tree("QueryIR", D("raw_text", "q") @@ D("structural_hash", "h"),
       <<lets, A("main_pipeline", main)>> \o rest)
NoLets == Kid("let_bindings", "empty", None)
Query(main) == Of(NoLets, main, None)
Let(kids, main) ==
  Of(Ls("let_bindings", <<Tree("LetBinding", D("name", "v") @@ D("category", "alias"), kids)>>),
     main, None)
Diagnosed(main) ==
  Of(NoLets, main,
     <<Ls("diagnostics", <<Tree("Diagnostic", D("message", "m") @@ D("severity", "Error"), None)>>)>>)
Filters(ts) == [k \in DOMAIN ts |-> Where(ts[k])]

\* The trees of queries with a filter by every expression, with every operator and every source.
Queries(mains) == [k \in DOMAIN mains |-> Query(mains[k])]
OfOps(ops) == [k \in DOMAIN ops |-> Pipe(Table, <<ops[k]>>)]
OfSources(ss) == [k \in DOMAIN ss |-> Pipe(ss[k], None)]
Sources1 ==
  Queries(OfSources(
    <<Table, Tree("LetRef", D("name", "T"), None), Tree("ImplicitSource", None, None),
      Tree("FuncCallSource", D("name", "T"), None),
      Tree("FuncCallSource", D("name", "T"), <<Ls("args", <<Gap>>)>>)>>))
GapPipe == Pipe(Table, <<Where(Gap)>>)
Exprs1 == Queries(OfOps(Filters(Beside \o Around(X))))
Ops1 == Queries(OfOps(OpsAlone))
Others ==
  Queries(OfOps(Filters(Around(Gap) \o Around(Case(Gap))) \o OpsAround(X) \o OpsAround(Gap)))
Gaps1 ==
  Queries(OfSources(<<UnknownSource, Pipe(UnknownSource, <<Where(X)>>)>>) \o <<GapPipe>>)
  \o
  <<Diagnosed(GapPipe), Let(<<A("rhs_expr", Gap)>>, Pipe(Table, None)),
    Let(<<A("rhs_pipeline", Rows(Gap))>>, Pipe(Table, None)),
    Let(<<A("rhs_pipeline", Rows(Sub("ToScalarExpr", Case(X)))), Ls("inner_time_exprs", <<X>>)>>,
        Pipe(UnknownSource, <<Op("Operator", None, None), Where(X)>>))>>

\* The same text without the schemas: a column of table T is a path over two columns.
Columns(i) == SetToSeq({n \in DOMAIN i : /\ i[n].class = "ColumnRef"
                                        /\ i[n].fields["table"] = Text("T")})
Path == Tree("PathExpr", None, <<A("expression", X), A("selector", X)>>)
PathNodes == Numbered(Path, 1)
Unbound(i) ==
  LET columns == Columns(i)
      place(n) == Len(i) + 2 * CHOOSE k \in DOMAIN columns : columns[k] = n
      path(n) == [PathNodes[1] EXCEPT
                    !.fields["expression"].kids = <<place(n) - 1>>, !.fields["selector"].kids = <<place(n)>>]
  IN [n \in DOMAIN i |-> IF n \in ToSet(columns) THEN path(n) ELSE i[n]]
     \o [k \in 1 .. 2 * Len(columns) |-> PathNodes[2]]
Parsed(qs) == [q \in DOMAIN qs |-> [built |-> qs[q], bare |-> Unbound(qs[q])]]

\* Every query alone, in pairs those whose nodes have the same fields, and gaps of two kinds.
Trees == [exprs |-> Exprs1, ops |-> Ops1, sources |-> Sources1, gaps |-> Gaps1, others |-> Others]
Texts == [g \in DOMAIN Trees |-> [q \in DOMAIN Trees[g] |-> Numbered(Trees[g][q], 1)]]
Alike(i, j) ==
  /\ i # j /\ DOMAIN i = DOMAIN j
  /\ \A n \in DOMAIN i : DOMAIN i[n].fields = DOMAIN j[n].fields
Pairs(texts) == UNION {{<<texts[p], texts[q]>> : q \in p .. Len(texts)} : p \in DOMAIN texts}
AlikePairs(texts) == {c \in Pairs(texts) : Alike(c[1], c[2])}

\* What was diagnosed with the schemas is not without them, or the other way round.
Rebound ==
  LET gap == Texts.gaps[3]
      diagnosed == Texts.gaps[4]
  IN {<<[built |-> diagnosed, bare |-> gap]>>, <<[built |-> gap, bare |-> diagnosed]>>}
MCCorpora ==
  {Parsed(qs) : qs \in {<<i>> : i \in UNION {ToSet(Texts[g]) : g \in DOMAIN Texts}}
                        \cup UNION {AlikePairs(Texts[g]) : g \in {"exprs", "ops", "sources"}}
                        \cup Pairs(Texts.gaps)}
  \cup Rebound
=============================================================================
