----------------------------- MODULE CorpusAudits -----------------------------
(***************************************************************************)
(* scripts/verify_corpus.py and scripts/mine_corpus.py over one corpus.    *)
(* The first builds, searches, enriches, writes and reads back each query  *)
(* and files a verdict; the second builds each query and searches it in a  *)
(* way of its own for what the builder did not recognize.                  *)
(***************************************************************************)
EXTENDS Serialization

CONSTANTS
  Corpora,     \* the corpora: sequences of what the builder makes of each text
  NegatedOps,  \* the operators of comparisons with a "!"
  TableNames,  \* the tables of the schemas,
  ColumnTypes  \* and the types of their columns

\* What the builder makes: no dicts, no lists for tuples, no schemas; how a comparison
\* is negated is in its operator.
Polarity(negated) == IF negated THEN "exclusion" ELSE "inclusion"
IsBuilt(i) ==
  /\ IsIR(i) /\ 1 \in DOMAIN i /\ i[1].class = "QueryIR"
  /\ \A n \in DOMAIN i :
       LET C == i[n].class
           fields == i[n].fields
       IN /\ C # Dict
          /\ \A f \in DOMAIN fields : fields[f].form # "lists"
          /\ C = "Pipeline" => fields["result_schema"] = Null
          /\ C \in {"MaterializeExpr", "ToScalarExpr"} => fields["pipeline"].form = "one"
          /\ C = "BinOp" =>
               fields["polarity"].data = Polarity(fields["op"].data \in NegatedOps)
          /\ C \in {"SetMembership", "Between"} =>
               \E negated \in BOOLEAN : fields["polarity"].data = Polarity(negated)

\* verify_corpus parses a text with the schemas, mine_corpus without any, and stripped.
\* The builder asks the binder what T is in T.x, a column with a table or a path over two
\* columns, for names and types, and for diagnostics.  The columns of such a path and the
\* diagnostics are numbered last.
Parts(i) == {n \in DOMAIN i : i[n].class # "Diagnostic"}
SameText(built, bare) ==
  /\ Parts(built) \subseteq DOMAIN bare
  /\ \A n \in Parts(built) :
       \/ /\ bare[n].class = built[n].class
          /\ \A f \in DOMAIN built[n].fields :
               LET v == built[n].fields[f]
                   w == bare[n].fields[f]
               IN \/ n = 1 /\ f = "diagnostics"
                  \/ w.kids = v.kids /\ (v.kids # << >> => w.form = v.form)
       \/ /\ built[n].class = "ColumnRef" /\ bare[n].class = "PathExpr"
          /\ KidsOf(bare[n].fields) \cap Parts(built) = {}
  /\ \A n \in DOMAIN bare \ Parts(built) : bare[n].class \in {"ColumnRef", "Diagnostic"}

ASSUME CorporaAssumption ==
  \A c \in Corpora :
    /\ IsSequence(c)
    /\ \A q \in DOMAIN c : /\ IsBuilt(c[q].built) /\ IsBuilt(c[q].bare)
                           /\ SameText(c[q].built, c[q].bare)

VARIABLES
  corpus,      \* the corpus, in the order of the directory
  pc,          \* "build", "search", "enrich", "dump", "reload", "file": verify_corpus;
               \* "mine": mine_corpus; "done"
  at,          \* the query the script is at
  ir,          \* verify_query's IR
  json,        \* what it was written to
  reloaded,    \* what was read from that
  categories,  \* the categories of its failure, so far
  passed, failures,  \* verify_corpus's two lists
  mined,       \* the gaps mine_corpus counted: <<query, node>>
  errored,     \* the queries it could not build
  exit         \* its exit code, -1 before it ends

vars == <<corpus, pc, at, ir, json, reloaded, categories, passed, failures, mined, errored, exit>>
query == <<ir, json, reloaded, categories>>
verdicts == <<passed, failures>>
mining == <<mined, errored, exit>>

Nothing == << >>

Init ==
  /\ corpus \in Corpora /\ pc = "build" /\ at = 1
  /\ ir = Nothing /\ json = Nothing /\ reloaded = Nothing /\ categories = {}
  /\ passed = << >> /\ failures = << >>
  /\ mined = {} /\ errored = << >> /\ exit = -1

(***************************************************************************)
(* verify_query                                                            *)
(***************************************************************************)
InVerify(place) == pc = place /\ at <= Len(corpus)
Rest == UNCHANGED <<corpus, at, verdicts, mining>>

MainPipeline(i) == i[1].fields["main_pipeline"].kids[1]

Build ==
  /\ InVerify("build")
  /\ ir' = corpus[at].built /\ pc' = "search"
  /\ UNCHANGED <<json, reloaded, categories>> /\ Rest

BuildRaises ==
  /\ InVerify("build")
  /\ categories' = {"builder_exception"} /\ pc' = "file"
  /\ UNCHANGED <<ir, json, reloaded>> /\ Rest

\* Slip: _walk does not look into lists (MinedIsVerified).
VerifyWalkOfFields(i, from) ==
  Reach(i, from, [n \in DOMAIN i |-> Models(i, Held(i, n, {"one"}))])

\* _walk: a model of its own, or a model in a list.
VerifyWalk(i, from) ==
  Reach(i, from, [n \in DOMAIN i |-> Models(i, Held(i, n, {"one", "list"}))])

GapCategory(C) == CASE C = "Operator" -> "bare_operator"
                    [] C = "UnknownExpr" -> "unknown_expr"
                    [] C = "UnknownSource" -> "unknown_source"
Gaps(i, nodes) ==
  {n \in nodes : i[n].class \in {"Operator", "UnknownExpr", "UnknownSource"}}

Search ==
  /\ pc = "search"
  /\ categories' = {GapCategory(ir[n].class) :
                      n \in Gaps(ir, VerifyWalk(ir, MainPipeline(ir)))}
  /\ pc' = "enrich"
  /\ UNCHANGED <<ir, json, reloaded>> /\ Rest

(***************************************************************************)
(* SchemaAttacher.enrich, as far as the document goes: it sets the schemas *)
(* of the pipelines it walks and the tables and types of what they hold.   *)
(* Which, module SchemaAttacher says; here any of the schemas may be it.   *)
(***************************************************************************)
ExprAttributes == {"left", "right", "operand", "expression", "selector", "target",
                   "column", "low", "high", "operands", "args", "values"}

\* Where _walk_pipeline, _walk_operator and _fill go on from a node.
EnrichAttributes(C) ==
  CASE C = "Pipeline" -> {"operators"}
    [] C = "Assignment" -> {"expr"}
    [] C \in ExprClasses -> ExprAttributes
    [] C = "FilterOp" -> {"predicate"}
    [] C \in {"JoinOp", "LookupOp"} -> {"right", "on_expressions"}
    [] C = "UnionOp" -> {"pipelines"}
    [] C = "ExtendOp" -> {"assignments"}
    [] C = "SummarizeOp" -> {"aggregations", "by"}
    [] C = "MakeSeriesOp" -> {"aggregations", "by", "range_from", "range_to", "step"}
    [] C \in {"ProjectOp", "ProjectRenameOp", "DistinctOp", "ProjectAwayOp", "ProjectKeepOp",
              "ProjectReorderOp", "MvExpandOp"} -> {"columns"}
    [] C = "ProjectByNamesOp" -> {"names"}
    [] C \in {"ParseOp", "ParseWhereOp"} -> {"target", "patterns"}
    [] OTHER -> {}

KidsIn(i, n, attributes) ==
  UNION {ToSet(i[n].fields[f].kids) : f \in DOMAIN i[n].fields \cap attributes}

\* The pipelines walked from one, and what is filled in on the way in itself.
EnrichWalk(i, p) ==
  Reach(i, p, [n \in DOMAIN i |-> KidsIn(i, n, EnrichAttributes(i[n].class))])
PipelinesFrom(i, p) == {n \in DOMAIN i : i[n].class = "Pipeline" /\ n \in EnrichWalk(i, p)}
FilledFrom(i, p) ==
  Reach(i, p, [n \in DOMAIN i |-> {k \in KidsIn(i, n, EnrichAttributes(i[n].class)) :
                                     i[k].class # "Pipeline"}])
ColumnsFrom(i, p) == {n \in FilledFrom(i, p) : i[n].class = "ColumnRef"}

KustoTypes == {"bool", "int", "long", "real", "decimal", "datetime", "timespan", "guid",
               "string", "dynamic", "tabular", "unknown"}
Unknown == Text("unknown")
Nobody == [table |-> Null, type |-> Unknown]
Owners ==
  {Nobody} \cup {[table |-> Text(t), type |-> k] :
                   t \in TableNames, k \in {Unknown} \cup {Text(type) : type \in ColumnTypes}}

Typed(fields, type) ==
  IF fields["result_type"] = Unknown THEN [fields EXCEPT !["result_type"] = type] ELSE fields

\* A column without a table or with a side for one gets its owner's, if there is one.
FilledColumn(fields, owner) ==
  LET open == fields["table"] \in {Null, Text("$left"), Text("$right")}
  IN Typed(IF open /\ owner # Nobody THEN [fields EXCEPT !["table"] = owner.table] ELSE fields,
           owner.type)

FilledExpr(C, fields) ==
  CASE C = "LiteralExpr" /\ fields["literal_kind"].data \in KustoTypes ->
         Typed(fields, Text(fields["literal_kind"].data))
    [] C \in {"BinOp", "SetMembership", "Between", "And", "Or", "Not"} ->
         Typed(fields, Text("bool"))
    [] OTHER -> fields

Filled(i, p, owner) ==
  [n \in DOMAIN i |->
     [class |-> i[n].class,
      fields |-> IF n \in DOMAIN owner THEN FilledColumn(i[n].fields, owner[n])
                 ELSE IF n \in FilledFrom(i, p) THEN FilledExpr(i[n].class, i[n].fields)
                 ELSE i[n].fields]]

HasSchema(i, p) == i[p].fields["result_schema"] # Null
WithSchema(i, p, columns) ==
  Append([i EXCEPT ![p].fields["result_schema"] = Value("one", "", <<Len(i) + 1>>)],
         [class |-> "TabularSchema", fields |-> [columns |-> columns]])

\* A pipeline's own operators come after the pipelines they hold.
WalkPipeline ==
  /\ pc = "enrich"
  /\ \E p \in PipelinesFrom(ir, MainPipeline(ir)) :
       /\ ~HasSchema(ir, p)
       /\ \A q \in PipelinesFrom(ir, p) \ {p} : HasSchema(ir, q)
       /\ \E owner \in [ColumnsFrom(ir, p) -> Owners],
             columns \in {NoMap, Value("map", "types", << >>)} :
            ir' = WithSchema(Filled(ir, p, owner), p, columns)
  /\ UNCHANGED <<pc, json, reloaded, categories>> /\ Rest

Enrich ==
  /\ pc = "enrich" /\ HasSchema(ir, MainPipeline(ir))
  /\ ir' = [ir EXCEPT ![1].fields["schema_attached"] = Bool("true")]
  /\ pc' = "dump"
  /\ UNCHANGED <<json, reloaded, categories>> /\ Rest

EnrichRaises ==
  /\ pc = "enrich"
  /\ categories' = categories \cup {"binder_exception"} /\ pc' = "file"
  /\ UNCHANGED <<ir, json, reloaded>> /\ Rest

Dump ==
  /\ pc = "dump"
  /\ json' = ModelDumpJson(ir) /\ pc' = "reload"
  /\ UNCHANGED <<ir, reloaded, categories>> /\ Rest

Differs(i, j) == ModelDump(i) # ModelDump(j)

Reload ==
  /\ pc = "reload"
  /\ reloaded' = ModelValidateJson(json, "QueryIR")
  /\ categories' = categories \cup
       (IF Differs(ir, reloaded') THEN {"roundtrip_mismatch"} ELSE {})
  /\ pc' = "file"
  /\ UNCHANGED <<ir, json>> /\ Rest

\* Writing, reading back or comparing raises.
RoundTripRaises ==
  /\ pc \in {"dump", "reload"}
  /\ categories' = categories \cup {"roundtrip_mismatch"} /\ pc' = "file"
  /\ UNCHANGED <<ir, json, reloaded>> /\ Rest

(***************************************************************************)
(* main of verify_corpus                                                   *)
(***************************************************************************)
\* Slip: a verdict with only an unknown source counts as passed, as in
\* mine_corpus (PassedMeansClean).
FileTolerant ==
  /\ pc = "file"
  /\ IF categories \subseteq {"unknown_source"}
     THEN passed' = Append(passed, at) /\ UNCHANGED failures
     ELSE failures' = Append(failures, [id |-> at, categories |-> categories])
            /\ UNCHANGED passed
  /\ ir' = Nothing /\ json' = Nothing /\ reloaded' = Nothing /\ categories' = {}
  /\ at' = at + 1 /\ pc' = "build"
  /\ UNCHANGED <<corpus, mining>>

File ==
  /\ pc = "file"
  /\ IF categories = {}
     THEN passed' = Append(passed, at) /\ UNCHANGED failures
     ELSE failures' = Append(failures, [id |-> at, categories |-> categories])
            /\ UNCHANGED passed
  /\ ir' = Nothing /\ json' = Nothing /\ reloaded' = Nothing /\ categories' = {}
  /\ at' = at + 1 /\ pc' = "build"
  /\ UNCHANGED <<corpus, mining>>

VerifyEnds ==
  /\ pc = "build" /\ at > Len(corpus)
  /\ pc' = "mine" /\ at' = 1
  /\ UNCHANGED <<corpus, query, verdicts, mining>>

(***************************************************************************)
(* mine_corpus                                                             *)
(***************************************************************************)
OpAttributes == {"predicate", "assignments", "aggregations", "columns", "right", "pipelines"}

\* Where walk_pipeline and walk_expr go on from a node.
MineAttributes(C) ==
  CASE C = "Pipeline" -> {"operators"}
    [] C = "Assignment" -> {"expr"}
    [] C \in OperatorClasses -> OpAttributes
    [] C \in ExprClasses -> ExprAttributes
    [] OTHER -> {}

MineWalk(i) ==
  LET reached == Reach(i, MainPipeline(i),
                       [n \in DOMAIN i |-> KidsIn(i, n, MineAttributes(i[n].class))])
  IN reached \cup {i[n].fields["source"].kids[1] :
                     n \in {n \in reached : i[n].class = "Pipeline"}}

Mine ==
  /\ pc = "mine" /\ at <= Len(corpus)
  /\ LET i == corpus[at].bare
     IN mined' = mined \cup {<<at, n>> : n \in Gaps(i, MineWalk(i))}
  /\ at' = at + 1
  /\ UNCHANGED <<corpus, pc, query, verdicts, errored, exit>>

MineBuildRaises ==
  /\ pc = "mine" /\ at <= Len(corpus)
  /\ errored' = Append(errored, at)
  /\ at' = at + 1
  /\ UNCHANGED <<corpus, pc, query, verdicts, mined, exit>>

ClassOf(gap) == corpus[gap[1]].bare[gap[2]].class

\* A file that cannot be read, or is blank.
MineSkips ==
  /\ pc = "mine" /\ at <= Len(corpus)
  /\ at' = at + 1
  /\ UNCHANGED <<corpus, pc, query, verdicts, mining>>

ExitCode == IF \E g \in mined : ClassOf(g) # "UnknownSource" THEN 1 ELSE 0

MineEnds ==
  /\ pc = "mine" /\ at > Len(corpus)
  /\ exit' = ExitCode /\ pc' = "done"
  /\ UNCHANGED <<corpus, at, query, verdicts, mined, errored>>

Next ==
  \/ Build \/ BuildRaises \/ Search
  \/ WalkPipeline \/ Enrich \/ EnrichRaises \/ Dump \/ Reload \/ RoundTripRaises
  \/ File \/ VerifyEnds
  \/ Mine \/ MineBuildRaises \/ MineSkips \/ MineEnds

Spec == Init /\ [][Next]_vars
=============================================================================
