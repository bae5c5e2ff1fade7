------------------------- MODULE PipelineBuilderProps -------------------------
(***************************************************************************)
(* What the pipelines of the IR say of the text they were built from.      *)
(***************************************************************************)
EXTENDS PipelineBuilder

\* The nodes of the pipeline that starts at a node: through pipes and
\* parentheses, but not into what an operator or a source holds.
Reach ==
  LET reach[n \in Nodes] ==
        {n} \cup IF Kind(n) \in Transparent
                   THEN UNION {reach[k] : k \in Range(Kids(n))} ELSE {}
  IN reach

\* A pipeline has exactly the operators of its text, in their order, however
\* pipes and parentheses nest; where operators that follow one another share one
\* IR operator, so readers of the IR never meet two of them in a row.
OperatorsInOrder ==
  \A n \in DOMAIN built :
    LET ops == built[n].ops
        at == FlattenSeq([k \in DOMAIN ops |-> ops[k].at]) IN
    /\ Range(at) = {m \in Reach[n] : Kind(m) \in Operators}
    /\ \A k \in 2 .. Len(at) : at[k - 1] < at[k]
    /\ \A k \in 2 .. Len(ops) :
         ops[k].kind = "where" => ops[k - 1].kind # "where"

\* The rows come from the one node of the pipeline's own text that can be a
\* source, however deep in pipes and parentheses it stands and never from a
\* pipeline nested in an operator.  Where nothing but operators stands in the
\* text, the source is implicit.  Nothing is said of a text that begins with a
\* shape walk() does not know: the documentation has UnknownSource for those, and
\* the code an implicit one as soon as operators follow (README.md, section 3).
SourceFromText ==
  \A n \in DOMAIN built :
    LET own == {m \in Reach[n] : Kind(m) \notin Transparent}
        candidates == {m \in own : Kind(m) \in Sources} IN
    /\ candidates # {} =>
         built[n].source.node \in candidates
           /\ built[n].source.kind = Kind(built[n].source.node)
    /\ own # {} /\ (\A m \in own : Kind(m) \in Operators) => built[n].source = Implicit

-----------------------------------------------------------------------------
(* What is built is what enrichment assumes it is given.                   *)

Query == INSTANCE QueryIR WITH
  Tables <- {"table"}, Columns <- {}, NoTable <- "no table",
  NoName <- "no name", NoType <- "no type",
  TypeNames <- {"bool", "int", "long", "real", "decimal", "datetime",
                "timespan", "guid", "string", "dynamic", "tabular", "unknown"}

Under ==
  LET under[n \in Nodes] == {n} \cup UNION {under[k] : k \in Range(Kids(n))}
  IN under

KindInQuery(kind) ==
  IF kind = "where" THEN "filter"
  ELSE IF kind \in Query!Walked THEN kind ELSE "other"

AsQuery ==
  LET none == [n \in {} |-> {}] IN
  [main   |-> MainNode,
   pipes  |-> [n \in DOMAIN built |->
     [source |-> IF built[n].source.kind \in {"reference", "path"}
                   THEN "table" ELSE "no table",
      ops |-> [k \in DOMAIN built[n].ops |->
        [kind  |-> KindInQuery(built[n].ops[k].kind),
         items |-> << >>,
         subs  |-> built[n].ops[k].subs]]]],
   nested |-> [n \in DOMAIN built |->
                 {m \in DOMAIN built \ {n} : n \in Under[m]}],
   exprs  |-> none, within |-> none, home |-> none]

\* A finished IR is one the enricher can walk: every pipeline an operator
\* refers to was built, once and inside the pipeline that refers to it.
OutputIsQuery == status = "done" => Query!IsQuery(AsQuery)

\* build_from_code comes back, with an IR or with an error.
BuildReturns == <>(status # "building")
=============================================================================
