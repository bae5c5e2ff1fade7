-------------------------- MODULE SchemaAttacherProps --------------------------
(***************************************************************************)
(* What schema enrichment guarantees, and what its documentation says it   *)
(* guarantees and it does not.                                             *)
(***************************************************************************)
EXTENDS SchemaAttacher

Annotated == INSTANCE Annotations

Frame == [pipe : DOMAIN query.pipes, pc : Nat, sub : Nat, scope : Seq(Entry)]

\* The variables keep their types: scopes hold entries whose columns map
\* names to type strings, whatever the operators did to them.
TypeOK ==
  /\ table \in [DOMAIN query.exprs -> Owners]
  /\ rtype \in [DOMAIN query.exprs -> KustoTypes]
  /\ result \in [DOMAIN query.pipes -> ColumnMap \cup {NoSchema}]
  /\ stack \in Seq(Frame)
  /\ attached \in BOOLEAN
  /\ passes \in 0 .. MaxPasses

\* The first part of ScopesSound: a frame below the top is at the join or union
\* that is reading the frame above it.
CallsNest ==
  \A i \in 1 .. Len(stack) - 1 :
    /\ stack[i].pc \in DOMAIN OpsOf(stack[i])
    /\ OpOf(stack[i]).kind \in {"join", "union"}
    /\ stack[i].sub \in DOMAIN OpOf(stack[i]).subs
    /\ stack[i + 1].pipe = OpOf(stack[i]).subs[stack[i].sub]

\* A named entry of the scope is one of the tables, with exactly the columns
\* the schema gives that table.
Faithful(tables, scope) ==
  \A k \in DOMAIN scope :
    scope[k].table # NoTable
      => /\ scope[k].table \in tables
         /\ scope[k].columns = TableSchema(scope[k].table)

\* Tables a call has drawn rows from by the operator it has reached; a union
\* adds its branches' one after the other.
Drawn(frame) ==
  Upstream(query, frame.pipe, frame.pc)
    \cup (IF frame.pc \in DOMAIN OpsOf(frame) /\ OpOf(frame).kind = "union"
           THEN Beside(query, OpOf(frame)) ELSE {})

\* The second part of ScopesSound.
ScopeFaithful == \A i \in DOMAIN stack : Faithful(Drawn(stack[i]), stack[i].scope)

\* The third part of ScopesSound: a join always finds a first entry on its
\* right, for only a union takes a scope apart.
ScopesFilled ==
  \A i \in DOMAIN stack :
    stack[i].scope = << >> => i > 1 /\ OpOf(stack[i - 1]).kind = "union"

\* Calls nest as the query's structure says, no scope holds a table whose rows
\* do not reach that place of its pipeline, and none is empty when a join reads
\* it: what every attribution rests on.
ScopesSound == CallsNest /\ ScopeFaithful /\ ScopesFilled

\* Enrichment implements the annotation contract: every step of the walk
\* only adds owners and types there is evidence for, and overrides nothing
\* the .NET binder or an earlier step wrote.
ImplementsAnnotations == Annotated!Spec

\* Bare references are attributed to tables that have the column and whose
\* rows reach the reference (module Annotations).
Attributed == Annotated!Attributed

\* Types that came from the schema agree with the owner finally recorded
\* (module Annotations).
TypesJustified == Annotated!TypesJustified

-----------------------------------------------------------------------------
(* Results.                                                                *)

\* Operators after which everything that was in scope still is.
Growing == {"filter", "extend", "join", "union", "distinct", "reorder",
            "bynames", "parse", "other"}

GrowsAfter(p, i) ==
  LET ops == query.pipes[p].ops IN
  \A j \in i + 1 .. Len(ops) : ops[j].kind \in Growing

KeepsColumns(kind) ==
  \A p \in DOMAIN query.pipes : \A i \in DOMAIN query.pipes[p].ops :
    LET op == query.pipes[p].ops[i] IN
    op.kind = kind /\ result[p] # NoSchema /\ GrowsAfter(p, i)
      => \A k \in DOMAIN op.subs :
           /\ result[op.subs[k]] # NoSchema
           /\ DOMAIN result[op.subs[k]] \subseteq DOMAIN result[p]

\* No column of a union's branch is missing from the result of the pipeline
\* that unions it, unless a later operator drops it.
UnionKeepsColumns == KeepsColumns("union")

\* The same of a join's right side.  binder.py keeps only the first entry of
\* that side's scope, so this fails: columns the right side computed or joined
\* are lost.
JoinKeepsColumns == KeepsColumns("join")

Branch(p, d) == \E i \in DOMAIN query.pipes[p].ops :
  LET op == query.pipes[p].ops[i] IN
  op.kind \in {"join", "union"} /\ \E j \in DOMAIN op.subs : op.subs[j] = d

\* Pipelines the main pipeline reads through joins and unions only.
WalkedPipes ==
  {p \in DOMAIN query.pipes :
     \A d \in {p} \cup query.nested[p] :
       d = query.main \/ \E q \in query.nested[p] : Branch(q, d)}

Named(p) ==
  UNION {UNION {Targets(query.pipes[d].ops[i].items) : i \in DOMAIN query.pipes[d].ops}
           : d \in {d \in DOMAIN query.pipes : d = p \/ p \in query.nested[d]}}

\* A column of a pipeline's result comes from a table the pipeline reads or is
\* named by one of its operators: no scope leaks into a pipeline from outside.
ColumnsHaveOrigin ==
  \A p \in DOMAIN query.pipes :
    result[p] # NoSchema
      => \A c \in DOMAIN result[p] :
           \/ c \in Named(p)
           \/ \E t \in Cone(query, p) : c \in DOMAIN TableSchema(t)

\* Enriching again with the same schemas changes nothing, so enrich() may be
\* called on an IR that already is enriched.
SecondPassChangesNothing == [][attached => UNCHANGED <<table, rtype, result>>]_vars

-----------------------------------------------------------------------------
(* Attribution.                                                            *)

BareColumn(e) == query.exprs[e].form = "column" /\ query.exprs[e].table = NoTable

\* The items of pipeline p up to its first operator that replaces the scope.
EarlyItems(p) ==
  LET ops == query.pipes[p].ops IN
  UNION {{ops[i].items[k] : k \in DOMAIN ops[i].items} :
           i \in {i \in DOMAIN ops : /\ ops[i].kind # "other"
                                     /\ \A j \in 1 .. i - 1 : ops[j].kind \in Growing}}

SourceHas(p, e) ==
  query.exprs[e].name \in DOMAIN TableSchema(query.pipes[p].source)

\* A reference to a column of the pipeline's own table, made while that table
\* is still in scope, always gets an owner.
SourceColumnsAttributed ==
  attached =>
    \A p \in WalkedPipes : \A item \in EarlyItems(p) :
      \A e \in Reached(query, item.root) :
        BareColumn(e) /\ SourceHas(p, e) => table[e] # NoTable

\* Operators that leave the scope entirely as it was.
Reading == {"filter", "distinct", "reorder", "bynames", "other"}

\* The main table of a join's right pipeline stays first in its scope.
FirstStays(p) == \A i \in DOMAIN query.pipes[p].ops : query.pipes[p].ops[i].kind \in Growing

\* The conditions of a join on a pipeline that has only been read so far name
\* its source for $left; $right is the right pipeline's source, unless that
\* pipeline reshapes its rows.  A side whose source has no name stays as it is.
SidesNamed ==
  attached =>
    \A p \in WalkedPipes : \A i \in DOMAIN query.pipes[p].ops :
      LET op == query.pipes[p].ops[i]
          named(side, d) == IF query.pipes[d].source = NoTable THEN side
                            ELSE query.pipes[d].source IN
      op.kind = "join" =>
        \A k \in DOMAIN op.items : \A e \in Reached(query, op.items[k].root) :
          query.exprs[e].form = "column" =>
            /\ query.exprs[e].table = "$left"
                 /\ (\A j \in 1 .. i - 1 : query.pipes[p].ops[j].kind \in Reading)
                 => table[e] = named("$left", p)
            /\ query.exprs[e].table = "$right" /\ FirstStays(op.subs[1])
                 => table[e] = named("$right", op.subs[1])
=============================================================================
