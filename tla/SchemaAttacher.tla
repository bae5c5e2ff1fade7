---------------------------- MODULE SchemaAttacher ----------------------------
(***************************************************************************)
(* SchemaAttacher (ir/binder.py): walk the operators of a pipeline with a  *)
(* growing scope, give column references the table that owns them and      *)
(* expressions a type, and leave each walked pipeline the shape of its     *)
(* rows.  The recursion of _walk_pipeline is a stack of frames; a join or  *)
(* a union pushes the frame of the pipeline it reads.                      *)
(*                                                                         *)
(* One behaviour is: the builder hands over a query, and enrich() is       *)
(* called on it up to MaxPasses times by the same attacher.                *)
(*                                                                         *)
(* A definition introduced as a slip is not part of the model: it is a     *)
(* plausible mistake in the definition that follows it, kept to show that  *)
(* the property its comment names would notice.                            *)
(***************************************************************************)
EXTENDS QueryIR

CONSTANTS
  Queries,        \* the queries the builder hands over
  SchemaChoices,  \* the schema dictionaries an attacher is made with
  NoSchema,       \* result_schema of a pipeline nobody walked
  MaxPasses       \* bound on the calls of enrich

ASSUME QueriesAssumption == \A q \in Queries : IsQuery(q)
ASSUME SchemasAssumption ==
  /\ \A s \in SchemaChoices : IsSchemaDict(s)
  /\ NoSchema \notin ColumnMap
ASSUME PassesAssumption == MaxPasses \in Nat

VARIABLES
  query,     \* the IR's structure; no step changes it
  schemas,   \* self.schemas; no step changes it
  table,     \* the table field of every column reference
  rtype,     \* the result_type field of every expression
  result,    \* the result_schema field of every pipeline
  stack,     \* active calls of _walk_pipeline, outermost first
  attached,  \* schema_attached
  passes     \* calls of enrich so far

input == <<query, schemas>>
marks == <<table, rtype>>
vars == <<query, schemas, table, rtype, result, stack, attached, passes>>

Entry == [table : Tables \cup {NoTable}, columns : ColumnMap]

-----------------------------------------------------------------------------
(* Scopes.                                                                 *)

EmptyMap == [c \in {} |-> "unknown"]

TableSchema(t) == IF t \in DOMAIN schemas THEN schemas[t] ELSE EmptyMap

SourceEntry(p) == [table   |-> query.pipes[p].source,
                   columns |-> TableSchema(query.pipes[p].source)]

LastOf(I) == CHOOSE i \in I : \A j \in I : j <= i

\* Entries of the scope that have column c.
Holders(scope, c) == {i \in DOMAIN scope : c \in DOMAIN scope[i].columns}

ScopeColumns(scope) ==
  [c \in {c \in Columns : Holders(scope, c) # {}} |->
     scope[LastOf(Holders(scope, c))].columns[c]]

Anonymous(columns) == [table |-> NoTable, columns |-> columns]

-----------------------------------------------------------------------------
(* Filling one expression node.                                            *)

\* Slip: the last table in scope, whether or not it has the column (Attributed).
ResolveToLastTable(c, scope) ==
  LET owners == {i \in DOMAIN scope : scope[i].table # NoTable} IN
  IF owners = {} THEN NoTable ELSE scope[LastOf(owners)].table

ResolveTable(c, scope) ==
  LET owners == {i \in Holders(scope, c) : scope[i].table # NoTable} IN
  IF owners = {} THEN NoTable ELSE scope[LastOf(owners)].table

\* Slip: one entry too far to the right (ImplementsAnnotations, SidesNamed).
SideEntryOffByOne(side, scope) == Len(scope)

\* scope[-2] and scope[-1].
SideEntry(side, scope) ==
  IF side = "$left" THEN Len(scope) - 1 ELSE Len(scope)

SideOwner(side, scope) ==
  LET i == SideEntry(side, scope) IN
  IF i \in DOMAIN scope /\ scope[i].table # NoTable THEN scope[i].table ELSE side

OwnerIn(e, scope) ==
  IF query.exprs[e].form # "column" THEN table[e]
  ELSE IF table[e] \in Sides THEN SideOwner(table[e], scope)
  ELSE IF table[e] = NoTable THEN ResolveTable(query.exprs[e].name, scope)
  ELSE table[e]

SchemaType(t, c) ==
  IF c \in DOMAIN TableSchema(t) /\ TableSchema(t)[c] \in KustoTypes
    THEN TableSchema(t)[c] ELSE "unknown"

\* Slip: look the type up before the owner is resolved
\* (SecondPassChangesNothing).
TypeOfOldOwner(e, scope) ==
  LET x == query.exprs[e] IN
  IF rtype[e] # "unknown" THEN rtype[e]
  ELSE IF x.form = "column"  THEN SchemaType(table[e], x.name)
  ELSE IF x.form = "literal" /\ x.lit \in KustoTypes THEN x.lit
  ELSE IF x.form \in Predicates THEN "bool"
  ELSE "unknown"

\* Slip: take the type from the flattened scope (TypesJustified).
TypeFromScope(e, scope) ==
  LET x == query.exprs[e]
      current == ScopeColumns(scope) IN
  IF rtype[e] # "unknown" THEN rtype[e]
  ELSE IF x.form = "column" /\ x.name \in DOMAIN current
            /\ current[x.name] \in KustoTypes THEN current[x.name]
  ELSE IF x.form = "literal" /\ x.lit \in KustoTypes THEN x.lit
  ELSE IF x.form \in Predicates THEN "bool"
  ELSE "unknown"

TypeIn(e, scope) ==
  LET x == query.exprs[e] IN
  IF rtype[e] # "unknown" THEN rtype[e]
  ELSE IF x.form = "column"  THEN SchemaType(OwnerIn(e, scope), x.name)
  ELSE IF x.form = "literal" /\ x.lit \in KustoTypes THEN x.lit
  ELSE IF x.form \in Predicates THEN "bool"
  ELSE "unknown"

Visited(items) == UNION {Reached(query, items[i].root) : i \in DOMAIN items}

Fill(items, scope) ==
  /\ table' = [e \in DOMAIN table |->
                 IF e \in Visited(items) THEN OwnerIn(e, scope) ELSE table[e]]
  /\ rtype' = [e \in DOMAIN rtype |->
                 IF e \in Visited(items) THEN TypeIn(e, scope) ELSE rtype[e]]

-----------------------------------------------------------------------------
(* The columns an operator introduces.                                     *)

\* The range of a make-series introduces none.
Target(item) ==
  IF item.part = "range" THEN NoName
  ELSE IF item.as # NoName THEN item.as
  ELSE query.exprs[item.root].name

Targets(items) == {Target(items[i]) : i \in DOMAIN items} \ {NoName}

LastFor(items, c) == LastOf({i \in DOMAIN items : Target(items[i]) = c})

\* A dictionary filled item by item: the last assignment to a name wins.
Dict(items, types) == [c \in Targets(items) |-> types[LastFor(items, c)]]

TypesIn(items, scope) ==
  [i \in DOMAIN items |-> TypeIn(items[i].root, scope)]

IsParsedColumn(item) ==
  item.part = "main" /\ query.exprs[item.root].form = "column"

-----------------------------------------------------------------------------
(* The walk's control state.                                               *)

Top == stack[Len(stack)]
Caller == stack[Len(stack) - 1]
OpsOf(frame) == query.pipes[frame.pipe].ops
OpOf(frame) == OpsOf(frame)[frame.pc]

\* Slip: a nested pipeline starts from its caller's scope (ScopesSound,
\* ColumnsHaveOrigin).
FrameOnCallersScope(p) ==
  [pipe |-> p, pc |-> 1, sub |-> 0,
   scope |-> IF stack = << >> THEN <<SourceEntry(p)>>
             ELSE Append(Top.scope, SourceEntry(p))]

NewFrame(p) == [pipe |-> p, pc |-> 1, sub |-> 0, scope |-> <<SourceEntry(p)>>]

AtOp(kinds) ==
  /\ stack # << >>
  /\ Top.pc \in DOMAIN OpsOf(Top)
  /\ OpOf(Top).kind \in kinds

Below == SubSeq(stack, 1, Len(stack) - 1)
SetTop(frame) == stack' = Append(Below, frame)
Advance(scope) ==
  SetTop([Top EXCEPT !.pc = @ + 1, !.sub = 0, !.scope = scope])

Init ==
  /\ query \in Queries
  /\ schemas \in SchemaChoices
  /\ table = [e \in DOMAIN query.exprs |-> query.exprs[e].table]
  /\ rtype = [e \in DOMAIN query.exprs |-> query.exprs[e].rtype]
  /\ result = [p \in DOMAIN query.pipes |-> NoSchema]
  /\ stack = << >>
  /\ attached = FALSE
  /\ passes = 0

Enrich ==
  /\ stack = << >>
  /\ passes < MaxPasses
  /\ stack' = <<NewFrame(query.main)>>
  /\ passes' = passes + 1
  /\ UNCHANGED <<input, marks, result, attached>>

\* Operators that only read columns: where, distinct, project-reorder and
\* project-by-names leave the scope as it is.
ReadColumns ==
  /\ AtOp({"filter", "distinct", "reorder", "bynames"})
  /\ Fill(OpOf(Top).items, Top.scope)
  /\ Advance(Top.scope)
  /\ UNCHANGED <<input, result, attached, passes>>

\* Slip: extend replaces the scope (SourceColumnsAttributed).
ExtendReplacingScope ==
  /\ AtOp({"extend"})
  /\ LET items == OpOf(Top).items IN
       /\ Fill(items, Top.scope)
       /\ Advance(<<Anonymous(Dict(items, TypesIn(items, Top.scope)))>>)
  /\ UNCHANGED <<input, result, attached, passes>>

Extend ==
  /\ AtOp({"extend"})
  /\ LET items == OpOf(Top).items IN
       /\ Fill(items, Top.scope)
       /\ Advance(Append(Top.scope,
                         Anonymous(Dict(items, TypesIn(items, Top.scope)))))
  /\ UNCHANGED <<input, result, attached, passes>>

Summarize ==
  /\ AtOp({"summarize"})
  /\ LET items == OpOf(Top).items IN
       /\ Fill(items, Top.scope)
       /\ Advance(<<Anonymous(Dict(items, TypesIn(items, Top.scope)))>>)
  /\ UNCHANGED <<input, result, attached, passes>>

\* An assignment's type is its expression's; a bare column keeps the type the
\* scope has for it.
ProjectedTypes(items, scope) ==
  LET current == ScopeColumns(scope) IN
  [i \in DOMAIN items |->
     IF items[i].as # NoName THEN TypeIn(items[i].root, scope)
     ELSE IF Target(items[i]) \in DOMAIN current THEN current[Target(items[i])]
     ELSE "unknown"]

Project ==
  /\ AtOp({"project"})
  /\ LET items == OpOf(Top).items IN
       /\ Fill(items, Top.scope)
       /\ Advance(<<Anonymous(Dict(items, ProjectedTypes(items, Top.scope)))>>)
  /\ UNCHANGED <<input, result, attached, passes>>

\* project-rename: the references are filled against the incoming scope, then
\* the columns are renamed one after the other in one dictionary.
BeginRename ==
  /\ AtOp({"rename"})
  /\ Top.sub = 0
  /\ Fill(OpOf(Top).items, Top.scope)
  /\ SetTop([Top EXCEPT !.sub = 1, !.scope = <<Anonymous(ScopeColumns(@))>>])
  /\ UNCHANGED <<input, result, attached, passes>>

Renamed(columns, old, new) ==
  IF old \notin DOMAIN columns THEN columns
  ELSE [c \in (DOMAIN columns \ {old}) \cup {new} |->
          IF c = new THEN columns[old] ELSE columns[c]]

RenameColumn ==
  /\ AtOp({"rename"})
  /\ Top.sub \in DOMAIN OpOf(Top).items
  /\ LET item == OpOf(Top).items[Top.sub] IN
       SetTop([Top EXCEPT !.sub = @ + 1,
                 !.scope = <<Anonymous(Renamed(ScopeColumns(@),
                                query.exprs[item.root].name, item.as))>>])
  /\ UNCHANGED <<input, marks, result, attached, passes>>

EndRename ==
  /\ AtOp({"rename"})
  /\ Top.sub = Len(OpOf(Top).items) + 1
  /\ Advance(Top.scope)
  /\ UNCHANGED <<input, marks, result, attached, passes>>

Narrowed(columns, names) ==
  [c \in DOMAIN columns \cap names |-> columns[c]]

ProjectAway ==
  /\ AtOp({"away"})
  /\ LET items == OpOf(Top).items IN
       /\ Fill(items, Top.scope)
       /\ Advance(<<Anonymous(Narrowed(ScopeColumns(Top.scope),
                                       Columns \ Targets(items)))>>)
  /\ UNCHANGED <<input, result, attached, passes>>

ProjectKeep ==
  /\ AtOp({"keep"})
  /\ LET items == OpOf(Top).items IN
       /\ Fill(items, Top.scope)
       /\ Advance(<<Anonymous(Narrowed(ScopeColumns(Top.scope), Targets(items)))>>)
  /\ UNCHANGED <<input, result, attached, passes>>

\* A captured column is a string unless its pattern declares a type.
Captures(items, c) ==
  {i \in DOMAIN items : IsParsedColumn(items[i]) /\ Target(items[i]) = c}

Captured(items, scope) ==
  [c \in {c \in Targets(items) : Captures(items, c) # {}} |->
     LET type == TypeIn(items[LastOf(Captures(items, c))].root, scope) IN
     IF type = "unknown" THEN "string" ELSE type]

Parse ==
  /\ AtOp({"parse"})
  /\ LET items == OpOf(Top).items
         captured == Captured(items, Top.scope) IN
       /\ Fill(items, Top.scope)
       /\ Advance(IF captured = EmptyMap THEN Top.scope
                  ELSE Append(Top.scope, Anonymous(captured)))
  /\ UNCHANGED <<input, result, attached, passes>>

\* The element type the binder gave the last expansion of c that has one.
Expansions(items, c) ==
  {i \in DOMAIN items : /\ Target(items[i]) = c
                        /\ query.exprs[items[i].root].inner # NoType}

Expanded(items, columns) ==
  [c \in DOMAIN columns \cup Targets(items) |->
     IF c \in Targets(items) /\ Expansions(items, c) # {}
       THEN query.exprs[items[LastOf(Expansions(items, c))].root].inner
     ELSE IF c \in DOMAIN columns THEN columns[c]
     ELSE "dynamic"]

MvExpand ==
  /\ AtOp({"mvexpand"})
  /\ LET items == OpOf(Top).items IN
       /\ Fill(items, Top.scope)
       /\ Advance(<<Anonymous(Expanded(items, ScopeColumns(Top.scope)))>>)
  /\ UNCHANGED <<input, result, attached, passes>>

\* make-series aggregates are arrays; its by-columns keep their type.  Its
\* range is filled with the other items and leaves no column.
SeriesTypes(items, scope) ==
  [i \in DOMAIN items |->
     IF items[i].part = "main" THEN "dynamic" ELSE TypeIn(items[i].root, scope)]

MakeSeries ==
  /\ AtOp({"makeseries"})
  /\ LET items == OpOf(Top).items IN
       /\ Fill(items, Top.scope)
       /\ Advance(<<Anonymous(Dict(items, SeriesTypes(items, Top.scope)))>>)
  /\ UNCHANGED <<input, result, attached, passes>>

\* Every other operator: not a field of it is read and no pipeline of it
\* is walked.
SkipOther ==
  /\ AtOp({"other"})
  /\ Advance(Top.scope)
  /\ UNCHANGED <<input, marks, result, attached, passes>>

-----------------------------------------------------------------------------
(* Calls: join, lookup and union walk the pipelines they combine.          *)

EnterSub ==
  /\ AtOp({"join", "union"})
  /\ Top.sub < Len(OpOf(Top).subs)
  /\ stack' = Append(Append(Below, [Top EXCEPT !.sub = @ + 1]),
                     NewFrame(OpOf(Top).subs[Top.sub + 1]))
  /\ UNCHANGED <<input, marks, result, attached, passes>>

\* All operators walked: leave the columns in scope as the result schema.
EndPipeline ==
  /\ stack # << >>
  /\ Top.pc = Len(OpsOf(Top)) + 1
  /\ result' = [result EXCEPT ![Top.pipe] = ScopeColumns(Top.scope)]
  /\ SetTop([Top EXCEPT !.pc = @ + 1])
  /\ UNCHANGED <<input, marks, attached, passes>>

Returned == stack # << >> /\ Top.pc = Len(OpsOf(Top)) + 2
ReturnedTo(kind) == Returned /\ Len(stack) > 1 /\ OpOf(Caller).kind = kind

PopTo(frame) == stack' = Append(SubSeq(stack, 1, Len(stack) - 2), frame)

\* A join keeps the first entry of the right side's scope, and its conditions
\* see it after the left side's entries.
JoinReturn ==
  /\ ReturnedTo("join")
  /\ LET on_scope == Append(Caller.scope, Head(Top.scope)) IN
       /\ Fill(OpOf(Caller).items, on_scope)
       /\ PopTo([Caller EXCEPT !.pc = @ + 1, !.sub = 0, !.scope = on_scope])
  /\ UNCHANGED <<input, result, attached, passes>>

InScope(entry, scope) == \E i \in DOMAIN scope : scope[i] = entry

\* Slip: a union keeps only a branch's first entry, as a join does
\* (UnionKeepsColumns).
UnionMergeFirst ==
  /\ ReturnedTo("union")
  /\ Top.scope # << >>
  /\ LET entry  == Head(Top.scope)
         merged == IF InScope(entry, Caller.scope) THEN Caller.scope
                   ELSE Append(Caller.scope, entry) IN
       stack' = Append(Append(SubSeq(stack, 1, Len(stack) - 2),
                              [Caller EXCEPT !.scope = merged]),
                       [Top EXCEPT !.scope = << >>])
  /\ UNCHANGED <<input, marks, result, attached, passes>>

\* A union takes the branch's entries in order, those it has not got yet.
UnionMerge ==
  /\ ReturnedTo("union")
  /\ Top.scope # << >>
  /\ LET entry  == Head(Top.scope)
         merged == IF InScope(entry, Caller.scope) THEN Caller.scope
                   ELSE Append(Caller.scope, entry) IN
       stack' = Append(Append(SubSeq(stack, 1, Len(stack) - 2),
                              [Caller EXCEPT !.scope = merged]),
                       [Top EXCEPT !.scope = Tail(@)])
  /\ UNCHANGED <<input, marks, result, attached, passes>>

UnionReturn ==
  /\ ReturnedTo("union")
  /\ Top.scope = << >>
  /\ PopTo(Caller)
  /\ UNCHANGED <<input, marks, result, attached, passes>>

UnionDone ==
  /\ AtOp({"union"})
  /\ Top.sub = Len(OpOf(Top).subs)
  /\ Advance(Top.scope)
  /\ UNCHANGED <<input, marks, result, attached, passes>>

Finish ==
  /\ Returned
  /\ Len(stack) = 1
  /\ stack' = << >>
  /\ attached' = TRUE
  /\ UNCHANGED <<input, marks, result, passes>>

Walk ==
  \/ ReadColumns \/ Extend \/ Summarize \/ Project
  \/ BeginRename \/ RenameColumn \/ EndRename
  \/ ProjectAway \/ ProjectKeep \/ Parse \/ MvExpand \/ MakeSeries
  \/ SkipOther
  \/ EnterSub \/ EndPipeline
  \/ JoinReturn \/ UnionMerge \/ UnionReturn \/ UnionDone \/ Finish

Next == Enrich \/ Walk

Spec == Init /\ [][Next]_vars
=============================================================================
