------------------------- MODULE SchemaAttacherProofs -------------------------
(***************************************************************************)
(* Theorems of SchemaAttacher for every set of tables, columns, schemas    *)
(* and queries: its types, the soundness of its scopes, that it implements *)
(* module Annotations, the origins of the columns of its results, and, in  *)
(* the second part, what a walk leaves behind.                             *)
(***************************************************************************)
EXTENDS SchemaAttacherProps, RecursionLemmas, SequenceTheorems, FiniteSetTheorems,
        WellFoundedInduction, TLAPS

-----------------------------------------------------------------------------
(* Sequences and column maps.                                              *)

\* A non-empty set of positions of a sequence has a last one.
LEMMA LastOfExists ==
  ASSUME NEW n \in Nat, NEW I, I \subseteq 1 .. n, I # {}
  PROVE  LastOf(I) \in I
<1> DEFINE T == {n - i : i \in I}
<1>1. \A i \in I : i \in 1 .. n /\ n - i \in Nat
  OBVIOUS
<1>2. T \subseteq Nat /\ T # {}
  BY <1>1
<1> HIDE DEF T
<1>3. PICK d \in T : \A y \in T : ~ (<<y, d>> \in OpToRel(<, Nat))
  BY <1>2, NatLessThanWellFounded, WFMin
<1> USE DEF T
<1>4. PICK i \in I : d = n - i
  BY <1>3
<1>5. \A j \in I : j <= i
  <2> TAKE j \in I
  <2>1. n - j \in T /\ n - j \in Nat /\ n - i \in Nat
    BY <1>1
  <2>2. ~ (n - j < n - i)
    BY <1>3, <1>4, <2>1 DEF OpToRel
  <2>3. i \in 1 .. n /\ j \in 1 .. n
    BY <1>1
  <2> QED
    BY <2>2, <2>3
<1> QED
  BY <1>4, <1>5 DEF LastOf

\* A map from column names to type strings is a column map.
LEMMA MapIsColumnMap ==
  ASSUME NEW C, C \subseteq Columns, NEW m \in [C -> TypeNames]
  PROVE  m \in ColumnMap
BY DEF ColumnMap

\* What membership in ColumnMap gives.
LEMMA ColumnMapProperties ==
  ASSUME NEW m \in ColumnMap
  PROVE  /\ DOMAIN m \subseteq Columns
         /\ \A c \in DOMAIN m : m[c] \in TypeNames
BY DEF ColumnMap

LEMMA EmptyMapIsColumnMap == EmptyMap \in ColumnMap
<1>1. "unknown" \in TypeNames
  BY NamesAssumption DEF KustoTypes
<1> QED
  BY <1>1 DEF EmptyMap, ColumnMap

\* The flattened scope is a column map.
LEMMA ScopeColumnsType ==
  ASSUME NEW scope \in Seq(Entry)
  PROVE  ScopeColumns(scope) \in ColumnMap
<1> DEFINE C == {c \in Columns : Holders(scope, c) # {}}
<1>1. ASSUME NEW c \in C
      PROVE  scope[LastOf(Holders(scope, c))].columns[c] \in TypeNames
  <2> DEFINE i == LastOf(Holders(scope, c))
  <2>1. Holders(scope, c) \subseteq 1 .. Len(scope) /\ Len(scope) \in Nat
    BY DEF Holders
  <2>2. i \in Holders(scope, c)
    BY <2>1, LastOfExists DEF C
  <2>3. scope[i] \in Entry /\ c \in DOMAIN scope[i].columns
    BY <2>2 DEF Holders
  <2>4. scope[i].columns \in ColumnMap
    BY <2>3 DEF Entry
  <2> QED
    BY <2>3, <2>4, ColumnMapProperties
<1>2. [c \in C |-> scope[LastOf(Holders(scope, c))].columns[c]] \in [C -> TypeNames]
  BY <1>1
<1> QED
  BY <1>2, MapIsColumnMap DEF ScopeColumns

\* An entry made of a column map, and the scopes operators make of it.
LEMMA AnonymousScopes ==
  ASSUME NEW T, NEW m \in ColumnMap, NEW scope \in Seq(Entry),
         Faithful(T, scope)
  PROVE  /\ <<Anonymous(m)>> \in Seq(Entry)
         /\ Faithful(T, <<Anonymous(m)>>)
         /\ Append(scope, Anonymous(m)) \in Seq(Entry)
         /\ Faithful(T, Append(scope, Anonymous(m)))
         /\ <<Anonymous(m)>> # << >>
         /\ Append(scope, Anonymous(m)) # << >>
<1>1. Anonymous(m) \in Entry /\ Anonymous(m).table = NoTable
  BY DEF Anonymous, Entry
<1> QED
  BY <1>1 DEF Faithful

-----------------------------------------------------------------------------
(* Filling.                                                                *)

Inputs == query \in Queries /\ schemas \in SchemaChoices

MarksOK ==
  /\ table \in [DOMAIN query.exprs -> Owners]
  /\ rtype \in [DOMAIN query.exprs -> KustoTypes]

\* What the well-formedness of the queries says of the query at hand.
LEMMA QueryStructure ==
  ASSUME Inputs
  PROVE  /\ \A e \in DOMAIN query.exprs : /\ query.exprs[e] \in Expr
                                         /\ query.home[e] \in DOMAIN query.pipes
         /\ query.main \in DOMAIN query.pipes
         /\ \A p \in DOMAIN query.pipes :
              /\ query.pipes[p].source \in Tables \cup {NoTable}
              /\ query.pipes[p].ops \in Seq(Op(query))
              /\ IsPipeline(query, p)
         /\ IsSchemaDict(schemas)
<1>1. IsQuery(query)
  BY QueriesAssumption DEF Inputs
<1>2. IsSchemaDict(schemas)
  BY SchemasAssumption DEF Inputs
<1> QED
  BY <1>1, <1>2 DEF IsQuery, IsExprTree, IsPipeline

\* The schema of a table is a column map, empty if the table is unknown.
LEMMA TableSchemaType ==
  ASSUME Inputs, NEW t
  PROVE  /\ TableSchema(t) \in ColumnMap
         /\ t \notin Tables => DOMAIN TableSchema(t) = {}
<1>1. IsSchemaDict(schemas)
  BY QueryStructure
<1> QED
  BY <1>1, EmptyMapIsColumnMap DEF TableSchema, IsSchemaDict, EmptyMap

\* A bare name resolves to None or to the table of an entry that has it.
LEMMA ResolveTableProperties ==
  ASSUME NEW c, NEW scope \in Seq(Entry)
  PROVE  \/ ResolveTable(c, scope) = NoTable
         \/ /\ ResolveTable(c, scope) \in Tables
            /\ \E k \in DOMAIN scope : /\ scope[k].table = ResolveTable(c, scope)
                                       /\ c \in DOMAIN scope[k].columns
<1> DEFINE owners == {i \in Holders(scope, c) : scope[i].table # NoTable}
<1>1. CASE owners = {}
  BY <1>1 DEF ResolveTable
<1>2. CASE owners # {}
  <2>1. owners \subseteq 1 .. Len(scope) /\ Len(scope) \in Nat
    BY DEF Holders
  <2>2. LastOf(owners) \in owners
    BY <1>2, <2>1, LastOfExists
  <2>3. scope[LastOf(owners)] \in Entry
    BY <2>2 DEF Holders
  <2>4. ResolveTable(c, scope) = scope[LastOf(owners)].table
    BY <1>2 DEF ResolveTable
  <2> QED
    BY <2>2, <2>3, <2>4 DEF Entry, Holders
<1> QED
  BY <1>1, <1>2

\* The owner a fill records, and where it can come from.
LEMMA OwnerInProperties ==
  ASSUME Inputs, MarksOK, NEW scope \in Seq(Entry), NEW e \in DOMAIN query.exprs
  PROVE  /\ OwnerIn(e, scope) \in Owners
         /\ \/ OwnerIn(e, scope) = table[e]
            \/ /\ query.exprs[e].form = "column"
               /\ OwnerIn(e, scope) \in Tables
               /\ \E k \in DOMAIN scope :
                    /\ scope[k].table = OwnerIn(e, scope)
                    /\ \/ table[e] \in Sides /\ k = SideEntry(table[e], scope)
                       \/ /\ table[e] = NoTable
                          /\ query.exprs[e].name \in DOMAIN scope[k].columns
<1>1. table[e] \in Owners
  BY DEF MarksOK
<1>2. CASE query.exprs[e].form # "column"
  BY <1>1, <1>2 DEF OwnerIn
<1>3. CASE query.exprs[e].form = "column" /\ table[e] \in Sides
  <2>1. OwnerIn(e, scope) = SideOwner(table[e], scope)
    BY <1>3 DEF OwnerIn
  <2>2. \A k \in DOMAIN scope : scope[k].table \in Tables \cup {NoTable}
    <3>1. \A k \in DOMAIN scope : scope[k] \in Entry
      OBVIOUS
    <3> QED
      BY <3>1 DEF Entry
  <2> QED
    BY <1>1, <1>3, <2>1, <2>2 DEF SideOwner, Owners
<1>4. CASE /\ query.exprs[e].form = "column"
           /\ table[e] \notin Sides
           /\ table[e] = NoTable
  BY <1>1, <1>4, ResolveTableProperties DEF OwnerIn, Owners
<1>5. CASE /\ query.exprs[e].form = "column"
           /\ table[e] \notin Sides
           /\ table[e] # NoTable
  BY <1>1, <1>5 DEF OwnerIn
<1> QED
  BY <1>2, <1>3, <1>4, <1>5

\* A type a fill records is a Kusto type.
LEMMA TypeInType ==
  ASSUME Inputs, MarksOK, NEW scope, NEW e \in DOMAIN query.exprs
  PROVE  TypeIn(e, scope) \in KustoTypes
<1>1. rtype[e] \in KustoTypes /\ {"unknown", "bool"} \subseteq KustoTypes
  BY DEF MarksOK, KustoTypes
<1>2. \A t, c : SchemaType(t, c) \in KustoTypes
  BY <1>1 DEF SchemaType
<1> QED
  BY <1>1, <1>2 DEF TypeIn

\* A fill keeps the marks typed.
LEMMA FillType ==
  ASSUME Inputs, MarksOK, NEW items, NEW scope \in Seq(Entry),
         Fill(items, scope), query' = query
  PROVE  MarksOK'
BY OwnerInProperties, TypeInType DEF Fill, MarksOK

-----------------------------------------------------------------------------
(* The column maps operators compute.                                      *)

\* The names an operator's items introduce are columns.
LEMMA TargetsAreColumns ==
  ASSUME Inputs, NEW items \in Seq(Item(query))
  PROVE  Targets(items) \subseteq Columns
<1>1. ASSUME NEW i \in DOMAIN items
      PROVE  Target(items[i]) \in Columns \cup {NoName}
  <2>1. items[i] \in Item(query)
    OBVIOUS
  <2>2. items[i].as \in Columns \cup {NoName} /\ items[i].root \in DOMAIN query.exprs
    BY <2>1 DEF Item
  <2>3. query.exprs[items[i].root] \in Expr
    BY <2>2, QueryStructure
  <2> QED
    BY <2>2, <2>3 DEF Target, Expr
<1> QED
  BY <1>1 DEF Targets

\* A dictionary of typed items is a column map.
LEMMA DictType ==
  ASSUME Inputs, NEW items \in Seq(Item(query)),
         NEW types \in [DOMAIN items -> TypeNames]
  PROVE  Dict(items, types) \in ColumnMap
<1>1. ASSUME NEW c \in Targets(items)
      PROVE  types[LastFor(items, c)] \in TypeNames
  <2> DEFINE I == {i \in DOMAIN items : Target(items[i]) = c}
  <2>1. I # {}
    BY DEF Targets
  <2>2. I \subseteq 1 .. Len(items) /\ Len(items) \in Nat
    OBVIOUS
  <2>3. LastOf(I) \in I
    BY <2>1, <2>2, LastOfExists
  <2> QED
    BY <2>3 DEF LastFor
<1>2. Dict(items, types) \in [Targets(items) -> TypeNames]
  BY <1>1 DEF Dict
<1> QED
  BY <1>2, TargetsAreColumns, MapIsColumnMap

\* The roots of an operator's items get types.
LEMMA ItemTypes ==
  ASSUME Inputs, MarksOK, NEW items \in Seq(Item(query)), NEW scope
  PROVE  \A i \in DOMAIN items : TypeIn(items[i].root, scope) \in TypeNames
<1>1. ASSUME NEW i \in DOMAIN items
      PROVE  items[i].root \in DOMAIN query.exprs
  <2>1. items[i] \in Item(query)
    OBVIOUS
  <2> QED
    BY <2>1 DEF Item
<1> QED
  BY <1>1, TypeInType, NamesAssumption

\* Columns computed by extend, summarize, project, parse and make-series.
LEMMA ComputedColumns ==
  ASSUME Inputs, MarksOK, NEW items \in Seq(Item(query)), NEW scope \in Seq(Entry)
  PROVE  /\ Dict(items, TypesIn(items, scope)) \in ColumnMap
         /\ Dict(items, ProjectedTypes(items, scope)) \in ColumnMap
         /\ Captured(items, scope) \in ColumnMap
         /\ Dict(items, SeriesTypes(items, scope)) \in ColumnMap
<1>1. {"unknown", "string", "dynamic"} \subseteq TypeNames
  BY NamesAssumption DEF KustoTypes
<1>2. TypesIn(items, scope) \in [DOMAIN items -> TypeNames]
  BY ItemTypes DEF TypesIn
<1>3. ProjectedTypes(items, scope) \in [DOMAIN items -> TypeNames]
  BY <1>1, ItemTypes, ScopeColumnsType, ColumnMapProperties DEF ProjectedTypes
<1>4. SeriesTypes(items, scope) \in [DOMAIN items -> TypeNames]
  BY <1>1, ItemTypes DEF SeriesTypes
<1>5. Captured(items, scope) \in ColumnMap
  <2> DEFINE C == {c \in Targets(items) : Captures(items, c) # {}}
             type(c) == TypeIn(items[LastOf(Captures(items, c))].root, scope)
  <2>1. ASSUME NEW c \in C
        PROVE  type(c) \in TypeNames
    <3>1. Captures(items, c) \subseteq 1 .. Len(items) /\ Len(items) \in Nat
      BY DEF Captures
    <3>2. LastOf(Captures(items, c)) \in DOMAIN items
      BY <3>1, LastOfExists
    <3> QED
      BY <3>2, ItemTypes
  <2>2. Captured(items, scope) \in [C -> TypeNames]
    BY <1>1, <2>1 DEF Captured
  <2>3. C \subseteq Columns
    BY TargetsAreColumns
  <2> QED
    BY <2>2, <2>3, MapIsColumnMap
<1> QED
  BY <1>2, <1>3, <1>4, <1>5, DictType

\* Columns renamed, narrowed and expanded.
LEMMA ReshapedColumns ==
  ASSUME Inputs, NEW m \in ColumnMap, NEW items \in Seq(Item(query))
  PROVE  /\ \A names : Narrowed(m, names) \in ColumnMap
         /\ \A old, new : new \in Columns => Renamed(m, old, new) \in ColumnMap
         /\ Expanded(items, m) \in ColumnMap
<1>1. DOMAIN m \subseteq Columns /\ \A c \in DOMAIN m : m[c] \in TypeNames
  BY ColumnMapProperties
<1>2. ASSUME NEW names
      PROVE  Narrowed(m, names) \in ColumnMap
  <2>1. Narrowed(m, names) \in [DOMAIN m \cap names -> TypeNames]
    BY <1>1 DEF Narrowed
  <2> QED
    BY <1>1, <2>1, MapIsColumnMap
<1>3. ASSUME NEW old, NEW new \in Columns
      PROVE  Renamed(m, old, new) \in ColumnMap
  <2>1. CASE old \notin DOMAIN m
    BY <2>1 DEF Renamed
  <2>2. CASE old \in DOMAIN m
    <3>1. Renamed(m, old, new) \in [(DOMAIN m \ {old}) \cup {new} -> TypeNames]
      BY <1>1, <2>2 DEF Renamed
    <3> QED
      BY <1>1, <3>1, MapIsColumnMap
  <2> QED
    BY <2>1, <2>2
<1>4. Expanded(items, m) \in ColumnMap
  <2>1. Targets(items) \subseteq Columns
    BY TargetsAreColumns
  <2>2. ASSUME NEW c \in Columns, Expansions(items, c) # {}
        PROVE  query.exprs[items[LastOf(Expansions(items, c))].root].inner \in TypeNames
    <3> DEFINE k == LastOf(Expansions(items, c))
    <3>1. Expansions(items, c) \subseteq 1 .. Len(items) /\ Len(items) \in Nat
      BY DEF Expansions
    <3>2. k \in Expansions(items, c)
      BY <2>2, <3>1, LastOfExists
    <3>3. k \in DOMAIN items /\ query.exprs[items[k].root].inner # NoType
      BY <3>2 DEF Expansions
    <3>4. items[k] \in Item(query)
      BY <3>3
    <3>5. query.exprs[items[k].root] \in Expr
      BY <3>4, QueryStructure DEF Item
    <3> QED
      BY <3>3, <3>5, NamesAssumption DEF Expr
  <2>3. "dynamic" \in TypeNames
    BY NamesAssumption DEF KustoTypes
  <2>4. Expanded(items, m) \in [DOMAIN m \cup Targets(items) -> TypeNames]
    BY <1>1, <2>1, <2>2, <2>3 DEF Expanded
  <2> QED
    BY <1>1, <2>1, <2>4, MapIsColumnMap
<1> QED
  BY <1>2, <1>3, <1>4

-----------------------------------------------------------------------------
(* The stack.                                                              *)

Inv == Inputs /\ TypeOK /\ ScopesSound

\* The first n elements of a sequence.
LEMMA Prefix ==
  ASSUME NEW S, NEW s \in Seq(S), NEW n \in Nat, n <= Len(s)
  PROVE  /\ SubSeq(s, 1, n) \in Seq(S)
         /\ Len(SubSeq(s, 1, n)) = n
         /\ \A i \in 1 .. n : SubSeq(s, 1, n)[i] = s[i]
<1>1. \A i \in 1 .. n : s[i] \in S
  OBVIOUS
<1>2. SubSeq(s, 1, n) \in Seq(S)
  BY <1>1, SubSeqProperties
<1>3. Len(SubSeq(s, 1, n)) = n
  BY <1>1, SubSeqProperties
<1>4. \A i \in 1 .. n - 1 + 1 : SubSeq(s, 1, n)[i] = s[1 + i - 1]
  BY <1>1, SubSeqProperties
<1> QED
  BY <1>2, <1>3, <1>4

\* The frame on top, and the frames under it.
LEMMA TopProperties ==
  ASSUME Inv, stack # << >>
  PROVE  /\ Len(stack) \in Nat \ {0}
         /\ Top \in Frame
         /\ Top = stack[Len(stack)]
         /\ Faithful(Drawn(Top), Top.scope)
         /\ OpsOf(Top) \in Seq(Op(query))
         /\ Below \in Seq(Frame)
         /\ Len(Below) = Len(stack) - 1
         /\ \A i \in 1 .. Len(stack) - 1 : Below[i] = stack[i]
<1>1. stack \in Seq(Frame)
  BY DEF Inv, TypeOK
<1>2. Len(stack) \in Nat \ {0}
  BY <1>1
<1>3. Top \in Frame /\ Top = stack[Len(stack)]
  BY <1>1, <1>2 DEF Top
<1>4. Faithful(Drawn(Top), Top.scope)
  BY <1>1, <1>2 DEF Top, Inv, ScopesSound, ScopeFaithful
<1>5. OpsOf(Top) \in Seq(Op(query))
  BY <1>3, QueryStructure DEF Inv, OpsOf, Frame
<1>6. /\ Below \in Seq(Frame)
      /\ Len(Below) = Len(stack) - 1
      /\ \A i \in 1 .. Len(stack) - 1 : Below[i] = stack[i]
  <2> DEFINE n == Len(stack) - 1
  <2>1. n \in Nat /\ n <= Len(stack)
    BY <1>2
  <2> HIDE DEF n
  <2>2. /\ SubSeq(stack, 1, n) \in Seq(Frame)
        /\ Len(SubSeq(stack, 1, n)) = n
        /\ \A i \in 1 .. n : SubSeq(stack, 1, n)[i] = stack[i]
    BY <1>1, <2>1, Prefix
  <2> QED
    BY <2>2 DEF Below, n
<1> QED
  BY <1>2, <1>3, <1>4, <1>5, <1>6

\* The operator a frame has reached, and its items.
LEMMA OpProperties ==
  ASSUME Inv, NEW f \in Frame, f.pc \in DOMAIN OpsOf(f)
  PROVE  /\ OpOf(f) \in Op(query)
         /\ OpOf(f).items \in Seq(Item(query))
         /\ OpOf(f).subs \in Seq(DOMAIN query.pipes)
<1>1. OpsOf(f) \in Seq(Op(query))
  BY QueryStructure DEF Inv, OpsOf, Frame
<1>2. OpOf(f) \in Op(query)
  BY <1>1 DEF OpOf
<1> QED
  BY <1>2 DEF Op

\* A frame that reads a pipeline reads no table its caller does not.
LEMMA CalleeCone ==
  ASSUME Inv, NEW f \in Frame, f.pc \in DOMAIN OpsOf(f), NEW j \in DOMAIN OpOf(f).subs
  PROVE  Cone(query, OpOf(f).subs[j]) \subseteq Cone(query, f.pipe)
<1> DEFINE d == OpOf(f).subs[j]
<1>1. IsQuery(query)
  BY QueriesAssumption DEF Inv, Inputs
<1>2. f.pipe \in DOMAIN query.pipes
  BY DEF Frame
<1>3. query.nested[d] = query.nested[f.pipe] \cup {f.pipe}
  <2>1. IsPipeline(query, f.pipe)
    BY <1>1, <1>2 DEF IsQuery
  <2>2. \A i \in DOMAIN OpsOf(f) : \A k \in DOMAIN OpsOf(f)[i].subs :
          query.nested[OpsOf(f)[i].subs[k]] = query.nested[f.pipe] \cup {f.pipe}
    BY <2>1 DEF IsPipeline, OpsOf
  <2> QED
    BY <2>2 DEF OpOf
<1>4. \A x \in DOMAIN query.pipes : d \in query.nested[x] => f.pipe \in query.nested[x]
  BY <1>1, <1>3 DEF IsQuery, IsPipeTree
<1> QED
  BY <1>3, <1>4 DEF Cone

\* A faithful scope stays so among more tables.
LEMMA FaithfulWidens ==
  ASSUME NEW T, NEW R, NEW scope, Faithful(T, scope), T \subseteq R
  PROVE  Faithful(R, scope)
BY DEF Faithful

\* A call has drawn what reaches its operator, and later draws no less.
LEMMA DrawnGrows ==
  ASSUME Inv, NEW f \in Frame, NEW g, g.pc = f.pc + 1, g.pipe = f.pipe
  PROVE  /\ Upstream(query, f.pipe, f.pc) \subseteq Drawn(f)
         /\ Drawn(f) \subseteq Drawn(g)
         /\ f.pc \in DOMAIN OpsOf(f) => Beside(query, OpOf(f)) \subseteq Drawn(g)
<1> DEFINE ops == query.pipes[f.pipe].ops
           own == {query.pipes[f.pipe].source} \ {NoTable}
           up(k) == own \cup UNION {Beside(query, ops[i]) : i \in {i \in DOMAIN ops : i < k}}
<1>1. \A k : Upstream(query, f.pipe, k) = up(k)
  BY DEF Upstream
<1>2. up(f.pc) \subseteq up(f.pc + 1)
  <2>1. ops \in Seq(Op(query)) /\ f.pc \in Nat
    BY QueryStructure DEF Inv, Frame
  <2>2. \A i \in DOMAIN ops : i < f.pc => i < f.pc + 1
    BY <2>1
  <2> QED
    BY <2>2
<1>3. f.pc \in DOMAIN ops => Beside(query, ops[f.pc]) \subseteq up(f.pc + 1)
  BY DEF Frame
<1> HIDE DEF up
<1>4. Upstream(query, g.pipe, g.pc) \subseteq Drawn(g)
  BY DEF Drawn
<1> QED
  BY <1>1, <1>2, <1>3, <1>4 DEF Drawn, OpsOf, OpOf

\* Frames at the same operator have drawn the same tables.
LEMMA SameDrawn ==
  ASSUME NEW f, NEW g, g.pc = f.pc, g.pipe = f.pipe
  PROVE  Drawn(g) = Drawn(f)
BY DEF Drawn, OpsOf, OpOf

\* What a call draws from is in its pipeline's cone.
LEMMA DrawnCone ==
  ASSUME Inv, NEW f \in Frame
  PROVE  Drawn(f) \subseteq Cone(query, f.pipe)
<1> DEFINE ops == query.pipes[f.pipe].ops
<1>1. f.pipe \in DOMAIN query.pipes
  BY DEF Frame
<1>2. ASSUME NEW i \in DOMAIN ops
      PROVE  Beside(query, ops[i]) \subseteq Cone(query, f.pipe)
  <2>1. IsQuery(query)
    BY QueriesAssumption DEF Inv, Inputs
  <2>2. \A j \in DOMAIN ops[i].subs :
          query.nested[ops[i].subs[j]] = query.nested[f.pipe] \cup {f.pipe}
    BY <1>1, <2>1 DEF IsQuery, IsPipeline
  <2>3. \A x \in DOMAIN query.pipes : \A j \in DOMAIN ops[i].subs :
          ops[i].subs[j] \in query.nested[x] => f.pipe \in query.nested[x]
    BY <2>1, <2>2 DEF IsQuery, IsPipeTree
  <2>4. \A j \in DOMAIN ops[i].subs :
          Cone(query, ops[i].subs[j]) \subseteq Cone(query, f.pipe)
    BY <2>2, <2>3 DEF Cone
  <2> QED
    BY <2>4 DEF Beside
<1>3. {query.pipes[f.pipe].source} \ {NoTable} \subseteq Cone(query, f.pipe)
  BY <1>1 DEF Cone
<1> QED
  BY <1>2, <1>3 DEF Drawn, Upstream, OpsOf, OpOf

\* A new frame is typed and its scope is faithful.
LEMMA NewFrameProperties ==
  ASSUME Inv, NEW p \in DOMAIN query.pipes
  PROVE  /\ NewFrame(p) \in Frame
         /\ NewFrame(p).pipe = p
         /\ Faithful(Drawn(NewFrame(p)), NewFrame(p).scope)
         /\ NewFrame(p).scope # << >>
<1>1. SourceEntry(p) \in Entry
  BY QueryStructure, TableSchemaType DEF Inv, SourceEntry, Entry
<1>2. SourceEntry(p).table # NoTable => SourceEntry(p).table \in Drawn(NewFrame(p))
  BY DEF SourceEntry, Drawn, Upstream, NewFrame
<1>3. SourceEntry(p).columns = TableSchema(SourceEntry(p).table)
  BY DEF SourceEntry
<1>4. NewFrame(p).scope = <<SourceEntry(p)>>
  BY DEF NewFrame
<1>5. Faithful(Drawn(NewFrame(p)), NewFrame(p).scope)
  BY <1>2, <1>3, <1>4 DEF Faithful
<1> QED
  BY <1>1, <1>5 DEF NewFrame, Frame

\* What TypeOK and ScopesSound say of the stack, of any stack.
SoundStack(s) ==
  /\ s \in Seq(Frame)
  /\ \A i \in 1 .. Len(s) - 1 :
       /\ s[i].pc \in DOMAIN OpsOf(s[i])
       /\ OpOf(s[i]).kind \in {"join", "union"}
       /\ s[i].sub \in DOMAIN OpOf(s[i]).subs
       /\ s[i + 1].pipe = OpOf(s[i]).subs[s[i].sub]
  /\ \A i \in 1 .. Len(s) : Faithful(Drawn(s[i]), s[i].scope)
  /\ \A i \in 1 .. Len(s) :
       s[i].scope = << >> => i > 1 /\ OpOf(s[i - 1]).kind = "union"

\* SoundStack of the stack is the stack's part of Inv.
LEMMA StackIsSound ==
  ASSUME Inv
  PROVE  SoundStack(stack)
BY DEF Inv, TypeOK, ScopesSound, CallsNest, ScopeFaithful, ScopesFilled, SoundStack

\* The same after a step that leaves the query and the schemas alone.
LEMMA SoundStackAfter ==
  ASSUME SoundStack(stack'), UNCHANGED input
  PROVE  (stack \in Seq(Frame) /\ ScopesSound)'
<1>1. query' = query /\ schemas' = schemas
  BY DEF input
<1>2. Frame' = Frame
  BY <1>1 DEF Frame, Entry
<1>3. CallsNest'
  BY <1>1 DEF SoundStack, CallsNest, OpsOf, OpOf
<1>4. ScopeFaithful'
  <2>1. \A i \in 1 .. Len(stack') : Faithful(Drawn(stack'[i]), stack'[i].scope)
    BY DEF SoundStack
  <2>2. stack' \in Seq(Frame)
    BY DEF SoundStack
  <2>4. DOMAIN stack' = 1 .. Len(stack')
    BY <2>2
  <2> QED
    BY <1>1, <2>1, <2>4 DEF ScopeFaithful, Faithful, TableSchema, Drawn, OpsOf, OpOf
<1>5. ScopesFilled'
  <2>1. \A i \in 1 .. Len(stack') :
          stack'[i].scope = << >> => i > 1 /\ OpOf(stack'[i - 1]).kind = "union"
    BY DEF SoundStack
  <2>2. stack' \in Seq(Frame)
    BY DEF SoundStack
  <2>3. DOMAIN stack' = 1 .. Len(stack')
    BY <2>2
  <2> QED
    BY <1>1, <2>1, <2>3 DEF ScopesFilled, OpOf, OpsOf
<1> QED
  BY <1>2, <1>3, <1>4, <1>5 DEF SoundStack, ScopesSound

\* Dropping the frames above the n-th and advancing the one after it within
\* its own pipeline keeps a stack sound: a step of the top frame (n is one
\* less than the length) or a return to the caller (two less).
LEMMA ReplaceSound ==
  ASSUME NEW s, SoundStack(s), NEW n \in Nat, n < Len(s),
         NEW f \in Frame, f.pipe = s[n + 1].pipe, Faithful(Drawn(f), f.scope),
         f.scope = << >> => s[n + 1].scope = << >>
  PROVE  SoundStack(Append(SubSeq(s, 1, n), f))
<1> DEFINE b == SubSeq(s, 1, n)
           r == Append(b, f)
<1>1. /\ b \in Seq(Frame)
      /\ Len(b) = n
      /\ \A i \in 1 .. n : b[i] = s[i]
  BY Prefix DEF SoundStack
<1> HIDE DEF b
<1>2. /\ r \in Seq(Frame)
      /\ Len(r) = n + 1
      /\ r[n + 1] = f
      /\ \A i \in 1 .. n : r[i] = s[i]
  BY <1>1
<1> HIDE DEF r
<1>3. ASSUME NEW i \in 1 .. n
      PROVE  /\ r[i].pc \in DOMAIN OpsOf(r[i])
             /\ OpOf(r[i]).kind \in {"join", "union"}
             /\ r[i].sub \in DOMAIN OpOf(r[i]).subs
             /\ r[i + 1].pipe = OpOf(r[i]).subs[r[i].sub]
  <2>1. r[i] = s[i]
    BY <1>2
  <2>2. r[i + 1].pipe = s[i + 1].pipe
    <3>1. CASE i = n
      BY <3>1, <1>2
    <3>2. CASE i # n
      BY <3>2, <1>2
    <3> QED
      BY <3>1, <3>2
  <2>3. i \in 1 .. Len(s) - 1
    BY DEF SoundStack
  <2> QED
    BY <2>1, <2>2, <2>3 DEF SoundStack
<1>4. ASSUME NEW i \in 1 .. n + 1
      PROVE  Faithful(Drawn(r[i]), r[i].scope)
  <2>1. CASE i = n + 1
    BY <2>1, <1>2
  <2>2. CASE i # n + 1
    <3>1. r[i] = s[i] /\ i \in 1 .. Len(s)
      BY <2>2, <1>2 DEF SoundStack
    <3> QED
      BY <3>1 DEF SoundStack
  <2> QED
    BY <2>1, <2>2
<1>5. ASSUME NEW i \in 1 .. n + 1, r[i].scope = << >>
      PROVE  i > 1 /\ OpOf(r[i - 1]).kind = "union"
  <2>1. i \in 1 .. Len(s)
    BY DEF SoundStack
  <2>2. s[i].scope = << >>
    <3>1. CASE i = n + 1
      BY <3>1, <1>2, <1>5
    <3>2. CASE i # n + 1
      BY <3>2, <1>2, <1>5
    <3> QED
      BY <3>1, <3>2
  <2>3. i > 1 /\ OpOf(s[i - 1]).kind = "union"
    BY <2>1, <2>2 DEF SoundStack
  <2> QED
    BY <1>2, <2>3
<1>6. Len(r) - 1 = n
  BY <1>2
<1>7. SoundStack(r)
  BY <1>2, <1>3, <1>4, <1>5, <1>6 DEF SoundStack
<1> QED
  BY <1>7 DEF r, b

\* Pushing a frame for the pipeline the top frame is reading keeps a stack
\* sound.
LEMMA PushSound ==
  ASSUME NEW s, SoundStack(s), NEW n \in Nat \ {0}, n = Len(s),
         s[n].pc \in DOMAIN OpsOf(s[n]),
         OpOf(s[n]).kind \in {"join", "union"},
         s[n].sub \in DOMAIN OpOf(s[n]).subs,
         NEW g \in Frame, g.pipe = OpOf(s[n]).subs[s[n].sub],
         Faithful(Drawn(g), g.scope),
         g.scope = << >> => OpOf(s[n]).kind = "union"
  PROVE  SoundStack(Append(s, g))
<1> DEFINE r == Append(s, g)
<1>1. /\ r \in Seq(Frame)
      /\ Len(r) = n + 1
      /\ r[n + 1] = g
      /\ \A i \in 1 .. n : r[i] = s[i]
  BY DEF SoundStack
<1> HIDE DEF r
<1>2. ASSUME NEW i \in 1 .. n
      PROVE  /\ r[i].pc \in DOMAIN OpsOf(r[i])
             /\ OpOf(r[i]).kind \in {"join", "union"}
             /\ r[i].sub \in DOMAIN OpOf(r[i]).subs
             /\ r[i + 1].pipe = OpOf(r[i]).subs[r[i].sub]
  <2>1. CASE i = n
    BY <2>1, <1>1
  <2>2. CASE i # n
    <3>1. i \in 1 .. Len(s) - 1 /\ r[i] = s[i] /\ r[i + 1] = s[i + 1]
      BY <2>2, <1>1
    <3> QED
      BY <3>1 DEF SoundStack
  <2> QED
    BY <2>1, <2>2
<1>3. ASSUME NEW i \in 1 .. n + 1
      PROVE  Faithful(Drawn(r[i]), r[i].scope)
  <2>1. CASE i = n + 1
    BY <2>1, <1>1
  <2>2. CASE i # n + 1
    BY <2>2, <1>1 DEF SoundStack
  <2> QED
    BY <2>1, <2>2
<1>4. ASSUME NEW i \in 1 .. n + 1, r[i].scope = << >>
      PROVE  i > 1 /\ OpOf(r[i - 1]).kind = "union"
  <2>1. CASE i = n + 1
    BY <2>1, <1>1, <1>4
  <2>2. CASE i # n + 1
    <3>1. i \in 1 .. Len(s) /\ s[i].scope = << >>
      BY <2>2, <1>1, <1>4
    <3>2. i > 1 /\ OpOf(s[i - 1]).kind = "union"
      BY <3>1 DEF SoundStack
    <3> QED
      BY <1>1, <2>2, <3>2
  <2> QED
    BY <2>1, <2>2
<1> QED
  BY <1>1, <1>2, <1>3, <1>4 DEF SoundStack, r

\* A step of the top frame within its pipeline.
LEMMA SetTopSound ==
  ASSUME Inv, stack # << >>, NEW f \in Frame, f.pipe = Top.pipe,
         Faithful(Drawn(f), f.scope), f.scope = << >> => Top.scope = << >>,
         SetTop(f)
  PROVE  SoundStack(stack')
<1> DEFINE n == Len(stack) - 1
<1>1. n \in Nat /\ n < Len(stack) /\ n + 1 = Len(stack)
  BY TopProperties
<1>2. stack' = Append(SubSeq(stack, 1, n), f)
  BY DEF SetTop, Below
<1>3. f.pipe = stack[n + 1].pipe /\ (f.scope = << >> => stack[n + 1].scope = << >>)
  BY <1>1 DEF Top
<1> HIDE DEF n
<1> QED
  BY <1>1, <1>2, <1>3, StackIsSound, ReplaceSound

\* The frame that called the top one.
LEMMA CallerProperties ==
  ASSUME Inv, Len(stack) > 1
  PROVE  /\ Caller \in Frame
         /\ Faithful(Drawn(Caller), Caller.scope)
         /\ Caller.pc \in DOMAIN OpsOf(Caller)
         /\ OpOf(Caller).kind \in {"join", "union"}
         /\ Caller.sub \in DOMAIN OpOf(Caller).subs
         /\ Top.pipe = OpOf(Caller).subs[Caller.sub]
         /\ Cone(query, Top.pipe) \subseteq Cone(query, Caller.pipe)
         /\ Top.scope = << >> => OpOf(Caller).kind = "union"
<1> DEFINE n == Len(stack) - 1
<1>1. n \in 1 .. Len(stack) - 1 /\ n \in 1 .. Len(stack) /\ n + 1 = Len(stack)
  BY DEF Inv, TypeOK
<1>2. Caller = stack[n] /\ Top = stack[n + 1]
  BY <1>1 DEF Caller, Top
<1>3. SoundStack(stack)
  BY StackIsSound
<1> HIDE DEF n
<1>4. Caller \in Frame
  BY <1>1, <1>2, <1>3 DEF SoundStack
<1>5. /\ Faithful(Drawn(Caller), Caller.scope)
      /\ Caller.pc \in DOMAIN OpsOf(Caller)
      /\ OpOf(Caller).kind \in {"join", "union"}
      /\ Caller.sub \in DOMAIN OpOf(Caller).subs
      /\ Top.pipe = OpOf(Caller).subs[Caller.sub]
  BY <1>1, <1>2, <1>3 DEF SoundStack
<1>6. Top.scope = << >> => OpOf(Caller).kind = "union"
  BY <1>1, <1>2, <1>3 DEF SoundStack
<1> QED
  BY <1>4, <1>5, <1>6, CalleeCone

\* A return to the caller.
LEMMA PopSound ==
  ASSUME Inv, Len(stack) > 1, NEW f \in Frame, f.pipe = Caller.pipe,
         Faithful(Drawn(f), f.scope), f.scope = << >> => Caller.scope = << >>
  PROVE  SoundStack(Append(SubSeq(stack, 1, Len(stack) - 2), f))
<1> DEFINE n == Len(stack) - 2
<1>1. n \in Nat /\ n < Len(stack) /\ n + 1 = Len(stack) - 1
  BY DEF Inv, TypeOK
<1>2. f.pipe = stack[n + 1].pipe /\ (f.scope = << >> => stack[n + 1].scope = << >>)
  BY <1>1 DEF Caller
<1> HIDE DEF n
<1>3. SoundStack(Append(SubSeq(stack, 1, n), f))
  BY <1>1, <1>2, StackIsSound, ReplaceSound
<1> QED
  BY <1>3 DEF n

-----------------------------------------------------------------------------
(* One operator's fill.                                                    *)

\* Module Annotations reads the query with the same definitions.
LEMMA SameDefinitions ==
  /\ Annotated!Sides = Sides
  /\ Annotated!KustoTypes = KustoTypes
  /\ Annotated!Predicates = Predicates
  /\ \A q, op : Annotated!ListedBy(q, op) = ListedBy(q, op)
  /\ \A q, p : Annotated!Cone(q, p) = Cone(q, p)
  /\ \A q, op : Annotated!Beside(q, op) = Beside(q, op)
  /\ \A q, p, k : Annotated!Upstream(q, p, k) = Upstream(q, p, k)
<1>1. \A q, p : Annotated!Cone(q, p) = Cone(q, p)
  BY DEF Annotated!Cone, Cone
<1>2. \A q, op : Annotated!Beside(q, op) = Beside(q, op)
  BY <1>1 DEF Annotated!Beside, Beside
<1>3. \A q, p, k : Annotated!Upstream(q, p, k) = Upstream(q, p, k)
  BY <1>2 DEF Annotated!Upstream, Upstream
<1> QED
  BY <1>1, <1>2, <1>3 DEF Annotated!Sides, Sides, Annotated!KustoTypes, KustoTypes,
       Annotated!Predicates, Predicates, Annotated!ListedBy, ListedBy

\* The nodes an operator's fill visits belong to the operator's pipeline, and
\* the operator is the one that lists them.
LEMMA VisitedAtHome ==
  ASSUME Inv, NEW f \in Frame, f.pc \in DOMAIN OpsOf(f),
         NEW e \in DOMAIN query.exprs, e \in Visited(OpOf(f).items)
  PROVE  /\ query.home[e] = f.pipe
         /\ Annotated!Place(e) = f.pc
         /\ Annotated!Holder(e) = OpOf(f)
<1>1. PICK j \in DOMAIN OpOf(f).items : e \in Reached(query, OpOf(f).items[j].root)
  BY DEF Visited
<1>2. e = OpOf(f).items[j].root \/ OpOf(f).items[j].root \in query.within[e]
  BY <1>1 DEF Reached
<1>3. IsPipeline(query, f.pipe)
  BY QueryStructure DEF Inv, Frame
<1>4. \A i \in DOMAIN OpsOf(f) : \A x \in ListedBy(query, OpsOf(f)[i]) :
        query.home[x] = f.pipe
  BY <1>3 DEF IsPipeline, OpsOf
<1>5. e \in ListedBy(query, OpOf(f))
  BY <1>2 DEF ListedBy
<1>6. query.home[e] = f.pipe
  BY <1>4, <1>5 DEF OpOf
<1>7. Annotated!Place(e) = f.pc
  <2> DEFINE ops == query.pipes[f.pipe].ops
  <2>1. f.pc \in DOMAIN ops /\ e \in ListedBy(query, ops[f.pc])
    BY <1>5 DEF OpOf, OpsOf
  <2>2. \A i \in DOMAIN ops : e \in ListedBy(query, ops[i]) => i = f.pc
    BY <1>3, <2>1 DEF IsPipeline
  <2>3. Annotated!Place(e) = CHOOSE i \in DOMAIN ops : e \in ListedBy(query, ops[i])
    BY <1>6, SameDefinitions DEF Annotated!Place
  <2> QED
    BY <2>1, <2>2, <2>3
<1> QED
  BY <1>6, <1>7 DEF Annotated!Holder, OpOf, OpsOf

\* A scope that references of the operator frame f has reached may be looked
\* up in: it holds tables near them, and on each side the side's.
Fitting(f, scope) ==
  LET up == Upstream(query, f.pipe, f.pc)
      beside == Beside(query, OpOf(f))
      right == IF OpOf(f).kind = "join" THEN beside ELSE up
      at(side) == SideEntry(side, scope) IN
  /\ Faithful(up \cup beside, scope)
  /\ at("$left") \in DOMAIN scope /\ scope[at("$left")].table # NoTable
       => scope[at("$left")].table \in up
  /\ at("$right") \in DOMAIN scope /\ scope[at("$right")].table # NoTable
       => scope[at("$right")].table \in right

\* What a call other than a join's or a union's has in scope is fit.
LEMMA ScopeFits ==
  ASSUME NEW f, NEW scope, f.pc \in DOMAIN OpsOf(f), Faithful(Drawn(f), scope),
         OpOf(f).kind \notin {"join", "union"}
  PROVE  Fitting(f, scope)
<1>1. Drawn(f) = Upstream(query, f.pipe, f.pc)
  BY DEF Drawn
<1>2. Faithful(Upstream(query, f.pipe, f.pc), scope)
  BY <1>1
<1> QED
  BY <1>2 DEF Faithful, Fitting

\* What a join's conditions see is fit: its own scope and, last, an entry of
\* the pipeline it reads.
LEMMA JoinedFits ==
  ASSUME NEW f, NEW scope \in Seq(Entry), NEW entry \in Entry,
         f.pc \in DOMAIN OpsOf(f), OpOf(f).kind = "join",
         Faithful(Drawn(f), scope), Faithful(Beside(query, OpOf(f)), <<entry>>)
  PROVE  Fitting(f, Append(scope, entry))
<1> DEFINE s == Append(scope, entry)
           up == Upstream(query, f.pipe, f.pc)
           beside == Beside(query, OpOf(f))
<1>1. Drawn(f) = up
  BY DEF Drawn
<1>2. /\ s \in Seq(Entry)
      /\ Len(s) = Len(scope) + 1
      /\ Len(scope) \in Nat
      /\ s[Len(s)] = entry
      /\ \A k \in 1 .. Len(scope) : s[k] = scope[k]
  OBVIOUS
<1>3. entry.table # NoTable => entry.table \in beside /\ entry.columns = TableSchema(entry.table)
  BY DEF Faithful
<1>4. \A k \in 1 .. Len(scope) : scope[k].table # NoTable
        => scope[k].table \in up /\ scope[k].columns = TableSchema(scope[k].table)
  BY <1>1 DEF Faithful
<1>5. SideEntry("$left", s) = Len(scope) /\ SideEntry("$right", s) = Len(scope) + 1
  BY <1>2 DEF SideEntry
<1>6. DOMAIN s = 1 .. Len(scope) + 1
  BY <1>2
<1> HIDE DEF s, up, beside
<1>7. Faithful(up \cup beside, s)
  BY <1>2, <1>3, <1>4, <1>6 DEF Faithful
<1>8. Len(scope) \in DOMAIN s /\ s[Len(scope)].table # NoTable => s[Len(scope)].table \in up
  BY <1>2, <1>4, <1>6
<1>9. s[Len(scope) + 1].table # NoTable => s[Len(scope) + 1].table \in beside
  BY <1>2, <1>3
<1> QED
  BY <1>5, <1>7, <1>8, <1>9 DEF Fitting, s, up, beside

\* A fill against a scope that fits is a step of module Annotations.
LEMMA FillAnnotates ==
  ASSUME Inv, NEW f \in Frame, f.pc \in DOMAIN OpsOf(f),
         NEW scope \in Seq(Entry), Fitting(f, scope),
         Fill(OpOf(f).items, scope), UNCHANGED input
  PROVE  Annotated!Next
<1> DEFINE items == OpOf(f).items
<1>1. Inputs /\ MarksOK
  BY DEF Inv, TypeOK, MarksOK
<1>2. UNCHANGED <<query, schemas>>
  BY DEF input
<1>3. DOMAIN table' = DOMAIN table /\ DOMAIN rtype' = DOMAIN rtype
  BY DEF Fill
<1>4. ASSUME NEW e \in DOMAIN query.exprs
      PROVE  Annotated!OwnerStep(e) /\ Annotated!TypeStep(e)
  <2>1. DOMAIN table = DOMAIN query.exprs /\ DOMAIN rtype = DOMAIN query.exprs
    BY <1>1 DEF MarksOK
  <2>2. CASE e \notin Visited(items)
    BY <2>1, <2>2 DEF Fill, Annotated!OwnerStep, Annotated!TypeStep
  <2>3. CASE e \in Visited(items)
    <3>1. table'[e] = OwnerIn(e, scope) /\ rtype'[e] = TypeIn(e, scope)
      BY <2>1, <2>3 DEF Fill
    <3>2. /\ Annotated!Reaching(e) = Upstream(query, f.pipe, f.pc)
          /\ Annotated!Holder(e) = OpOf(f)
      BY <2>3, VisitedAtHome, SameDefinitions DEF Annotated!Reaching
    <3>3. \A k \in DOMAIN scope :
            scope[k].table # NoTable
              => /\ scope[k].table \in Annotated!Near(e)
                 /\ scope[k].columns = TableSchema(scope[k].table)
      BY <3>2, SameDefinitions DEF Fitting, Faithful, Annotated!Near
    <3>8. \A side \in Sides : \A k \in DOMAIN scope :
            k = SideEntry(side, scope) /\ scope[k].table # NoTable
              => scope[k].table \in Annotated!OnSide(side, e)
      BY <3>2, SameDefinitions DEF Fitting, Annotated!OnSide, Sides
    <3>4. \A t, c : c \in DOMAIN TableSchema(t)
            => Annotated!Has(t, c) /\ TableSchema(t)[c] = schemas[t][c]
      BY DEF TableSchema, EmptyMap, Annotated!Has
    <3>5. NoTable \notin Tables
      BY NamesAssumption
    <3>6. Annotated!OwnerStep(e)
      <4>1. \/ OwnerIn(e, scope) = table[e]
            \/ /\ query.exprs[e].form = "column"
               /\ OwnerIn(e, scope) \in Tables
               /\ \E k \in DOMAIN scope :
                    /\ scope[k].table = OwnerIn(e, scope)
                    /\ \/ table[e] \in Sides /\ k = SideEntry(table[e], scope)
                       \/ /\ table[e] = NoTable
                          /\ query.exprs[e].name \in DOMAIN scope[k].columns
        BY <1>1, OwnerInProperties
      <4> QED
        BY <3>1, <3>3, <3>4, <3>5, <3>8, <4>1, SameDefinitions DEF Annotated!OwnerStep
    <3>7. Annotated!TypeStep(e)
      <4>1. rtype'[e] \in KustoTypes
        BY <1>1, <3>1, TypeInType
      <4>2. CASE rtype[e] # "unknown"
        BY <3>1, <4>2 DEF TypeIn, Annotated!TypeStep
      <4>3. CASE rtype[e] = "unknown" /\ query.exprs[e].form = "column"
        <5>1. rtype'[e] = SchemaType(table'[e], query.exprs[e].name)
          BY <3>1, <4>3 DEF TypeIn
        <5> QED
          BY <3>4, <4>1, <4>3, <5>1, SameDefinitions DEF SchemaType, Annotated!TypeStep
      <4>4. CASE rtype[e] = "unknown" /\ query.exprs[e].form # "column"
        BY <3>1, <4>1, <4>4, SameDefinitions DEF TypeIn, Annotated!TypeStep
      <4> QED
        BY <4>2, <4>3, <4>4
    <3> QED
      BY <3>6, <3>7
  <2> QED
    BY <2>2, <2>3
<1> QED
  BY <1>2, <1>3, <1>4 DEF Annotated!Next

\* What every step does to the marks.
MarksStep == MarksOK' /\ [Annotated!Next]_Annotated!vars

\* A fill and a step that leaves the marks alone are such steps.
LEMMA FillStep ==
  ASSUME Inv, NEW f \in Frame, f.pc \in DOMAIN OpsOf(f),
         NEW scope \in Seq(Entry), Fitting(f, scope),
         Fill(OpOf(f).items, scope), UNCHANGED input
  PROVE  MarksStep
<1>1. Annotated!Next
  BY FillAnnotates
<1>2. MarksOK'
  BY FillType DEF Inv, TypeOK, MarksOK, input
<1> QED
  BY <1>1, <1>2 DEF MarksStep

LEMMA NoFillStep ==
  ASSUME Inv, UNCHANGED <<input, marks>>
  PROVE  MarksStep
<1>1. UNCHANGED Annotated!vars
  BY DEF input, marks, Annotated!vars
<1>2. MarksOK'
  BY DEF input, marks, MarksOK, Inv, TypeOK
<1> QED
  BY <1>1, <1>2 DEF MarksStep

-----------------------------------------------------------------------------
(* The steps of the walk.                                                  *)

RestOK ==
  /\ result \in [DOMAIN query.pipes -> ColumnMap \cup {NoSchema}]
  /\ attached \in BOOLEAN
  /\ passes \in 0 .. MaxPasses

\* What every step establishes.
StepOK == UNCHANGED input /\ MarksStep /\ SoundStack(stack') /\ RestOK'

\* A step that leaves the results alone.
LEMMA RestUnchanged ==
  ASSUME Inv, UNCHANGED <<input, result, attached, passes>>
  PROVE  RestOK'
BY DEF Inv, TypeOK, RestOK, input

\* An operator that fills its items against the incoming scope and leaves the
\* given one.
LEMMA OperatorStep ==
  ASSUME Inv, stack # << >>, Top.pc \in DOMAIN OpsOf(Top),
         NEW scope \in Seq(Entry), Faithful(Drawn(Top), scope),
         scope = << >> => Top.scope = << >>, Advance(scope),
         \/ /\ OpOf(Top).kind \notin {"join", "union"}
            /\ Fill(OpOf(Top).items, Top.scope)
         \/ UNCHANGED marks,
         UNCHANGED <<input, result, attached, passes>>
  PROVE  StepOK
<1>1. Top \in Frame /\ Top.scope \in Seq(Entry) /\ Faithful(Drawn(Top), Top.scope)
  BY TopProperties DEF Frame
<1>2. MarksStep
  BY <1>1, ScopeFits, FillStep, NoFillStep
<1>3. Top.pc + 1 \in Nat /\ 0 \in Nat
  BY <1>1 DEF Frame
<1> DEFINE f == [Top EXCEPT !.pc = @ + 1, !.sub = 0, !.scope = scope]
<1>4. f \in Frame /\ f.pipe = Top.pipe /\ f.scope = scope /\ f.pc = Top.pc + 1
  BY <1>1, <1>3 DEF Frame
<1>5. SetTop(f)
  BY DEF Advance
<1> HIDE DEF f
<1>7. Faithful(Drawn(f), scope)
  <2>1. Drawn(Top) \subseteq Drawn(f)
    BY <1>1, <1>4, DrawnGrows DEF Frame
  <2> QED
    BY <2>1, FaithfulWidens
<1>6. SoundStack(stack')
  BY <1>1, <1>4, <1>5, <1>7, SetTopSound
<1> QED
  BY <1>2, <1>6, RestUnchanged DEF StepOK

\* The operators of one step each.
LEMMA OperatorSteps ==
  ASSUME Inv,
         ReadColumns \/ Extend \/ Summarize \/ Project \/ ProjectAway
           \/ ProjectKeep \/ Parse \/ MvExpand \/ MakeSeries \/ SkipOther
  PROVE  StepOK
<1>1. stack # << >> /\ Top.pc \in DOMAIN OpsOf(Top)
  BY DEF ReadColumns, Extend, Summarize, Project, ProjectAway, ProjectKeep,
         Parse, MvExpand, MakeSeries, SkipOther, AtOp
<1> DEFINE items == OpOf(Top).items
           scope == Top.scope
<1>2. Inputs /\ MarksOK
  BY DEF Inv, TypeOK, MarksOK
<1>3. Top \in Frame /\ scope \in Seq(Entry) /\ Faithful(Drawn(Top), scope)
  BY <1>1, TopProperties DEF Frame
<1>4. items \in Seq(Item(query))
  BY <1>1, <1>3, OpProperties
<1>5. ScopeColumns(scope) \in ColumnMap
  BY <1>3, ScopeColumnsType
<1>16. OpOf(Top).kind \notin {"join", "union"}
  BY DEF ReadColumns, Extend, Summarize, Project, ProjectAway, ProjectKeep,
         Parse, MvExpand, MakeSeries, SkipOther, AtOp
<1>6. CASE ReadColumns
  BY <1>1, <1>16, <1>3, <1>6, OperatorStep DEF ReadColumns
<1>7. CASE Extend
  BY <1>1, <1>16, <1>2, <1>3, <1>4, <1>7, ComputedColumns, AnonymousScopes, OperatorStep
     DEF Extend
<1>8. CASE Summarize
  BY <1>1, <1>16, <1>2, <1>3, <1>4, <1>8, ComputedColumns, AnonymousScopes, OperatorStep
     DEF Summarize
<1>9. CASE Project
  BY <1>1, <1>16, <1>2, <1>3, <1>4, <1>9, ComputedColumns, AnonymousScopes, OperatorStep
     DEF Project
<1>10. CASE ProjectAway
  BY <1>1, <1>16, <1>2, <1>3, <1>4, <1>5, <1>10, ReshapedColumns, AnonymousScopes, OperatorStep
     DEF ProjectAway
<1>11. CASE ProjectKeep
  BY <1>1, <1>16, <1>2, <1>3, <1>4, <1>5, <1>11, ReshapedColumns, AnonymousScopes, OperatorStep
     DEF ProjectKeep
<1>12. CASE Parse
  <2> DEFINE after == IF Captured(items, scope) = EmptyMap THEN scope
                      ELSE Append(scope, Anonymous(Captured(items, scope)))
  <2>1. after \in Seq(Entry) /\ Faithful(Drawn(Top), after) /\ (after = << >> => scope = << >>)
    BY <1>2, <1>3, <1>4, ComputedColumns, AnonymousScopes
  <2>2. /\ Fill(items, scope)
        /\ Advance(after)
        /\ UNCHANGED <<input, result, attached, passes>>
    BY <1>12 DEF Parse
  <2> QED
    BY <1>1, <1>16, <2>1, <2>2, OperatorStep
<1>13. CASE MvExpand
  BY <1>1, <1>16, <1>2, <1>3, <1>4, <1>5, <1>13, ReshapedColumns, AnonymousScopes, OperatorStep
     DEF MvExpand
<1>14. CASE MakeSeries
  BY <1>1, <1>16, <1>2, <1>3, <1>4, <1>14, ComputedColumns, AnonymousScopes, OperatorStep
     DEF MakeSeries
<1>15. CASE SkipOther
  BY <1>1, <1>16, <1>3, <1>15, OperatorStep DEF SkipOther
<1> QED
  BY <1>6, <1>7, <1>8, <1>9, <1>10, <1>11, <1>12, <1>13, <1>14, <1>15

\* The steps of project-rename.
LEMMA RenameSteps ==
  ASSUME Inv, BeginRename \/ RenameColumn \/ EndRename
  PROVE  StepOK
<1>1. stack # << >> /\ Top.pc \in DOMAIN OpsOf(Top)
  BY DEF BeginRename, RenameColumn, EndRename, AtOp
<1> DEFINE items == OpOf(Top).items
           scope == Top.scope
           columns == ScopeColumns(scope)
<1>2. Inputs
  BY DEF Inv
<1>3. /\ Top \in Frame
      /\ scope \in Seq(Entry)
      /\ Faithful(Drawn(Top), scope)
      /\ Top.pc \in Nat
      /\ Top.sub \in Nat
  BY <1>1, TopProperties DEF Frame
<1>4. items \in Seq(Item(query))
  BY <1>1, <1>3, OpProperties
<1>5. columns \in ColumnMap
  BY <1>3, ScopeColumnsType
<1>6. CASE BeginRename
  <2> DEFINE f == [Top EXCEPT !.sub = 1, !.scope = <<Anonymous(columns)>>]
  <2>1. <<Anonymous(columns)>> \in Seq(Entry)
    BY <1>3, <1>5, AnonymousScopes
  <2>2. /\ f \in Frame
        /\ f.pipe = Top.pipe
        /\ f.pc = Top.pc
        /\ f.scope = <<Anonymous(columns)>>
    BY <1>3, <2>1 DEF Frame
  <2>3. SetTop(f)
    BY <1>6 DEF BeginRename
  <2> HIDE DEF f
  <2>6. Drawn(f) = Drawn(Top)
    BY <2>2, SameDrawn
  <2>4. SoundStack(stack')
    BY <1>1, <1>3, <1>5, <2>2, <2>3, <2>6, AnonymousScopes, SetTopSound
  <2>5. MarksStep
    BY <1>1, <1>3, <1>6, ScopeFits, FillStep DEF BeginRename, AtOp
  <2> QED
    BY <1>6, <2>4, <2>5, RestUnchanged DEF BeginRename, StepOK
<1>7. CASE RenameColumn
  <2> DEFINE item == items[Top.sub]
             to == Renamed(columns, query.exprs[item.root].name, item.as)
             f == [Top EXCEPT !.sub = @ + 1, !.scope = <<Anonymous(to)>>]
  <2>1. Top.sub \in DOMAIN items /\ SetTop(f)
    BY <1>7 DEF RenameColumn
  <2>2. OpOf(Top).kind = "rename"
    BY <1>7 DEF RenameColumn, AtOp
  <2>3. item \in Item(query) /\ item.as # NoName
    <3>1. item \in Item(query)
      BY <1>4, <2>1
    <3>2. IsPipeline(query, Top.pipe)
      BY <1>2, <1>3, QueryStructure DEF Frame
    <3>3. \A i \in DOMAIN OpsOf(Top) :
            OpsOf(Top)[i].kind = "rename"
              => \A j \in DOMAIN OpsOf(Top)[i].items : OpsOf(Top)[i].items[j].as # NoName
      BY <3>2 DEF IsPipeline, OpsOf
    <3> QED
      BY <1>1, <2>1, <2>2, <3>1, <3>3 DEF OpOf
  <2>4. item.as \in Columns
    BY <2>3 DEF Item
  <2>5. to \in ColumnMap
    BY <1>2, <1>4, <1>5, <2>4, ReshapedColumns
  <2>6. <<Anonymous(to)>> \in Seq(Entry)
    BY <1>3, <2>5, AnonymousScopes
  <2>7. f \in Frame /\ f.pipe = Top.pipe /\ f.pc = Top.pc /\ f.scope = <<Anonymous(to)>>
    <3> DEFINE after == <<Anonymous(to)>>
               sub == Top.sub + 1
    <3>1. after \in Seq(Entry) /\ sub \in Nat
      BY <1>3, <2>6
    <3>2. f = [Top EXCEPT !.sub = sub, !.scope = after]
      OBVIOUS
    <3> HIDE DEF after, sub, f
    <3>3. f \in Frame /\ f.pipe = Top.pipe /\ f.pc = Top.pc /\ f.scope = after
      BY <1>3, <3>1, <3>2 DEF Frame
    <3> QED
      BY <3>3 DEF after
  <2> HIDE DEF f, to
  <2>9. Drawn(f) = Drawn(Top)
    BY <2>7, SameDrawn
  <2>8. SoundStack(stack')
    BY <1>1, <1>3, <2>1, <2>5, <2>7, <2>9, AnonymousScopes, SetTopSound
  <2> QED
    BY <1>7, <2>8, NoFillStep, RestUnchanged DEF RenameColumn, StepOK
<1>8. CASE EndRename
  BY <1>1, <1>3, <1>8, OperatorStep DEF EndRename
<1> QED
  BY <1>6, <1>7, <1>8

\* Calls: a join or union starts a pipeline it reads, and enrich() the main one.
LEMMA CallSteps ==
  ASSUME Inv, Enrich \/ EnterSub
  PROVE  StepOK
<1>1. CASE Enrich
  <2>1. query.main \in DOMAIN query.pipes
    BY QueryStructure DEF Inv
  <2>2. SoundStack(<<NewFrame(query.main)>>)
    BY <2>1, NewFrameProperties DEF SoundStack
  <2>3. RestOK'
    BY <1>1, PassesAssumption DEF Enrich, Inv, TypeOK, RestOK, input
  <2> QED
    BY <1>1, <2>2, <2>3, NoFillStep DEF Enrich, StepOK
<1>2. CASE EnterSub
  <2> DEFINE f == [Top EXCEPT !.sub = @ + 1]
             d == OpOf(Top).subs[Top.sub + 1]
  <2>1. stack # << >> /\ Top.pc \in DOMAIN OpsOf(Top) /\ OpOf(Top).kind \in {"join", "union"}
    BY <1>2 DEF EnterSub, AtOp
  <2>2. Top \in Frame /\ Top.sub \in Nat /\ Faithful(Drawn(Top), Top.scope)
    BY <2>1, TopProperties DEF Frame
  <2>3. Top.sub + 1 \in Nat
    BY <2>2
  <2>4. f \in Frame /\ f.pipe = Top.pipe /\ f.scope = Top.scope /\ f.pc = Top.pc
            /\ f.sub = Top.sub + 1
    BY <2>2, <2>3 DEF Frame
  <2>13. Faithful(Drawn(f), f.scope)
    BY <2>2, <2>4, SameDrawn
  <2>5. OpOf(Top).subs \in Seq(DOMAIN query.pipes)
    BY <2>1, <2>2, OpProperties
  <2>6. Top.sub + 1 \in DOMAIN OpOf(Top).subs
    BY <1>2, <2>2, <2>5 DEF EnterSub
  <2>7. d \in DOMAIN query.pipes
    BY <2>5, <2>6
  <2>8. /\ NewFrame(d) \in Frame
        /\ NewFrame(d).pipe = d
        /\ Faithful(Drawn(NewFrame(d)), NewFrame(d).scope)
        /\ NewFrame(d).scope # << >>
    BY <2>7, NewFrameProperties
  <2> DEFINE s == Append(Below, f)
             n == Len(stack)
  <2>9. SoundStack(s) /\ n \in Nat \ {0} /\ n = Len(s) /\ s[n] = f
    <3>1. n - 1 \in Nat /\ n - 1 < n /\ n - 1 + 1 = n
      BY <2>1, TopProperties
    <3>2. f.pipe = stack[n - 1 + 1].pipe /\ f.scope = stack[n - 1 + 1].scope
      BY <2>4, <3>1 DEF Top
    <3>3. SoundStack(Append(SubSeq(stack, 1, n - 1), f))
      <4> DEFINE m == n - 1
      <4>1. /\ m \in Nat
            /\ m < Len(stack)
            /\ f.pipe = stack[m + 1].pipe
            /\ f.scope = stack[m + 1].scope
        BY <3>1, <3>2
      <4> HIDE DEF m, f
      <4>2. SoundStack(Append(SubSeq(stack, 1, m), f))
        BY <2>4, <2>13, <4>1, StackIsSound, ReplaceSound
      <4> QED
        BY <4>2 DEF m
    <3>4. Below \in Seq(Frame) /\ Len(Below) = n - 1
      BY <2>1, TopProperties
    <3> HIDE DEF f
    <3> QED
      BY <2>4, <3>1, <3>3, <3>4 DEF Below
  <2>10. OpsOf(f) = OpsOf(Top) /\ OpOf(f) = OpOf(Top)
    BY <2>4 DEF OpsOf, OpOf
  <2>11. stack' = Append(s, NewFrame(d))
    BY <1>2 DEF EnterSub
  <2> HIDE DEF f, s, n, d
  <2>12. SoundStack(Append(s, NewFrame(d)))
    <3>1. /\ s[n].pc \in DOMAIN OpsOf(s[n])
          /\ OpOf(s[n]).kind \in {"join", "union"}
          /\ s[n].sub \in DOMAIN OpOf(s[n]).subs
          /\ d = OpOf(s[n]).subs[s[n].sub]
      BY <2>1, <2>4, <2>6, <2>9, <2>10 DEF d
    <3> QED
      BY <2>8, <2>9, <3>1, PushSound
  <2> QED
    BY <1>2, <2>11, <2>12, NoFillStep, RestUnchanged DEF EnterSub, StepOK
<1> QED
  BY <1>1, <1>2

\* The end of a pipeline, and of enrich().
LEMMA EndSteps ==
  ASSUME Inv, EndPipeline \/ Finish \/ UnionDone
  PROVE  StepOK
<1>1. stack # << >>
  BY DEF EndPipeline, Finish, Returned, UnionDone, AtOp
<1>2. Top \in Frame /\ Top.scope \in Seq(Entry) /\ Faithful(Drawn(Top), Top.scope)
  BY <1>1, TopProperties DEF Frame
<1>3. CASE EndPipeline
  <2> DEFINE f == [Top EXCEPT !.pc = @ + 1]
  <2>1. Top.pc + 1 \in Nat
    BY <1>2 DEF Frame
  <2>2. f \in Frame /\ f.pipe = Top.pipe /\ f.scope = Top.scope /\ f.pc = Top.pc + 1
    BY <1>2, <2>1 DEF Frame
  <2>3. SetTop(f)
    BY <1>3 DEF EndPipeline
  <2> HIDE DEF f
  <2>7. Faithful(Drawn(f), f.scope)
    BY <1>2, <2>2, DrawnGrows, FaithfulWidens DEF Frame
  <2>4. SoundStack(stack')
    BY <1>1, <1>2, <2>2, <2>3, <2>7, SetTopSound
  <2>5. ScopeColumns(Top.scope) \in ColumnMap
    BY <1>2, ScopeColumnsType
  <2>6. RestOK'
    BY <1>3, <2>5 DEF EndPipeline, RestOK, Inv, TypeOK, input
  <2> QED
    BY <1>3, <2>4, <2>6, NoFillStep DEF EndPipeline, StepOK
<1>4. CASE Finish
  <2>1. SoundStack(<< >>)
    BY DEF SoundStack
  <2>2. RestOK'
    BY <1>4 DEF Finish, RestOK, Inv, TypeOK, input
  <2> QED
    BY <1>4, <2>1, <2>2, NoFillStep DEF Finish, StepOK
<1>5. CASE UnionDone
  BY <1>1, <1>2, <1>5, OperatorStep DEF UnionDone, AtOp
<1> QED
  BY <1>3, <1>4, <1>5

\* Returns to a join or a union.
LEMMA ReturnSteps ==
  ASSUME Inv, JoinReturn \/ UnionMerge \/ UnionReturn
  PROVE  StepOK
<1>1. Len(stack) > 1 /\ stack # << >>
  BY DEF JoinReturn, UnionMerge, UnionReturn, ReturnedTo, Returned
<1>2. /\ Caller \in Frame
      /\ Faithful(Drawn(Caller), Caller.scope)
      /\ Caller.pc \in DOMAIN OpsOf(Caller)
      /\ OpOf(Caller).kind \in {"join", "union"}
      /\ Caller.sub \in DOMAIN OpOf(Caller).subs
      /\ Top.pipe = OpOf(Caller).subs[Caller.sub]
      /\ Cone(query, Top.pipe) \subseteq Cone(query, Caller.pipe)
      /\ Top.scope = << >> => OpOf(Caller).kind = "union"
  BY <1>1, CallerProperties
<1>3. Top \in Frame /\ Top.scope \in Seq(Entry) /\ Faithful(Drawn(Top), Top.scope)
  BY <1>1, TopProperties DEF Frame
<1>4. Caller.scope \in Seq(Entry) /\ Caller.pc + 1 \in Nat
  BY <1>2 DEF Frame
<1>5. Faithful(Beside(query, OpOf(Caller)), Top.scope)
  <2>1. Drawn(Top) \subseteq Cone(query, Top.pipe)
    BY <1>3, DrawnCone
  <2>2. Cone(query, Top.pipe) \subseteq Beside(query, OpOf(Caller))
    BY <1>2 DEF Beside
  <2> QED
    BY <1>3, <2>1, <2>2, FaithfulWidens
<1> DEFINE joined == Append(Caller.scope, Head(Top.scope))
           known == Drawn(Caller) \cup Beside(query, OpOf(Caller))
<1>6. ASSUME Top.scope # << >>
      PROVE  /\ Head(Top.scope) \in Entry
             /\ Faithful(Beside(query, OpOf(Caller)), <<Head(Top.scope)>>)
             /\ joined \in Seq(Entry)
             /\ Faithful(known, joined)
             /\ joined # << >>
  <2>1. Head(Top.scope) \in Entry /\ 1 \in DOMAIN Top.scope /\ Head(Top.scope) = Top.scope[1]
    BY <1>3, <1>6
  <2>2. joined \in Seq(Entry) /\ joined # << >>
    BY <1>4, <2>1
  <2>3. \A k \in DOMAIN joined :
          \/ k \in DOMAIN Caller.scope /\ joined[k] = Caller.scope[k]
          \/ joined[k] = Top.scope[1]
    BY <1>4, <2>1
  <2> QED
    BY <1>2, <1>5, <2>1, <2>2, <2>3 DEF Faithful
<1>7. CASE JoinReturn
  <2> DEFINE f == [Caller EXCEPT !.pc = @ + 1, !.sub = 0, !.scope = joined]
  <2>1. Top.scope # << >>
    BY <1>2, <1>7 DEF JoinReturn, ReturnedTo
  <2>2. f \in Frame /\ f.pipe = Caller.pipe /\ f.scope = joined /\ f.pc = Caller.pc + 1
    BY <1>2, <1>4, <1>6, <2>1 DEF Frame
  <2>3. /\ stack' = Append(SubSeq(stack, 1, Len(stack) - 2), f)
        /\ Fill(OpOf(Caller).items, joined)
    BY <1>7 DEF JoinReturn, PopTo
  <2>6. Fitting(Caller, joined)
    BY <1>2, <1>4, <1>6, <1>7, <2>1, JoinedFits DEF JoinReturn, ReturnedTo
  <2> HIDE DEF f, joined
  <2>7. Faithful(Drawn(f), joined)
    <3>1. Drawn(Caller) \subseteq Drawn(f) /\ Beside(query, OpOf(Caller)) \subseteq Drawn(f)
      BY <1>2, <2>2, DrawnGrows DEF Frame
    <3> QED
      BY <1>6, <2>1, <3>1, FaithfulWidens
  <2>4. SoundStack(stack')
    BY <1>1, <1>6, <2>1, <2>2, <2>3, <2>7, PopSound
  <2>5. MarksStep
    BY <1>2, <1>6, <1>7, <2>1, <2>3, <2>6, FillStep DEF JoinReturn
  <2> QED
    BY <1>7, <2>4, <2>5, RestUnchanged DEF JoinReturn, StepOK
<1>8. CASE UnionMerge
  <2> DEFINE merged == IF InScope(Head(Top.scope), Caller.scope) THEN Caller.scope ELSE joined
             f == [Caller EXCEPT !.scope = merged]
             g == [Top EXCEPT !.scope = Tail(@)]
             b == Append(SubSeq(stack, 1, Len(stack) - 2), f)
             n == Len(stack) - 1
  <2>1. Top.scope # << >>
    BY <1>8 DEF UnionMerge
  <2>2. /\ merged \in Seq(Entry)
        /\ Faithful(Drawn(Caller), merged)
        /\ merged = << >> => Caller.scope = << >>
    <3>1. known = Drawn(Caller)
      BY <1>2, <1>8 DEF UnionMerge, ReturnedTo, Drawn
    <3> QED
      BY <1>2, <1>4, <1>6, <2>1, <3>1
  <2> HIDE DEF joined, merged
  <2>3. /\ f \in Frame
        /\ f.pipe = Caller.pipe
        /\ f.scope = merged
        /\ f.pc = Caller.pc
        /\ f.sub = Caller.sub
    BY <1>2, <2>2 DEF Frame
  <2>4. Tail(Top.scope) \in Seq(Entry) /\ Faithful(Drawn(Top), Tail(Top.scope))
    <3>1. /\ Tail(Top.scope) \in Seq(Entry)
          /\ Len(Tail(Top.scope)) = Len(Top.scope) - 1
          /\ \A i \in 1 .. Len(Tail(Top.scope)) : Tail(Top.scope)[i] = Top.scope[i + 1]
      BY <1>3, <2>1, HeadTailProperties
    <3>2. \A i \in DOMAIN Tail(Top.scope) :
            i + 1 \in DOMAIN Top.scope /\ Tail(Top.scope)[i] = Top.scope[i + 1]
      BY <1>3, <3>1
    <3> QED
      BY <1>3, <3>1, <3>2 DEF Faithful
  <2>5. g \in Frame /\ g.pipe = Top.pipe /\ g.pc = Top.pc /\ g.scope = Tail(Top.scope)
    BY <1>3, <2>4 DEF Frame
  <2>6. stack' = Append(b, g)
    BY <1>8 DEF UnionMerge, merged, joined
  <2>7. OpsOf(f) = OpsOf(Caller) /\ OpOf(f) = OpOf(Caller)
    BY <2>3 DEF OpsOf, OpOf
  <2> HIDE DEF f, g
  <2>11. Drawn(f) = Drawn(Caller) /\ Drawn(g) = Drawn(Top)
    BY <2>3, <2>5, SameDrawn
  <2>8. SoundStack(b)
    BY <1>1, <2>2, <2>3, <2>11, PopSound
  <2>9. n \in Nat \ {0} /\ n = Len(b) /\ b[n] = f
    <3> DEFINE m == Len(stack) - 2
    <3>1. m \in Nat /\ m <= Len(stack) /\ n = m + 1
      BY <1>1 DEF Inv, TypeOK
    <3>2. b = Append(SubSeq(stack, 1, m), f)
      OBVIOUS
    <3> HIDE DEF m, n, b
    <3>3. SubSeq(stack, 1, m) \in Seq(Frame) /\ Len(SubSeq(stack, 1, m)) = m
      BY <3>1, Prefix DEF Inv, TypeOK
    <3> QED
      BY <2>3, <3>1, <3>2, <3>3
  <2> HIDE DEF b, n
  <2>10. SoundStack(Append(b, g))
    <3>1. /\ b[n].pc \in DOMAIN OpsOf(b[n])
          /\ OpOf(b[n]).kind \in {"join", "union"}
          /\ b[n].sub \in DOMAIN OpOf(b[n]).subs
          /\ g.pipe = OpOf(b[n]).subs[b[n].sub]
          /\ OpOf(b[n]).kind = "union"
      BY <1>2, <1>8, <2>3, <2>5, <2>7, <2>9 DEF UnionMerge, ReturnedTo
    <3>2. Faithful(Drawn(g), g.scope)
      BY <2>4, <2>5, <2>11
    <3> QED
      BY <2>5, <2>8, <2>9, <3>1, <3>2, PushSound
  <2> QED
    BY <1>8, <2>6, <2>10, NoFillStep, RestUnchanged DEF UnionMerge, StepOK
<1>9. CASE UnionReturn
  <2>1. SoundStack(stack')
    BY <1>1, <1>2, <1>9, PopSound DEF UnionReturn, PopTo
  <2> QED
    BY <1>9, <2>1, NoFillStep, RestUnchanged DEF UnionReturn, StepOK
<1> QED
  BY <1>7, <1>8, <1>9

-----------------------------------------------------------------------------
(* The invariant.                                                          *)

\* Every step keeps what the enricher is given and re-establishes Inv.
LEMMA StepKeepsInv ==
  ASSUME Inv, [Next]_vars
  PROVE  Inv' /\ [Annotated!Next]_Annotated!vars
<1>1. CASE Next
  <2>1. StepOK
    BY <1>1, OperatorSteps, RenameSteps, CallSteps, EndSteps, ReturnSteps
       DEF Next, Walk
  <2>2. (stack \in Seq(Frame) /\ ScopesSound)'
    BY <2>1, SoundStackAfter DEF StepOK
  <2>3. Inputs'
    BY <2>1 DEF StepOK, Inputs, Inv, input
  <2>4. TypeOK'
    BY <2>1, <2>2 DEF StepOK, MarksStep, MarksOK, RestOK, TypeOK
  <2> QED
    BY <2>1, <2>2, <2>3, <2>4 DEF Inv, StepOK, MarksStep
<1>2. CASE UNCHANGED vars
  <2>1. UNCHANGED <<query, schemas, table, rtype, result, stack, attached, passes>>
    BY <1>2 DEF vars
  <2>2. UNCHANGED Annotated!vars
    BY <2>1 DEF Annotated!vars
  <2>3. SoundStack(stack')
    BY <2>1, StackIsSound
  <2>4. (stack \in Seq(Frame) /\ ScopesSound)'
    BY <2>1, <2>3, SoundStackAfter DEF input
  <2>5. Inputs' /\ TypeOK'
    BY <2>1, <2>4 DEF Inv, Inputs, TypeOK
  <2> QED
    BY <2>2, <2>4, <2>5 DEF Inv
<1> QED
  BY <1>1, <1>2

\* The initial states satisfy Inv.
LEMMA InitInv ==
  ASSUME Init
  PROVE  Inv
<1>1. Inputs
  BY DEF Init, Inputs
<1>2. \A e \in DOMAIN query.exprs : query.exprs[e] \in Expr
  BY <1>1, QueryStructure
<1>3. /\ table \in [DOMAIN query.exprs -> Owners]
      /\ rtype \in [DOMAIN query.exprs -> KustoTypes]
  BY <1>2 DEF Init, Expr
<1>4. TypeOK
  <2>1. result \in [DOMAIN query.pipes -> ColumnMap \cup {NoSchema}]
    BY DEF Init
  <2>2. attached \in BOOLEAN
    BY Zenon DEF Init
  <2>3. stack \in Seq(Frame)
    <3>1. stack = << >>
      BY DEF Init
    <3> QED
      BY <3>1
  <2>4. passes \in 0 .. MaxPasses
    BY PassesAssumption DEF Init
  <2> QED
    BY <1>3, <2>1, <2>2, <2>3, <2>4 DEF TypeOK
<1>5. ScopesSound
  BY DEF Init, ScopesSound, CallsNest, ScopeFaithful, ScopesFilled
<1> QED
  BY <1>1, <1>4, <1>5 DEF Inv

\* Inv is an invariant: every other theorem rests on it.
THEOREM Invariance == Spec => []Inv
BY InitInv, StepKeepsInv, PTL DEF Spec

\* The variables keep their types, whatever tables, schemas and queries the
\* program is given.
THEOREM TypesHold == Spec => []TypeOK
BY Invariance, PTL DEF Inv

\* Scopes are sound: SchemaAttacher._walk_pipeline never looks a reference up
\* among tables whose rows do not reach it.
THEOREM ScopesHold == Spec => []ScopesSound
BY Invariance, PTL DEF Inv

\* Enrichment implements the annotation contract: it only adds, once, and
\* with evidence.
THEOREM Implementation == Spec => ImplementsAnnotations
<1>1. Init => Annotated!Init
  BY DEF Init, Annotated!Init
<1> QED
  BY <1>1, Invariance, StepKeepsInv, PTL
     DEF Spec, ImplementsAnnotations, Annotated!Spec

-----------------------------------------------------------------------------
(* Consequences of the contract.                                           *)

\* The tables near a reference are table names.
LEMMA NearTables ==
  ASSUME Inputs, NEW e \in DOMAIN query.exprs
  PROVE  Annotated!Near(e) \subseteq Tables
<1>1. \A p \in DOMAIN query.pipes : query.pipes[p].source \in Tables \cup {NoTable}
  BY QueryStructure
<1>2. query.home[e] \in DOMAIN query.pipes
  BY QueryStructure
<1>3. \A p : Cone(query, p) \subseteq Tables
  BY <1>1 DEF Cone
<1>4. \A op : Beside(query, op) \subseteq Tables
  BY <1>3 DEF Beside
<1> QED
  BY <1>1, <1>2, <1>4, SameDefinitions DEF Annotated!Near, Annotated!Reaching, Upstream

\* A step of the contract keeps Attributed: a table a bare reference has is a
\* real table, so no later step takes it for a side of a join.
LEMMA StepKeepsAttributed ==
  ASSUME Inputs, MarksOK, Attributed, [Annotated!Next]_Annotated!vars
  PROVE  Attributed'
<1>1. CASE Annotated!Next
  <2>1. UNCHANGED <<query, schemas>>
    BY <1>1 DEF Annotated!Next
  <2> SUFFICES ASSUME NEW e \in DOMAIN query.exprs,
                      query.exprs[e].table = NoTable, table'[e] # NoTable
               PROVE  /\ table'[e] \in Annotated!Near(e)
                      /\ Annotated!Has(table'[e], query.exprs[e].name)
    BY <2>1 DEF Attributed, Annotated!Attributed, Annotated!Near, Annotated!Reaching,
              Annotated!Holder, Annotated!Place, Annotated!Has
  <2>2. Annotated!OwnerStep(e)
    BY <1>1 DEF Annotated!Next
  <2>3. CASE table'[e] = table[e]
    BY <2>3 DEF Attributed, Annotated!Attributed
  <2>4. CASE table'[e] # table[e]
    <3>1. table[e] \notin Sides
      <4>1. table[e] = NoTable \/ table[e] \in Tables
        BY NearTables DEF Attributed, Annotated!Attributed
      <4> QED
        BY <4>1, NamesAssumption
    <3> QED
      BY <2>2, <2>4, <3>1, SameDefinitions DEF Annotated!OwnerStep
  <2> QED
    BY <2>3, <2>4
<1>2. CASE UNCHANGED Annotated!vars
  BY <1>2 DEF Annotated!vars, Attributed, Annotated!Attributed, Annotated!Near,
              Annotated!Reaching, Annotated!Holder, Annotated!Place, Annotated!Has
<1> QED
  BY <1>1, <1>2

\* The same of TypesJustified: the owner a type was taken from stays.
LEMMA StepKeepsTypesJustified ==
  ASSUME Inputs, MarksOK, TypesJustified, [Annotated!Next]_Annotated!vars
  PROVE  TypesJustified'
<1>1. CASE Annotated!Next
  <2>1. UNCHANGED <<query, schemas>>
    BY <1>1 DEF Annotated!Next
  <2> SUFFICES ASSUME NEW e \in DOMAIN query.exprs,
                      query.exprs[e].form = "column",
                      query.exprs[e].rtype = "unknown", rtype'[e] # "unknown"
               PROVE  /\ Annotated!Has(table'[e], query.exprs[e].name)
                      /\ rtype'[e] = schemas[table'[e]][query.exprs[e].name]
    BY <2>1 DEF TypesJustified, Annotated!TypesJustified, Annotated!Has
  <2>2. Annotated!OwnerStep(e) /\ Annotated!TypeStep(e)
    BY <1>1 DEF Annotated!Next
  <2>3. CASE rtype'[e] # rtype[e]
    BY <2>2, <2>3, SameDefinitions DEF Annotated!TypeStep, Predicates
  <2>4. CASE rtype'[e] = rtype[e]
    <3>1. /\ Annotated!Has(table[e], query.exprs[e].name)
          /\ rtype[e] = schemas[table[e]][query.exprs[e].name]
      BY <2>4 DEF TypesJustified, Annotated!TypesJustified
    <3>2. table[e] \in Tables
      BY <3>1, QueryStructure DEF Annotated!Has, IsSchemaDict
    <3>3. table[e] \notin Sides /\ table[e] # NoTable
      BY <3>2, NamesAssumption
    <3>4. table'[e] = table[e]
      BY <2>2, <3>3, SameDefinitions DEF Annotated!OwnerStep
    <3> QED
      BY <2>4, <3>1, <3>4
  <2> QED
    BY <2>3, <2>4
<1>2. CASE UNCHANGED Annotated!vars
  BY <1>2 DEF Annotated!vars, TypesJustified, Annotated!TypesJustified, Annotated!Has
<1> QED
  BY <1>1, <1>2

\* SchemaAttacher._fill attributes a bare reference only to a table that has
\* the column and whose rows reach the reference.
THEOREM AttributionHolds == Spec => []Attributed
<1>1. Init => Attributed
  <2> SUFFICES ASSUME Init, NEW e \in DOMAIN query.exprs,
                      query.exprs[e].table = NoTable
               PROVE  table[e] = NoTable
    BY DEF Attributed, Annotated!Attributed
  <2> QED
    BY DEF Init
<1>2. Inv /\ Attributed /\ [Next]_vars => Attributed'
  BY StepKeepsInv, StepKeepsAttributed DEF Inv, TypeOK, MarksOK
<1> QED
  BY <1>1, <1>2, Invariance, PTL DEF Spec

\* A type SchemaAttacher._fill wrote on a column is the one the schema gives
\* the column in the table the reference names.
THEOREM TypesJustifiedHolds == Spec => []TypesJustified
<1>1. Init => TypesJustified
  <2> SUFFICES ASSUME Init, NEW e \in DOMAIN query.exprs,
                      query.exprs[e].rtype = "unknown"
               PROVE  rtype[e] = "unknown"
    BY DEF TypesJustified, Annotated!TypesJustified
  <2> QED
    BY DEF Init
<1>2. Inv /\ TypesJustified /\ [Next]_vars => TypesJustified'
  BY StepKeepsInv, StepKeepsTypesJustified DEF Inv, TypeOK, MarksOK
<1> QED
  BY <1>1, <1>2, Invariance, PTL DEF Spec

-----------------------------------------------------------------------------
(* Where the columns of a result schema come from.                         *)
(* The invariant speaks of every active call: no scope of a pipeline has a *)
(* column that neither its tables nor its operators' items give it.  What  *)
(* a call returns stays right in its caller, because a nested pipeline has *)
(* no origins its caller has not.                                          *)

Origin(p) == Named(p) \cup UNION {DOMAIN TableSchema(t) : t \in Cone(query, p)}

Native(p, scope) == \A k \in DOMAIN scope : DOMAIN scope[k].columns \subseteq Origin(p)

StackNative(s) == \A i \in 1 .. Len(s) : Native(s[i].pipe, s[i].scope)

Origins == StackNative(stack) /\ ColumnsHaveOrigin


\* Items of a pipeline's own operators are origins.
LEMMA TargetsAreOrigins ==
  ASSUME Inv, NEW f \in Frame, f.pc \in DOMAIN OpsOf(f)
  PROVE  Targets(OpOf(f).items) \subseteq Origin(f.pipe)
<1>1. f.pipe \in DOMAIN query.pipes
  BY DEF Frame
<1>2. Targets(OpOf(f).items) \subseteq Named(f.pipe)
  BY <1>1 DEF Named, OpOf, OpsOf
<1> QED
  BY <1>2 DEF Origin

\* A pipeline that is read has no origins its reader has not.
LEMMA CalleeOrigins ==
  ASSUME Inv, NEW f \in Frame, f.pc \in DOMAIN OpsOf(f), NEW j \in DOMAIN OpOf(f).subs
  PROVE  Origin(OpOf(f).subs[j]) \subseteq Origin(f.pipe)
<1> DEFINE d == OpOf(f).subs[j]
<1>1. IsQuery(query)
  BY QueriesAssumption DEF Inv, Inputs
<1>2. f.pipe \in DOMAIN query.pipes
  BY DEF Frame
<1>3. query.nested[d] = query.nested[f.pipe] \cup {f.pipe}
  <2>1. IsPipeline(query, f.pipe)
    BY <1>1, <1>2 DEF IsQuery
  <2>2. \A i \in DOMAIN OpsOf(f) : \A k \in DOMAIN OpsOf(f)[i].subs :
          query.nested[OpsOf(f)[i].subs[k]] = query.nested[f.pipe] \cup {f.pipe}
    BY <2>1 DEF IsPipeline, OpsOf
  <2> QED
    BY <2>2 DEF OpOf
<1>4. \A x \in DOMAIN query.pipes :
        x = d \/ d \in query.nested[x] => f.pipe \in query.nested[x]
  BY <1>1, <1>3 DEF IsQuery, IsPipeTree
<1>5. Named(d) \subseteq Named(f.pipe)
  BY <1>4 DEF Named
<1>6. Cone(query, d) \subseteq Cone(query, f.pipe)
  BY CalleeCone
<1> QED
  BY <1>5, <1>6 DEF Origin

\* A new call starts with the columns of its source.
LEMMA NewFrameNative ==
  ASSUME Inv, NEW p \in DOMAIN query.pipes
  PROVE  Native(p, NewFrame(p).scope)
<1> DEFINE t == query.pipes[p].source
<1>1. t # NoTable => t \in Cone(query, p)
  BY DEF Cone
<1>2. t = NoTable => DOMAIN TableSchema(t) = {}
  BY TableSchemaType, NamesAssumption DEF Inv
<1>3. DOMAIN TableSchema(t) \subseteq Origin(p)
  BY <1>1, <1>2 DEF Origin
<1> QED
  BY <1>3 DEF Native, NewFrame, SourceEntry

\* The flattened scope has the columns of the entries.
LEMMA FlattenedNative ==
  ASSUME NEW p, NEW scope, Native(p, scope)
  PROVE  DOMAIN ScopeColumns(scope) \subseteq Origin(p)
BY DEF Native, ScopeColumns, Holders

\* Scopes made of computed columns.
LEMMA AnonymousNative ==
  ASSUME NEW p, NEW m, DOMAIN m \subseteq Origin(p), NEW scope \in Seq(Entry),
         Native(p, scope)
  PROVE  /\ Native(p, <<Anonymous(m)>>)
         /\ Native(p, Append(scope, Anonymous(m)))
BY DEF Native, Anonymous

\* The columns that operators compute are their targets or were there before.
LEMMA ComputedDomains ==
  ASSUME NEW items, NEW m, NEW scope, NEW types
  PROVE  /\ DOMAIN Dict(items, types) = Targets(items)
         /\ DOMAIN Captured(items, scope) \subseteq Targets(items)
         /\ DOMAIN Expanded(items, m) \subseteq DOMAIN m \cup Targets(items)
         /\ \A names : DOMAIN Narrowed(m, names) \subseteq DOMAIN m
BY DEF Dict, Captured, Expanded, Narrowed

LEMMA RenamedDomain ==
  ASSUME NEW m, NEW old, NEW new
  PROVE  DOMAIN Renamed(m, old, new) \subseteq DOMAIN m \cup {new}
BY DEF Renamed

\* Origins are about the query and the schemas alone.
LEMMA SameOrigins ==
  ASSUME UNCHANGED input
  PROVE  /\ \A t : TableSchema(t)' = TableSchema(t)
         /\ \A p, c : c \in Named(p)' <=> c \in Named(p)
         /\ \A p, c : c \in Origin(p)' <=> c \in Origin(p)
<1>1. query' = query /\ schemas' = schemas
  BY DEF input
<1>2. \A t : TableSchema(t)' = TableSchema(t)
  BY <1>1 DEF TableSchema
<1>3. \A p, c : c \in Named(p)' <=> c \in Named(p)
  <2>1. \A items, c : c \in Targets(items)' <=> c \in Targets(items)
    BY <1>1 DEF Targets, Target
  <2> QED
    BY <1>1, <2>1 DEF Named
<1> QED
  BY <1>1, <1>2, <1>3 DEF Origin

-----------------------------------------------------------------------------
(* The stack.                                                              *)

\* Dropping the frames above the n-th and putting one of the pipeline above it
\* in their place.
LEMMA ReplaceNative ==
  ASSUME NEW s \in Seq(Frame), StackNative(s), NEW n \in Nat, n <= Len(s),
         NEW f \in Frame, Native(f.pipe, f.scope)
  PROVE  StackNative(Append(SubSeq(s, 1, n), f))
<1> DEFINE b == SubSeq(s, 1, n)
           r == Append(b, f)
<1>1. b \in Seq(Frame) /\ Len(b) = n /\ \A i \in 1 .. n : b[i] = s[i]
  BY Prefix
<1> HIDE DEF b
<1>2. Len(r) = n + 1 /\ r[n + 1] = f /\ \A i \in 1 .. n : r[i] = s[i]
  BY <1>1
<1> HIDE DEF r
<1>3. ASSUME NEW i \in 1 .. n + 1
      PROVE  Native(r[i].pipe, r[i].scope)
  <2>1. CASE i = n + 1
    BY <2>1, <1>2
  <2>2. CASE i # n + 1
    <3>1. i \in 1 .. n /\ i \in 1 .. Len(s) /\ r[i] = s[i]
      BY <2>2, <1>2
    <3> QED
      BY <3>1 DEF StackNative
  <2> QED
    BY <2>1, <2>2
<1>4. StackNative(r)
  BY <1>2, <1>3 DEF StackNative
<1> QED
  BY <1>4 DEF r, b

\* Calling.
LEMMA PushNative ==
  ASSUME NEW s \in Seq(Frame), StackNative(s), NEW g \in Frame, Native(g.pipe, g.scope)
  PROVE  StackNative(Append(s, g))
<1>1. Len(s) \in Nat /\ SubSeq(s, 1, Len(s)) = s
  BY SubSeqProperties
<1>2. StackNative(Append(SubSeq(s, 1, Len(s)), g))
  BY <1>1, ReplaceNative
<1> QED
  BY <1>1, <1>2

\* A step of the top call within its pipeline.
LEMMA SetTopNative ==
  ASSUME Inv, StackNative(stack), stack # << >>,
         NEW f \in Frame, Native(f.pipe, f.scope), SetTop(f)
  PROVE  StackNative(stack')
<1> DEFINE n == Len(stack) - 1
<1>1. n \in Nat /\ n <= Len(stack) /\ stack \in Seq(Frame)
  BY TopProperties DEF Inv, TypeOK
<1>2. stack' = Append(SubSeq(stack, 1, n), f)
  BY DEF SetTop, Below
<1> HIDE DEF n
<1> QED
  BY <1>1, <1>2, ReplaceNative

\* The scope of the top call, and of its caller.
LEMMA TopNative ==
  ASSUME Inv, StackNative(stack), stack # << >>
  PROVE  Native(Top.pipe, Top.scope)
BY TopProperties DEF StackNative

LEMMA CallerNative ==
  ASSUME Inv, StackNative(stack), Len(stack) > 1
  PROVE  Native(Caller.pipe, Caller.scope) /\ Native(Caller.pipe, Top.scope)
<1>1. Len(stack) \in Nat /\ Len(stack) - 1 \in 1 .. Len(stack) /\ stack # << >>
  BY DEF Inv, TypeOK
<1>2. Native(Caller.pipe, Caller.scope)
  BY <1>1 DEF StackNative, Caller
<1>3. Origin(Top.pipe) \subseteq Origin(Caller.pipe)
  BY CallerProperties, CalleeOrigins
<1> QED
  BY <1>1, <1>2, <1>3, TopNative DEF Native

-----------------------------------------------------------------------------
(* The steps of the walk.                                                  *)

\* An operator that goes on with the given scope.
LEMMA AdvanceNative ==
  ASSUME Inv, StackNative(stack), stack # << >>,
         NEW scope \in Seq(Entry), Native(Top.pipe, scope), Advance(scope)
  PROVE  StackNative(stack')
<1>1. Top \in Frame
  BY TopProperties
<1>2. Top.pc + 1 \in Nat /\ 0 \in Nat
  BY <1>1 DEF Frame
<1> DEFINE f == [Top EXCEPT !.pc = @ + 1, !.sub = 0, !.scope = scope]
<1>3. f \in Frame /\ f.pipe = Top.pipe /\ f.scope = scope
  BY <1>1, <1>2 DEF Frame
<1>4. SetTop(f)
  BY DEF Advance
<1> HIDE DEF f
<1> QED
  BY <1>3, <1>4, SetTopNative

LEMMA OperatorsNative ==
  ASSUME Inv, StackNative(stack),
         ReadColumns \/ Extend \/ Summarize \/ Project \/ ProjectAway
           \/ ProjectKeep \/ Parse \/ MvExpand \/ MakeSeries \/ SkipOther
           \/ EndRename \/ UnionDone
  PROVE  StackNative(stack')
<1>1. stack # << >> /\ Top.pc \in DOMAIN OpsOf(Top)
  BY DEF ReadColumns, Extend, Summarize, Project, ProjectAway, ProjectKeep,
         Parse, MvExpand, MakeSeries, SkipOther, EndRename, UnionDone, AtOp
<1> DEFINE items == OpOf(Top).items
           scope == Top.scope
           columns == ScopeColumns(scope)
<1>2. Inputs /\ MarksOK
  BY DEF Inv, TypeOK, MarksOK
<1>3. Top \in Frame /\ scope \in Seq(Entry) /\ Faithful(Drawn(Top), scope)
  BY <1>1, TopProperties DEF Frame
<1>4. items \in Seq(Item(query))
  BY <1>1, <1>3, OpProperties
<1>5. columns \in ColumnMap
  BY <1>3, ScopeColumnsType
<1>6. Native(Top.pipe, scope)
  BY <1>1, TopNative
<1>7. Targets(items) \subseteq Origin(Top.pipe)
  BY <1>1, <1>3, TargetsAreOrigins
<1>8. DOMAIN columns \subseteq Origin(Top.pipe)
  BY <1>6, FlattenedNative
<1>9. ASSUME NEW m \in ColumnMap, DOMAIN m \subseteq Origin(Top.pipe)
      PROVE  /\ Advance(<<Anonymous(m)>>) => StackNative(stack')
             /\ Advance(Append(scope, Anonymous(m))) => StackNative(stack')
  <2>1. /\ <<Anonymous(m)>> \in Seq(Entry)
        /\ Append(scope, Anonymous(m)) \in Seq(Entry)
    BY <1>3, <1>9, AnonymousScopes
  <2>2. /\ Native(Top.pipe, <<Anonymous(m)>>)
        /\ Native(Top.pipe, Append(scope, Anonymous(m)))
    BY <1>3, <1>6, <1>9, AnonymousNative
  <2> QED
    BY <1>1, <2>1, <2>2, AdvanceNative
<1>10. Advance(scope) => StackNative(stack')
  BY <1>1, <1>3, <1>6, AdvanceNative
<1>11. /\ Dict(items, TypesIn(items, scope)) \in ColumnMap
       /\ Dict(items, ProjectedTypes(items, scope)) \in ColumnMap
       /\ Captured(items, scope) \in ColumnMap
       /\ Dict(items, SeriesTypes(items, scope)) \in ColumnMap
  BY <1>2, <1>3, <1>4, ComputedColumns
<1>12. /\ \A names : Narrowed(columns, names) \in ColumnMap
       /\ Expanded(items, columns) \in ColumnMap
  BY <1>2, <1>4, <1>5, ReshapedColumns
<1>13. /\ \A types : DOMAIN Dict(items, types) \subseteq Origin(Top.pipe)
       /\ DOMAIN Captured(items, scope) \subseteq Origin(Top.pipe)
       /\ \A names : DOMAIN Narrowed(columns, names) \subseteq Origin(Top.pipe)
       /\ DOMAIN Expanded(items, columns) \subseteq Origin(Top.pipe)
  <2>1. \A types : DOMAIN Dict(items, types) = Targets(items)
    BY ComputedDomains
  <2>2. /\ DOMAIN Captured(items, scope) \subseteq Targets(items)
        /\ DOMAIN Expanded(items, columns) \subseteq DOMAIN columns \cup Targets(items)
        /\ \A names : DOMAIN Narrowed(columns, names) \subseteq DOMAIN columns
    BY ComputedDomains
  <2> QED
    BY <1>7, <1>8, <2>1, <2>2
<1> HIDE DEF items, scope, columns
<1>14. CASE ReadColumns \/ SkipOther \/ EndRename \/ UnionDone
  BY <1>10, <1>14 DEF ReadColumns, SkipOther, EndRename, UnionDone, scope
<1>15. CASE Extend \/ Summarize
  BY <1>9, <1>11, <1>13, <1>15 DEF Extend, Summarize, items, scope
<1>16. CASE Project
  BY <1>9, <1>11, <1>13, <1>16 DEF Project, items, scope
<1>17. CASE ProjectAway \/ ProjectKeep
  BY <1>9, <1>12, <1>13, <1>17 DEF ProjectAway, ProjectKeep, items, scope, columns
<1>18. CASE Parse
  <2>1. Advance(IF Captured(items, scope) = EmptyMap THEN scope
                ELSE Append(scope, Anonymous(Captured(items, scope))))
    BY <1>18 DEF Parse, items, scope
  <2> QED
    BY <1>9, <1>10, <1>11, <1>13, <2>1
<1>19. CASE MvExpand
  BY <1>9, <1>12, <1>13, <1>19 DEF MvExpand, items, scope, columns
<1>20. CASE MakeSeries
  BY <1>9, <1>11, <1>13, <1>20 DEF MakeSeries, items, scope
<1> QED
  BY <1>14, <1>15, <1>16, <1>17, <1>18, <1>19, <1>20

LEMMA RenameNative ==
  ASSUME Inv, StackNative(stack), BeginRename \/ RenameColumn
  PROVE  StackNative(stack')
<1>1. stack # << >> /\ Top.pc \in DOMAIN OpsOf(Top)
  BY DEF BeginRename, RenameColumn, AtOp
<1> DEFINE items == OpOf(Top).items
           columns == ScopeColumns(Top.scope)
<1>2. Top \in Frame /\ Top.scope \in Seq(Entry) /\ Faithful(Drawn(Top), Top.scope)
  BY <1>1, TopProperties DEF Frame
<1>3. items \in Seq(Item(query))
  BY <1>1, <1>2, OpProperties
<1>4. columns \in ColumnMap
  BY <1>2, ScopeColumnsType
<1>5. Native(Top.pipe, Top.scope) /\ DOMAIN columns \subseteq Origin(Top.pipe)
  BY <1>1, TopNative, FlattenedNative
<1>6. ASSUME NEW m \in ColumnMap, DOMAIN m \subseteq Origin(Top.pipe), NEW n \in Nat,
             SetTop([Top EXCEPT !.sub = n, !.scope = <<Anonymous(m)>>])
      PROVE  StackNative(stack')
  <2> DEFINE f == [Top EXCEPT !.sub = n, !.scope = <<Anonymous(m)>>]
  <2>1. <<Anonymous(m)>> \in Seq(Entry) /\ Native(Top.pipe, <<Anonymous(m)>>)
    BY <1>2, <1>5, <1>6, AnonymousScopes, AnonymousNative
  <2>2. f \in Frame /\ f.pipe = Top.pipe /\ f.scope = <<Anonymous(m)>>
    BY <1>2, <2>1 DEF Frame
  <2>3. SetTop(f)
    BY <1>6
  <2> HIDE DEF f
  <2> QED
    BY <1>1, <2>1, <2>2, <2>3, SetTopNative
<1>7. CASE BeginRename
  <2>1. SetTop([Top EXCEPT !.sub = 1, !.scope = <<Anonymous(columns)>>])
    BY <1>7 DEF BeginRename
  <2> QED
    BY <1>4, <1>5, <1>6, <2>1
<1>8. CASE RenameColumn
  <2> DEFINE item == items[Top.sub]
             to == Renamed(columns, query.exprs[item.root].name, item.as)
  <2>1. Top.sub \in DOMAIN items /\ OpOf(Top).kind = "rename"
    BY <1>8 DEF RenameColumn, AtOp
  <2>2. SetTop([Top EXCEPT !.sub = @ + 1, !.scope = <<Anonymous(to)>>])
    BY <1>8 DEF RenameColumn
  <2>3. item \in Item(query) /\ item.as # NoName /\ item.part # "range"
    <3>1. item \in Item(query)
      BY <1>3, <2>1
    <3>2. IsPipeline(query, Top.pipe)
      BY <1>2, QueryStructure DEF Frame, Inv
    <3>3. \A i \in DOMAIN OpsOf(Top) :
            OpsOf(Top)[i].kind = "rename"
              => \A j \in DOMAIN OpsOf(Top)[i].items :
                   OpsOf(Top)[i].items[j].as # NoName /\ OpsOf(Top)[i].items[j].part # "range"
      BY <3>2 DEF IsPipeline, OpsOf
    <3> QED
      BY <1>1, <2>1, <3>1, <3>3 DEF OpOf
  <2>4. item.as \in Columns /\ item.as \in Targets(items)
    BY <2>1, <2>3 DEF Item, Targets, Target
  <2>5. item.as \in Origin(Top.pipe)
    BY <1>1, <1>2, <2>4, TargetsAreOrigins
  <2>6. to \in ColumnMap /\ DOMAIN to \subseteq Origin(Top.pipe)
    <3>1. to \in ColumnMap
      BY <1>3, <1>4, <2>4, ReshapedColumns DEF Inv
    <3>2. DOMAIN to \subseteq DOMAIN columns \cup {item.as}
      BY RenamedDomain
    <3> QED
      BY <1>5, <2>5, <3>1, <3>2
  <2>7. Top.sub + 1 \in Nat
    BY <1>2 DEF Frame
  <2> HIDE DEF to
  <2> QED
    BY <1>6, <2>2, <2>6, <2>7
<1> QED
  BY <1>7, <1>8

LEMMA CallsNative ==
  ASSUME Inv, StackNative(stack), Enrich \/ EnterSub
  PROVE  StackNative(stack')
<1>1. CASE Enrich
  <2>1. query.main \in DOMAIN query.pipes
    BY QueryStructure DEF Inv
  <2>2. Native(query.main, NewFrame(query.main).scope)
    BY <2>1, NewFrameNative
  <2>3. NewFrame(query.main).pipe = query.main
    BY DEF NewFrame
  <2> QED
    BY <1>1, <2>2, <2>3 DEF Enrich, StackNative
<1>2. CASE EnterSub
  <2> DEFINE f == [Top EXCEPT !.sub = @ + 1]
             d == OpOf(Top).subs[Top.sub + 1]
  <2>1. stack # << >> /\ Top.pc \in DOMAIN OpsOf(Top)
    BY <1>2 DEF EnterSub, AtOp
  <2>2. Top \in Frame /\ Top.sub + 1 \in Nat
    BY <2>1, TopProperties DEF Frame
  <2>3. f \in Frame /\ f.pipe = Top.pipe /\ f.scope = Top.scope
    BY <2>2 DEF Frame
  <2>4. OpOf(Top).subs \in Seq(DOMAIN query.pipes)
    BY <2>1, <2>2, OpProperties
  <2>5. d \in DOMAIN query.pipes
    BY <1>2, <2>2, <2>4 DEF EnterSub, Frame
  <2>6. NewFrame(d) \in Frame /\ NewFrame(d).pipe = d /\ Native(d, NewFrame(d).scope)
    BY <2>5, NewFrameProperties, NewFrameNative
  <2>7. Below \in Seq(Frame)
    BY <2>1, TopProperties
  <2>8. stack' = Append(Append(Below, f), NewFrame(d))
    BY <1>2 DEF EnterSub
  <2> HIDE DEF f, d
  <2>9. StackNative(Append(Below, f)) /\ Append(Below, f) \in Seq(Frame)
    <3> DEFINE n == Len(stack) - 1
    <3>1. n \in Nat /\ n <= Len(stack) /\ stack \in Seq(Frame)
      BY <2>1, TopProperties DEF Inv, TypeOK
    <3>2. Below = SubSeq(stack, 1, n)
      BY DEF Below
    <3> HIDE DEF n
    <3> QED
      BY <2>1, <2>3, <2>7, <3>1, <3>2, TopNative, ReplaceNative
  <2> QED
    BY <2>6, <2>8, <2>9, PushNative
<1> QED
  BY <1>1, <1>2

LEMMA ReturnsNative ==
  ASSUME Inv, StackNative(stack), JoinReturn \/ UnionMerge \/ UnionReturn
  PROVE  StackNative(stack')
<1> DEFINE n == Len(stack) - 2
           joined == Append(Caller.scope, Head(Top.scope))
<1>1. Len(stack) > 1 /\ stack # << >>
  BY DEF JoinReturn, UnionMerge, UnionReturn, ReturnedTo, Returned
<1>2. n \in Nat /\ n <= Len(stack) /\ stack \in Seq(Frame)
  BY <1>1 DEF Inv, TypeOK
<1>3. /\ Caller \in Frame
      /\ Caller.scope \in Seq(Entry)
      /\ Caller.pc + 1 \in Nat
      /\ Top.scope = << >> => OpOf(Caller).kind = "union"
  BY <1>1, CallerProperties DEF Frame
<1>4. Top \in Frame /\ Top.scope \in Seq(Entry)
  BY <1>1, TopProperties DEF Frame
<1>5. /\ Native(Caller.pipe, Caller.scope)
      /\ Native(Caller.pipe, Top.scope)
      /\ Native(Top.pipe, Top.scope)
  BY <1>1, CallerNative, TopNative
<1>6. ASSUME Top.scope # << >>
      PROVE  joined \in Seq(Entry) /\ Native(Caller.pipe, joined)
  <2>1. Head(Top.scope) \in Entry /\ 1 \in DOMAIN Top.scope /\ Head(Top.scope) = Top.scope[1]
    BY <1>4, <1>6
  <2>2. joined \in Seq(Entry)
    BY <1>3, <2>1
  <2>3. \A k \in DOMAIN joined :
          \/ k \in DOMAIN Caller.scope /\ joined[k] = Caller.scope[k]
          \/ joined[k] = Top.scope[1]
    BY <1>3, <2>1
  <2> QED
    BY <1>5, <2>1, <2>2, <2>3 DEF Native
<1>7. ASSUME NEW f \in Frame, Native(f.pipe, f.scope)
      PROVE  /\ StackNative(Append(SubSeq(stack, 1, n), f))
             /\ Append(SubSeq(stack, 1, n), f) \in Seq(Frame)
  <2> HIDE DEF n
  <2>1. SubSeq(stack, 1, n) \in Seq(Frame)
    BY <1>2, Prefix
  <2> QED
    BY <1>2, <1>7, <2>1, ReplaceNative
<1>8. CASE JoinReturn
  <2> DEFINE f == [Caller EXCEPT !.pc = @ + 1, !.sub = 0, !.scope = joined]
  <2>1. Top.scope # << >>
    BY <1>3, <1>8 DEF JoinReturn, ReturnedTo
  <2>2. f \in Frame /\ f.pipe = Caller.pipe /\ f.scope = joined
    BY <1>3, <1>6, <2>1 DEF Frame
  <2>3. stack' = Append(SubSeq(stack, 1, n), f)
    BY <1>8 DEF JoinReturn, PopTo
  <2> HIDE DEF f, joined, n
  <2> QED
    BY <1>6, <1>7, <2>1, <2>2, <2>3
<1>9. CASE UnionMerge
  <2> DEFINE merged == IF InScope(Head(Top.scope), Caller.scope) THEN Caller.scope ELSE joined
             f == [Caller EXCEPT !.scope = merged]
             g == [Top EXCEPT !.scope = Tail(@)]
  <2>1. Top.scope # << >>
    BY <1>9 DEF UnionMerge
  <2>2. merged \in Seq(Entry) /\ Native(Caller.pipe, merged)
    BY <1>3, <1>5, <1>6, <2>1
  <2>3. stack' = Append(Append(SubSeq(stack, 1, n), f), g)
    BY <1>9 DEF UnionMerge
  <2> HIDE DEF joined, merged, n
  <2>4. f \in Frame /\ f.pipe = Caller.pipe /\ f.scope = merged
    BY <1>3, <2>2 DEF Frame
  <2>5. Tail(Top.scope) \in Seq(Entry) /\ Native(Top.pipe, Tail(Top.scope))
    <3>1. /\ Tail(Top.scope) \in Seq(Entry)
          /\ Len(Tail(Top.scope)) = Len(Top.scope) - 1
          /\ \A i \in 1 .. Len(Tail(Top.scope)) : Tail(Top.scope)[i] = Top.scope[i + 1]
      BY <1>4, <2>1, HeadTailProperties
    <3>2. \A i \in DOMAIN Tail(Top.scope) :
            i + 1 \in DOMAIN Top.scope /\ Tail(Top.scope)[i] = Top.scope[i + 1]
      BY <1>4, <3>1
    <3> QED
      BY <1>5, <3>1, <3>2 DEF Native
  <2>6. g \in Frame /\ g.pipe = Top.pipe /\ g.scope = Tail(Top.scope)
    BY <1>4, <2>5 DEF Frame
  <2> HIDE DEF f, g
  <2> QED
    BY <1>7, <2>2, <2>3, <2>4, <2>5, <2>6, PushNative
<1>10. CASE UnionReturn
  <2>1. stack' = Append(SubSeq(stack, 1, n), Caller)
    BY <1>10 DEF UnionReturn, PopTo
  <2> QED
    BY <1>3, <1>5, <1>7, <2>1
<1> QED
  BY <1>8, <1>9, <1>10

LEMMA EndsNative ==
  ASSUME Inv, StackNative(stack), EndPipeline \/ Finish
  PROVE  StackNative(stack')
<1>1. CASE EndPipeline
  <2> DEFINE f == [Top EXCEPT !.pc = @ + 1]
  <2>1. stack # << >> /\ SetTop(f)
    BY <1>1 DEF EndPipeline
  <2>2. Top \in Frame /\ Top.pc + 1 \in Nat
    BY <2>1, TopProperties DEF Frame
  <2>3. f \in Frame /\ f.pipe = Top.pipe /\ f.scope = Top.scope
    BY <2>2 DEF Frame
  <2> HIDE DEF f
  <2> QED
    BY <2>1, <2>3, TopNative, SetTopNative
<1>2. CASE Finish
  BY <1>2 DEF Finish, StackNative
<1> QED
  BY <1>1, <1>2

-----------------------------------------------------------------------------
(* The results.                                                            *)

\* Only the end of a pipeline writes a result, and it writes the top scope.
LEMMA ResultsNative ==
  ASSUME Inv, Origins, Next, NEW p \in DOMAIN query.pipes, result'[p] # NoSchema
  PROVE  DOMAIN result'[p] \subseteq Origin(p)
<1>1. result[p] # NoSchema => DOMAIN result[p] \subseteq Origin(p)
  BY DEF Origins, ColumnsHaveOrigin, Origin
<1>2. CASE EndPipeline
  <2>1. stack # << >> /\ result' = [result EXCEPT ![Top.pipe] = ScopeColumns(Top.scope)]
    BY <1>2 DEF EndPipeline
  <2>2. DOMAIN ScopeColumns(Top.scope) \subseteq Origin(Top.pipe)
    BY <2>1, TopNative, FlattenedNative DEF Origins
  <2>3. DOMAIN result = DOMAIN query.pipes
    BY DEF Inv, TypeOK
  <2> QED
    BY <1>1, <2>1, <2>2, <2>3
<1>3. CASE ~EndPipeline
  <2>1. UNCHANGED result
    BY <1>3 DEF Next, Walk, Enrich, ReadColumns, Extend, Summarize, Project, BeginRename,
           RenameColumn, EndRename, ProjectAway, ProjectKeep, Parse, MvExpand, MakeSeries,
           SkipOther, EnterSub, JoinReturn, UnionMerge, UnionReturn, UnionDone, Finish
  <2> QED
    BY <1>1, <2>1
<1> QED
  BY <1>2, <1>3

LEMMA StepKeepsOrigins ==
  ASSUME Inv, Origins, [Next]_vars
  PROVE  Origins'
<1>1. UNCHANGED input
  BY DEF Next, Walk, Enrich, ReadColumns, Extend, Summarize, Project, BeginRename,
         RenameColumn, EndRename, ProjectAway, ProjectKeep, Parse, MvExpand, MakeSeries,
         SkipOther, EnterSub, EndPipeline, JoinReturn, UnionMerge, UnionReturn, UnionDone,
         Finish, vars, input
<1>2. query' = query /\ \A p, c : c \in Origin(p)' <=> c \in Origin(p)
  BY <1>1, SameOrigins DEF input
<1>3. StackNative(stack')
  <2>1. CASE Next
    BY <2>1, OperatorsNative, RenameNative, CallsNative, ReturnsNative, EndsNative
       DEF Next, Walk, Origins
  <2>2. CASE UNCHANGED vars
    BY <2>2 DEF vars, Origins
  <2> QED
    BY <2>1, <2>2
<1>4. \A p \in DOMAIN query.pipes :
        result'[p] # NoSchema => DOMAIN result'[p] \subseteq Origin(p)
  <2>1. CASE Next
    BY <2>1, ResultsNative
  <2>2. CASE UNCHANGED vars
    BY <2>2 DEF vars, Origins, ColumnsHaveOrigin, Origin
  <2> QED
    BY <2>1, <2>2
<1>5. StackNative(stack)'
  BY <1>2, <1>3 DEF StackNative, Native
<1>6. ColumnsHaveOrigin'
  <2> SUFFICES ASSUME NEW p \in DOMAIN query.pipes, result'[p] # NoSchema,
                      NEW c \in DOMAIN result'[p]
               PROVE  \/ c \in Named(p)'
                      \/ \E t \in Cone(query', p) : c \in DOMAIN TableSchema(t)'
    BY <1>2 DEF ColumnsHaveOrigin
  <2>1. c \in Origin(p)'
    BY <1>2, <1>4
  <2> QED
    BY <2>1 DEF Origin
<1> QED
  BY <1>5, <1>6 DEF Origins

\* A column of a pipeline's result_schema comes from a table the pipeline reads
\* or is named by one of its operators, however pipelines nest and however often
\* enrich() is called.
THEOREM ColumnsHaveOriginHolds == Spec => []ColumnsHaveOrigin
<1>1. Init => Origins
  BY DEF Init, Origins, StackNative, ColumnsHaveOrigin
<1>2. Inv /\ Origins /\ [Next]_vars => Origins'
  BY StepKeepsOrigins
<1>3. Origins => ColumnsHaveOrigin
  BY DEF Origins
<1> QED
  BY <1>1, <1>2, <1>3, Invariance, PTL DEF Spec

(***************************************************************************)
(* What a walk leaves behind, for every query and any number of calls.     *)
(*                                                                         *)
(* The invariant is that what has been walked could be walked again, with  *)
(* the marks there are now, through the same scopes and to the same marks  *)
(* and results: there is a trace, the scopes between the operators of      *)
(* every pipeline, that agrees with the marks as far as the walk has come  *)
(* and with the scope of every active call.  Filling one operator's items  *)
(* disturbs no other operator's part of the trace, for no node is listed   *)
(* by two.                                                                 *)
(***************************************************************************)

-----------------------------------------------------------------------------
(* Taking a branch's entries.                                              *)

With(scope, entry) == IF InScope(entry, scope) THEN scope ELSE Append(scope, entry)

IsTaking(m, s, t) ==
  m = [k \in 0 .. Len(t) |-> IF k = 0 THEN s ELSE With(m[k - 1], t[k])]

\* The scope a union has after each of a branch's entries t, from the scope s.
Taking(s, t) == CHOOSE m : IsTaking(m, s, t)
Taken(s, t) == Taking(s, t)[Len(t)]

LEMMA RangeOfAppend ==
  ASSUME NEW S, NEW s \in Seq(S), NEW e \in S
  PROVE  Append(s, e) \in Seq(S) /\ Range(Append(s, e)) = Range(s) \cup {e}
<1>1. PICK n \in Nat : n = Len(s) /\ DOMAIN s = 1 .. n
  BY LenProperties
<1>2. PICK a : a = Append(s, e)
  OBVIOUS
<1>3. a \in Seq(S) /\ Len(a) = n + 1 /\ (\A k \in 1 .. n : a[k] = s[k]) /\ a[n + 1] = e
  BY <1>1, <1>2, AppendProperties
<1>4. DOMAIN a = 1 .. n + 1
  BY <1>3, LenProperties
<1>5. \A k \in 1 .. n + 1 : k \in 1 .. n \/ k = n + 1
  OBVIOUS
<1>6. 1 .. n \subseteq 1 .. n + 1 /\ n + 1 \in 1 .. n + 1
  OBVIOUS
<1>7. Range(a) = Range(s) \cup {e}
  BY <1>1, <1>3, <1>4, <1>5, <1>6 DEF Range
<1> QED
  BY <1>2, <1>3, <1>7

LEMMA WithType ==
  ASSUME NEW s \in Seq(Entry), NEW e \in Entry
  PROVE  With(s, e) \in Seq(Entry) /\ Range(With(s, e)) = Range(s) \cup {e}
<1>1. CASE InScope(e, s)
  BY <1>1 DEF With, InScope, Range
<1>2. CASE ~ InScope(e, s)
  <2>1. With(s, e) = Append(s, e)
    BY <1>2 DEF With
  <2>2. Append(s, e) \in Seq(Entry) /\ Range(Append(s, e)) = Range(s) \cup {e}
    BY RangeOfAppend
  <2> QED
    BY <2>1, <2>2
<1> QED
  BY <1>1, <1>2

LEMMA TakingExists ==
  ASSUME NEW s \in Seq(Entry), NEW t \in Seq(Entry)
  PROVE  IsTaking(Taking(s, t), s, t)
<1> DEFINE N == Len(t)
           D == 0 .. N
           S == Seq(Entry)
           rank == [k \in D |-> k]
           body(f) == [k \in D |-> IF k = 0 THEN s ELSE With(f[k - 1], t[k])]
           F == [f \in [D -> S] |-> body(f)]
<1>1. N \in Nat /\ S # {} /\ rank \in [D -> 0 .. N]
  <2>1. s \in S /\ N \in Nat
    BY LenProperties
  <2> QED
    BY <2>1
<1>2. ASSUME NEW f \in [D -> S] PROVE body(f) \in [D -> S]
  <2>1. ASSUME NEW k \in D PROVE (IF k = 0 THEN s ELSE With(f[k - 1], t[k])) \in S
    <3>1. CASE k = 0
      BY <3>1
    <3>2. CASE k # 0
      <4>1. k - 1 \in D /\ k \in 1 .. N
        BY <1>1, <3>2
      <4>2. f[k - 1] \in Seq(Entry) /\ t[k] \in Entry
        BY <4>1, ElementOfSeq
      <4> QED
        BY <3>2, <4>2, WithType
    <3> QED
      BY <3>1, <3>2
  <2> QED
    BY <2>1
<1>3. F \in [[D -> S] -> [D -> S]]
  <2> HIDE DEF body
  <2> QED
    BY <1>2
<1>4. ASSUME NEW f \in [D -> S], NEW g \in [D -> S], NEW k \in D,
             \A m \in D : rank[m] < rank[k] => f[m] = g[m]
      PROVE  F[f][k] = F[g][k]
  <2>1. k # 0 => k - 1 \in D /\ rank[k - 1] < rank[k]
    BY <1>1
  <2>2. k # 0 => f[k - 1] = g[k - 1]
    BY <1>4, <2>1
  <2> QED
    BY <2>2
<1> HIDE DEF F, D, S, N, rank
<1>5. IsRecursion(F, D, S, N, rank)
  BY <1>1, <1>3, <1>4 DEF IsRecursion
<1>6. PICK f \in [D -> S] : f = F[f]
  BY <1>5, RecursionByRank
<1>7. IsTaking(f, s, t)
  BY <1>6 DEF IsTaking, F, D, N
<1> QED
  BY <1>7 DEF Taking

\* A union's scope while it takes a branch's entries one by one.
LEMMA TakingSteps ==
  ASSUME NEW s \in Seq(Entry), NEW t \in Seq(Entry)
  PROVE  /\ Taking(s, t)[0] = s
         /\ \A k \in 1 .. Len(t) : Taking(s, t)[k] = With(Taking(s, t)[k - 1], t[k])
<1> DEFINE m == Taking(s, t)
<1>1. IsTaking(m, s, t)
  BY TakingExists
<1> HIDE DEF m
<1>2. PICK n \in Nat : n = Len(t)
  BY LenProperties
<1>3. \A k \in 0 .. n : m[k] = IF k = 0 THEN s ELSE With(m[k - 1], t[k])
  BY <1>1, <1>2 DEF IsTaking
<1>4. 0 \in 0 .. n /\ \A k \in 1 .. n : k \in 0 .. n /\ k # 0
  OBVIOUS
<1>5. m[0] = s /\ \A k \in 1 .. n : m[k] = With(m[k - 1], t[k])
  BY <1>3, <1>4
<1> QED
  BY <1>2, <1>5 DEF m

\* It keeps the entries it had and takes all the others.
LEMMA TakenHasAll ==
  ASSUME NEW s \in Seq(Entry), NEW t \in Seq(Entry)
  PROVE  Range(s) \cup Range(t) \subseteq Range(Taken(s, t))
<1>1. PICK n \in Nat : n = Len(t) /\ DOMAIN t = 1 .. n
  BY LenProperties
<1>2. PICK m : m = Taking(s, t)
  OBVIOUS
<1>3. m[0] = s /\ \A k \in 1 .. n : m[k] = With(m[k - 1], t[k])
  BY <1>1, <1>2, TakingSteps
<1> DEFINE T == {k \in Nat : k <= n =>
                   /\ m[k] \in Seq(Entry)
                   /\ Range(s) \subseteq Range(m[k])
                   /\ \A i \in 1 .. k : t[i] \in Range(m[k])}
<1>4. 0 \in T
  BY <1>3
<1>5. ASSUME NEW k \in Nat, k \in T PROVE k + 1 \in T
  <2> SUFFICES ASSUME k + 1 <= n
               PROVE  /\ m[k + 1] \in Seq(Entry)
                      /\ Range(s) \subseteq Range(m[k + 1])
                      /\ \A i \in 1 .. k + 1 : t[i] \in Range(m[k + 1])
    OBVIOUS
  <2>1. /\ m[k] \in Seq(Entry) /\ Range(s) \subseteq Range(m[k])
        /\ \A i \in 1 .. k : t[i] \in Range(m[k])
    BY <1>5
  <2>2. k + 1 \in 1 .. n /\ k + 1 - 1 = k
    OBVIOUS
  <2>3. m[k + 1] = With(m[k], t[k + 1]) /\ t[k + 1] \in Entry
    <3>1. m[k + 1] = With(m[k + 1 - 1], t[k + 1])
      BY <1>3, <2>2
    <3>2. t[k + 1] \in Entry
      BY <1>1, <2>2, ElementOfSeq
    <3> QED
      BY <2>2, <3>1, <3>2
  <2>4. m[k + 1] \in Seq(Entry) /\ Range(m[k + 1]) = Range(m[k]) \cup {t[k + 1]}
    <3>1. PICK u \in Seq(Entry) : u = m[k]
      BY <2>1
    <3>2. PICK e \in Entry : e = t[k + 1]
      BY <2>3
    <3> QED
      BY <2>3, <3>1, <3>2, WithType
  <2>5. \A i \in 1 .. k + 1 : i \in 1 .. k \/ i = k + 1
    OBVIOUS
  <2> QED
    BY <2>1, <2>4, <2>5
<1> HIDE DEF T
<1>6. n \in T
  BY <1>4, <1>5, InductionOverNat
<1>7. Range(s) \subseteq Range(m[n]) /\ \A i \in 1 .. n : t[i] \in Range(m[n])
  BY <1>6 DEF T
<1>8. Taken(s, t) = m[n]
  BY <1>1, <1>2 DEF Taken
<1>9. \A e \in Range(t) : \E i \in 1 .. n : e = t[i]
  BY <1>1 DEF Range
<1> QED
  BY <1>7, <1>8, <1>9

-----------------------------------------------------------------------------
(* The operators of a pipeline and the nodes they list.                    *)

Ops(p) == query.pipes[p].ops

LEMMA OpFacts ==
  ASSUME Inputs, NEW p \in DOMAIN query.pipes, NEW j \in DOMAIN Ops(p)
  PROVE  /\ Ops(p)[j].kind \in OpKinds
         /\ Ops(p)[j].items \in Seq(Item(query))
         /\ Ops(p)[j].subs \in Seq(DOMAIN query.pipes)
         /\ Ops(p)[j].kind = "join" => Len(Ops(p)[j].subs) = 1
         /\ Ops(p)[j].kind = "union" => Ops(p)[j].items = << >>
         /\ \A k \in DOMAIN Ops(p)[j].subs :
              query.nested[Ops(p)[j].subs[k]] = query.nested[p] \cup {p}
<1>1. Ops(p) \in Seq(Op(query)) /\ IsPipeline(query, p)
  BY QueryStructure DEF Ops
<1>2. Ops(p)[j] \in Op(query)
  BY <1>1, ElementOfSeq
<1>3. /\ Ops(p)[j].kind = "join" => Len(Ops(p)[j].subs) = 1
      /\ Ops(p)[j].kind = "union" => Ops(p)[j].items = << >>
      /\ \A k \in DOMAIN Ops(p)[j].subs :
           query.nested[Ops(p)[j].subs[k]] = query.nested[p] \cup {p}
  BY <1>1 DEF IsPipeline, Ops
<1> QED
  BY <1>2, <1>3 DEF Op

LEMMA OpsLength ==
  ASSUME Inputs, NEW p \in DOMAIN query.pipes
  PROVE  Len(Ops(p)) \in Nat /\ DOMAIN Ops(p) = 1 .. Len(Ops(p))
<1>1. Ops(p) \in Seq(Op(query))
  BY QueryStructure DEF Ops
<1> QED
  BY <1>1, LenProperties

\* An operator's fill visits nodes it lists.
LEMMA VisitedIsListed ==
  ASSUME NEW op
  PROVE  Visited(op.items) \subseteq ListedBy(query, op)
BY DEF Visited, Reached, ListedBy

\* No node is listed by two operators.
LEMMA ListedOnce ==
  ASSUME Inputs, NEW p \in DOMAIN query.pipes, NEW j \in DOMAIN Ops(p),
         NEW d \in DOMAIN query.pipes, NEW i \in DOMAIN Ops(d), d # p \/ i # j
  PROVE  ListedBy(query, Ops(d)[i]) \cap ListedBy(query, Ops(p)[j]) = {}
<1>1. IsPipeline(query, p) /\ IsPipeline(query, d)
  BY QueryStructure
<1>2. CASE d = p
  BY <1>1, <1>2 DEF IsPipeline, Ops
<1>3. CASE d # p
  <2>1. \A e \in ListedBy(query, Ops(d)[i]) : query.home[e] = d
    BY <1>1 DEF IsPipeline, Ops
  <2>2. \A e \in ListedBy(query, Ops(p)[j]) : query.home[e] = p
    BY <1>1 DEF IsPipeline, Ops
  <2> QED
    BY <1>3, <2>1, <2>2
<1> QED
  BY <1>2, <1>3

-----------------------------------------------------------------------------
(* Filling twice is filling once.                                          *)

LEMMA SameMarks ==
  ASSUME UNCHANGED input, NEW e, table'[e] = table[e], rtype'[e] = rtype[e], NEW scope
  PROVE  OwnerIn(e, scope)' = OwnerIn(e, scope) /\ TypeIn(e, scope)' = TypeIn(e, scope)
<1>1. query' = query /\ schemas' = schemas
  BY DEF input
<1>2. OwnerIn(e, scope)' = OwnerIn(e, scope)
  BY <1>1 DEF OwnerIn
<1>3. \A t, c : SchemaType(t, c)' = SchemaType(t, c)
  BY <1>1 DEF SchemaType, TableSchema
<1> QED
  BY <1>1, <1>2, <1>3 DEF TypeIn

\* The nodes an operator's fill visits have the marks it gives them.
Settled(items, scope) ==
  \A e \in Visited(items) : OwnerIn(e, scope) = table[e] /\ TypeIn(e, scope) = rtype[e]

LEMMA FillSettles ==
  ASSUME Inputs, MarksOK, NEW items, NEW scope \in Seq(Entry), Fill(items, scope),
         UNCHANGED input
  PROVE  Settled(items, scope)'
<1>1. query' = query /\ schemas' = schemas
  BY DEF input
<1>2. Visited(items)' = Visited(items)
  BY <1>1 DEF Visited
<1>3. ASSUME NEW e \in Visited(items)
      PROVE  OwnerIn(e, scope)' = table'[e] /\ TypeIn(e, scope)' = rtype'[e]
  <2>1. e \in DOMAIN query.exprs
    BY <1>3 DEF Visited, Reached
  <2>2. DOMAIN table = DOMAIN query.exprs /\ DOMAIN rtype = DOMAIN query.exprs
    BY DEF MarksOK
  <2>3. table'[e] = OwnerIn(e, scope) /\ rtype'[e] = TypeIn(e, scope)
    BY <2>1, <2>2, <1>3 DEF Fill
  <2>4. OwnerIn(e, scope)' = table'[e]
    <3>1. CASE query.exprs[e].form # "column"
      BY <1>1, <3>1 DEF OwnerIn
    <3>2. CASE query.exprs[e].form = "column" /\ table'[e] = table[e]
      <4>1. OwnerIn(e, scope)' = OwnerIn(e, scope)
        BY <1>1, <3>2 DEF OwnerIn
      <4> QED
        BY <2>3, <4>1
    <3>3. CASE query.exprs[e].form = "column" /\ table'[e] # table[e]
      <4>1. table'[e] \in Tables
        BY <2>1, <2>3, <3>3, OwnerInProperties
      <4>2. table'[e] \notin Sides /\ table'[e] # NoTable
        BY <4>1, NamesAssumption
      <4> QED
        BY <1>1, <3>3, <4>2 DEF OwnerIn
    <3> QED
      BY <3>1, <3>2, <3>3
  <2>5. TypeIn(e, scope)' = rtype'[e]
    <3>1. \A t, c : SchemaType(t, c)' = SchemaType(t, c)
      BY <1>1 DEF SchemaType, TableSchema
    <3>2. OwnerIn(e, scope)' = OwnerIn(e, scope)
      BY <2>3, <2>4
    <3>3. CASE rtype'[e] # "unknown"
      BY <3>3 DEF TypeIn
    <3>4. CASE rtype'[e] = "unknown"
      <4>1. rtype[e] = "unknown"
        BY <2>3, <3>4 DEF TypeIn
      <4>2. TypeIn(e, scope)' = TypeIn(e, scope)
        BY <1>1, <3>1, <3>2, <3>4, <4>1 DEF TypeIn
      <4> QED
        BY <2>3, <4>2
    <3> QED
      BY <3>3, <3>4
  <2> QED
    BY <2>4, <2>5
<1> QED
  BY <1>2, <1>3 DEF Settled

\* A fill changes the type no operator reads of a node, before or after it.
LEMMA FillKeepsTypes ==
  ASSUME Inputs, MarksOK, NEW items, NEW scope \in Seq(Entry), Fill(items, scope),
         UNCHANGED input, NEW e \in DOMAIN query.exprs
  PROVE  TypeIn(e, scope)' = TypeIn(e, scope)
<1>1. DOMAIN table = DOMAIN query.exprs /\ DOMAIN rtype = DOMAIN query.exprs
  BY DEF MarksOK
<1>2. CASE e \in Visited(items)
  <2>1. rtype'[e] = TypeIn(e, scope)
    BY <1>1, <1>2 DEF Fill
  <2>2. Settled(items, scope)'
    BY FillSettles
  <2>3. Visited(items)' = Visited(items)
    BY DEF input, Visited
  <2> QED
    BY <1>2, <2>1, <2>2, <2>3 DEF Settled
<1>3. CASE e \notin Visited(items)
  <2>1. table'[e] = table[e] /\ rtype'[e] = rtype[e]
    BY <1>1, <1>3 DEF Fill
  <2> QED
    BY <2>1, SameMarks
<1> QED
  BY <1>2, <1>3

\* A fill of what is settled changes nothing.
LEMMA FillSettled ==
  ASSUME MarksOK, NEW items, NEW scope, Settled(items, scope), Fill(items, scope)
  PROVE  UNCHANGED marks
<1>1. /\ table \in [DOMAIN query.exprs -> Owners]
      /\ rtype \in [DOMAIN query.exprs -> KustoTypes]
  BY DEF MarksOK
<1>2. \A e \in DOMAIN query.exprs :
        (IF e \in Visited(items) THEN OwnerIn(e, scope) ELSE table[e]) = table[e]
  BY DEF Settled
<1>3. \A e \in DOMAIN query.exprs :
        (IF e \in Visited(items) THEN TypeIn(e, scope) ELSE rtype[e]) = rtype[e]
  BY DEF Settled
<1>4. table' = table
  BY <1>1, <1>2 DEF Fill
<1>5. rtype' = rtype
  BY <1>1, <1>3 DEF Fill
<1> QED
  BY <1>4, <1>5 DEF marks

-----------------------------------------------------------------------------
(* Traces.                                                                 *)
(*                                                                         *)
(* A position of a walk is <<p, j, k>>: in pipeline p, before the k-th     *)
(* part of its j-th operator.  A rename has a part for every column and a  *)
(* union one for every branch.                                             *)

Walks == [(DOMAIN query.pipes) \X Nat \X Nat -> Seq(Entry)]

Parts(op) == IF op.kind = "rename" THEN Len(op.items) + 1
             ELSE IF op.kind = "union" THEN Len(op.subs)
             ELSE 0

\* The position after <<p, j, k>>, and the scope a pipeline is left with.
Then(p, j, k) == IF k < Parts(Ops(p)[j]) THEN <<p, j, k + 1>> ELSE <<p, j + 1, 0>>
End(at, p) == at[<<p, Len(Ops(p)) + 1, 0>>]

\* The scope after an operator that is walked in one step.
After(op, s) ==
  CASE op.kind = "extend"     -> Append(s, Anonymous(Dict(op.items, TypesIn(op.items, s))))
    [] op.kind = "summarize"  -> <<Anonymous(Dict(op.items, TypesIn(op.items, s)))>>
    [] op.kind = "project"    -> <<Anonymous(Dict(op.items, ProjectedTypes(op.items, s)))>>
    [] op.kind = "away"       -> <<Anonymous(Narrowed(ScopeColumns(s), Columns \ Targets(op.items)))>>
    [] op.kind = "keep"       -> <<Anonymous(Narrowed(ScopeColumns(s), Targets(op.items)))>>
    [] op.kind = "parse"      -> IF Captured(op.items, s) = EmptyMap THEN s
                                 ELSE Append(s, Anonymous(Captured(op.items, s)))
    [] op.kind = "mvexpand"   -> <<Anonymous(Expanded(op.items, ScopeColumns(s)))>>
    [] op.kind = "makeseries" -> <<Anonymous(Dict(op.items, SeriesTypes(op.items, s)))>>
    [] OTHER -> s

\* The scope after the k-th part of an operator.
NextScope(at, op, k, s) ==
  CASE op.kind = "join" -> Append(s, Head(End(at, op.subs[1])))
    [] op.kind = "rename" /\ k = 0 -> <<Anonymous(ScopeColumns(s))>>
    [] op.kind = "rename" /\ k \in DOMAIN op.items ->
         <<Anonymous(Renamed(ScopeColumns(s), query.exprs[op.items[k].root].name, op.items[k].as))>>
    [] op.kind = "union" /\ k < Len(op.subs) -> Taken(s, End(at, op.subs[k + 1]))
    [] OTHER -> After(op, s)

FillsAt(op, k) == k = 0 /\ op.kind \notin {"union", "other"}
FillScope(at, op, s) == IF op.kind = "join" THEN NextScope(at, op, 0, s) ELSE s

\* The pipeline this part of the operator reads has been walked.
Ready(op, k) ==
  /\ op.kind = "join" => result[op.subs[1]] # NoSchema
  /\ op.kind = "union" /\ k < Len(op.subs) => result[op.subs[k + 1]] # NoSchema

\* Walked now, this part of operator op leads from scope s to scope t and changes
\* no mark.
Leads(at, op, k, s, t) ==
  /\ Ready(op, k)
  /\ t = NextScope(at, op, k, s)
  /\ FillsAt(op, k) => Settled(op.items, FillScope(at, op, s))

Earlier(j, k, J, K) == j < J \/ (j = J /\ k < K)

LeadsAt(at, p, j, k) == Leads(at, Ops(p)[j], k, at[<<p, j, k>>], at[Then(p, j, k)])

\* The trace holds for pipeline p up to <<p, J, K>>.
WalkedUpTo(at, p, J, K) ==
  \A j \in DOMAIN Ops(p) : \A k \in 0 .. Parts(Ops(p)[j]) :
    Earlier(j, k, J, K) => LeadsAt(at, p, j, k)

-----------------------------------------------------------------------------
(* What a step keeps of a trace.                                           *)

\* Everything an operator lists has the marks it had.
SameMarksAt(op) ==
  \A e \in ListedBy(query, op) : table'[e] = table[e] /\ rtype'[e] = rtype[e]

ResultsKept ==
  \A d \in DOMAIN query.pipes : result[d] # NoSchema => result'[d] # NoSchema

\* The pipelines this part of the operator reads end in the same scope.
SameEnds(at, bt, op, k) ==
  /\ op.kind = "join" => End(bt, op.subs[1]) = End(at, op.subs[1])
  /\ op.kind = "union" /\ k < Len(op.subs) => End(bt, op.subs[k + 1]) = End(at, op.subs[k + 1])

SameTypes(items, s) ==
  \A i \in DOMAIN items : TypeIn(items[i].root, s)' = TypeIn(items[i].root, s)

LEMMA ItemsSame ==
  ASSUME UNCHANGED input, NEW S, NEW items \in Seq(S), NEW s, SameTypes(items, s)
  PROVE  /\ Targets(items)' = Targets(items)
         /\ \A types : Dict(items, types)' = Dict(items, types)
         /\ TypesIn(items, s)' = TypesIn(items, s)
         /\ ProjectedTypes(items, s)' = ProjectedTypes(items, s)
         /\ Captured(items, s)' = Captured(items, s)
         /\ SeriesTypes(items, s)' = SeriesTypes(items, s)
         /\ \A m : Expanded(items, m)' = Expanded(items, m)
<1>1. query' = query /\ schemas' = schemas
  BY DEF input
<1>2. \A item : Target(item)' = Target(item)
  BY <1>1 DEF Target
<1>3. Targets(items)' = Targets(items) /\ \A c : LastFor(items, c)' = LastFor(items, c)
  BY <1>2 DEF Targets, LastFor
<1>4. \A types : Dict(items, types)' = Dict(items, types)
  BY <1>3 DEF Dict
<1>5. TypesIn(items, s)' = TypesIn(items, s) /\ SeriesTypes(items, s)' = SeriesTypes(items, s)
  BY DEF TypesIn, SeriesTypes, SameTypes
<1>6. ProjectedTypes(items, s)' = ProjectedTypes(items, s)
  BY <1>2 DEF ProjectedTypes, SameTypes
<1>7. \A c : Captures(items, c)' = Captures(items, c)
  BY <1>1, <1>2 DEF Captures, IsParsedColumn
<1>8. Captured(items, s)' = Captured(items, s)
  <2>1. ASSUME NEW c, Captures(items, c) # {}
        PROVE  LastOf(Captures(items, c)) \in DOMAIN items
    <3>1. Captures(items, c) \subseteq 1 .. Len(items) /\ Len(items) \in Nat
      BY DEF Captures
    <3> QED
      BY <2>1, <3>1, LastOfExists
  <2>2. \A i \in DOMAIN items : TypeIn(items[i].root, s)' = TypeIn(items[i].root, s)
    BY DEF SameTypes
  <2> QED
    BY <1>3, <1>7, <2>1, <2>2 DEF Captured
<1>9. \A c : Expansions(items, c)' = Expansions(items, c)
  BY <1>1, <1>2 DEF Expansions
<1>10. \A m : Expanded(items, m)' = Expanded(items, m)
  BY <1>1, <1>3, <1>9 DEF Expanded
<1> QED
  BY <1>3, <1>4, <1>5, <1>6, <1>8, <1>10

LEMMA AfterSame ==
  ASSUME UNCHANGED input, NEW S, NEW op, op.items \in Seq(S), NEW s, SameTypes(op.items, s)
  PROVE  After(op, s)' = After(op, s)
<1>1. /\ Targets(op.items)' = Targets(op.items)
      /\ \A types : Dict(op.items, types)' = Dict(op.items, types)
      /\ TypesIn(op.items, s)' = TypesIn(op.items, s)
      /\ ProjectedTypes(op.items, s)' = ProjectedTypes(op.items, s)
      /\ Captured(op.items, s)' = Captured(op.items, s)
      /\ SeriesTypes(op.items, s)' = SeriesTypes(op.items, s)
      /\ \A m : Expanded(op.items, m)' = Expanded(op.items, m)
  BY ItemsSame
<1> QED
  BY <1>1 DEF After

LEMMA NextScopeSame ==
  ASSUME UNCHANGED input, NEW S, NEW op, op.items \in Seq(S),
         NEW s, op.kind # "join" => SameTypes(op.items, s),
         NEW at, NEW bt, NEW k, SameEnds(at, bt, op, k)
  PROVE  NextScope(bt, op, k, s)' = NextScope(at, op, k, s)
<1>1. op.kind # "join" => After(op, s)' = After(op, s)
  BY AfterSame
<1>2. query' = query /\ \A d : End(bt, d)' = End(bt, d)
  BY DEF input, End, Ops
<1> HIDE DEF End
<1>3. CASE op.kind = "join"
  BY <1>2, <1>3 DEF NextScope, SameEnds
<1>4. CASE op.kind = "rename"
  BY <1>1, <1>2, <1>4 DEF NextScope
<1>5. CASE op.kind = "union"
  BY <1>1, <1>2, <1>5 DEF NextScope, SameEnds
<1>6. CASE op.kind \notin {"join", "rename", "union"}
  BY <1>1, <1>6 DEF NextScope
<1> QED
  BY <1>3, <1>4, <1>5, <1>6

\* A part of an operator leads where it did when nothing it reads has changed.
LEMMA LeadsSame ==
  ASSUME Inputs, UNCHANGED input, ResultsKept, NEW p \in DOMAIN query.pipes,
         NEW j \in DOMAIN Ops(p), NEW op, op = Ops(p)[j], SameMarksAt(op),
         NEW at, NEW bt, NEW k \in Nat, SameEnds(at, bt, op, k), NEW s, NEW t,
         Leads(at, op, k, s, t)
  PROVE  Leads(bt, op, k, s, t)'
<1>1. query' = query
  BY DEF input
<1>2. /\ op.items \in Seq(Item(query)) /\ op.subs \in Seq(DOMAIN query.pipes)
      /\ op.kind = "join" => Len(op.subs) = 1
  BY OpFacts
<1>3. ASSUME NEW e \in ListedBy(query, op), NEW scope
      PROVE  OwnerIn(e, scope)' = OwnerIn(e, scope) /\ TypeIn(e, scope)' = TypeIn(e, scope)
  BY SameMarks DEF SameMarksAt
<1>4. \A scope : SameTypes(op.items, scope)
  <2>1. ASSUME NEW i \in DOMAIN op.items PROVE op.items[i].root \in ListedBy(query, op)
    <3>1. op.items[i] \in Item(query)
      BY <1>2, ElementOfSeq
    <3> QED
      BY <3>1 DEF ListedBy, Item
  <2> QED
    BY <1>3, <2>1 DEF SameTypes
<1>5. \A scope : NextScope(bt, op, k, scope)' = NextScope(at, op, k, scope)
  BY <1>2, <1>4, NextScopeSame
<1>6. Ready(op, k)'
  <2>1. op.kind = "join" => op.subs[1] \in DOMAIN query.pipes
    BY <1>2, ElementOfSeq
  <2>2. k < Len(op.subs) => op.subs[k + 1] \in DOMAIN query.pipes
    <3> SUFFICES ASSUME k < Len(op.subs) PROVE op.subs[k + 1] \in DOMAIN query.pipes
      OBVIOUS
    <3>1. Len(op.subs) \in Nat
      BY <1>2, LenProperties
    <3>2. k + 1 \in 1 .. Len(op.subs)
      BY <3>1
    <3> QED
      BY <1>2, <3>2, ElementOfSeq
  <2> QED
    BY <2>1, <2>2 DEF Leads, Ready, ResultsKept
<1>7. ASSUME FillsAt(op, k)
      PROVE  Settled(op.items, FillScope(bt, op, s))'
  <2>1. PICK scope : scope = FillScope(at, op, s)
    OBVIOUS
  <2>2. Settled(op.items, scope) /\ FillScope(bt, op, s)' = scope
    BY <1>5, <1>7, <2>1 DEF FillScope, FillsAt, Leads
  <2>3. Visited(op.items)' = Visited(op.items) /\ Visited(op.items) \subseteq ListedBy(query, op)
    BY <1>1, VisitedIsListed DEF Visited
  <2>4. \A e \in Visited(op.items) : table'[e] = table[e] /\ rtype'[e] = rtype[e]
    BY <2>3 DEF SameMarksAt
  <2>5. ASSUME NEW e \in Visited(op.items)
        PROVE  OwnerIn(e, scope)' = table'[e] /\ TypeIn(e, scope)' = rtype'[e]
    <3>1. OwnerIn(e, scope)' = OwnerIn(e, scope) /\ TypeIn(e, scope)' = TypeIn(e, scope)
      BY <1>3, <2>3, <2>5
    <3> QED
      BY <2>2, <2>4, <2>5, <3>1 DEF Settled
  <2>6. Settled(op.items, scope)'
    BY <2>3, <2>5 DEF Settled
  <2> QED
    BY <2>2, <2>6
<1> QED
  BY <1>5, <1>6, <1>7 DEF Leads, FillsAt

-----------------------------------------------------------------------------
(* The trace and the walk.                                                 *)

\* The operator a frame has reached, and how many of its parts frame i of the
\* stack has behind it: a caller has not finished the part it is in.
OpNumber(f) == IF f.pc \in DOMAIN Ops(f.pipe) THEN f.pc ELSE Len(Ops(f.pipe)) + 1
PartsAt(f) == IF f.pc \in DOMAIN Ops(f.pipe) THEN Parts(Ops(f.pipe)[f.pc]) ELSE 0
Done(s, i) == IF i = Len(s) THEN s[i].sub ELSE s[i].sub - 1

Spot(f, k) == <<f.pipe, OpNumber(f), k>>

FrameTraced(at, f, k) ==
  /\ f.pc \in 1 .. Len(Ops(f.pipe)) + 2
  /\ k \in 0 .. PartsAt(f)
  /\ WalkedUpTo(at, f.pipe, OpNumber(f), k)
  /\ f.pc = Len(Ops(f.pipe)) + 2 => result[f.pipe] # NoSchema

\* A union is taking the entries of a branch that has returned.
Merging(s) ==
  /\ Len(s) > 1
  /\ s[Len(s)].pc = Len(OpsOf(s[Len(s)])) + 2
  /\ OpOf(s[Len(s) - 1]).kind = "union"

\* The calls read one another's pipelines from the main one down; each is where
\* the trace says, or is a union or its branch, about to be.
TracedStack(at, s) ==
  /\ Len(s) > 0 => s[1].pipe = query.main
  /\ \A i \in 1 .. Len(s) : FrameTraced(at, s[i], Done(s, i))
  /\ \A i, k \in 1 .. Len(s) : i < k => s[i].pipe \in query.nested[s[k].pipe]
  /\ \A i \in 1 .. Len(s) :
       ~ (Merging(s) /\ i >= Len(s) - 1) => s[i].scope = at[Spot(s[i], Done(s, i))]
  /\ Merging(s) =>
       Taken(s[Len(s) - 1].scope, s[Len(s)].scope)
         = Taken(at[Spot(s[Len(s) - 1], Done(s, Len(s) - 1))], End(at, s[Len(s)].pipe))

Starts(at) == \A p \in DOMAIN query.pipes : at[<<p, 1, 0>>] = <<SourceEntry(p)>>

\* What has a result has been walked, and the result is what it ended with.
Kept(at) ==
  \A p \in DOMAIN query.pipes :
    result[p] # NoSchema
      => WalkedUpTo(at, p, Len(Ops(p)) + 1, 0) /\ result[p] = ScopeColumns(End(at, p))

\* Once enrich() has returned, it only walks what has been walked.
WalksAgain ==
  attached =>
    /\ result[query.main] # NoSchema
    /\ \A i \in 1 .. Len(stack) : result[stack[i].pipe] # NoSchema

Traced(at) ==
  at \in Walks /\ Starts(at) /\ Kept(at) /\ TracedStack(at, stack) /\ WalksAgain

Trace == \E at : Traced(at)

-----------------------------------------------------------------------------
(* A step writes the trace at one position.                                *)

LEMMA PartsType ==
  ASSUME Inputs, NEW p \in DOMAIN query.pipes, NEW j \in DOMAIN Ops(p)
  PROVE  Parts(Ops(p)[j]) \in Nat
<1>1. Ops(p)[j].items \in Seq(Item(query)) /\ Ops(p)[j].subs \in Seq(DOMAIN query.pipes)
  BY OpFacts
<1>2. Len(Ops(p)[j].items) \in Nat /\ Len(Ops(p)[j].subs) \in Nat
  BY <1>1, LenProperties
<1> QED
  BY <1>2 DEF Parts

\* The trace bt is the trace at but for one position.
Elsewhere(at, bt, spot) ==
  \A d \in DOMAIN query.pipes : \A i, l \in Nat :
    <<d, i, l>> # spot => bt[<<d, i, l>>] = at[<<d, i, l>>]

\* A step of the k-th part of operator j of p makes bt of the trace: nothing new if
\* p has been walked, the scope it leads to if not, with the marks of that
\* operator's nodes.
Wrote(at, bt, p, j, k) ==
  \/ bt = at /\ UNCHANGED marks
  \/ /\ result[p] = NoSchema
     /\ Elsewhere(at, bt, Then(p, j, k))
     /\ \A e \in DOMAIN query.exprs :
          e \notin ListedBy(query, Ops(p)[j]) \/ k # 0 => table'[e] = table[e] /\ rtype'[e] = rtype[e]

LEMMA EarlierSpots ==
  ASSUME Inputs, NEW p \in DOMAIN query.pipes, NEW j \in DOMAIN Ops(p), NEW k \in 0 .. Parts(Ops(p)[j]),
         NEW d \in DOMAIN query.pipes, NEW i \in DOMAIN Ops(d), NEW l \in 0 .. Parts(Ops(d)[i]),
         d = p => Earlier(i, l, j, k)
  PROVE  <<d, i, l>> # Then(p, j, k) /\ Then(d, i, l) # Then(p, j, k)
<1>1. Parts(Ops(p)[j]) \in Nat /\ Parts(Ops(d)[i]) \in Nat
  BY PartsType
<1>2. j \in Nat /\ i \in Nat
  BY OpsLength
<1>3. CASE d # p
  BY <1>3 DEF Then
<1>4. CASE d = p
  <2>1. i < j \/ (i = j /\ l < k)
    BY <1>4 DEF Earlier
  <2> QED
    BY <1>1, <1>2, <1>4, <2>1 DEF Then
<1> QED
  BY <1>3, <1>4

\* The ends of walked pipelines are elsewhere.
LEMMA EndsKept ==
  ASSUME Inputs, NEW p \in DOMAIN query.pipes, NEW j, NEW k, result[p] = NoSchema,
         NEW at, NEW bt, Elsewhere(at, bt, Then(p, j, k)),
         NEW d \in DOMAIN query.pipes, NEW i \in DOMAIN Ops(d), NEW l \in Nat, NEW op,
         op = Ops(d)[i], Ready(op, l)
  PROVE  SameEnds(at, bt, op, l)
<1>1. ASSUME NEW c \in DOMAIN query.pipes, result[c] # NoSchema
      PROVE  End(bt, c) = End(at, c)
  <2>1. Len(Ops(c)) + 1 \in Nat /\ 0 \in Nat
    BY OpsLength
  <2>2. <<c, Len(Ops(c)) + 1, 0>> # Then(p, j, k)
    <3>1. c # p
      BY <1>1
    <3> QED
      BY <3>1 DEF Then
  <2> QED
    BY <2>1, <2>2 DEF End, Elsewhere
<1>2. op.subs \in Seq(DOMAIN query.pipes) /\ (op.kind = "join" => Len(op.subs) = 1)
  BY OpFacts
<1>3. op.kind = "join" => op.subs[1] \in DOMAIN query.pipes
  BY <1>2, ElementOfSeq
<1>4. l < Len(op.subs) => op.subs[l + 1] \in DOMAIN query.pipes
  <2> SUFFICES ASSUME l < Len(op.subs) PROVE op.subs[l + 1] \in DOMAIN query.pipes
    OBVIOUS
  <2>1. Len(op.subs) \in Nat
    BY <1>2, LenProperties
  <2>2. l + 1 \in 1 .. Len(op.subs)
    BY <2>1
  <2> QED
    BY <1>2, <2>2, ElementOfSeq
<1> QED
  BY <1>1, <1>3, <1>4 DEF SameEnds, Ready

LEMMA LeadsKept ==
  ASSUME Inputs, MarksOK, UNCHANGED input, ResultsKept,
         NEW p \in DOMAIN query.pipes, NEW j \in DOMAIN Ops(p), NEW k \in 0 .. Parts(Ops(p)[j]),
         NEW at, NEW bt, Wrote(at, bt, p, j, k),
         NEW d \in DOMAIN query.pipes, NEW i \in DOMAIN Ops(d), NEW l \in 0 .. Parts(Ops(d)[i]),
         d = p => result[p] # NoSchema \/ Earlier(i, l, j, k),
         LeadsAt(at, d, i, l)
  PROVE  LeadsAt(bt, d, i, l)'
<1>1. query' = query
  BY DEF input
<1>2. PICK op : op = Ops(d)[i]
  OBVIOUS
<1>3. /\ op.items \in Seq(Item(query)) /\ op.subs \in Seq(DOMAIN query.pipes)
      /\ op.kind = "join" => Len(op.subs) = 1
  BY <1>2, OpFacts
<1>4. Parts(op) \in Nat /\ l \in Nat /\ i \in Nat /\ Parts(Ops(p)[j]) \in Nat /\ j \in Nat /\ k \in Nat
  BY <1>2, PartsType, OpsLength
<1>5. PICK s, t, next : s = at[<<d, i, l>>] /\ next = Then(d, i, l) /\ t = at[next]
  OBVIOUS
<1>6. Leads(at, op, l, s, t)
  BY <1>2, <1>5 DEF LeadsAt
<1>7. ASSUME bt[<<d, i, l>>] = s, bt[next] = t, SameEnds(at, bt, op, l), SameMarksAt(op)
      PROVE  LeadsAt(bt, d, i, l)'
  <2>1. Leads(bt, op, l, s, t)'
    BY <1>2, <1>4, <1>6, <1>7, LeadsSame
  <2>2. Then(d, i, l)' = next /\ Ops(d)[i]' = op
    BY <1>1, <1>2, <1>5 DEF Then, Ops, Parts
  <2> QED
    BY <1>7, <2>1, <2>2 DEF LeadsAt
<1>8. ListedBy(query, op) \subseteq DOMAIN query.exprs
  BY DEF ListedBy
<1>9. CASE bt = at /\ UNCHANGED marks
  <2>1. SameEnds(at, bt, op, l) /\ SameMarksAt(op)
    BY <1>9 DEF SameEnds, SameMarksAt, marks
  <2> QED
    BY <1>5, <1>7, <1>9, <2>1
<1>10. CASE /\ result[p] = NoSchema
            /\ Elsewhere(at, bt, Then(p, j, k))
            /\ \A e \in DOMAIN query.exprs :
                 e \notin ListedBy(query, Ops(p)[j]) \/ k # 0
                   => table'[e] = table[e] /\ rtype'[e] = rtype[e]
  <2>1. d = p => Earlier(i, l, j, k)
    BY <1>10
  <2>2. <<d, i, l>> # Then(p, j, k) /\ next # Then(p, j, k)
    BY <1>5, <2>1, EarlierSpots
  <2>3. bt[<<d, i, l>>] = s
    BY <1>4, <1>5, <1>10, <2>2 DEF Elsewhere
  <2>4. bt[next] = t
    <3>1. next = <<d, i, l + 1>> \/ next = <<d, i + 1, 0>>
      BY <1>5 DEF Then
    <3>2. l + 1 \in Nat /\ i + 1 \in Nat /\ 0 \in Nat
      BY <1>4
    <3> QED
      BY <1>4, <1>5, <1>10, <2>2, <3>1, <3>2 DEF Elsewhere
  <2>6. SameEnds(at, bt, op, l)
    <3>1. Ready(op, l)
      BY <1>6 DEF Leads
    <3> QED
      BY <1>2, <1>4, <1>10, <3>1, EndsKept
  <2>7. SameMarksAt(op)
    <3>1. CASE d = p /\ i = j
      <4>1. k # 0
        BY <1>4, <2>1, <3>1 DEF Earlier
      <4> QED
        BY <1>8, <1>10, <4>1 DEF SameMarksAt
    <3>2. CASE d # p \/ i # j
      <4>1. ListedBy(query, op) \cap ListedBy(query, Ops(p)[j]) = {}
        BY <1>2, <3>2, ListedOnce
      <4>2. \A e \in ListedBy(query, op) :
              e \in DOMAIN query.exprs /\ e \notin ListedBy(query, Ops(p)[j])
        BY <1>8, <4>1
      <4> QED
        BY <1>10, <4>2 DEF SameMarksAt
    <3> QED
      BY <3>1, <3>2
  <2> QED
    BY <1>7, <2>3, <2>4, <2>6, <2>7
<1> QED
  BY <1>9, <1>10 DEF Wrote

\* What was walked is still walked.
LEMMA WalkedKept ==
  ASSUME Inputs, MarksOK, UNCHANGED input, ResultsKept,
         NEW p \in DOMAIN query.pipes, NEW j \in DOMAIN Ops(p), NEW k \in 0 .. Parts(Ops(p)[j]),
         NEW at, NEW bt, Wrote(at, bt, p, j, k),
         NEW d \in DOMAIN query.pipes, NEW J, NEW K,
         d = p => result[p] # NoSchema \/ (J = j /\ K = k),
         WalkedUpTo(at, d, J, K)
  PROVE  WalkedUpTo(bt, d, J, K)'
<1>1. Ops(d)' = Ops(d) /\ \A op : Parts(op)' = Parts(op)
  BY DEF input, Ops, Parts
<1>2. ASSUME NEW i \in DOMAIN Ops(d), NEW l \in 0 .. Parts(Ops(d)[i]), Earlier(i, l, J, K)
      PROVE  LeadsAt(bt, d, i, l)'
  <2>1. LeadsAt(at, d, i, l)
    BY <1>2 DEF WalkedUpTo
  <2>2. d = p => result[p] # NoSchema \/ Earlier(i, l, j, k)
    BY <1>2
  <2> QED
    BY <2>1, <2>2, LeadsKept
<1>3. \A i \in DOMAIN Ops(d)' : \A l \in 0 .. Parts(Ops(d)[i])' :
        Earlier(i, l, J, K) => LeadsAt(bt, d, i, l)'
  BY <1>1, <1>2
<1> QED
  BY <1>3 DEF WalkedUpTo, Earlier

-----------------------------------------------------------------------------
(* A step from one part of an operator to the next.                        *)

\* Frame f does the k-th part of its operator and becomes frame g.
Moves(at, f, k, g) ==
  LET op == Ops(f.pipe)[f.pc] IN
  /\ f.pc \in DOMAIN Ops(f.pipe) /\ k \in 0 .. Parts(op)
  /\ g.pipe = f.pipe /\ <<f.pipe, g.pc, g.sub>> = Then(f.pipe, f.pc, k)
  /\ Ready(op, k)
  /\ g.scope = NextScope(at, op, k, f.scope)
  /\ IF FillsAt(op, k) THEN Fill(op.items, FillScope(at, op, f.scope)) ELSE UNCHANGED marks

\* The step writes the trace where it leads and is a part of it from then on.
Extends(at, bt, p, j, k, s) ==
  /\ bt \in Walks
  /\ Wrote(at, bt, p, j, k)
  /\ bt[Then(p, j, k)] = s
  /\ LeadsAt(bt, p, j, k)'
  /\ result[p] # NoSchema => bt = at /\ UNCHANGED marks

LEMMA MoveAgain ==
  ASSUME Inputs, MarksOK, UNCHANGED input, result' = result, NEW at \in Walks, Kept(at),
         NEW f \in Frame, NEW k, NEW g, Moves(at, f, k, g),
         f.scope = at[<<f.pipe, f.pc, k>>], result[f.pipe] # NoSchema
  PROVE  Extends(at, at, f.pipe, f.pc, k, g.scope)
<1>1. PICK p \in DOMAIN query.pipes, j \in DOMAIN Ops(f.pipe) : p = f.pipe /\ j = f.pc
  BY DEF Moves, Frame
<1>2. PICK op : op = Ops(p)[j]
  OBVIOUS
<1>3. k \in 0 .. Parts(op) /\ Parts(op) \in Nat
  BY <1>1, <1>2, PartsType DEF Moves
<1>4. LeadsAt(at, p, j, k)
  <2>1. WalkedUpTo(at, p, Len(Ops(p)) + 1, 0)
    BY <1>1 DEF Kept
  <2>2. Earlier(j, k, Len(Ops(p)) + 1, 0)
    BY <1>1, OpsLength DEF Earlier
  <2> QED
    BY <1>1, <1>2, <1>3, <2>1, <2>2 DEF WalkedUpTo
<1>5. at[Then(p, j, k)] = g.scope
  BY <1>1, <1>2, <1>4 DEF LeadsAt, Leads, Moves
<1>6. UNCHANGED marks
  <2>1. CASE FillsAt(op, k)
    <3>1. Fill(op.items, FillScope(at, op, f.scope))
      BY <1>1, <1>2, <2>1 DEF Moves
    <3>2. Settled(op.items, FillScope(at, op, f.scope))
      BY <1>1, <1>2, <1>4, <2>1 DEF LeadsAt, Leads
    <3> QED
      BY <3>1, <3>2, FillSettled
  <2>2. CASE ~ FillsAt(op, k)
    BY <1>1, <1>2, <2>2 DEF Moves
  <2> QED
    BY <2>1, <2>2
<1>7. Wrote(at, at, p, j, k)
  BY <1>6 DEF Wrote
<1>8. ResultsKept
  BY DEF ResultsKept
<1>9. LeadsAt(at, p, j, k)'
  BY <1>1, <1>2, <1>3, <1>4, <1>7, <1>8, LeadsKept
<1> QED
  BY <1>1, <1>5, <1>6, <1>7, <1>9 DEF Extends

LEMMA MoveFirst ==
  ASSUME Inputs, MarksOK, UNCHANGED input, result' = result, NEW at \in Walks,
         NEW f \in Frame, NEW k, NEW g \in Frame, Moves(at, f, k, g),
         FillScope(at, Ops(f.pipe)[f.pc], f.scope) \in Seq(Entry),
         f.scope = at[<<f.pipe, f.pc, k>>], result[f.pipe] = NoSchema
  PROVE  \E bt : Extends(at, bt, f.pipe, f.pc, k, g.scope)
<1>1. PICK p \in DOMAIN query.pipes, j \in DOMAIN Ops(f.pipe) : p = f.pipe /\ j = f.pc
  BY DEF Moves, Frame
<1>2. PICK op : op = Ops(p)[j]
  OBVIOUS
<1>3. k \in 0 .. Parts(op) /\ Parts(op) \in Nat /\ k \in Nat /\ j \in Nat
  <2>1. k \in 0 .. Parts(op) /\ Parts(op) \in Nat
    BY <1>1, <1>2, PartsType DEF Moves
  <2> QED
    BY <1>1, <2>1, OpsLength
<1>4. PICK spot, s, t : spot = Then(p, j, k) /\ s = f.scope /\ t = g.scope
  OBVIOUS
<1>5. s \in Seq(Entry) /\ t \in Seq(Entry)
  BY <1>4 DEF Frame
<1>6. spot \in (DOMAIN query.pipes) \X Nat \X Nat /\ spot # <<p, j, k>>
  BY <1>3, <1>4 DEF Then
<1> DEFINE bt == [at EXCEPT ![spot] = t]
<1>7. bt \in Walks /\ bt[spot] = t
  BY <1>5, <1>6 DEF Walks
<1>8. Elsewhere(at, bt, spot) /\ bt[<<p, j, k>>] = s
  <2>1. ASSUME NEW d \in DOMAIN query.pipes, NEW i \in Nat, NEW l \in Nat, <<d, i, l>> # spot
        PROVE  bt[<<d, i, l>>] = at[<<d, i, l>>]
    <3>1. <<d, i, l>> \in (DOMAIN query.pipes) \X Nat \X Nat
      OBVIOUS
    <3> QED
      BY <2>1, <3>1 DEF Walks
  <2>2. Elsewhere(at, bt, spot)
    <3> HIDE DEF bt
    <3> QED
      BY <2>1 DEF Elsewhere
  <2>3. bt[<<p, j, k>>] = at[<<p, j, k>>]
    BY <1>3, <1>6, <2>1
  <2> QED
    BY <1>1, <1>4, <2>2, <2>3
<1>9. PICK ct : ct = bt
  OBVIOUS
<1>10. ct \in Walks /\ ct[spot] = t /\ Elsewhere(at, ct, spot) /\ ct[<<p, j, k>>] = s
  BY <1>7, <1>8, <1>9
<1> HIDE DEF bt
<1>11. op.items \in Seq(Item(query))
  BY <1>1, <1>2, OpFacts
<1>12. PICK scope \in Seq(Entry) : scope = FillScope(at, op, s)
  BY <1>1, <1>2, <1>4
<1>13. /\ FillsAt(op, k) => Fill(op.items, scope)
       /\ ~ FillsAt(op, k) => UNCHANGED marks
       /\ Ready(op, k) /\ t = NextScope(at, op, k, s)
  BY <1>1, <1>2, <1>4, <1>12 DEF Moves
<1>14. Wrote(at, ct, p, j, k)
  <2>1. ASSUME NEW e \in DOMAIN query.exprs, e \notin ListedBy(query, op) \/ k # 0
        PROVE  table'[e] = table[e] /\ rtype'[e] = rtype[e]
    <3>1. CASE FillsAt(op, k)
      <4>1. e \notin Visited(op.items)
        BY <2>1, <3>1, VisitedIsListed DEF FillsAt
      <4> QED
        BY <1>13, <3>1, <4>1 DEF Fill, MarksOK
    <3>2. CASE ~ FillsAt(op, k)
      BY <1>13, <3>2 DEF marks
    <3> QED
      BY <3>1, <3>2
  <2> QED
    BY <1>1, <1>2, <1>4, <1>10, <2>1 DEF Wrote
<1>15. SameEnds(at, ct, op, k)
  BY <1>1, <1>2, <1>3, <1>4, <1>10, <1>13, EndsKept
<1>16. op.kind # "join" => SameTypes(op.items, s)
  <2> SUFFICES ASSUME op.kind # "join", NEW i \in DOMAIN op.items
               PROVE  TypeIn(op.items[i].root, s)' = TypeIn(op.items[i].root, s)
    BY DEF SameTypes
  <2>1. op.items[i].root \in DOMAIN query.exprs
    <3>1. op.items[i] \in Item(query)
      BY <1>11, ElementOfSeq
    <3> QED
      BY <3>1 DEF Item
  <2>2. CASE FillsAt(op, k)
    <3>1. scope = s
      BY <1>12 DEF FillScope
    <3> QED
      BY <1>5, <1>13, <2>1, <2>2, <3>1, FillKeepsTypes
  <2>3. CASE ~ FillsAt(op, k)
    BY <1>13, <2>3, SameMarks DEF marks
  <2> QED
    BY <2>2, <2>3
<1>17. NextScope(ct, op, k, s)' = NextScope(at, op, k, s)
  BY <1>11, <1>15, <1>16, NextScopeSame
<1>18. ASSUME FillsAt(op, k)
       PROVE  Settled(op.items, FillScope(ct, op, s))'
  <2>1. FillScope(ct, op, s)' = scope
    BY <1>12, <1>17, <1>18 DEF FillScope, FillsAt
  <2>2. Settled(op.items, scope)'
    BY <1>13, <1>18, FillSettles
  <2> QED
    BY <2>1, <2>2
<1>19. LeadsAt(ct, p, j, k)'
  <2>1. Ready(op, k)'
    BY <1>13 DEF Ready
  <2>2. t = NextScope(ct, op, k, s)'
    BY <1>13, <1>17
  <2>3. Leads(ct, op, k, s, t)'
    BY <1>18, <2>1, <2>2 DEF Leads, FillsAt
  <2>4. Then(p, j, k)' = spot /\ Ops(p)[j]' = op
    BY <1>2, <1>4 DEF input, Then, Ops, Parts
  <2> QED
    BY <1>10, <2>3, <2>4 DEF LeadsAt
<1> QED
  BY <1>1, <1>4, <1>10, <1>14, <1>19 DEF Extends

-----------------------------------------------------------------------------
(* The stack after such a step.                                            *)

LEMMA RigidFrames ==
  ASSUME UNCHANGED input, NEW f, NEW at
  PROVE  /\ OpNumber(f)' = OpNumber(f) /\ PartsAt(f)' = PartsAt(f)
         /\ \A k : Spot(f, k)' = Spot(f, k)
         /\ OpsOf(f)' = OpsOf(f) /\ OpOf(f)' = OpOf(f)
         /\ \A p : Ops(p)' = Ops(p) /\ End(at, p)' = End(at, p)
<1>1. query' = query
  BY DEF input
<1>2. OpNumber(f)' = OpNumber(f) /\ PartsAt(f)' = PartsAt(f)
  BY <1>1 DEF OpNumber, PartsAt, Ops, Parts
<1> QED
  BY <1>1, <1>2 DEF Spot, OpsOf, OpOf, Ops, End

LEMMA FrameKept ==
  ASSUME Inputs, UNCHANGED input, ResultsKept, NEW at, NEW bt, NEW f \in Frame, NEW k,
         FrameTraced(at, f, k), WalkedUpTo(bt, f.pipe, OpNumber(f), k)'
  PROVE  FrameTraced(bt, f, k)'
<1>1. OpNumber(f)' = OpNumber(f) /\ PartsAt(f)' = PartsAt(f) /\ Ops(f.pipe)' = Ops(f.pipe)
  BY RigidFrames
<1>2. f.pipe \in DOMAIN query.pipes
  BY DEF Frame
<1>3. f.pc = Len(Ops(f.pipe)) + 2 => result'[f.pipe] # NoSchema
  BY <1>2 DEF FrameTraced, ResultsKept
<1>4. f.pc \in 1 .. Len(Ops(f.pipe)) + 2 /\ k \in 0 .. PartsAt(f)
  BY DEF FrameTraced
<1> QED
  BY <1>1, <1>3, <1>4 DEF FrameTraced

\* The frame after a step is on the trace the step has extended.
LEMMA FrameMoved ==
  ASSUME Inputs, MarksOK, UNCHANGED input, result' = result,
         NEW at, NEW bt, NEW f \in Frame, NEW g \in Frame, NEW k, Moves(at, f, k, g),
         WalkedUpTo(at, f.pipe, f.pc, k), Extends(at, bt, f.pipe, f.pc, k, g.scope)
  PROVE  /\ FrameTraced(bt, g, g.sub)'
         /\ g.scope = bt[Spot(g, g.sub)]
         /\ g.pc # Len(OpsOf(g)) + 2
<1>1. PICK p \in DOMAIN query.pipes, j \in DOMAIN Ops(f.pipe) :
        p = f.pipe /\ j = f.pc /\ g.pipe = p
  BY DEF Moves, Frame
<1>2. PICK n \in Nat : n = Len(Ops(p)) /\ DOMAIN Ops(p) = 1 .. n
  BY OpsLength
<1>3. PICK parts \in Nat : parts = Parts(Ops(p)[j])
  BY <1>1, PartsType
<1>4. k \in 0 .. parts /\ <<p, g.pc, g.sub>> = Then(p, j, k)
  BY <1>1, <1>3 DEF Moves
<1>5. PICK J, K : J = g.pc /\ K = g.sub
  OBVIOUS
<1>6. IF k < parts THEN J = j /\ K = k + 1 ELSE J = j + 1 /\ K = 0 /\ k = parts
  BY <1>3, <1>4, <1>5 DEF Then
<1>7. J \in 1 .. n + 1 /\ K \in Nat /\ K \in 0 .. PartsAt(g)
  <2>1. J \in 1 .. n + 1 /\ K \in Nat
    BY <1>1, <1>2, <1>4, <1>6
  <2>2. CASE k < parts
    <3>1. PartsAt(g) = parts /\ K = k + 1 /\ k \in 0 .. parts
      BY <1>1, <1>3, <1>4, <1>5, <1>6, <2>2 DEF PartsAt
    <3> QED
      BY <2>1, <2>2, <3>1
  <2>3. CASE ~ (k < parts)
    <3>1. PartsAt(g) \in Nat
      BY <1>1, PartsType DEF PartsAt
    <3> QED
      BY <1>6, <2>1, <2>3, <3>1
  <2> QED
    BY <2>1, <2>2, <2>3
<1>8. OpNumber(g) = J
  BY <1>1, <1>2, <1>5, <1>7 DEF OpNumber
<1>9. WalkedUpTo(bt, p, j, k)'
  <2>1. Wrote(at, bt, p, j, k)
    BY <1>1 DEF Extends
  <2>2. ResultsKept
    BY DEF ResultsKept
  <2> QED
    BY <1>1, <1>3, <1>4, <2>1, <2>2, WalkedKept
<1>10. WalkedUpTo(bt, p, J, K)'
  <2>1. Ops(p)' = Ops(p) /\ \A op : Parts(op)' = Parts(op)
    BY DEF input, Ops, Parts
  <2>2. LeadsAt(bt, p, j, k)'
    BY <1>1 DEF Extends
  <2>3. \A i \in DOMAIN Ops(p) : \A l \in 0 .. Parts(Ops(p)[i]) :
          Earlier(i, l, j, k) => LeadsAt(bt, p, i, l)'
    BY <1>9, <2>1 DEF WalkedUpTo, Earlier
  <2>4. ASSUME NEW i \in DOMAIN Ops(p), NEW l \in 0 .. Parts(Ops(p)[i]), Earlier(i, l, J, K)
        PROVE  LeadsAt(bt, p, i, l)'
    <3>1. Parts(Ops(p)[i]) \in Nat /\ i \in Nat /\ l \in Nat /\ j \in Nat
      <4>1. Parts(Ops(p)[i]) \in Nat
        BY PartsType
      <4> QED
        BY <1>1, <1>2, <4>1
    <3>2. Earlier(i, l, j, k) \/ (i = j /\ l = k)
      BY <1>3, <1>4, <1>6, <2>4, <3>1 DEF Earlier
    <3> QED
      BY <2>2, <2>3, <3>2
  <2>5. \A i \in DOMAIN Ops(p)' : \A l \in 0 .. Parts(Ops(p)[i])' :
          Earlier(i, l, J, K) => LeadsAt(bt, p, i, l)'
    BY <2>1, <2>4
  <2> QED
    BY <2>5 DEF WalkedUpTo, Earlier
<1>11. g.pc # n + 2 /\ g.pc \in 1 .. n + 2
  BY <1>5, <1>7
<1>12. FrameTraced(bt, g, g.sub)'
  <2>1. OpNumber(g)' = J /\ PartsAt(g)' = PartsAt(g) /\ Ops(p)' = Ops(p)
    BY <1>8, RigidFrames
  <2> QED
    BY <1>1, <1>2, <1>5, <1>7, <1>10, <1>11, <2>1 DEF FrameTraced
<1>13. g.scope = bt[Spot(g, g.sub)]
  BY <1>1, <1>4, <1>5, <1>8 DEF Extends, Spot
<1> QED
  BY <1>1, <1>2, <1>11, <1>12, <1>13 DEF OpsOf, Ops

\* A step of frame m of the stack, as f, which becomes g and drops the frames above.
LEMMA Moved ==
  ASSUME Inv, UNCHANGED <<input, result, attached>>, NEW at, Traced(at),
         NEW m \in 1 .. Len(stack), NEW f \in Frame, f.pipe = stack[m].pipe, NEW k,
         FrameTraced(at, f, k), f.scope = at[Spot(f, k)],
         \A i \in 1 .. m - 1 : stack[i].scope = at[Spot(stack[i], Done(stack, i))],
         NEW g, g \in Frame, Moves(at, f, k, g),
         FillScope(at, Ops(f.pipe)[f.pc], f.scope) \in Seq(Entry),
         stack' = Append(SubSeq(stack, 1, m - 1), g)
  PROVE  Trace' /\ (attached => UNCHANGED marks)
<1>1. Inputs /\ MarksOK /\ stack \in Seq(Frame)
  BY DEF Inv, TypeOK, MarksOK
<1>2. UNCHANGED input /\ result' = result /\ attached' = attached /\ query' = query
      /\ schemas' = schemas
  BY DEF input
<1>3. ResultsKept
  BY <1>2 DEF ResultsKept
<1>4. Len(stack) \in Nat /\ m \in Nat \ {0} /\ m <= Len(stack)
  BY <1>1, LenProperties
<1>5. f \in Frame /\ f.pipe \in DOMAIN query.pipes
  BY DEF Frame
<1>6. PICK p \in DOMAIN query.pipes, j \in DOMAIN Ops(f.pipe) : p = f.pipe /\ j = f.pc
  BY <1>5 DEF Moves
<1>7. /\ at \in Walks /\ Starts(at) /\ Kept(at) /\ TracedStack(at, stack) /\ WalksAgain
  BY DEF Traced
<1>8. FrameTraced(at, f, k)
  OBVIOUS
<1>9. OpNumber(f) = j /\ Spot(f, k) = <<p, j, k>>
  BY <1>6 DEF OpNumber, Spot
<1>10. WalkedUpTo(at, p, j, k)
  BY <1>6, <1>8, <1>9 DEF FrameTraced
<1>11. PICK bt : Extends(at, bt, p, j, k, g.scope)
  <2>1. f.scope = at[<<f.pipe, f.pc, k>>]
    BY <1>6, <1>9
  <2>2. CASE result[f.pipe] # NoSchema
    BY <1>1, <1>2, <1>5, <1>6, <1>7, <2>1, <2>2, MoveAgain
  <2>3. CASE result[f.pipe] = NoSchema
    BY <1>1, <1>2, <1>5, <1>6, <1>7, <2>1, <2>3, MoveFirst
  <2> QED
    BY <2>2, <2>3
<1>12. k \in 0 .. Parts(Ops(p)[j]) /\ Parts(Ops(p)[j]) \in Nat /\ j \in Nat \ {0}
  <2>1. k \in 0 .. Parts(Ops(p)[j])
    BY <1>6 DEF Moves
  <2> QED
    BY <1>1, <1>6, <2>1, PartsType, OpsLength
<1>13. bt \in Walks /\ Wrote(at, bt, p, j, k)
  BY <1>11 DEF Extends
<1>14. ASSUME NEW d \in DOMAIN query.pipes, NEW i \in Nat, NEW l \in Nat, <<d, i, l>> # Then(p, j, k)
       PROVE  bt[<<d, i, l>>] = at[<<d, i, l>>]
  BY <1>13, <1>14 DEF Wrote, Elsewhere
<1>15. ASSUME NEW d \in DOMAIN query.pipes, d # p \/ result[p] # NoSchema, NEW i \in Nat, NEW l \in Nat
       PROVE  bt[<<d, i, l>>] = at[<<d, i, l>>]
  <2>1. CASE result[p] # NoSchema
    BY <1>11, <2>1 DEF Extends
  <2>2. CASE d # p
    <3>1. <<d, i, l>> # Then(p, j, k)
      BY <2>2 DEF Then
    <3> QED
      BY <1>14, <3>1
  <2> QED
    BY <1>15, <2>1, <2>2
<1>16. ASSUME NEW d \in DOMAIN query.pipes, d # p \/ result[p] # NoSchema, NEW J, NEW K,
              WalkedUpTo(at, d, J, K)
       PROVE  WalkedUpTo(bt, d, J, K)'
  BY <1>1, <1>2, <1>3, <1>6, <1>12, <1>13, <1>16, WalkedKept
<1>17. Starts(bt)'
  <2>1. ASSUME NEW d \in DOMAIN query.pipes
        PROVE  bt[<<d, 1, 0>>] = <<SourceEntry(d)>>
    <3>1. <<d, 1, 0>> # Then(p, j, k)
      BY <1>12 DEF Then
    <3> QED
      BY <1>7, <1>14, <3>1 DEF Starts
  <2>2. \A d : SourceEntry(d)' = SourceEntry(d)
    BY <1>2 DEF SourceEntry, TableSchema
  <2> QED
    BY <1>2, <2>1, <2>2 DEF Starts
<1>18. Kept(bt)'
  <2>1. ASSUME NEW d \in DOMAIN query.pipes, result[d] # NoSchema
        PROVE  /\ WalkedUpTo(bt, d, Len(Ops(d)) + 1, 0)'
               /\ result[d] = ScopeColumns(End(bt, d))
    <3>1. WalkedUpTo(at, d, Len(Ops(d)) + 1, 0) /\ result[d] = ScopeColumns(End(at, d))
      BY <1>7, <2>1 DEF Kept
    <3>2. Len(Ops(d)) + 1 \in Nat /\ 0 \in Nat
      BY <1>1, OpsLength
    <3>3. End(bt, d) = End(at, d)
      BY <1>15, <2>1, <3>2 DEF End
    <3>4. PICK J : J = Len(Ops(d)) + 1
      OBVIOUS
    <3>5. WalkedUpTo(bt, d, J, 0)'
      BY <1>16, <2>1, <3>1, <3>4
    <3>6. WalkedUpTo(bt, d, Len(Ops(d)) + 1, 0)'
      BY <1>2, <3>4, <3>5 DEF WalkedUpTo, Ops
    <3> QED
      BY <3>1, <3>3, <3>6
  <2>2. \A d : Ops(d)' = Ops(d) /\ End(bt, d)' = End(bt, d)
    BY <1>2, RigidFrames
  <2> QED
    BY <1>2, <2>1, <2>2 DEF Kept
<1>19. PICK s : s = stack'
  OBVIOUS
<1>20. /\ s \in Seq(Frame) /\ Len(s) = m /\ s[m] = g
       /\ \A i \in 1 .. m - 1 : s[i] = stack[i]
  <2> DEFINE n == m - 1
             b == SubSeq(stack, 1, n)
  <2>1. n \in Nat /\ n <= Len(stack)
    BY <1>4
  <2> HIDE DEF n
  <2>2. b \in Seq(Frame) /\ Len(b) = n /\ \A i \in 1 .. n : b[i] = stack[i]
    BY <1>1, <2>1, Prefix
  <2>3. s = Append(b, g)
    BY <1>19 DEF n
  <2> HIDE DEF b
  <2>4. s \in Seq(Frame) /\ Len(s) = n + 1 /\ s[n + 1] = g /\ \A i \in 1 .. n : s[i] = stack[i]
    BY <2>2, <2>3
  <2> QED
    BY <1>4, <2>4 DEF n
<1>21. /\ FrameTraced(bt, g, g.sub)' /\ g.scope = bt[Spot(g, g.sub)] /\ g.pc # Len(OpsOf(g)) + 2
  BY <1>1, <1>2, <1>5, <1>6, <1>10, <1>11, FrameMoved
<1>22. g.pipe = p
  BY <1>6 DEF Moves
<1>23. ASSUME NEW i \in 1 .. m - 1
       PROVE  /\ s[i] = stack[i] /\ stack[i] \in Frame
              /\ Done(s, i) = Done(stack, i)
              /\ stack[i].pipe \in DOMAIN query.pipes /\ stack[i].pipe # p
              /\ stack[i].pipe \in query.nested[p]
              /\ i \in 1 .. Len(stack)
  <2>1. i \in 1 .. Len(stack) /\ i < m /\ i # Len(stack) /\ i # m
    BY <1>4
  <2>2. stack[i] \in Frame
    BY <1>1, <2>1, ElementOfSeq
  <2>3. stack[i].pipe \in query.nested[p]
    BY <1>6, <1>7, <2>1 DEF TracedStack
  <2>4. query.nested[p] \subseteq (DOMAIN query.pipes) \ {p}
    BY <1>1, QueriesAssumption DEF Inputs, IsQuery, IsPipeTree
  <2> QED
    BY <1>20, <2>1, <2>2, <2>3, <2>4 DEF Done
<1>24. ASSUME NEW i \in 1 .. m - 1
       PROVE  FrameTraced(bt, s[i], Done(s, i))' /\ s[i].scope = bt[Spot(s[i], Done(s, i))]
  <2>1. PICK h, l : h \in Frame /\ h = stack[i] /\ l = Done(stack, i)
    BY <1>23
  <2>2. s[i] = h /\ Done(s, i) = l /\ h.pipe \in DOMAIN query.pipes /\ h.pipe # p
    BY <1>23, <2>1
  <2>3. FrameTraced(at, h, l)
    BY <1>7, <1>23, <2>1 DEF TracedStack
  <2>4. WalkedUpTo(at, h.pipe, OpNumber(h), l)
    BY <2>3 DEF FrameTraced
  <2>5. WalkedUpTo(bt, h.pipe, OpNumber(h), l)'
    <3>1. PICK J : J = OpNumber(h)
      OBVIOUS
    <3>2. WalkedUpTo(bt, h.pipe, J, l)'
      BY <1>16, <2>2, <2>4, <3>1
    <3>3. OpNumber(h)' = J
      BY <1>2, <3>1, RigidFrames
    <3> QED
      BY <3>2, <3>3 DEF WalkedUpTo
  <2>6. FrameTraced(bt, h, l)'
    BY <1>1, <1>2, <1>3, <2>1, <2>3, <2>5, FrameKept
  <2>7. bt[Spot(h, l)] = at[Spot(h, l)]
    <3>1. OpNumber(h) \in Nat
      <4>1. Len(Ops(h.pipe)) \in Nat /\ DOMAIN Ops(h.pipe) = 1 .. Len(Ops(h.pipe))
        BY <1>1, <2>2, OpsLength
      <4> QED
        BY <4>1 DEF OpNumber
    <3>2. l \in Nat
      <4>1. PartsAt(h) \in Nat
        BY <1>1, <2>2, PartsType DEF PartsAt
      <4> QED
        BY <2>3, <4>1 DEF FrameTraced
    <3> QED
      BY <1>15, <2>2, <3>1, <3>2 DEF Spot
  <2>8. h.scope = at[Spot(h, l)]
    BY <2>1
  <2>9. FrameTraced(bt, s[i], Done(s, i))'
    BY <2>2, <2>6
  <2> QED
    BY <2>2, <2>7, <2>8, <2>9
<1>25. TracedStack(bt, s)'
  <2>1. s[1].pipe = query.main
    <3>1. CASE m = 1
      BY <1>4, <1>6, <1>7, <1>20, <1>22, <3>1 DEF TracedStack
    <3>2. CASE m # 1
      <4>1. 1 \in 1 .. m - 1 /\ Len(stack) > 0
        BY <1>4, <3>2
      <4> QED
        BY <1>7, <1>20, <4>1 DEF TracedStack
    <3> QED
      BY <3>1, <3>2
  <2>2. ~ Merging(s)'
    <3>1. OpsOf(g)' = OpsOf(g)
      BY <1>2, RigidFrames
    <3> QED
      BY <1>20, <1>21, <3>1 DEF Merging
  <2>3. Done(s, m) = g.sub
    BY <1>20 DEF Done
  <2>4. \A i \in 1 .. m : i \in 1 .. m - 1 \/ i = m
    BY <1>4
  <2>5. \A i \in 1 .. m : FrameTraced(bt, s[i], Done(s, i))'
    BY <1>20, <1>21, <1>24, <2>3, <2>4
  <2>6. \A i, l \in 1 .. m : i < l => s[i].pipe \in query.nested[s[l].pipe]
    <3> SUFFICES ASSUME NEW i \in 1 .. m, NEW l \in 1 .. m, i < l
                 PROVE  s[i].pipe \in query.nested[s[l].pipe]
      OBVIOUS
    <3>1. i \in 1 .. m - 1
      BY <1>4
    <3>2. CASE l = m
      BY <1>20, <1>22, <1>23, <3>1, <3>2
    <3>3. CASE l # m
      <4>1. l \in 1 .. m - 1
        BY <1>4, <3>3
      <4> QED
        BY <1>7, <1>23, <3>1, <4>1 DEF TracedStack
    <3> QED
      BY <3>2, <3>3
  <2>7. \A i \in 1 .. m : s[i].scope = bt[Spot(s[i], Done(s, i))]
    BY <1>20, <1>21, <1>24, <2>3, <2>4
  <2>8. \A i \in 1 .. m : Spot(s[i], Done(s, i))' = Spot(s[i], Done(s, i))
    BY <1>2, RigidFrames DEF Done
  <2>9. \A i : Done(s, i)' = Done(s, i)
    BY DEF Done
  <2> QED
    BY <1>2, <1>20, <2>1, <2>2, <2>5, <2>6, <2>7, <2>8, <2>9 DEF TracedStack
<1>26. WalksAgain'
  <2>1. ASSUME attached
        PROVE  result[query.main] # NoSchema /\ \A i \in 1 .. Len(s) : result[s[i].pipe] # NoSchema
    <3>1. result[query.main] # NoSchema /\ \A i \in 1 .. Len(stack) : result[stack[i].pipe] # NoSchema
      BY <1>7, <2>1 DEF WalksAgain
    <3>2. \A i \in 1 .. m : i \in 1 .. m - 1 \/ i = m
      BY <1>4
    <3>3. result[p] # NoSchema
      BY <1>6, <3>1
    <3>4. \A i \in 1 .. m - 1 : result[s[i].pipe] # NoSchema
      BY <1>23, <3>1
    <3>5. \A i \in 1 .. m : result[s[i].pipe] # NoSchema
      BY <1>20, <1>22, <3>2, <3>3, <3>4
    <3> QED
      BY <1>20, <3>1, <3>5
  <2>2. result' = result /\ query' = query /\ stack' = s
    BY <1>2, <1>19
  <2>3. attached' => attached
    BY <1>2
  <2>4. attached' => /\ result'[query'.main] # NoSchema
                     /\ \A i \in 1 .. Len(stack') : result'[stack'[i].pipe] # NoSchema
    BY <2>1, <2>2, <2>3
  <2> QED
    BY <2>4 DEF WalksAgain
<1>27. Walks' = Walks
  BY <1>2 DEF Walks, Entry
<1>28. Traced(bt)'
  BY <1>13, <1>17, <1>18, <1>19, <1>25, <1>26, <1>27 DEF Traced
<1>29. attached => UNCHANGED marks
  <2>1. attached => result[p] # NoSchema
    BY <1>6, <1>7 DEF WalksAgain
  <2> QED
    BY <1>11, <2>1 DEF Extends
<1> QED
  BY <1>28, <1>29 DEF Trace

LEMMA AppendedElement ==
  ASSUME NEW S, NEW T, NEW s \in Seq(S), NEW e, Append(s, e) \in Seq(T)
  PROVE  e \in T
<1> DEFINE R == S \cup {e}
<1>1. s \in Seq(R) /\ e \in R
  <2>1. S \subseteq R
    OBVIOUS
  <2> QED
    BY <2>1, SeqMonotonic
<1> HIDE DEF R
<1>2. PICK u : u = Append(s, e)
  OBVIOUS
<1>3. PICK n \in Nat : n = Len(s)
  BY LenProperties
<1>4. Len(u) = n + 1 /\ u[n + 1] = e /\ u \in Seq(T)
  BY <1>1, <1>2, <1>3, AppendProperties
<1>5. n + 1 \in 1 .. n + 1
  OBVIOUS
<1> QED
  BY <1>4, <1>5, ElementOfSeq

\* What the trace says of the top frame while it is at an operator.
LEMMA TopTraced ==
  ASSUME Inv, NEW at, Traced(at), stack # << >>, Top.pc \in DOMAIN OpsOf(Top)
  PROVE  /\ Top.sub \in 0 .. Parts(OpOf(Top))
         /\ Top.scope = at[Spot(Top, Top.sub)]
         /\ \A i \in 1 .. Len(stack) : stack[i].scope = at[Spot(stack[i], Done(stack, i))]
         /\ FrameTraced(at, Top, Top.sub)
<1>1. PICK n \in Nat \ {0} : n = Len(stack) /\ Top = stack[n] /\ n \in 1 .. Len(stack)
  BY TopProperties
<1>2. Top \in Frame /\ Top.pipe \in DOMAIN query.pipes
  BY TopProperties DEF Frame
<1>3. ~ Merging(stack)
  <2>1. Len(OpsOf(Top)) \in Nat /\ DOMAIN OpsOf(Top) = 1 .. Len(OpsOf(Top))
    BY <1>2, OpsLength DEF OpsOf, Ops, Inv
  <2>2. Top.pc # Len(OpsOf(Top)) + 2
    BY <2>1
  <2> QED
    BY <1>1, <2>2 DEF Merging
<1>4. TracedStack(at, stack)
  BY DEF Traced
<1>5. FrameTraced(at, Top, Done(stack, n)) /\ Done(stack, n) = Top.sub
  <2>1. \A i \in 1 .. Len(stack) : FrameTraced(at, stack[i], Done(stack, i))
    BY <1>4 DEF TracedStack
  <2> QED
    BY <1>1, <2>1 DEF Done
<1>6. \A i \in 1 .. Len(stack) : stack[i].scope = at[Spot(stack[i], Done(stack, i))]
  BY <1>3, <1>4 DEF TracedStack
<1>7. OpNumber(Top) = Top.pc /\ PartsAt(Top) = Parts(OpOf(Top))
  BY DEF OpNumber, PartsAt, OpsOf, OpOf, Ops
<1> QED
  BY <1>1, <1>5, <1>6, <1>7 DEF FrameTraced

LEMMA TopMoved ==
  ASSUME Inv, Inv', UNCHANGED <<input, result, attached>>, NEW at, Traced(at), stack # << >>,
         NEW g, Moves(at, Top, Top.sub, g), SetTop(g),
         FillScope(at, OpOf(Top), Top.scope) \in Seq(Entry)
  PROVE  Trace' /\ (attached => UNCHANGED marks)
<1>1. PICK n \in Nat \ {0} : n = Len(stack) /\ Top = stack[n] /\ n \in 1 .. Len(stack)
  BY TopProperties
<1>2. PICK f : f = Top
  OBVIOUS
<1>3. f.pc \in DOMAIN Ops(f.pipe) /\ Moves(at, f, f.sub, g)
  BY <1>2 DEF Moves
<1>4. /\ f.scope = at[Spot(f, f.sub)]
      /\ \A i \in 1 .. Len(stack) : stack[i].scope = at[Spot(stack[i], Done(stack, i))]
      /\ FrameTraced(at, f, f.sub)
  BY <1>2, <1>3, TopTraced DEF OpsOf, Ops
<1>5. f \in Frame
  BY <1>2, TopProperties
<1>6. g \in Frame
  <2>1. stack' \in Seq(Frame)
    BY DEF Inv, TypeOK, Frame, Entry, input
  <2>2. stack' = Append(Below, g) /\ Below \in Seq(Frame)
    BY TopProperties DEF SetTop
  <2> QED
    BY <2>1, <2>2, AppendedElement
<1>7. FillScope(at, Ops(f.pipe)[f.pc], f.scope) \in Seq(Entry)
  BY <1>2 DEF OpOf, OpsOf, Ops
<1>8. \A i \in 1 .. n - 1 : stack[i].scope = at[Spot(stack[i], Done(stack, i))]
  <2>1. \A i \in 1 .. n - 1 : i \in 1 .. n
    OBVIOUS
  <2> QED
    BY <1>1, <1>4, <2>1
<1>9. stack' = Append(SubSeq(stack, 1, n - 1), g)
  BY <1>1 DEF SetTop, Below
<1>10. f.pipe = stack[n].pipe /\ n \in 1 .. Len(stack)
  BY <1>1, <1>2
<1> QED
  BY <1>3, <1>4, <1>5, <1>6, <1>7, <1>8, <1>9, <1>10, Moved

-----------------------------------------------------------------------------
(* The steps of the walk.                                                  *)

\* An operator that is walked in one step.
LEMMA OneStep ==
  ASSUME Inv, Inv', UNCHANGED <<input, result, attached>>, NEW at, Traced(at), stack # << >>,
         Top.pc \in DOMAIN OpsOf(Top), OpOf(Top).kind \notin {"join", "union", "rename"},
         IF OpOf(Top).kind = "other" THEN UNCHANGED marks ELSE Fill(OpOf(Top).items, Top.scope),
         Advance(After(OpOf(Top), Top.scope))
  PROVE  Trace' /\ (attached => UNCHANGED marks)
<1> DEFINE g == [Top EXCEPT !.pc = @ + 1, !.sub = 0, !.scope = After(OpOf(Top), Top.scope)]
<1>1. Top \in Frame /\ Top.pipe \in DOMAIN query.pipes /\ Top.scope \in Seq(Entry)
  BY TopProperties DEF Frame
<1>2. SetTop(g)
  BY DEF Advance
<1>3. g.pipe = Top.pipe /\ g.pc = Top.pc + 1 /\ g.sub = 0 /\ g.scope = After(OpOf(Top), Top.scope)
  BY <1>1 DEF Frame
<1> HIDE DEF g
<1>4. PICK op : op = OpOf(Top) /\ op = Ops(Top.pipe)[Top.pc]
  BY DEF OpOf, OpsOf, Ops
<1>5. Parts(op) = 0 /\ Top.sub = 0
  <2>1. Parts(op) = 0
    BY <1>4 DEF Parts
  <2>2. Top.sub \in 0 .. Parts(op)
    BY <1>4, TopTraced
  <2> QED
    BY <2>1, <2>2
<1>6. <<Top.pipe, g.pc, g.sub>> = Then(Top.pipe, Top.pc, Top.sub)
  BY <1>3, <1>4, <1>5 DEF Then
<1>7. NextScope(at, op, 0, Top.scope) = After(op, Top.scope) /\ FillScope(at, op, Top.scope) = Top.scope
  BY <1>4 DEF NextScope, FillScope
<1>8. Ready(op, 0) /\ (FillsAt(op, 0) <=> op.kind # "other")
  BY <1>4 DEF Ready, FillsAt
<1>9. Moves(at, Top, Top.sub, g)
  <2>1. Top.pc \in DOMAIN Ops(Top.pipe) /\ Top.sub \in 0 .. Parts(op)
    BY <1>5 DEF OpsOf, Ops
  <2>2. IF FillsAt(op, 0) THEN Fill(op.items, FillScope(at, op, Top.scope)) ELSE UNCHANGED marks
    BY <1>4, <1>7, <1>8
  <2> QED
    BY <1>3, <1>4, <1>5, <1>6, <1>7, <1>8, <2>1, <2>2 DEF Moves
<1> QED
  BY <1>1, <1>2, <1>4, <1>7, <1>9, TopMoved

LEMMA OperatorsMoved ==
  ASSUME Inv, Inv', NEW at, Traced(at),
         ReadColumns \/ Extend \/ Summarize \/ Project \/ ProjectAway
           \/ ProjectKeep \/ Parse \/ MvExpand \/ MakeSeries \/ SkipOther
  PROVE  Trace' /\ (attached => UNCHANGED marks)
<1> USE DEF AtOp
<1>1. UNCHANGED <<input, result, attached>> /\ stack # << >> /\ Top.pc \in DOMAIN OpsOf(Top)
  BY DEF ReadColumns, Extend, Summarize, Project, ProjectAway, ProjectKeep,
         Parse, MvExpand, MakeSeries, SkipOther
<1>2. PICK op, s : op = OpOf(Top) /\ s = Top.scope
  OBVIOUS
<1>3. ASSUME op.kind \notin {"join", "union", "rename"},
             IF op.kind = "other" THEN UNCHANGED marks ELSE Fill(op.items, s),
             Advance(After(op, s))
      PROVE  Trace' /\ (attached => UNCHANGED marks)
  BY <1>1, <1>2, <1>3, OneStep
<1>4. CASE ReadColumns
  BY <1>2, <1>3, <1>4 DEF ReadColumns, After
<1>5. CASE Extend
  BY <1>2, <1>3, <1>5 DEF Extend, After
<1>6. CASE Summarize
  BY <1>2, <1>3, <1>6 DEF Summarize, After
<1>7. CASE Project
  BY <1>2, <1>3, <1>7 DEF Project, After
<1>8. CASE ProjectAway
  BY <1>2, <1>3, <1>8 DEF ProjectAway, After
<1>9. CASE ProjectKeep
  BY <1>2, <1>3, <1>9 DEF ProjectKeep, After
<1>10. CASE Parse
  BY <1>2, <1>3, <1>10 DEF Parse, After
<1>11. CASE MvExpand
  BY <1>2, <1>3, <1>11 DEF MvExpand, After
<1>12. CASE MakeSeries
  BY <1>2, <1>3, <1>12 DEF MakeSeries, After
<1>13. CASE SkipOther
  BY <1>2, <1>3, <1>13 DEF SkipOther, After
<1> QED
  BY <1>4, <1>5, <1>6, <1>7, <1>8, <1>9, <1>10, <1>11, <1>12, <1>13

LEMMA RenamesMoved ==
  ASSUME Inv, Inv', NEW at, Traced(at), BeginRename \/ RenameColumn \/ EndRename \/ UnionDone
  PROVE  Trace' /\ (attached => UNCHANGED marks)
<1>1. /\ UNCHANGED <<input, result, attached>> /\ stack # << >> /\ Top.pc \in DOMAIN OpsOf(Top)
      /\ OpOf(Top).kind \in {"rename", "union"}
  BY DEF BeginRename, RenameColumn, EndRename, UnionDone, AtOp
<1>2. Top \in Frame /\ Top.pipe \in DOMAIN query.pipes /\ Top.scope \in Seq(Entry)
  BY <1>1, TopProperties DEF Frame
<1>3. PICK op, s, k : op = OpOf(Top) /\ op = Ops(Top.pipe)[Top.pc] /\ s = Top.scope /\ k = Top.sub
  BY DEF OpOf, OpsOf, Ops
<1>4. /\ op.items \in Seq(Item(query)) /\ op.subs \in Seq(DOMAIN query.pipes)
      /\ Len(op.items) \in Nat /\ DOMAIN op.items = 1 .. Len(op.items)
      /\ Len(op.subs) \in Nat
  <2>1. op.items \in Seq(Item(query)) /\ op.subs \in Seq(DOMAIN query.pipes)
    BY <1>1, <1>2, <1>3, OpProperties
  <2> QED
    BY <2>1, LenProperties
<1>5. k \in 0 .. Parts(op) /\ Top.pc \in DOMAIN Ops(Top.pipe)
  BY <1>1, <1>3, TopTraced DEF OpsOf, Ops
<1>6. FillScope(at, op, s) = s /\ s \in Seq(Entry)
  BY <1>1, <1>2, <1>3 DEF FillScope
<1>7. ASSUME NEW g, g.pipe = Top.pipe, <<Top.pipe, g.pc, g.sub>> = Then(Top.pipe, Top.pc, k),
             g.scope = NextScope(at, op, k, s), Ready(op, k),
             IF FillsAt(op, k) THEN Fill(op.items, s) ELSE UNCHANGED marks, SetTop(g)
      PROVE  Trace' /\ (attached => UNCHANGED marks)
  <2>1. Moves(at, Top, Top.sub, g)
    BY <1>3, <1>5, <1>6, <1>7 DEF Moves
  <2> QED
    BY <1>1, <1>3, <1>6, <1>7, <2>1, TopMoved
<1>8. CASE BeginRename
  <2> DEFINE g == [Top EXCEPT !.sub = 1, !.scope = <<Anonymous(ScopeColumns(@))>>]
  <2>1. op.kind = "rename" /\ k = 0 /\ Fill(op.items, s) /\ SetTop(g)
    BY <1>3, <1>8 DEF BeginRename, AtOp
  <2>2. g.pipe = Top.pipe /\ g.pc = Top.pc /\ g.sub = 1 /\ g.scope = <<Anonymous(ScopeColumns(s))>>
    BY <1>2, <1>3 DEF Frame
  <2> HIDE DEF g
  <2>3. <<Top.pipe, g.pc, g.sub>> = Then(Top.pipe, Top.pc, k)
    BY <1>3, <1>4, <2>1, <2>2 DEF Then, Parts
  <2>4. g.scope = NextScope(at, op, k, s)
    BY <1>4, <2>1, <2>2 DEF NextScope
  <2>5. Ready(op, k) /\ FillsAt(op, k)
    BY <2>1 DEF Ready, FillsAt
  <2> QED
    BY <1>7, <2>1, <2>2, <2>3, <2>4, <2>5
<1>9. CASE RenameColumn
  <2> DEFINE to == <<Anonymous(Renamed(ScopeColumns(s), query.exprs[op.items[k].root].name,
                                       op.items[k].as))>>
             g == [Top EXCEPT !.sub = @ + 1, !.scope = to]
  <2>1. op.kind = "rename" /\ k \in DOMAIN op.items /\ UNCHANGED marks
    BY <1>3, <1>9 DEF RenameColumn, AtOp
  <2>2. SetTop(g)
    BY <1>3, <1>9 DEF RenameColumn
  <2>3. g.pipe = Top.pipe /\ g.pc = Top.pc /\ g.sub = k + 1 /\ g.scope = to
    BY <1>2, <1>3 DEF Frame
  <2> HIDE DEF g
  <2>4. <<Top.pipe, g.pc, g.sub>> = Then(Top.pipe, Top.pc, k)
    BY <1>3, <1>4, <2>1, <2>3 DEF Then, Parts
  <2>5. k # 0
    BY <1>4, <2>1
  <2>6. g.scope = NextScope(at, op, k, s)
    BY <2>1, <2>3, <2>5 DEF NextScope
  <2>7. Ready(op, k) /\ ~ FillsAt(op, k)
    BY <2>1, <2>5 DEF Ready, FillsAt
  <2> QED
    BY <1>7, <2>1, <2>2, <2>3, <2>4, <2>6, <2>7
<1>10. CASE EndRename \/ UnionDone
  <2> DEFINE g == [Top EXCEPT !.pc = @ + 1, !.sub = 0, !.scope = s]
  <2>1. SetTop(g) /\ UNCHANGED marks
    BY <1>3, <1>10 DEF EndRename, UnionDone, Advance
  <2>2. g.pipe = Top.pipe /\ g.pc = Top.pc + 1 /\ g.sub = 0 /\ g.scope = s
    BY <1>2, <1>3 DEF Frame
  <2> HIDE DEF g
  <2>3. \/ op.kind = "rename" /\ k = Len(op.items) + 1
        \/ op.kind = "union" /\ k = Len(op.subs)
    BY <1>3, <1>10 DEF EndRename, UnionDone, AtOp
  <2>4. k = Parts(op) /\ Parts(op) \in Nat
    BY <1>4, <2>3 DEF Parts
  <2>5. <<Top.pipe, g.pc, g.sub>> = Then(Top.pipe, Top.pc, k)
    BY <1>3, <2>2, <2>4 DEF Then
  <2>6. NextScope(at, op, k, s) = After(op, s)
    BY <1>4, <2>3 DEF NextScope
  <2>7. After(op, s) = s
    BY <2>3 DEF After
  <2>8. Ready(op, k)
    BY <1>4, <2>3 DEF Ready
  <2>9. ~ FillsAt(op, k)
    BY <1>4, <2>3 DEF FillsAt
  <2> QED
    BY <1>7, <2>1, <2>2, <2>5, <2>6, <2>7, <2>8, <2>9
<1> QED
  BY <1>8, <1>9, <1>10

\* What the trace says of a frame that has returned and of its caller.
LEMMA ReturnTraced ==
  ASSUME Inv, NEW at, Traced(at), Returned, Len(stack) > 1
  PROVE  /\ result[Top.pipe] # NoSchema
         /\ Caller.sub - 1 \in 0 .. Parts(OpOf(Caller))
         /\ FrameTraced(at, Caller, Caller.sub - 1)
         /\ \A i \in 1 .. Len(stack) - 2 : stack[i].scope = at[Spot(stack[i], Done(stack, i))]
         /\ OpOf(Caller).kind = "join" =>
              /\ Top.scope = End(at, Top.pipe)
              /\ Caller.scope = at[Spot(Caller, Caller.sub - 1)]
         /\ OpOf(Caller).kind = "union" =>
              Taken(Caller.scope, Top.scope)
                = Taken(at[Spot(Caller, Caller.sub - 1)], End(at, Top.pipe))
<1>1. PICK n \in Nat \ {0} : n = Len(stack) /\ Top = stack[n] /\ n \in 1 .. n /\ n > 1
  BY TopProperties DEF Returned
<1>2. Caller = stack[n - 1] /\ n - 1 \in 1 .. n /\ n - 1 # n
  BY <1>1 DEF Caller
<1>3. Top \in Frame /\ Top.pipe \in DOMAIN query.pipes
  BY TopProperties DEF Frame, Returned
<1>4. Caller \in Frame /\ Caller.pc \in DOMAIN OpsOf(Caller)
  BY CallerProperties
<1>5. TracedStack(at, stack)
  BY DEF Traced
<1>6. \A i \in 1 .. n : FrameTraced(at, stack[i], Done(stack, i))
  BY <1>1, <1>5 DEF TracedStack
<1>7. FrameTraced(at, Top, Done(stack, n)) /\ Done(stack, n) = Top.sub
  BY <1>1, <1>6 DEF Done
<1>8. FrameTraced(at, Caller, Done(stack, n - 1)) /\ Done(stack, n - 1) = Caller.sub - 1
  BY <1>1, <1>2, <1>6 DEF Done
<1>9. Top.pc = Len(Ops(Top.pipe)) + 2 /\ Top.pc \notin DOMAIN Ops(Top.pipe)
  <2>1. Top.pc = Len(Ops(Top.pipe)) + 2
    BY DEF Returned, OpsOf, Ops
  <2>2. Len(Ops(Top.pipe)) \in Nat /\ DOMAIN Ops(Top.pipe) = 1 .. Len(Ops(Top.pipe))
    BY <1>3, OpsLength DEF Inv
  <2> QED
    BY <2>1, <2>2
<1>10. result[Top.pipe] # NoSchema
  BY <1>7, <1>9 DEF FrameTraced
<1>11. Caller.sub - 1 \in 0 .. Parts(OpOf(Caller))
  BY <1>4, <1>8 DEF FrameTraced, PartsAt, OpOf, OpsOf, Ops
<1>12. at[Spot(Top, Done(stack, n))] = End(at, Top.pipe)
  <2>1. OpNumber(Top) = Len(Ops(Top.pipe)) + 1 /\ PartsAt(Top) = 0
    BY <1>9 DEF OpNumber, PartsAt
  <2>2. Done(stack, n) \in 0 .. 0
    BY <1>7, <2>1 DEF FrameTraced
  <2>3. Done(stack, n) = 0
    BY <2>2
  <2> QED
    BY <2>1, <2>3 DEF Spot, End
<1>13. Merging(stack) <=> OpOf(Caller).kind = "union"
  BY <1>1, <1>2 DEF Merging, Returned
<1>14. \A i \in 1 .. n : ~ (Merging(stack) /\ i >= n - 1)
                           => stack[i].scope = at[Spot(stack[i], Done(stack, i))]
  BY <1>1, <1>5 DEF TracedStack
<1>15. \A i \in 1 .. n - 2 : stack[i].scope = at[Spot(stack[i], Done(stack, i))]
  <2>1. \A i \in 1 .. n - 2 : i \in 1 .. n /\ ~ (i >= n - 1)
    BY <1>1
  <2> QED
    BY <1>14, <2>1
<1>16. ASSUME OpOf(Caller).kind = "join"
       PROVE  /\ Top.scope = End(at, Top.pipe)
              /\ Caller.scope = at[Spot(Caller, Caller.sub - 1)]
  <2>1. ~ Merging(stack)
    BY <1>13, <1>16
  <2> QED
    BY <1>1, <1>2, <1>8, <1>12, <1>14, <2>1
<1>17. ASSUME OpOf(Caller).kind = "union"
       PROVE  Taken(Caller.scope, Top.scope)
                = Taken(at[Spot(Caller, Caller.sub - 1)], End(at, Top.pipe))
  <2>1. Merging(stack)
    BY <1>13, <1>17
  <2>2. Taken(stack[Len(stack) - 1].scope, stack[Len(stack)].scope)
          = Taken(at[Spot(stack[Len(stack) - 1], Done(stack, Len(stack) - 1))],
                  End(at, stack[Len(stack)].pipe))
    BY <1>5, <2>1 DEF TracedStack
  <2> QED
    BY <1>1, <1>2, <1>8, <2>2
<1> QED
  BY <1>1, <1>8, <1>10, <1>11, <1>15, <1>16, <1>17

LEMMA TakenNone ==
  ASSUME NEW s \in Seq(Entry)
  PROVE  Taken(s, << >>) = s
<1>1. PICK t \in Seq(Entry) : t = << >>
  BY EmptySeq
<1>2. Len(t) = 0
  BY <1>1
<1>3. Taking(s, t)[0] = s
  BY TakingSteps
<1> QED
  BY <1>1, <1>2, <1>3 DEF Taken

\* A step that returns to the caller.
LEMMA CallerMoved ==
  ASSUME Inv, Inv', UNCHANGED <<input, result, attached>>, NEW at, Traced(at),
         Returned, Len(stack) > 1,
         NEW f \in Frame, f.pipe = Caller.pipe, NEW k, FrameTraced(at, f, k),
         f.scope = at[Spot(f, k)], NEW g, Moves(at, f, k, g), PopTo(g),
         FillScope(at, Ops(f.pipe)[f.pc], f.scope) \in Seq(Entry)
  PROVE  Trace' /\ (attached => UNCHANGED marks)
<1>1. PICK n \in Nat : n + 1 = Len(stack) /\ n \in 1 .. Len(stack)
  <2>1. Len(stack) \in Nat
    BY LenProperties DEF Inv, TypeOK
  <2>2. Len(stack) - 1 \in Nat /\ (Len(stack) - 1) + 1 = Len(stack) /\ Len(stack) - 1 \in 1 .. Len(stack)
    BY <2>1
  <2> QED
    BY <2>2
<1>2. Caller = stack[n]
  BY <1>1 DEF Caller
<1>3. Len(stack) - 2 = n - 1
  BY <1>1
<1>4. stack' = Append(SubSeq(stack, 1, n - 1), g)
  BY <1>3 DEF PopTo
<1>5. g \in Frame
  <2>1. stack' \in Seq(Frame)
    BY DEF Inv, TypeOK, Frame, Entry, input
  <2>2. PICK m \in Nat : m = n - 1 /\ m <= Len(stack)
    BY <1>1
  <2>3. SubSeq(stack, 1, n - 1) \in Seq(Frame)
    BY <2>2, Prefix DEF Inv, TypeOK
  <2> QED
    BY <1>4, <2>1, <2>3, AppendedElement
<1>6. \A i \in 1 .. n - 1 : stack[i].scope = at[Spot(stack[i], Done(stack, i))]
  BY <1>3, ReturnTraced
<1>7. f.pipe = stack[n].pipe
  BY <1>2
<1> QED
  BY <1>1, <1>4, <1>5, <1>6, <1>7, Moved

LEMMA ReturnsMoved ==
  ASSUME Inv, Inv', NEW at, Traced(at), JoinReturn \/ UnionReturn
  PROVE  Trace' /\ (attached => UNCHANGED marks)
<1>1. /\ UNCHANGED <<input, result, attached>> /\ Returned /\ Len(stack) > 1
  BY DEF JoinReturn, UnionReturn, ReturnedTo
<1>2. Caller \in Frame /\ Caller.pipe \in DOMAIN query.pipes /\ Caller.scope \in Seq(Entry)
      /\ Caller.sub \in Nat /\ Caller.pc \in DOMAIN Ops(Caller.pipe)
  BY <1>1, CallerProperties DEF Frame, OpsOf, Ops
<1>3. PICK op : op = OpOf(Caller) /\ op = Ops(Caller.pipe)[Caller.pc]
  BY DEF OpOf, OpsOf, Ops
<1>4. PICK k : k = Caller.sub - 1
  OBVIOUS
<1>5. /\ op.subs \in Seq(DOMAIN query.pipes) /\ (op.kind = "join" => Len(op.subs) = 1)
      /\ Len(op.subs) \in Nat /\ DOMAIN op.subs = 1 .. Len(op.subs)
  <2>1. op.subs \in Seq(DOMAIN query.pipes) /\ (op.kind = "join" => Len(op.subs) = 1)
    BY <1>2, <1>3, OpFacts DEF Inv
  <2> QED
    BY <2>1, LenProperties
<1>6. Caller.sub \in DOMAIN op.subs /\ Top.pipe = op.subs[Caller.sub]
  BY <1>1, <1>3, CallerProperties
<1>7. k \in Nat /\ k + 1 = Caller.sub /\ k < Len(op.subs) /\ k \in 0 .. Parts(op)
  <2>1. k \in 0 .. Parts(op)
    BY <1>1, <1>3, <1>4, ReturnTraced
  <2> QED
    BY <1>2, <1>4, <1>5, <1>6, <2>1
<1>8. FrameTraced(at, Caller, k) /\ result[Top.pipe] # NoSchema
  BY <1>1, <1>4, ReturnTraced
<1>9. CASE JoinReturn
  <2> DEFINE joined == Append(Caller.scope, Head(Top.scope))
             g == [Caller EXCEPT !.pc = @ + 1, !.sub = 0, !.scope = joined]
  <2>1. op.kind = "join" /\ Fill(op.items, joined) /\ PopTo(g)
    BY <1>3, <1>9 DEF JoinReturn, ReturnedTo
  <2>2. g.pipe = Caller.pipe /\ g.pc = Caller.pc + 1 /\ g.sub = 0 /\ g.scope = joined
    BY <1>2 DEF Frame
  <2>3. joined \in Seq(Entry)
    <3>1. Top \in Frame /\ Top.scope \in Seq(Entry)
      BY <1>1, TopProperties DEF Frame, Returned
    <3>2. Top.scope # << >>
      BY <1>1, <1>3, <2>1, CallerProperties
    <3>3. Head(Top.scope) \in Entry
      BY <3>1, <3>2, HeadTailProperties
    <3> QED
      BY <1>2, <3>3, AppendProperties
  <2>4. k = 0 /\ Caller.sub = 1 /\ Parts(op) = 0
    BY <1>5, <1>6, <1>7, <2>1 DEF Parts
  <2>5. Top.scope = End(at, op.subs[1]) /\ Caller.scope = at[Spot(Caller, k)]
    BY <1>1, <1>3, <1>4, <1>6, <2>1, <2>4, ReturnTraced
  <2>6. joined = NextScope(at, op, 0, Caller.scope)
    BY <2>1, <2>5 DEF NextScope
  <2> HIDE DEF g, joined
  <2>7. FillScope(at, op, Caller.scope) = joined
    BY <2>1, <2>6 DEF FillScope
  <2>8. Ready(op, k) /\ FillsAt(op, k)
    BY <1>6, <1>8, <2>1, <2>4 DEF Ready, FillsAt
  <2>9. <<Caller.pipe, g.pc, g.sub>> = Then(Caller.pipe, Caller.pc, k)
    BY <1>3, <2>2, <2>4 DEF Then
  <2>10. Moves(at, Caller, k, g)
    BY <1>2, <1>3, <1>7, <2>1, <2>2, <2>4, <2>6, <2>7, <2>8, <2>9 DEF Moves
  <2> QED
    BY <1>1, <1>2, <1>3, <1>8, <2>1, <2>3, <2>5, <2>7, <2>10, CallerMoved
<1>10. CASE UnionReturn
  <2> DEFINE s == at[Spot(Caller, k)]
             f == [Caller EXCEPT !.scope = s]
  <2>1. op.kind = "union" /\ Top.scope = << >> /\ PopTo(Caller) /\ UNCHANGED marks
    BY <1>3, <1>10 DEF UnionReturn, ReturnedTo, marks
  <2>2. s \in Seq(Entry)
    <3>1. OpNumber(Caller) = Caller.pc /\ Caller.pc \in Nat
      BY <1>2 DEF OpNumber, Frame
    <3> QED
      BY <1>2, <1>7, <3>1 DEF Traced, Walks, Spot
  <2>3. f \in Frame /\ f.pipe = Caller.pipe /\ f.pc = Caller.pc /\ f.scope = s
    BY <1>2, <2>2 DEF Frame
  <2> HIDE DEF f
  <2>4. Spot(f, k) = Spot(Caller, k)
    BY <2>3 DEF Spot, OpNumber
  <2>5. f.scope = at[Spot(f, k)]
    BY <2>3, <2>4
  <2>6. FrameTraced(at, f, k)
    BY <1>8, <2>3 DEF FrameTraced, OpNumber, PartsAt
  <2>7. Caller.scope = Taken(s, End(at, op.subs[k + 1]))
    <3>1. Taken(Caller.scope, Top.scope) = Taken(s, End(at, Top.pipe))
      BY <1>1, <1>3, <1>4, <2>1, ReturnTraced
    <3> QED
      BY <1>2, <1>6, <1>7, <2>1, <3>1, TakenNone
  <2> HIDE DEF s
  <2>8. Caller.scope = NextScope(at, op, k, s)
    BY <1>7, <2>1, <2>7 DEF NextScope
  <2>9. Ready(op, k) /\ ~ FillsAt(op, k) /\ FillScope(at, op, s) = s
    BY <1>6, <1>7, <1>8, <2>1 DEF Ready, FillsAt, FillScope
  <2>10. <<f.pipe, Caller.pc, Caller.sub>> = Then(f.pipe, f.pc, k)
    BY <1>3, <1>7, <2>1, <2>3 DEF Then, Parts
  <2>11. Moves(at, f, k, Caller)
    BY <1>2, <1>3, <1>7, <2>1, <2>3, <2>8, <2>9, <2>10 DEF Moves
  <2>12. FillScope(at, Ops(f.pipe)[f.pc], f.scope) \in Seq(Entry)
    BY <1>3, <2>2, <2>3, <2>9
  <2> QED
    BY <1>1, <2>1, <2>3, <2>5, <2>6, <2>11, <2>12, CallerMoved
<1> QED
  BY <1>9, <1>10

-----------------------------------------------------------------------------
(* Calls, and the end of a walk.                                           *)

LEMMA StillWalked ==
  ASSUME Inputs, UNCHANGED <<input, marks>>, ResultsKept, NEW at, NEW d \in DOMAIN query.pipes,
         NEW J, NEW K, WalkedUpTo(at, d, J, K)
  PROVE  WalkedUpTo(at, d, J, K)'
<1>1. UNCHANGED input /\ table' = table /\ rtype' = rtype
  BY DEF marks
<1>2. Ops(d)' = Ops(d) /\ (\A op : Parts(op)' = Parts(op)) /\ \A j, k : Then(d, j, k)' = Then(d, j, k)
  BY <1>1 DEF input, Ops, Parts, Then
<1>3. ASSUME NEW i \in DOMAIN Ops(d), NEW l \in 0 .. Parts(Ops(d)[i]), Earlier(i, l, J, K)
      PROVE  LeadsAt(at, d, i, l)'
  <2>1. PICK op, s, t : op = Ops(d)[i] /\ s = at[<<d, i, l>>] /\ t = at[Then(d, i, l)]
    OBVIOUS
  <2>2. Leads(at, op, l, s, t)
    BY <1>3, <2>1 DEF WalkedUpTo, LeadsAt
  <2>3. SameMarksAt(op) /\ SameEnds(at, at, op, l)
    BY <1>1 DEF SameMarksAt, SameEnds
  <2>4. l \in Nat
    BY PartsType
  <2>5. Leads(at, op, l, s, t)'
    BY <1>1, <2>1, <2>2, <2>3, <2>4, LeadsSame
  <2> QED
    BY <1>2, <2>1, <2>5 DEF LeadsAt
<1>4. \A i \in DOMAIN Ops(d)' : \A l \in 0 .. Parts(Ops(d)[i])' :
        Earlier(i, l, J, K) => LeadsAt(at, d, i, l)'
  BY <1>2, <1>3
<1> QED
  BY <1>4 DEF WalkedUpTo, Earlier

LEMMA FrameStill ==
  ASSUME Inputs, UNCHANGED <<input, marks>>, ResultsKept, NEW at, NEW f \in Frame, NEW k,
         FrameTraced(at, f, k)
  PROVE  FrameTraced(at, f, k)'
<1>1. UNCHANGED input /\ f.pipe \in DOMAIN query.pipes
  BY DEF Frame
<1>2. PICK J : J = OpNumber(f)
  OBVIOUS
<1>3. WalkedUpTo(at, f.pipe, J, k)'
  BY <1>1, <1>2, StillWalked DEF FrameTraced
<1>4. OpNumber(f)' = J
  BY <1>1, <1>2, RigidFrames
<1>5. WalkedUpTo(at, f.pipe, OpNumber(f), k)'
  BY <1>3, <1>4 DEF WalkedUpTo
<1> QED
  BY <1>1, <1>5, FrameKept

\* A stack that is on the trace stays on it while no mark changes.
LEMMA StackStill ==
  ASSUME Inputs, UNCHANGED <<input, marks>>, ResultsKept, NEW at, NEW s \in Seq(Frame),
         TracedStack(at, s)
  PROVE  TracedStack(at, s)'
<1>1. UNCHANGED input /\ query' = query
  BY DEF input
<1>2. ASSUME NEW i \in 1 .. Len(s)
      PROVE  FrameTraced(at, s[i], Done(s, i))'
  <2>1. PICK f, k : f \in Frame /\ f = s[i] /\ k = Done(s, i)
    BY ElementOfSeq
  <2>2. FrameTraced(at, f, k)
    BY <2>1 DEF TracedStack
  <2>3. FrameTraced(at, f, k)'
    BY <2>1, <2>2, FrameStill
  <2>4. Done(s, i)' = k
    BY <2>1 DEF Done
  <2> QED
    BY <2>1, <2>3, <2>4
<1>3. Merging(s)' = Merging(s)
  BY <1>1 DEF Merging, OpsOf, OpOf
<1>4. \A i : Done(s, i)' = Done(s, i)
  BY DEF Done
<1>5. /\ \A f, k : Spot(f, k)' = Spot(f, k)
      /\ \A p : End(at, p)' = End(at, p)
  BY <1>1, RigidFrames
<1> QED
  BY <1>1, <1>2, <1>3, <1>4, <1>5 DEF TracedStack

\* The trace stands when no mark and no result changes.
LEMMA SameTrace ==
  ASSUME Inv, UNCHANGED <<input, marks, result>>, NEW at, Traced(at),
         NEW s \in Seq(Frame), s = stack', TracedStack(at, s),
         attached' => /\ result[query.main] # NoSchema
                      /\ \A i \in 1 .. Len(s) : result[s[i].pipe] # NoSchema
  PROVE  Trace'
<1>1. UNCHANGED <<input, marks>> /\ result' = result /\ query' = query /\ schemas' = schemas /\ Inputs
  BY DEF input, Inv
<1>2. ResultsKept
  BY <1>1 DEF ResultsKept
<1>3. at \in Walks' /\ Starts(at)'
  BY <1>1 DEF Traced, Walks, Entry, Starts, SourceEntry, TableSchema
<1>4. Kept(at)'
  <2>1. ASSUME NEW d \in DOMAIN query.pipes, result[d] # NoSchema
        PROVE  WalkedUpTo(at, d, Len(Ops(d)) + 1, 0)' /\ result[d] = ScopeColumns(End(at, d))
    <3>1. WalkedUpTo(at, d, Len(Ops(d)) + 1, 0) /\ result[d] = ScopeColumns(End(at, d))
      BY <2>1 DEF Traced, Kept
    <3>2. PICK J : J = Len(Ops(d)) + 1
      OBVIOUS
    <3>3. WalkedUpTo(at, d, J, 0)'
      BY <1>1, <1>2, <3>1, <3>2, StillWalked
    <3>4. WalkedUpTo(at, d, Len(Ops(d)) + 1, 0)'
      BY <1>1, <3>2, <3>3 DEF WalkedUpTo, Ops
    <3> QED
      BY <3>1, <3>4
  <2>2. \A d : Ops(d)' = Ops(d) /\ End(at, d)' = End(at, d)
    BY <1>1 DEF Ops, End
  <2> QED
    BY <1>1, <2>1, <2>2 DEF Kept
<1>5. TracedStack(at, s)'
  BY <1>1, <1>2, StackStill
<1>6. WalksAgain'
  BY <1>1 DEF WalksAgain
<1> QED
  BY <1>3, <1>4, <1>5, <1>6 DEF Traced, Trace

\* A new call starts where the trace of its pipeline starts.
LEMMA NewFrameTraced ==
  ASSUME Inv, NEW at, Starts(at), NEW d \in DOMAIN query.pipes
  PROVE  /\ NewFrame(d) \in Frame /\ NewFrame(d).pipe = d /\ NewFrame(d).sub = 0
         /\ FrameTraced(at, NewFrame(d), 0)
         /\ NewFrame(d).scope = at[Spot(NewFrame(d), 0)]
         /\ NewFrame(d).pc # Len(OpsOf(NewFrame(d))) + 2
<1>1. PICK f \in Frame : f = NewFrame(d)
  BY NewFrameProperties
<1>2. f.pipe = d /\ f.sub = 0 /\ f.pc = 1 /\ f.scope = <<SourceEntry(d)>>
  BY <1>1 DEF NewFrame
<1>3. PICK n \in Nat : n = Len(Ops(d)) /\ DOMAIN Ops(d) = 1 .. n
  BY OpsLength DEF Inv
<1>4. OpNumber(f) = 1
  <2>1. 1 \notin 1 .. n => n = 0
    OBVIOUS
  <2> QED
    BY <1>2, <1>3, <2>1 DEF OpNumber
<1>5. WalkedUpTo(at, d, 1, 0)
  <2>1. ASSUME NEW i \in DOMAIN Ops(d), NEW l \in 0 .. Parts(Ops(d)[i])
        PROVE  ~ Earlier(i, l, 1, 0)
    <3>1. Parts(Ops(d)[i]) \in Nat
      BY PartsType DEF Inv
    <3>2. i \in 1 .. n /\ l \in Nat
      BY <1>3, <3>1
    <3> QED
      BY <3>2 DEF Earlier
  <2> QED
    BY <2>1 DEF WalkedUpTo
<1>6. PartsAt(f) \in Nat
  BY <1>2, PartsType DEF PartsAt, Inv
<1>7. 1 \in 1 .. n + 2 /\ 1 # n + 2 /\ 0 \in 0 .. PartsAt(f)
  BY <1>6
<1>8. FrameTraced(at, f, 0)
  BY <1>2, <1>3, <1>4, <1>5, <1>7 DEF FrameTraced
<1>9. f.scope = at[Spot(f, 0)]
  BY <1>2, <1>4 DEF Spot, Starts
<1> QED
  BY <1>1, <1>2, <1>3, <1>7, <1>8, <1>9 DEF OpsOf, Ops

LEMMA SequenceOfOne ==
  ASSUME NEW S, NEW e \in S
  PROVE  <<e>> \in Seq(S)
OBVIOUS

LEMMA EnrichTraced ==
  ASSUME Inv, NEW at, Traced(at), Enrich
  PROVE  Trace'
<1>1. PICK d \in DOMAIN query.pipes : d = query.main
  BY QueryStructure DEF Inv
<1>2. PICK f \in Frame : f = NewFrame(d)
  BY <1>1, NewFrameTraced DEF Traced
<1>3. /\ f.pipe = d /\ f.sub = 0 /\ FrameTraced(at, f, 0) /\ f.scope = at[Spot(f, 0)]
  BY <1>2, NewFrameTraced DEF Traced
<1>4. PICK s \in Seq(Frame) : s = <<f>>
  <2>1. <<f>> \in Seq(Frame)
    BY SequenceOfOne
  <2> QED
    BY <2>1
<1>5. Len(s) = 1 /\ s[1] = f /\ 1 .. Len(s) = {1}
  BY <1>4
<1>6. TracedStack(at, s)
  <2>1. Done(s, 1) = 0
    BY <1>3, <1>5 DEF Done
  <2>2. ~ Merging(s)
    BY <1>5 DEF Merging
  <2> QED
    BY <1>1, <1>3, <1>5, <2>1, <2>2 DEF TracedStack
<1>7. UNCHANGED <<input, marks, result>> /\ attached' = attached /\ stack' = s
  BY <1>1, <1>2, <1>4 DEF Enrich
<1>8. attached' => /\ result[query.main] # NoSchema
                   /\ \A i \in 1 .. Len(s) : result[s[i].pipe] # NoSchema
  BY <1>1, <1>3, <1>5, <1>7 DEF Traced, WalksAgain
<1> QED
  BY <1>6, <1>7, <1>8, SameTrace

LEMMA FinishTraced ==
  ASSUME Inv, NEW at, Traced(at), Finish
  PROVE  Trace'
<1>1. PICK s \in Seq(Frame) : s = << >>
  BY EmptySeq
<1>2. Len(s) = 0 /\ stack' = s /\ UNCHANGED <<input, marks, result>>
  BY <1>1 DEF Finish
<1>3. 1 .. Len(s) = {}
  BY <1>2
<1>4. TracedStack(at, s)
  BY <1>2, <1>3 DEF TracedStack, Merging
<1>5. result[query.main] # NoSchema
  <2>1. Len(stack) = 1 /\ Top = stack[1] /\ Top.pc = Len(OpsOf(Top)) + 2
    BY DEF Finish, Returned, Top
  <2>2. FrameTraced(at, Top, Done(stack, 1)) /\ Top.pipe = query.main
    BY <2>1 DEF Traced, TracedStack
  <2> QED
    BY <2>1, <2>2 DEF FrameTraced, OpsOf, Ops
<1> QED
  BY <1>2, <1>3, <1>4, <1>5, SameTrace

-----------------------------------------------------------------------------
(* Calls, merges and the end of a pipeline.                                *)

\* Taking the first entry and then the others is taking them all.
LEMMA TakenFirst ==
  ASSUME NEW s \in Seq(Entry), NEW t \in Seq(Entry), t # << >>
  PROVE  Taken(With(s, Head(t)), Tail(t)) = Taken(s, t)
<1>1. PICK n \in Nat : n = Len(t) /\ n # 0
  BY LenProperties, EmptySeq
<1>2. PICK u \in Seq(Entry) : u = Tail(t) /\ Len(u) = n - 1 /\ \A k \in 1 .. n - 1 : u[k] = t[k + 1]
  <2>1. /\ Tail(t) \in Seq(Entry) /\ Len(Tail(t)) = n - 1
        /\ \A k \in 1 .. Len(Tail(t)) : Tail(t)[k] = t[k + 1]
    BY <1>1, HeadTailProperties
  <2> QED
    BY <2>1
<1>3. Head(t) = t[1] /\ t[1] \in Entry
  BY <1>1, HeadTailProperties
<1>4. PICK r \in Seq(Entry) : r = With(s, t[1])
  BY <1>3, WithType
<1>5. PICK m, v : m = Taking(s, t) /\ v = Taking(r, u)
  OBVIOUS
<1>6. m[0] = s /\ \A k \in 1 .. n : m[k] = With(m[k - 1], t[k])
  BY <1>1, <1>5, TakingSteps
<1>7. v[0] = r /\ \A k \in 1 .. n - 1 : v[k] = With(v[k - 1], u[k])
  <2>1. Taking(r, u)[0] = r /\ \A k \in 1 .. Len(u) : Taking(r, u)[k] = With(Taking(r, u)[k - 1], u[k])
    BY TakingSteps
  <2> QED
    BY <1>2, <1>5, <2>1
<1> DEFINE T == {k \in Nat : k <= n - 1 => v[k] = m[k + 1]}
<1>8. 0 \in T
  <2>1. 1 \in 1 .. n /\ 1 - 1 = 0 /\ 0 + 1 = 1
    BY <1>1
  <2>2. m[1] = With(m[0], t[1])
    BY <1>6, <2>1
  <2> QED
    BY <1>4, <1>6, <1>7, <2>1, <2>2
<1>9. ASSUME NEW k \in Nat, k \in T PROVE k + 1 \in T
  <2> SUFFICES ASSUME k + 1 <= n - 1 PROVE v[k + 1] = m[k + 1 + 1]
    OBVIOUS
  <2>1. k + 1 \in 1 .. n - 1 /\ k + 1 + 1 \in 1 .. n /\ k + 1 - 1 = k /\ k + 1 + 1 - 1 = k + 1
    BY <1>1
  <2>2. v[k + 1] = With(v[k], u[k + 1]) /\ m[k + 1 + 1] = With(m[k + 1], t[k + 1 + 1])
    BY <1>6, <1>7, <2>1
  <2>3. u[k + 1] = t[k + 1 + 1] /\ v[k] = m[k + 1]
    BY <1>2, <1>9, <2>1
  <2> QED
    BY <2>2, <2>3
<1> HIDE DEF T
<1>10. n - 1 \in Nat /\ n - 1 + 1 = n /\ n - 1 <= n - 1
  BY <1>1
<1>11. n - 1 \in T
  BY <1>8, <1>9, <1>10, InductionOverNat
<1>12. v[n - 1] = m[n]
  BY <1>10, <1>11 DEF T
<1> QED
  BY <1>1, <1>2, <1>3, <1>4, <1>5, <1>12 DEF Taken

\* The trace does not look at a frame's scope.
LEMMA FrameAlike ==
  ASSUME NEW f, NEW g, f.pipe = g.pipe, f.pc = g.pc, NEW at, NEW k
  PROVE  /\ FrameTraced(at, f, k) => FrameTraced(at, g, k)
         /\ Spot(f, k) = Spot(g, k) /\ OpsOf(f) = OpsOf(g) /\ OpOf(f) = OpOf(g)
BY DEF FrameTraced, OpNumber, PartsAt, Spot, OpsOf, OpOf

LEMMA TwoOnTop ==
  ASSUME NEW S, NEW s \in Seq(S), NEW n \in Nat, n <= Len(s), NEW a \in S, NEW b \in S,
         NEW t, t = Append(Append(SubSeq(s, 1, n), a), b)
  PROVE  /\ t \in Seq(S) /\ Len(t) = n + 2 /\ t[n + 1] = a /\ t[n + 2] = b
         /\ \A i \in 1 .. n : t[i] = s[i]
<1>1. PICK r \in Seq(S) : r = SubSeq(s, 1, n) /\ Len(r) = n /\ \A i \in 1 .. n : r[i] = s[i]
  <2>1. SubSeq(s, 1, n) \in Seq(S) /\ Len(SubSeq(s, 1, n)) = n
        /\ \A i \in 1 .. n : SubSeq(s, 1, n)[i] = s[i]
    BY Prefix
  <2> QED
    BY <2>1
<1>2. PICK u : u = Append(r, a)
  OBVIOUS
<1>6. u \in Seq(S) /\ Len(u) = n + 1 /\ u[n + 1] = a /\ \A i \in 1 .. n : u[i] = r[i]
  BY <1>1, <1>2, AppendProperties
<1>3. /\ t \in Seq(S) /\ Len(t) = n + 1 + 1 /\ t[n + 1 + 1] = b
      /\ \A i \in 1 .. n + 1 : t[i] = u[i]
  BY <1>1, <1>2, <1>6, AppendProperties
<1>4. n + 1 + 1 = n + 2 /\ n + 1 \in 1 .. n + 1 /\ \A i \in 1 .. n : i \in 1 .. n + 1
  OBVIOUS
<1> QED
  BY <1>1, <1>3, <1>4, <1>6

LEMMA UnionMergeTraced ==
  ASSUME Inv, NEW at, Traced(at), UnionMerge
  PROVE  Trace'
<1>1. /\ Returned /\ Len(stack) > 1 /\ OpOf(Caller).kind = "union" /\ Top.scope # << >>
      /\ UNCHANGED <<input, marks, result, attached>> /\ stack # << >>
  BY DEF UnionMerge, ReturnedTo, Returned
<1>2. PICK n \in Nat : n + 2 = Len(stack)
  <2>1. Len(stack) \in Nat
    BY LenProperties DEF Inv, TypeOK
  <2>2. Len(stack) - 2 \in Nat /\ (Len(stack) - 2) + 2 = Len(stack)
    BY <1>1, <2>1
  <2> QED
    BY <2>2
<1>3. Top = stack[n + 2] /\ Caller = stack[n + 1] /\ Len(stack) - 2 = n /\ Len(stack) - 1 = n + 1
      /\ n <= Len(stack)
  <2>1. Len(stack) - 2 = n /\ Len(stack) - 1 = n + 1 /\ n <= Len(stack)
    BY <1>2
  <2> QED
    BY <1>2, <2>1 DEF Top, Caller
<1>4. Top \in Frame /\ Top.scope \in Seq(Entry) /\ Caller \in Frame /\ Caller.scope \in Seq(Entry)
  BY <1>1, TopProperties, CallerProperties DEF Frame
<1>5. Head(Top.scope) \in Entry /\ Tail(Top.scope) \in Seq(Entry)
  BY <1>1, <1>4, HeadTailProperties
<1>6. PICK merged \in Seq(Entry) : merged = With(Caller.scope, Head(Top.scope))
  BY <1>4, <1>5, WithType
<1> DEFINE f == [Caller EXCEPT !.scope = merged]
           g == [Top EXCEPT !.scope = Tail(@)]
<1>7. /\ f \in Frame /\ f.pipe = Caller.pipe /\ f.pc = Caller.pc /\ f.sub = Caller.sub
      /\ f.scope = merged
  BY <1>4 DEF Frame
<1>8. /\ g \in Frame /\ g.pipe = Top.pipe /\ g.pc = Top.pc /\ g.sub = Top.sub
      /\ g.scope = Tail(Top.scope)
  BY <1>4, <1>5 DEF Frame
<1>9. stack' = Append(Append(SubSeq(stack, 1, n), f), g)
  BY <1>3, <1>6 DEF UnionMerge, With
<1> HIDE DEF f, g
<1>10. PICK s : s = stack'
  OBVIOUS
<1>11. /\ s \in Seq(Frame) /\ Len(s) = n + 2 /\ s[n + 1] = f /\ s[n + 2] = g
       /\ \A i \in 1 .. n : s[i] = stack[i]
  <2>1. stack \in Seq(Frame) /\ f \in Frame /\ g \in Frame
    BY <1>7, <1>8 DEF Inv, TypeOK
  <2> QED
    BY <1>3, <1>9, <1>10, <2>1, TwoOnTop
<1>12. ASSUME NEW i \in 1 .. n + 2
       PROVE  /\ s[i].pipe = stack[i].pipe /\ s[i].pc = stack[i].pc
              /\ Done(s, i) = Done(stack, i)
              /\ i <= n => s[i] = stack[i]
  <2>1. s[i].pipe = stack[i].pipe /\ s[i].pc = stack[i].pc /\ s[i].sub = stack[i].sub
        /\ (i <= n => s[i] = stack[i])
    <3>1. i = n + 1 \/ i = n + 2 \/ i \in 1 .. n
      OBVIOUS
    <3>2. i = n + 1 => ~ (i <= n)
      OBVIOUS
    <3>3. i = n + 2 => ~ (i <= n)
      OBVIOUS
    <3> QED
      BY <1>3, <1>7, <1>8, <1>11, <3>1, <3>2, <3>3
  <2> QED
    BY <1>2, <1>11, <2>1 DEF Done
<1>13. TracedStack(at, stack)
  BY DEF Traced
<1>14. TracedStack(at, s)
  <2>1. s[1].pipe = query.main
    <3>1. 1 \in 1 .. n + 2 /\ Len(stack) > 0
      BY <1>2
    <3> QED
      BY <1>12, <1>13, <3>1 DEF TracedStack
  <2>2. \A i \in 1 .. n + 2 : FrameTraced(at, s[i], Done(s, i))
    <3> TAKE i \in 1 .. n + 2
    <3>1. FrameTraced(at, stack[i], Done(stack, i))
      BY <1>2, <1>13 DEF TracedStack
    <3> QED
      BY <1>12, <3>1, FrameAlike
  <2>3. \A i, k \in 1 .. n + 2 : i < k => s[i].pipe \in query.nested[s[k].pipe]
    <3>1. \A i, k \in 1 .. n + 2 : i < k => stack[i].pipe \in query.nested[stack[k].pipe]
      BY <1>2, <1>13 DEF TracedStack
    <3> QED
      BY <1>12, <3>1
  <2>4. \A i \in 1 .. n + 2 : i < n + 1 => s[i].scope = at[Spot(s[i], Done(s, i))]
    <3> SUFFICES ASSUME NEW i \in 1 .. n + 2, i < n + 1
                 PROVE  s[i].scope = at[Spot(s[i], Done(s, i))]
      OBVIOUS
    <3>1. i <= n /\ i \in 1 .. Len(stack) - 2
      BY <1>3
    <3>2. stack[i].scope = at[Spot(stack[i], Done(stack, i))]
      BY <1>1, <3>1, ReturnTraced
    <3> QED
      BY <1>12, <3>1, <3>2
  <2>5. Taken(s[n + 1].scope, s[n + 2].scope)
          = Taken(at[Spot(s[n + 1], Done(s, n + 1))], End(at, s[n + 2].pipe))
    <3>1. Taken(Caller.scope, Top.scope)
            = Taken(at[Spot(Caller, Caller.sub - 1)], End(at, Top.pipe))
      BY <1>1, ReturnTraced
    <3>2. Taken(merged, Tail(Top.scope)) = Taken(Caller.scope, Top.scope)
      BY <1>1, <1>4, <1>6, TakenFirst
    <3>3. Done(s, n + 1) = Caller.sub - 1
      <4>1. n + 1 # n + 2
        OBVIOUS
      <4> QED
        BY <1>7, <1>11, <4>1 DEF Done
    <3>4. Spot(f, Caller.sub - 1) = Spot(Caller, Caller.sub - 1)
      BY <1>7, FrameAlike
    <3> QED
      BY <1>7, <1>8, <1>11, <3>1, <3>2, <3>3, <3>4
  <2>6. n + 2 - 1 = n + 1 /\ \A i \in 1 .. n + 2 : i < n + 1 \/ i >= n + 1
    OBVIOUS
  <2>7. Merging(s)
    <3>1. OpOf(f) = OpOf(Caller) /\ OpsOf(g) = OpsOf(Top)
      BY <1>7, <1>8, FrameAlike
    <3> QED
      BY <1>1, <1>8, <1>11, <2>6, <3>1 DEF Merging, Returned
  <2> QED
    BY <1>11, <2>1, <2>2, <2>3, <2>4, <2>5, <2>6, <2>7 DEF TracedStack
<1>15. attached' => /\ result[query.main] # NoSchema
                    /\ \A i \in 1 .. Len(s) : result[s[i].pipe] # NoSchema
  <2>1. attached' => /\ result[query.main] # NoSchema
                     /\ \A i \in 1 .. n + 2 : result[stack[i].pipe] # NoSchema
    BY <1>1, <1>2 DEF Traced, WalksAgain
  <2> QED
    BY <1>11, <1>12, <2>1
<1> QED
  BY <1>1, <1>10, <1>11, <1>14, <1>15, SameTrace

LEMMA EnterSubTraced ==
  ASSUME Inv, NEW at, Traced(at), EnterSub
  PROVE  Trace'
<1>1. /\ stack # << >> /\ Top.pc \in DOMAIN OpsOf(Top) /\ OpOf(Top).kind \in {"join", "union"}
      /\ Top.sub < Len(OpOf(Top).subs)
      /\ UNCHANGED <<input, marks, result, attached>>
  BY DEF EnterSub, AtOp
<1>2. PICK n \in Nat : n + 1 = Len(stack)
  <2>1. Len(stack) \in Nat \ {0}
    BY <1>1, TopProperties
  <2>2. Len(stack) - 1 \in Nat /\ (Len(stack) - 1) + 1 = Len(stack)
    BY <2>1
  <2> QED
    BY <2>2
<1>3. Len(stack) - 1 = n /\ Top = stack[n + 1] /\ n <= Len(stack)
  BY <1>2 DEF Top
<1>4. Top \in Frame /\ Top.pipe \in DOMAIN query.pipes /\ Top.sub \in Nat
  BY <1>1, TopProperties DEF Frame
<1>5. PICK op : op = OpOf(Top) /\ op = Ops(Top.pipe)[Top.pc] /\ Top.pc \in DOMAIN Ops(Top.pipe)
  BY <1>1 DEF OpOf, OpsOf, Ops
<1>6. /\ op.subs \in Seq(DOMAIN query.pipes)
      /\ \A k \in DOMAIN op.subs : query.nested[op.subs[k]] = query.nested[Top.pipe] \cup {Top.pipe}
  BY <1>4, <1>5, OpFacts DEF Inv
<1>7. Top.sub + 1 \in DOMAIN op.subs
  <2>1. Len(op.subs) \in Nat /\ DOMAIN op.subs = 1 .. Len(op.subs)
    BY <1>6, LenProperties
  <2> QED
    BY <1>1, <1>4, <1>5, <2>1
<1>8. PICK d \in DOMAIN query.pipes : d = op.subs[Top.sub + 1]
  BY <1>6, <1>7, ElementOfSeq
<1>9. query.nested[d] = query.nested[Top.pipe] \cup {Top.pipe}
  BY <1>6, <1>7, <1>8
<1> DEFINE f == [Top EXCEPT !.sub = @ + 1]
           g == NewFrame(d)
<1>10. f \in Frame /\ f.pipe = Top.pipe /\ f.pc = Top.pc /\ f.sub = Top.sub + 1 /\ f.scope = Top.scope
  BY <1>4 DEF Frame
<1>11. /\ g \in Frame /\ g.pipe = d /\ g.sub = 0 /\ FrameTraced(at, g, 0)
       /\ g.scope = at[Spot(g, 0)] /\ g.pc # Len(OpsOf(g)) + 2
  BY NewFrameTraced DEF Traced
<1>12. stack' = Append(Append(SubSeq(stack, 1, n), f), g)
  BY <1>3, <1>5, <1>8 DEF EnterSub, Below
<1> HIDE DEF f, g
<1>13. PICK s : s = stack'
  OBVIOUS
<1>14. /\ s \in Seq(Frame) /\ Len(s) = n + 2 /\ s[n + 1] = f /\ s[n + 2] = g
       /\ \A i \in 1 .. n : s[i] = stack[i]
  <2>1. stack \in Seq(Frame) /\ f \in Frame /\ g \in Frame
    BY <1>10, <1>11 DEF Inv, TypeOK
  <2> QED
    BY <1>3, <1>12, <1>13, <2>1, TwoOnTop
<1>15. ASSUME NEW i \in 1 .. n + 1
       PROVE  /\ s[i].pipe = stack[i].pipe /\ s[i].pc = stack[i].pc
              /\ s[i].scope = stack[i].scope /\ Done(s, i) = Done(stack, i)
  <2>1. CASE i = n + 1
    <3>1. Top.sub + 1 - 1 = Top.sub /\ n + 1 # n + 2
      BY <1>4
    <3>2. s[i] = f /\ stack[i] = Top
      BY <1>3, <1>14, <2>1
    <3>3. Done(s, i) = f.sub - 1 /\ Done(stack, i) = Top.sub
      BY <1>2, <1>14, <2>1, <3>1, <3>2 DEF Done
    <3>4. f.sub - 1 = Top.sub
      BY <1>4, <1>10
    <3>5. Done(s, i) = Done(stack, i)
      BY <3>3, <3>4
    <3> QED
      BY <1>10, <3>2, <3>5
  <2>2. CASE i # n + 1
    <3>1. i \in 1 .. n /\ i # n + 2
      BY <2>2
    <3> QED
      BY <1>2, <1>14, <2>2, <3>1 DEF Done
  <2> QED
    BY <2>1, <2>2
<1>16. Done(s, n + 2) = 0
  BY <1>11, <1>14 DEF Done
<1>17. \A i \in 1 .. n + 2 : i = n + 2 \/ i \in 1 .. n + 1
  OBVIOUS
<1>18. TracedStack(at, stack)
  BY DEF Traced
<1>19. ~ Merging(s)
  BY <1>11, <1>14 DEF Merging
<1>20. TracedStack(at, s)
  <2>1. s[1].pipe = query.main
    <3>1. 1 \in 1 .. n + 1 /\ Len(stack) > 0
      BY <1>2
    <3> QED
      BY <1>15, <1>18, <3>1 DEF TracedStack
  <2>2. \A i \in 1 .. n + 1 : FrameTraced(at, s[i], Done(s, i))
    <3> TAKE i \in 1 .. n + 1
    <3>1. FrameTraced(at, stack[i], Done(stack, i))
      BY <1>2, <1>18 DEF TracedStack
    <3> QED
      BY <1>15, <3>1, FrameAlike
  <2>3. \A i \in 1 .. n + 1 : s[i].scope = at[Spot(s[i], Done(s, i))]
    <3> TAKE i \in 1 .. n + 1
    <3>1. stack[i].scope = at[Spot(stack[i], Done(stack, i))]
      BY <1>1, <1>2, TopTraced
    <3>2. Spot(s[i], Done(s, i)) = Spot(stack[i], Done(stack, i))
      BY <1>15, FrameAlike
    <3> QED
      BY <1>15, <3>1, <3>2
  <2>4. ASSUME NEW i \in 1 .. n + 2, NEW k \in 1 .. n + 2, i < k
        PROVE  s[i].pipe \in query.nested[s[k].pipe]
    <3>1. i \in 1 .. n + 1 /\ s[i].pipe = stack[i].pipe
      <4>1. i \in 1 .. n + 1
        BY <2>4
      <4> QED
        BY <1>15, <4>1
    <3>2. \A j \in 1 .. n + 1 : i < j => stack[i].pipe \in query.nested[stack[j].pipe]
      BY <1>2, <1>18, <3>1 DEF TracedStack
    <3>3. CASE k \in 1 .. n + 1
      BY <1>15, <2>4, <3>1, <3>2, <3>3
    <3>4. CASE k = n + 2
      <4>1. s[k].pipe = d
        BY <1>11, <1>14, <3>4
      <4>2. i = n + 1 \/ i < n + 1
        BY <3>1
      <4>3. n + 1 \in 1 .. n + 1
        OBVIOUS
      <4>4. stack[i].pipe = Top.pipe \/ stack[i].pipe \in query.nested[Top.pipe]
        BY <1>3, <3>2, <4>2, <4>3
      <4> QED
        BY <1>9, <3>1, <4>1, <4>4
    <3> QED
      BY <1>17, <3>3, <3>4
  <2>5. \A i \in 1 .. n + 2 : /\ FrameTraced(at, s[i], Done(s, i))
                              /\ s[i].scope = at[Spot(s[i], Done(s, i))]
    <3>1. FrameTraced(at, s[n + 2], Done(s, n + 2)) /\ s[n + 2].scope = at[Spot(s[n + 2], Done(s, n + 2))]
      BY <1>11, <1>14, <1>16
    <3> QED
      BY <1>17, <2>2, <2>3, <3>1
  <2> QED
    BY <1>14, <1>19, <2>1, <2>4, <2>5 DEF TracedStack
<1>21. ASSUME attached
       PROVE  result[query.main] # NoSchema /\ \A i \in 1 .. n + 2 : result[s[i].pipe] # NoSchema
  <2>1. result[query.main] # NoSchema /\ \A i \in 1 .. n + 1 : result[stack[i].pipe] # NoSchema
    BY <1>2, <1>21 DEF Traced, WalksAgain
  <2>2. result[Top.pipe] # NoSchema
    <3>1. n + 1 \in 1 .. n + 1
      OBVIOUS
    <3> QED
      BY <1>3, <2>1, <3>1
  <2>3. WalkedUpTo(at, Top.pipe, Len(Ops(Top.pipe)) + 1, 0)
    BY <1>4, <2>2 DEF Traced, Kept
  <2>4. Top.sub \in 0 .. Parts(op) /\ Earlier(Top.pc, Top.sub, Len(Ops(Top.pipe)) + 1, 0)
    <3>1. Top.sub \in 0 .. Parts(op)
      BY <1>1, <1>5, TopTraced
    <3>2. Len(Ops(Top.pipe)) \in Nat /\ Top.pc \in 1 .. Len(Ops(Top.pipe))
      BY <1>4, <1>5, OpsLength DEF Inv
    <3>3. Top.pc < Len(Ops(Top.pipe)) + 1
      BY <3>2
    <3> QED
      BY <3>1, <3>3 DEF Earlier
  <2>5. LeadsAt(at, Top.pipe, Top.pc, Top.sub)
    BY <1>5, <2>3, <2>4 DEF WalkedUpTo
  <2>6. Ready(op, Top.sub)
    BY <1>5, <2>5 DEF LeadsAt, Leads
  <2>7. op.kind = "join" => Top.sub = 0
    <3>1. op.kind = "join" => Len(op.subs) = 1
      BY <1>4, <1>5, OpFacts DEF Inv
    <3>2. Top.sub < Len(op.subs)
      BY <1>1, <1>5
    <3>3. PICK sub \in Nat : sub = Top.sub
      BY <1>4
    <3>4. Len(op.subs) = 1 => sub = 0
      BY <3>2, <3>3
    <3> QED
      BY <3>1, <3>3, <3>4
  <2>8. result[d] # NoSchema
    <3>1. CASE op.kind = "join"
      <4>1. Top.sub + 1 = 1
        BY <2>7, <3>1
      <4> QED
        BY <1>8, <2>6, <3>1, <4>1 DEF Ready
    <3>2. CASE op.kind = "union"
      BY <1>1, <1>5, <1>8, <2>6, <3>2 DEF Ready
    <3> QED
      BY <1>1, <1>5, <3>1, <3>2
  <2>9. \A i \in 1 .. n + 1 : result[s[i].pipe] # NoSchema
    BY <1>15, <2>1
  <2> QED
    BY <1>11, <1>14, <1>17, <2>1, <2>8, <2>9
<1>22. attached' => /\ result[query.main] # NoSchema
                    /\ \A i \in 1 .. Len(s) : result[s[i].pipe] # NoSchema
  BY <1>1, <1>14, <1>21
<1> QED
  BY <1>1, <1>13, <1>14, <1>20, <1>22, SameTrace

LEMMA EndPipelineTraced ==
  ASSUME Inv, Inv', NEW at, Traced(at), EndPipeline
  PROVE  Trace' /\ (attached => UNCHANGED <<marks, result>>)
<1>1. /\ stack # << >> /\ Top.pc = Len(OpsOf(Top)) + 1
      /\ result' = [result EXCEPT ![Top.pipe] = ScopeColumns(Top.scope)]
      /\ SetTop([Top EXCEPT !.pc = @ + 1])
      /\ UNCHANGED <<input, marks>> /\ attached' = attached
  BY DEF EndPipeline
<1>2. query' = query /\ schemas' = schemas /\ Inputs /\ stack \in Seq(Frame)
  BY <1>1 DEF input, Inv, TypeOK
<1>3. PICK n \in Nat : n + 1 = Len(stack)
  <2>1. Len(stack) \in Nat \ {0}
    BY <1>1, TopProperties
  <2>2. Len(stack) - 1 \in Nat /\ (Len(stack) - 1) + 1 = Len(stack)
    BY <2>1
  <2> QED
    BY <2>2
<1>4. Len(stack) - 1 = n /\ Top = stack[n + 1] /\ n <= Len(stack) /\ n + 1 \in 1 .. n + 1
  BY <1>3 DEF Top
<1>5. Top \in Frame /\ Top.scope \in Seq(Entry)
  BY <1>1, TopProperties DEF Frame
<1>6. PICK p \in DOMAIN query.pipes : p = Top.pipe
  BY <1>5 DEF Frame
<1>7. PICK q \in Nat : q = Len(Ops(p)) /\ DOMAIN Ops(p) = 1 .. q
  BY <1>2, OpsLength
<1>8. Top.pc = q + 1 /\ q + 1 \notin DOMAIN Ops(p) /\ q + 2 \notin DOMAIN Ops(p) /\ q + 1 # q + 2
  <2>1. OpsOf(Top) = Ops(p)
    BY <1>6 DEF OpsOf, Ops
  <2> QED
    BY <1>1, <1>7, <2>1
<1>9. at \in Walks /\ Starts(at) /\ Kept(at) /\ TracedStack(at, stack) /\ WalksAgain
  BY DEF Traced
<1>10. ~ Merging(stack)
  <2>1. Len(OpsOf(stack[Len(stack)])) = q
    BY <1>3, <1>4, <1>6, <1>7 DEF OpsOf, Ops
  <2> QED
    BY <1>3, <1>4, <1>8, <2>1 DEF Merging
<1>11. \A i \in 1 .. n + 1 : /\ FrameTraced(at, stack[i], Done(stack, i))
                             /\ stack[i].scope = at[Spot(stack[i], Done(stack, i))]
  BY <1>3, <1>9, <1>10 DEF TracedStack
<1>12. Done(stack, n + 1) = 0 /\ WalkedUpTo(at, p, q + 1, 0) /\ Top.sub = 0
  <2>1. Done(stack, n + 1) = Top.sub
    BY <1>3, <1>4 DEF Done
  <2>2. FrameTraced(at, Top, Top.sub)
    BY <1>4, <1>11, <2>1
  <2>3. OpNumber(Top) = q + 1 /\ PartsAt(Top) = 0
    BY <1>6, <1>7, <1>8 DEF OpNumber, PartsAt
  <2>4. Top.sub \in 0 .. 0 /\ WalkedUpTo(at, p, q + 1, Top.sub)
    BY <1>6, <2>2, <2>3 DEF FrameTraced
  <2>5. Top.sub = 0
    BY <2>4
  <2> QED
    BY <2>1, <2>4, <2>5
<1>13. Top.scope = at[<<p, q + 1, 0>>] /\ Top.scope = End(at, p)
  <2>1. OpNumber(Top) = q + 1
    BY <1>6, <1>7, <1>8 DEF OpNumber
  <2> QED
    BY <1>4, <1>6, <1>7, <1>11, <1>12, <2>1 DEF Spot, End
<1>14. PICK m \in ColumnMap : m = ScopeColumns(End(at, p))
  BY <1>5, <1>13, ScopeColumnsType
<1>15. m # NoSchema
  BY SchemasAssumption
<1>16. DOMAIN result = DOMAIN query.pipes /\ result' = [result EXCEPT ![p] = m]
  BY <1>1, <1>6, <1>13, <1>14 DEF Inv, TypeOK
<1>17. result'[p] = m /\ \A d \in DOMAIN query.pipes : d # p => result'[d] = result[d]
  BY <1>16
<1>18. ASSUME result[p] # NoSchema PROVE result' = result
  <2>1. result[p] = m
    BY <1>9, <1>14, <1>18 DEF Kept
  <2>2. result \in [DOMAIN query.pipes -> ColumnMap \cup {NoSchema}]
    BY DEF Inv, TypeOK
  <2> QED
    BY <1>16, <2>1, <2>2
<1>19. ResultsKept
  BY <1>15, <1>17 DEF ResultsKept
<1>20. at \in Walks' /\ Starts(at)'
  BY <1>2, <1>9 DEF Walks, Entry, Starts, SourceEntry, TableSchema
<1>21. WalkedUpTo(at, p, q + 1, 0)'
  <2>1. PICK J \in Nat : J = q + 1
    OBVIOUS
  <2> QED
    BY <1>1, <1>2, <1>12, <1>19, <2>1, StillWalked
<1>22. Kept(at)'
  <2>1. ASSUME NEW d \in DOMAIN query.pipes, result'[d] # NoSchema
        PROVE  WalkedUpTo(at, d, Len(Ops(d)) + 1, 0)' /\ result'[d] = ScopeColumns(End(at, d))
    <3>1. WalkedUpTo(at, d, Len(Ops(d)) + 1, 0) /\ result'[d] = ScopeColumns(End(at, d))
      <4>1. CASE d = p
        BY <1>7, <1>12, <1>14, <1>17, <4>1
      <4>2. CASE d # p
        BY <1>9, <1>17, <2>1, <4>2 DEF Kept
      <4> QED
        BY <4>1, <4>2
    <3>2. PICK J : J = Len(Ops(d)) + 1
      OBVIOUS
    <3>3. WalkedUpTo(at, d, J, 0)'
      BY <1>1, <1>2, <1>19, <3>1, <3>2, StillWalked
    <3>4. WalkedUpTo(at, d, Len(Ops(d)) + 1, 0)'
      BY <1>2, <3>2, <3>3 DEF WalkedUpTo, Ops
    <3> QED
      BY <3>1, <3>4
  <2>2. \A d : Ops(d)' = Ops(d) /\ End(at, d)' = End(at, d)
    BY <1>2 DEF Ops, End
  <2> QED
    BY <1>2, <2>1, <2>2 DEF Kept
<1>23. PICK g : g = [Top EXCEPT !.pc = @ + 1]
  OBVIOUS
<1>24. g \in Frame /\ g.pipe = p /\ g.pc = q + 2 /\ g.sub = 0 /\ g.scope = End(at, p)
  BY <1>5, <1>6, <1>8, <1>12, <1>13, <1>23 DEF Frame
<1>25. stack' = Append(SubSeq(stack, 1, n), g)
  BY <1>1, <1>4, <1>23 DEF SetTop, Below
<1>26. PICK s : s = stack'
  OBVIOUS
<1>27. /\ s \in Seq(Frame) /\ Len(s) = n + 1 /\ s[n + 1] = g
       /\ \A i \in 1 .. n : s[i] = stack[i]
  <2>1. PICK b : b = SubSeq(stack, 1, n)
    OBVIOUS
  <2>2. b \in Seq(Frame) /\ Len(b) = n /\ \A i \in 1 .. n : b[i] = stack[i]
    BY <1>2, <1>4, <2>1, Prefix
  <2>3. s = Append(b, g)
    BY <1>25, <1>26, <2>1
  <2> QED
    BY <1>24, <2>2, <2>3, AppendProperties
<1>28. OpNumber(g) = q + 1 /\ PartsAt(g) = 0 /\ Spot(g, 0) = <<p, q + 1, 0>>
  BY <1>7, <1>8, <1>24 DEF OpNumber, PartsAt, Spot
<1>29. FrameTraced(at, g, 0)'
  <2>1. OpNumber(g)' = q + 1 /\ PartsAt(g)' = 0 /\ Len(Ops(p))' = q
    BY <1>1, <1>7, <1>28, RigidFrames
  <2>2. q + 2 \in 1 .. q + 2 /\ 0 \in 0 .. 0
    OBVIOUS
  <2>3. result'[g.pipe] # NoSchema
    BY <1>15, <1>17, <1>24
  <2> QED
    BY <1>21, <1>24, <2>1, <2>2, <2>3 DEF FrameTraced
<1>30. ASSUME NEW i \in 1 .. n + 1
       PROVE  /\ FrameTraced(at, s[i], Done(s, i))' /\ s[i].pipe = stack[i].pipe
              /\ s[i].scope = at[Spot(s[i], Done(s, i))]
  <2>1. CASE i = n + 1
    <3>1. Done(s, i) = 0 /\ Done(s, i)' = 0 /\ s[i] = g
      BY <1>24, <1>27, <2>1 DEF Done
    <3>2. stack[i].pipe = p /\ g.scope = at[<<p, q + 1, 0>>]
      BY <1>4, <1>6, <1>13, <1>24, <2>1
    <3>3. g.scope = at[Spot(g, 0)]
      BY <1>28, <3>2
    <3> QED
      BY <1>24, <1>29, <3>1, <3>2, <3>3
  <2>2. CASE i # n + 1
    <3>1. PICK f, k : f \in Frame /\ f = stack[i] /\ k = Done(stack, i)
      BY <1>2, <1>3, ElementOfSeq
    <3>2. i \in 1 .. n
      BY <2>2
    <3>3. s[i] = f /\ Done(s, i) = k /\ Done(s, i)' = k
      BY <1>3, <1>27, <2>2, <3>1, <3>2 DEF Done
    <3>4. FrameTraced(at, f, k) /\ f.scope = at[Spot(f, k)]
      BY <1>11, <3>1
    <3>5. FrameTraced(at, f, k)'
      BY <1>1, <1>2, <1>19, <3>1, <3>4, FrameStill
    <3> QED
      BY <3>1, <3>3, <3>4, <3>5
  <2> QED
    BY <2>1, <2>2
<1>31. TracedStack(at, s)'
  <2>1. s[1].pipe = query.main
    <3>1. 1 \in 1 .. n + 1 /\ Len(stack) > 0
      BY <1>3
    <3> QED
      BY <1>9, <1>30, <3>1 DEF TracedStack
  <2>2. \A i, k \in 1 .. n + 1 : i < k => s[i].pipe \in query.nested[s[k].pipe]
    <3>1. \A i, k \in 1 .. n + 1 : i < k => stack[i].pipe \in query.nested[stack[k].pipe]
      BY <1>3, <1>9 DEF TracedStack
    <3> QED
      BY <1>30, <3>1
  <2>3. /\ \A f, k : Spot(f, k)' = Spot(f, k)
        /\ \A d : End(at, d)' = End(at, d)
        /\ \A i : Done(s, i)' = Done(s, i)
    BY <1>1, RigidFrames DEF Done
  <2>4. \A i \in 1 .. n + 1 : s[i].scope = at[Spot(s[i], Done(s, i))]
    BY <1>30
  <2>5. s[n + 1].scope = End(at, s[n + 1].pipe)
    BY <1>24, <1>27
  <2>6. Merging(s)' => n + 1 - 1 \in 1 .. n + 1
    <3>1. Merging(s)' => n + 1 > 1
      BY <1>27 DEF Merging
    <3> QED
      BY <3>1
  <2>7. Merging(s)' =>
          Taken(s[n + 1 - 1].scope, s[n + 1].scope)
            = Taken(at[Spot(s[n + 1 - 1], Done(s, n + 1 - 1))], End(at, s[n + 1].pipe))
    BY <2>4, <2>5, <2>6
  <2>8. \A i \in 1 .. n + 1 : FrameTraced(at, s[i], Done(s, i))'
    BY <1>30
  <2> QED
    BY <1>2, <1>27, <2>1, <2>2, <2>3, <2>4, <2>7, <2>8 DEF TracedStack
<1>32. ASSUME attached
       PROVE  result' = result
  <2>1. result[stack[n + 1].pipe] # NoSchema
    BY <1>3, <1>4, <1>9, <1>32 DEF WalksAgain
  <2> QED
    BY <1>4, <1>6, <1>18, <2>1
<1>33. WalksAgain'
  <2>1. ASSUME attached
        PROVE  result'[query.main] # NoSchema /\ \A i \in 1 .. n + 1 : result'[s[i].pipe] # NoSchema
    BY <1>3, <1>9, <1>30, <1>32, <2>1 DEF WalksAgain
  <2> QED
    BY <1>1, <1>2, <1>26, <1>27, <2>1 DEF WalksAgain
<1>34. Trace'
  BY <1>20, <1>22, <1>26, <1>31, <1>33 DEF Traced, Trace
<1> QED
  BY <1>1, <1>32, <1>34

-----------------------------------------------------------------------------
(* The invariant.                                                          *)

LEMMA InitTrace ==
  ASSUME Init, Inv
  PROVE  Trace
<1> DEFINE D == (DOMAIN query.pipes) \X Nat \X Nat
           at == [x \in D |-> <<SourceEntry(x[1])>>]
<1>1. result = [p \in DOMAIN query.pipes |-> NoSchema] /\ stack = << >> /\ attached = FALSE
  BY DEF Init
<1>2. ASSUME NEW p \in DOMAIN query.pipes PROVE <<SourceEntry(p)>> \in Seq(Entry)
  <2>1. SourceEntry(p) \in Entry
    BY <1>2, QueryStructure, TableSchemaType DEF Inv, SourceEntry, Entry
  <2> QED
    BY <2>1, SequenceOfOne
<1>3. at \in Walks
  <2>1. \A x \in D : x[1] \in DOMAIN query.pipes
    OBVIOUS
  <2>2. \A x \in D : <<SourceEntry(x[1])>> \in Seq(Entry)
    BY <1>2, <2>1
  <2> QED
    BY <2>2 DEF Walks
<1>4. Starts(at)
  <2>1. ASSUME NEW p \in DOMAIN query.pipes PROVE at[<<p, 1, 0>>] = <<SourceEntry(p)>>
    <3>1. <<p, 1, 0>> \in D /\ <<p, 1, 0>>[1] = p
      BY <2>1
    <3> QED
      BY <3>1
  <2> HIDE DEF at
  <2> QED
    BY <2>1 DEF Starts
<1> HIDE DEF at
<1>5. Kept(at)
  BY <1>1 DEF Kept
<1>6. TracedStack(at, stack)
  <2>1. Len(stack) = 0 /\ 1 .. Len(stack) = {}
    BY <1>1
  <2> QED
    BY <2>1 DEF TracedStack, Merging
<1>7. WalksAgain
  BY <1>1 DEF WalksAgain
<1> QED
  BY <1>3, <1>4, <1>5, <1>6, <1>7 DEF Traced, Trace

LEMMA StutterTrace ==
  ASSUME Inv, NEW at, Traced(at), UNCHANGED vars
  PROVE  Trace'
<1>1. UNCHANGED <<input, marks, result>> /\ attached' = attached /\ stack' = stack
  BY DEF vars, input, marks
<1>2. PICK s \in Seq(Frame) : s = stack
  BY DEF Inv, TypeOK
<1>3. TracedStack(at, s)
  BY <1>2 DEF Traced
<1>4. attached' => /\ result[query.main] # NoSchema
                   /\ \A i \in 1 .. Len(s) : result[s[i].pipe] # NoSchema
  BY <1>1, <1>2 DEF Traced, WalksAgain
<1> QED
  BY <1>1, <1>2, <1>3, <1>4, SameTrace

LEMMA StepKeepsTrace ==
  ASSUME Inv, Inv', Trace, [Next]_vars
  PROVE  Trace' /\ (attached => UNCHANGED <<marks, result>>)
<1>1. PICK at : Traced(at)
  BY DEF Trace
<1>2. CASE Enrich
  BY <1>1, <1>2, EnrichTraced DEF Enrich
<1>3. CASE ReadColumns \/ Extend \/ Summarize \/ Project \/ ProjectAway
             \/ ProjectKeep \/ Parse \/ MvExpand \/ MakeSeries \/ SkipOther
  <2>1. result' = result
    BY <1>3 DEF ReadColumns, Extend, Summarize, Project, ProjectAway, ProjectKeep,
           Parse, MvExpand, MakeSeries, SkipOther
  <2>2. Trace' /\ (attached => UNCHANGED marks)
    BY <1>1, <1>3, OperatorsMoved
  <2> QED
    BY <2>1, <2>2
<1>4. CASE BeginRename \/ RenameColumn \/ EndRename \/ UnionDone
  <2>1. result' = result
    BY <1>4 DEF BeginRename, RenameColumn, EndRename, UnionDone
  <2>2. Trace' /\ (attached => UNCHANGED marks)
    BY <1>1, <1>4, RenamesMoved
  <2> QED
    BY <2>1, <2>2
<1>5. CASE JoinReturn \/ UnionReturn
  <2>1. result' = result
    BY <1>5 DEF JoinReturn, UnionReturn
  <2>2. Trace' /\ (attached => UNCHANGED marks)
    BY <1>1, <1>5, ReturnsMoved
  <2> QED
    BY <2>1, <2>2
<1>6. CASE EnterSub
  BY <1>1, <1>6, EnterSubTraced DEF EnterSub
<1>7. CASE UnionMerge
  BY <1>1, <1>7, UnionMergeTraced DEF UnionMerge
<1>8. CASE EndPipeline
  BY <1>1, <1>8, EndPipelineTraced
<1>9. CASE Finish
  BY <1>1, <1>9, FinishTraced DEF Finish
<1>10. CASE UNCHANGED vars
  BY <1>1, <1>10, StutterTrace DEF vars, marks
<1> QED
  BY <1>2, <1>3, <1>4, <1>5, <1>6, <1>7, <1>8, <1>9, <1>10 DEF Next, Walk

\* There always is a trace: what has been walked could be walked again through
\* the same scopes.
THEOREM TraceHolds == Spec => []Trace
<1>1. Init /\ Inv => Trace
  BY InitTrace
<1>2. Inv /\ Inv' /\ Trace /\ [Next]_vars => Trace'
  BY StepKeepsTrace
<1> QED
  BY <1>1, <1>2, Invariance, PTL DEF Spec

\* A further call of enrich() by the same attacher changes no mark and no result,
\* whatever the query and the schemas, and however often it is called.
THEOREM SecondPassHolds == Spec => SecondPassChangesNothing
<1>1. Inv /\ Inv' /\ Trace /\ [Next]_vars => [attached => UNCHANGED <<table, rtype, result>>]_vars
  BY StepKeepsTrace DEF marks
<1> QED
  BY <1>1, Invariance, TraceHolds, PTL DEF Spec, SecondPassChangesNothing

-----------------------------------------------------------------------------
(* What grows along a trace.                                               *)

LEMMA ChainGrows ==
  ASSUME NEW a \in Nat, NEW b \in Nat, a <= b, NEW f,
         \A k \in Nat : a <= k /\ k < b => f[k] \subseteq f[k + 1]
  PROVE  f[a] \subseteq f[b]
<1> DEFINE T == {k \in Nat : a <= k /\ k <= b => f[a] \subseteq f[k]}
<1>1. 0 \in T
  <2>1. a <= 0 => a = 0
    OBVIOUS
  <2> QED
    BY <2>1
<1>2. ASSUME NEW k \in Nat, k \in T PROVE k + 1 \in T
  <2> SUFFICES ASSUME a <= k + 1, k + 1 <= b PROVE f[a] \subseteq f[k + 1]
    OBVIOUS
  <2>1. CASE a = k + 1
    BY <2>1
  <2>2. CASE a # k + 1
    <3>1. a <= k /\ k < b /\ k <= b
      BY <2>2
    <3>2. f[a] \subseteq f[k] /\ f[k] \subseteq f[k + 1]
      BY <1>2, <3>1
    <3> QED
      BY <3>2
  <2> QED
    BY <2>1, <2>2
<1> HIDE DEF T
<1>3. b \in T
  BY <1>1, <1>2, InductionOverNat
<1> QED
  BY <1>3 DEF T

LEMMA AppendHasAll ==
  ASSUME NEW S, NEW s \in Seq(S), NEW e
  PROVE  Range(s) \subseteq Range(Append(s, e))
<1> DEFINE R == S \cup {e}
<1>1. S \subseteq R /\ e \in R
  OBVIOUS
<1> HIDE DEF R
<1>2. s \in Seq(R)
  BY <1>1, SeqMonotonic
<1> QED
  BY <1>1, <1>2, RangeOfAppend

\* The trace of a walked pipeline, at one of its operators.
LEMMA WalkedLeads ==
  ASSUME Inputs, NEW at, Kept(at), NEW p \in DOMAIN query.pipes, result[p] # NoSchema,
         NEW j \in DOMAIN Ops(p), NEW k \in 0 .. Parts(Ops(p)[j])
  PROVE  LeadsAt(at, p, j, k)
<1>1. WalkedUpTo(at, p, Len(Ops(p)) + 1, 0)
  BY DEF Kept
<1>2. Earlier(j, k, Len(Ops(p)) + 1, 0)
  BY OpsLength DEF Earlier
<1> QED
  BY <1>1, <1>2 DEF WalkedUpTo

\* Each branch of a union leaves its entries in the scope after the union.
LEMMA UnionGrows ==
  ASSUME Inputs, NEW at \in Walks, Kept(at), NEW p \in DOMAIN query.pipes, result[p] # NoSchema,
         NEW j \in DOMAIN Ops(p), Ops(p)[j].kind = "union"
  PROVE  /\ Range(at[<<p, j, 0>>]) \subseteq Range(at[<<p, j + 1, 0>>])
         /\ \A k \in DOMAIN Ops(p)[j].subs :
              /\ result[Ops(p)[j].subs[k]] # NoSchema
              /\ Range(End(at, Ops(p)[j].subs[k])) \subseteq Range(at[<<p, j + 1, 0>>])
<1>1. PICK op : op = Ops(p)[j]
  OBVIOUS
<1>2. op.subs \in Seq(DOMAIN query.pipes)
  BY <1>1, OpFacts
<1>3. PICK n \in Nat : n = Len(op.subs) /\ DOMAIN op.subs = 1 .. n /\ Parts(op) = n
  BY <1>1, <1>2, LenProperties DEF Parts
<1>4. j \in Nat
  BY OpsLength
<1>5. \A k \in Nat : at[<<p, j, k>>] \in Seq(Entry)
  BY <1>4 DEF Walks
<1>6. \A d \in DOMAIN query.pipes : End(at, d) \in Seq(Entry)
  <2> TAKE d \in DOMAIN query.pipes
  <2>1. Len(Ops(d)) + 1 \in Nat
    BY OpsLength
  <2> QED
    BY <2>1 DEF Walks, End
<1>7. ASSUME NEW k \in Nat, k < n
      PROVE  /\ result[op.subs[k + 1]] # NoSchema
             /\ Range(at[<<p, j, k>>]) \subseteq Range(at[<<p, j, k + 1>>])
             /\ Range(End(at, op.subs[k + 1])) \subseteq Range(at[<<p, j, k + 1>>])
  <2>1. k \in 0 .. n /\ k + 1 \in 1 .. n
    BY <1>7
  <2>2. op.subs[k + 1] \in DOMAIN query.pipes
    BY <1>2, <1>3, <2>1, ElementOfSeq
  <2>3. LeadsAt(at, p, j, k)
    BY <1>1, <1>3, <2>1, WalkedLeads
  <2>4. Then(p, j, k) = <<p, j, k + 1>>
    BY <1>1, <1>3, <1>7 DEF Then
  <2>5. Leads(at, op, k, at[<<p, j, k>>], at[<<p, j, k + 1>>])
    BY <1>1, <2>3, <2>4 DEF LeadsAt
  <2>6. at[<<p, j, k + 1>>] = Taken(at[<<p, j, k>>], End(at, op.subs[k + 1]))
    BY <1>1, <1>3, <1>7, <2>5 DEF Leads, NextScope
  <2>7. result[op.subs[k + 1]] # NoSchema
    BY <1>1, <1>3, <1>7, <2>5 DEF Leads, Ready
  <2>8. at[<<p, j, k>>] \in Seq(Entry) /\ End(at, op.subs[k + 1]) \in Seq(Entry)
    BY <1>5, <1>6, <2>2
  <2>9. Range(at[<<p, j, k>>]) \cup Range(End(at, op.subs[k + 1]))
          \subseteq Range(at[<<p, j, k + 1>>])
    BY <2>6, <2>8, TakenHasAll
  <2> QED
    BY <2>7, <2>9
<1>8. at[<<p, j + 1, 0>>] = at[<<p, j, n>>]
  <2>1. LeadsAt(at, p, j, n)
    BY <1>1, <1>3, WalkedLeads
  <2>2. Then(p, j, n) = <<p, j + 1, 0>>
    BY <1>1, <1>3 DEF Then
  <2>3. Leads(at, op, n, at[<<p, j, n>>], at[<<p, j + 1, 0>>])
    BY <1>1, <2>1, <2>2 DEF LeadsAt
  <2> QED
    BY <1>1, <1>3, <2>3 DEF Leads, NextScope, After
<1> DEFINE f == [k \in Nat |-> Range(at[<<p, j, k>>])]
<1>9. \A k \in Nat : f[k] = Range(at[<<p, j, k>>])
  OBVIOUS
<1> HIDE DEF f
<1>10. ASSUME NEW a \in 0 .. n PROVE f[a] \subseteq f[n]
  <2>1. a \in Nat /\ a <= n
    BY <1>10
  <2>2. ASSUME NEW k \in Nat, k < n PROVE f[k] \subseteq f[k + 1]
    <3>1. k + 1 \in Nat /\ Range(at[<<p, j, k>>]) \subseteq Range(at[<<p, j, k + 1>>])
      BY <1>7, <2>2
    <3> QED
      BY <1>9, <3>1
  <2> QED
    BY <2>1, <2>2, ChainGrows
<1>11. Range(at[<<p, j, 0>>]) \subseteq Range(at[<<p, j + 1, 0>>])
  BY <1>8, <1>9, <1>10
<1>12. ASSUME NEW k \in DOMAIN op.subs
       PROVE  /\ result[op.subs[k]] # NoSchema
              /\ Range(End(at, op.subs[k])) \subseteq Range(at[<<p, j + 1, 0>>])
  <2>1. PICK l \in Nat : l = k - 1 /\ l + 1 = k /\ l < n
    BY <1>3
  <2>2. result[op.subs[k]] # NoSchema /\ Range(End(at, op.subs[k])) \subseteq Range(at[<<p, j, k>>])
    BY <1>7, <2>1
  <2>3. k \in 0 .. n /\ k \in Nat
    BY <1>3
  <2> QED
    BY <1>8, <1>9, <1>10, <2>2, <2>3
<1> QED
  BY <1>1, <1>11, <1>12

\* A growing operator keeps the entries of the scope.
LEMMA OperatorGrows ==
  ASSUME Inputs, NEW at \in Walks, Kept(at), NEW p \in DOMAIN query.pipes, result[p] # NoSchema,
         NEW j \in DOMAIN Ops(p), Ops(p)[j].kind \in Growing
  PROVE  Range(at[<<p, j, 0>>]) \subseteq Range(at[<<p, j + 1, 0>>])
<1>1. PICK op, s : op = Ops(p)[j] /\ s = at[<<p, j, 0>>]
  OBVIOUS
<1>2. CASE op.kind = "union"
  BY <1>1, <1>2, UnionGrows
<1>3. CASE op.kind # "union"
  <2>1. op.kind \in {"filter", "extend", "join", "distinct", "reorder", "bynames", "parse", "other"}
    BY <1>1, <1>3 DEF Growing
  <2>2. Parts(op) = 0
    BY <2>1 DEF Parts
  <2>3. LeadsAt(at, p, j, 0) /\ Then(p, j, 0) = <<p, j + 1, 0>>
    BY <1>1, <2>2, WalkedLeads DEF Then
  <2>4. at[<<p, j + 1, 0>>] = NextScope(at, op, 0, s)
    BY <1>1, <2>3 DEF LeadsAt, Leads
  <2>5. NextScope(at, op, 0, s) = s \/ \E e : NextScope(at, op, 0, s) = Append(s, e)
    BY <2>1 DEF NextScope, After
  <2>6. s \in Seq(Entry)
    BY <1>1, OpsLength DEF Walks
  <2> QED
    BY <1>1, <2>4, <2>5, <2>6, AppendHasAll
<1> QED
  BY <1>2, <1>3

\* Operators a up to b, b not included, are growing ones.
GrowsBetween(p, a, b) == \A j \in DOMAIN Ops(p) : a <= j /\ j < b => Ops(p)[j].kind \in Growing

\* While only growing operators follow, no entry is lost.
LEMMA ScopeGrows ==
  ASSUME Inputs, NEW at \in Walks, Kept(at), NEW p \in DOMAIN query.pipes, result[p] # NoSchema,
         NEW a \in Nat, NEW b \in Nat, 1 <= a, a <= b, b <= Len(Ops(p)) + 1,
         GrowsBetween(p, a, b)
  PROVE  Range(at[<<p, a, 0>>]) \subseteq Range(at[<<p, b, 0>>])
<1> DEFINE f == [j \in Nat |-> Range(at[<<p, j, 0>>])]
<1>1. \A j \in Nat : f[j] = Range(at[<<p, j, 0>>])
  OBVIOUS
<1> HIDE DEF f
<1>2. ASSUME NEW j \in Nat, a <= j, j < b PROVE f[j] \subseteq f[j + 1]
  <2>1. Len(Ops(p)) \in Nat /\ DOMAIN Ops(p) = 1 .. Len(Ops(p))
    BY OpsLength
  <2>2. j \in 1 .. Len(Ops(p))
    BY <1>2, <2>1
  <2>3. Range(at[<<p, j, 0>>]) \subseteq Range(at[<<p, j + 1, 0>>])
    BY <1>2, <2>1, <2>2, OperatorGrows DEF GrowsBetween
  <2> QED
    BY <1>1, <2>3
<1>3. f[a] \subseteq f[b]
  BY <1>2, ChainGrows
<1> QED
  BY <1>1, <1>3

-----------------------------------------------------------------------------
(* What the results and the marks show of the trace.                       *)

LEMMA FlattenedGrows ==
  ASSUME NEW s \in Seq(Entry), NEW t \in Seq(Entry), Range(s) \subseteq Range(t)
  PROVE  DOMAIN ScopeColumns(s) \subseteq DOMAIN ScopeColumns(t)
<1>1. ASSUME NEW c, Holders(s, c) # {} PROVE Holders(t, c) # {}
  <2>1. PICK i \in DOMAIN s : c \in DOMAIN s[i].columns
    BY <1>1 DEF Holders
  <2>2. s[i] \in Range(t)
    BY DEF Range
  <2>3. PICK k \in DOMAIN t : t[k] = s[i]
    BY <2>2 DEF Range
  <2> QED
    BY <2>1, <2>3 DEF Holders
<1> QED
  BY <1>1 DEF ScopeColumns

LEMMA TraceKeepsColumns ==
  ASSUME Inv, Trace
  PROVE  UnionKeepsColumns
<1>1. PICK at : at \in Walks /\ Kept(at) /\ Inputs
  BY DEF Trace, Traced, Inv
<1> SUFFICES ASSUME NEW p \in DOMAIN query.pipes, NEW i \in DOMAIN Ops(p),
                    Ops(p)[i].kind = "union", result[p] # NoSchema, GrowsAfter(p, i),
                    NEW k \in DOMAIN Ops(p)[i].subs
             PROVE  /\ result[Ops(p)[i].subs[k]] # NoSchema
                    /\ DOMAIN result[Ops(p)[i].subs[k]] \subseteq DOMAIN result[p]
  BY DEF UnionKeepsColumns, KeepsColumns, Ops
<1>2. PICK d \in DOMAIN query.pipes : d = Ops(p)[i].subs[k]
  <2>1. Ops(p)[i].subs \in Seq(DOMAIN query.pipes)
    BY <1>1, OpFacts
  <2> QED
    BY <2>1, ElementOfSeq
<1>3. PICK n \in Nat : n = Len(Ops(p)) /\ DOMAIN Ops(p) = 1 .. n
  BY <1>1, OpsLength
<1>4. result[d] # NoSchema /\ Range(End(at, d)) \subseteq Range(at[<<p, i + 1, 0>>])
  BY <1>1, <1>2, UnionGrows
<1>5. Range(at[<<p, i + 1, 0>>]) \subseteq Range(at[<<p, n + 1, 0>>])
  <2>1. PICK a \in Nat, b \in Nat : a = i + 1 /\ b = n + 1 /\ 1 <= a /\ a <= b /\ b <= Len(Ops(p)) + 1
    BY <1>3
  <2>2. GrowsBetween(p, a, b)
    <3>1. \A j \in i + 1 .. n : Ops(p)[j].kind \in Growing
      BY <1>3 DEF GrowsAfter, Ops
    <3>2. \A j \in DOMAIN Ops(p) : a <= j => j \in i + 1 .. n
      BY <1>3, <2>1
    <3> QED
      BY <3>1, <3>2 DEF GrowsBetween
  <2> QED
    BY <1>1, <2>1, <2>2, ScopeGrows
<1>6. /\ Range(End(at, d)) \subseteq Range(End(at, p))
      /\ End(at, d) \in Seq(Entry) /\ End(at, p) \in Seq(Entry)
  <2>1. Len(Ops(d)) + 1 \in Nat /\ Len(Ops(p)) + 1 \in Nat
    BY <1>1, OpsLength
  <2> QED
    BY <1>1, <1>3, <1>4, <1>5, <2>1 DEF End, Walks
<1>7. result[d] = ScopeColumns(End(at, d)) /\ result[p] = ScopeColumns(End(at, p))
  BY <1>1, <1>4 DEF Kept
<1> QED
  BY <1>2, <1>4, <1>6, <1>7, FlattenedGrows

\* A pipeline read through joins and unions by one that has been walked has been
\* walked itself.
LEMMA BranchWalked ==
  ASSUME Inputs, NEW at, Kept(at), NEW p \in DOMAIN query.pipes, result[p] # NoSchema,
         NEW d, Branch(p, d)
  PROVE  result[d] # NoSchema
<1>1. PICK i, op : /\ i \in DOMAIN Ops(p) /\ op = Ops(p)[i]
                   /\ op.kind \in {"join", "union"}
                   /\ \E k \in DOMAIN op.subs : op.subs[k] = d
  BY DEF Branch, Ops
<1>2. PICK k \in DOMAIN op.subs : op.subs[k] = d
  BY <1>1
<1>3. op.subs \in Seq(DOMAIN query.pipes) /\ (op.kind = "join" => Len(op.subs) = 1)
  BY <1>1, OpFacts
<1>4. PICK n \in Nat : n = Len(op.subs) /\ DOMAIN op.subs = 1 .. n
  BY <1>3, LenProperties
<1>5. CASE op.kind = "join"
  <2>1. k = 1
    <3>1. n = 1 /\ k \in 1 .. n
      BY <1>3, <1>4, <1>5
    <3> QED
      BY <3>1
  <2>2. 0 \in 0 .. Parts(op)
    BY <1>5 DEF Parts
  <2>3. LeadsAt(at, p, i, 0)
    BY <1>1, <2>2, WalkedLeads
  <2> QED
    BY <1>1, <1>2, <1>5, <2>1, <2>3 DEF LeadsAt, Leads, Ready
<1>6. CASE op.kind = "union"
  <2>1. PICK l \in Nat : l = k - 1 /\ l + 1 = k /\ l < n /\ l \in 0 .. n
    BY <1>4
  <2>2. Parts(op) = n
    BY <1>4, <1>6 DEF Parts
  <2>3. LeadsAt(at, p, i, l)
    BY <1>1, <2>1, <2>2, WalkedLeads
  <2> QED
    BY <1>1, <1>2, <1>4, <1>6, <2>1, <2>3 DEF LeadsAt, Leads, Ready
<1> QED
  BY <1>1, <1>5, <1>6

LEMMA WalkedHaveResults ==
  ASSUME Inputs, NEW at, Kept(at), result[query.main] # NoSchema
  PROVE  \A p \in WalkedPipes : result[p] # NoSchema
<1> DEFINE D == WalkedPipes
           rank == [d \in D |-> Cardinality(query.nested[d])]
           T == {d \in D : result[d] # NoSchema}
<1>1. /\ IsFiniteSet(DOMAIN query.pipes)
      /\ \A d \in DOMAIN query.pipes :
           /\ query.nested[d] \subseteq DOMAIN query.pipes \ {d}
           /\ \A a \in query.nested[d] : query.nested[a] \subseteq query.nested[d]
  <2>1. IsPipeTree(query)
    BY QueriesAssumption DEF Inputs, IsQuery
  <2> QED
    BY <2>1 DEF IsPipeTree
<1>2. \A d \in DOMAIN query.pipes : IsFiniteSet(query.nested[d])
  <2> TAKE d \in DOMAIN query.pipes
  <2>1. query.nested[d] \subseteq DOMAIN query.pipes
    BY <1>1
  <2> QED
    BY <1>1, <2>1, FS_Subset
<1>3. rank \in [D -> Nat]
  BY <1>2, FS_CardinalityType DEF WalkedPipes
<1>4. ASSUME NEW d \in D, \A a \in D : rank[a] < rank[d] => a \in T
      PROVE  d \in T
  <2>1. CASE d = query.main
    BY <2>1
  <2>2. CASE d # query.main
    <3>1. d \in DOMAIN query.pipes
          /\ \A x \in {d} \cup query.nested[d] :
               x = query.main \/ \E y \in query.nested[x] : Branch(y, x)
      <4>1. d \in DOMAIN query.pipes
        BY DEF WalkedPipes
      <4>2. ASSUME NEW x \in {d} \cup query.nested[d], x # query.main
            PROVE  \E y \in query.nested[x] : Branch(y, x)
        <5>1. x \in DOMAIN query.pipes
          BY <1>1, <4>1
        <5>2. PICK y \in query.nested[d] : Branch(y, x)
          BY <4>2 DEF WalkedPipes
        <5>3. y \in query.nested[x]
          <6>1. y \in DOMAIN query.pipes
            BY <1>1, <4>1
          <6>2. query.nested[x] = query.nested[y] \cup {y}
            BY <5>2, <6>1, OpFacts DEF Branch, Ops
          <6> QED
            BY <6>2
        <5> QED
          BY <5>2, <5>3
      <4> QED
        BY <4>1, <4>2
    <3>2. PICK a \in query.nested[d] : Branch(a, d)
      BY <2>2, <3>1
    <3>3. a \in DOMAIN query.pipes /\ query.nested[a] \subseteq query.nested[d]
          /\ a \notin query.nested[a]
      BY <1>1, <3>1
    <3>4. a \in D
      <4>1. \A x \in {a} \cup query.nested[a] : x \in query.nested[d]
        BY <3>3
      <4>2. ASSUME NEW x \in {a} \cup query.nested[a], x # query.main
            PROVE  \E y \in query.nested[a] : Branch(y, x)
        <5>1. PICK y \in query.nested[x] : Branch(y, x)
          BY <3>1, <4>1, <4>2
        <5>2. y \in query.nested[a]
          BY <1>1, <3>3
        <5> QED
          BY <5>1, <5>2
      <4> QED
        BY <3>3, <4>2 DEF WalkedPipes
    <3>5. rank[a] < rank[d]
      <4>1. /\ IsFiniteSet(query.nested[a]) /\ Cardinality(query.nested[a]) \in Nat
            /\ Cardinality(query.nested[a] \cup {a}) = Cardinality(query.nested[a]) + 1
        BY <1>2, <3>3, FS_AddElement, FS_CardinalityType
      <4>2. query.nested[a] \cup {a} \subseteq query.nested[d]
        BY <3>3
      <4>3. /\ Cardinality(query.nested[a] \cup {a}) <= Cardinality(query.nested[d])
            /\ Cardinality(query.nested[d]) \in Nat
        BY <1>2, <3>1, <4>2, FS_Subset, FS_CardinalityType
      <4> QED
        BY <3>4, <4>1, <4>3
    <3>6. result[a] # NoSchema
      BY <1>4, <3>4, <3>5
    <3>7. result[d] # NoSchema
      BY <3>2, <3>3, <3>6, BranchWalked
    <3> QED
      BY <3>7
  <2> QED
    BY <2>1, <2>2
<1> HIDE DEF rank, T
<1>5. D \subseteq T
  BY <1>3, <1>4, InductionByRank
<1> QED
  BY <1>5 DEF T

\* A column of a named entry of the scope resolves to a table.
LEMMA EntryResolves ==
  ASSUME NEW scope \in Seq(Entry), NEW c, NEW entry \in Range(scope),
         entry.table # NoTable, c \in DOMAIN entry.columns
  PROVE  ResolveTable(c, scope) # NoTable
<1> DEFINE owners == {i \in Holders(scope, c) : scope[i].table # NoTable}
<1>1. owners # {}
  BY DEF Range, Holders
<1>2. owners \subseteq 1 .. Len(scope) /\ Len(scope) \in Nat
  BY DEF Holders
<1>3. LastOf(owners) \in owners
  BY <1>1, <1>2, LastOfExists
<1> QED
  BY <1>1, <1>3 DEF ResolveTable

LEMMA TraceAttributesSources ==
  ASSUME Inv, Trace
  PROVE  SourceColumnsAttributed
<1>1. PICK at : at \in Walks /\ Starts(at) /\ Kept(at) /\ WalksAgain /\ Inputs
  BY DEF Trace, Traced, Inv
<1> SUFFICES ASSUME attached, NEW p \in WalkedPipes, NEW item \in EarlyItems(p),
                    NEW e \in Reached(query, item.root), BareColumn(e), SourceHas(p, e),
                    table[e] = NoTable
             PROVE  FALSE
  BY DEF SourceColumnsAttributed
<1>2. p \in DOMAIN query.pipes /\ result[p] # NoSchema
  BY <1>1, WalkedHaveResults DEF WalkedPipes, WalksAgain
<1>3. PICK i, op : /\ i \in DOMAIN Ops(p) /\ op = Ops(p)[i] /\ op.kind # "other"
                   /\ \A j \in 1 .. i - 1 : Ops(p)[j].kind \in Growing
                   /\ \E k \in DOMAIN op.items : item = op.items[k]
  BY DEF EarlyItems, Ops
<1>4. op.kind # "union"
  <2>1. op.kind = "union" => op.items = << >>
    BY <1>1, <1>2, <1>3, OpFacts
  <2>2. DOMAIN << >> = {}
    OBVIOUS
  <2> QED
    BY <1>3, <2>1, <2>2
<1>5. e \in Visited(op.items)
  BY <1>3 DEF Visited
<1>6. i \in Nat /\ 1 <= i /\ i <= Len(Ops(p)) + 1 /\ Len(Ops(p)) \in Nat
  BY <1>1, <1>2, <1>3, OpsLength
<1>7. PICK s \in Seq(Entry) : s = at[<<p, i, 0>>]
  BY <1>1, <1>2, <1>6 DEF Walks
<1>8. SourceEntry(p) \in Range(s)
  <2>1. at[<<p, 1, 0>>] = <<SourceEntry(p)>>
    BY <1>1, <1>2 DEF Starts
  <2>2. SourceEntry(p) \in Range(<<SourceEntry(p)>>)
    <3>1. 1 \in DOMAIN <<SourceEntry(p)>> /\ <<SourceEntry(p)>>[1] = SourceEntry(p)
      OBVIOUS
    <3> QED
      BY <3>1 DEF Range
  <2>3. GrowsBetween(p, 1, i)
    <3>1. \A j \in DOMAIN Ops(p) : 1 <= j /\ j < i => j \in 1 .. i - 1
      BY <1>1, <1>2, <1>3, OpsLength
    <3> QED
      BY <1>3, <3>1 DEF GrowsBetween
  <2>4. PICK a \in Nat, b \in Nat : a = 1 /\ b = i /\ 1 <= a /\ a <= b /\ b <= Len(Ops(p)) + 1
    BY <1>6
  <2>5. Range(at[<<p, a, 0>>]) \subseteq Range(at[<<p, b, 0>>])
    BY <1>1, <1>2, <2>3, <2>4, ScopeGrows
  <2> QED
    BY <1>7, <2>1, <2>2, <2>4, <2>5
<1>9. Leads(at, op, 0, s, at[Then(p, i, 0)]) /\ FillsAt(op, 0)
  <2>1. Parts(op) \in Nat
    BY <1>1, <1>2, <1>3, PartsType
  <2>2. LeadsAt(at, p, i, 0)
    BY <1>1, <1>2, <1>3, <2>1, WalkedLeads
  <2> QED
    BY <1>3, <1>4, <1>7, <2>2 DEF LeadsAt, FillsAt
<1>10. PICK scope : scope = FillScope(at, op, s)
  OBVIOUS
<1>11. Settled(op.items, scope)
  BY <1>9, <1>10 DEF Leads
<1>12. scope \in Seq(Entry) /\ SourceEntry(p) \in Range(scope)
  <2>1. CASE op.kind # "join"
    BY <1>7, <1>8, <1>10, <2>1 DEF FillScope
  <2>2. CASE op.kind = "join"
    <3>1. scope = at[Then(p, i, 0)]
      BY <1>9, <1>10, <2>2 DEF FillScope, Leads
    <3>2. Then(p, i, 0) = <<p, i + 1, 0>>
      BY <1>3, <2>2 DEF Then, Parts
    <3>3. i + 1 \in Nat
      BY <1>6
    <3>4. scope \in Seq(Entry)
      BY <1>1, <1>2, <3>1, <3>2, <3>3 DEF Walks
    <3>5. Range(s) \subseteq Range(scope)
      BY <1>1, <1>2, <1>3, <1>7, <2>2, <3>1, <3>2, OperatorGrows DEF Growing
    <3> QED
      BY <1>8, <3>4, <3>5
  <2> QED
    BY <2>1, <2>2
<1>13. OwnerIn(e, scope) = NoTable
  BY <1>5, <1>11 DEF Settled
<1>14. OwnerIn(e, scope) = ResolveTable(query.exprs[e].name, scope)
  BY NamesAssumption DEF OwnerIn, BareColumn
<1>15. /\ SourceEntry(p).table # NoTable
       /\ query.exprs[e].name \in DOMAIN SourceEntry(p).columns
  <2>1. query.pipes[p].source \in Tables
    BY <1>1, TableSchemaType DEF SourceHas
  <2> QED
    BY <2>1, NamesAssumption DEF SourceEntry, SourceHas
<1> QED
  BY <1>12, <1>13, <1>14, <1>15, EntryResolves

\* No column of a union's branch is missing from the result of the pipeline that
\* unions it, unless a later operator drops it, for every query.
THEOREM UnionKeepsColumnsHold == Spec => []UnionKeepsColumns
BY TraceKeepsColumns, Invariance, TraceHolds, PTL

\* A reference to a column of the pipeline's own table, made while that table is
\* still in scope, has an owner once enrich() has returned, for every query.
THEOREM SourceColumnsAttributedHold == Spec => []SourceColumnsAttributed
BY TraceAttributesSources, Invariance, TraceHolds, PTL
=============================================================================
