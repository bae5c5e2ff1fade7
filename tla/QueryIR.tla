------------------------------- MODULE QueryIR -------------------------------
(***************************************************************************)
(* The part of the intermediate representation of a query that schema      *)
(* enrichment reads: pipelines of operators, the items an operator lists   *)
(* and the expression nodes under them.  Node and pipeline identities are  *)
(* the keys of query.exprs and query.pipes; the mutable fields of a node   *)
(* (table, result_type) are variables of the modules that extend this one, *)
(* and the values recorded here are the ones the builder wrote.            *)
(***************************************************************************)
EXTENDS Naturals, Sequences, FiniteSets

CONSTANTS
  Tables,     \* table names
  Columns,    \* column names
  TypeNames,  \* the type strings a caller's schema may hold
  NoTable,    \* None as a table
  NoName,     \* an expression that has no name
  NoType      \* None as a type

KustoTypes == {"bool", "int", "long", "real", "decimal", "datetime",
               "timespan", "guid", "string", "dynamic", "tabular", "unknown"}

\* The prefixes a join condition uses; the builder keeps them as the table.
Sides == {"$left", "$right"}

ASSUME NamesAssumption ==
  /\ KustoTypes \subseteq TypeNames
  /\ NoTable \notin Tables \cup Sides
  /\ Tables \cap Sides = {}
  /\ NoName \notin Columns

Owners == Tables \cup Sides \cup {NoTable}

ColumnMap == UNION {[C -> TypeNames] : C \in SUBSET Columns}
IsSchemaDict(s) ==
  /\ DOMAIN s \subseteq Tables
  /\ \A t \in DOMAIN s : s[t] \in ColumnMap

Predicates == {"predicate"}     \* BinOp, SetMembership, Between, And, Or, Not
Opaque     == {"case", "subquery"}  \* children kept in fields _fill never reads
Forms == {"column", "literal", "call", "wrapper"} \cup Predicates \cup Opaque

LiteralKinds == {"string", "int", "real", "bool", "datetime", "timespan",
                 "dynamic", "guid", "long", "null"}

Expr == [form : Forms, name : Columns \cup {NoName}, table : Owners,
         rtype : KustoTypes, inner : KustoTypes \cup {NoType},
         lit : LiteralKinds]

\* An Assignment (as is its name) or a bare expression (as is NoName).
\* A "range" item is the from, to or step of a make-series.
Part == {"main", "by", "target", "range"}

Walked == {"filter", "join", "union", "extend", "summarize", "project",
           "rename", "distinct", "away", "keep", "reorder", "bynames",
           "parse", "mvexpand", "makeseries"}
OpKinds == Walked \cup {"other"}

Item(q) == [as : Columns \cup {NoName}, part : Part, root : DOMAIN q.exprs]
Op(q)   == [kind : OpKinds, items : Seq(Item(q)), subs : Seq(DOMAIN q.pipes)]

(***************************************************************************)
(* Every node knows the nodes it is nested in (within) and the pipeline    *)
(* whose operator lists it (home); every pipeline knows the pipelines it   *)
(* is nested in.  Python's object graph is a tree, and these are its       *)
(* ancestor sets.                                                          *)
(***************************************************************************)
IsExprTree(q) ==
  \A e \in DOMAIN q.exprs :
    /\ q.exprs[e] \in Expr
    /\ q.within[e] \subseteq DOMAIN q.exprs \ {e}
    /\ q.home[e] \in DOMAIN q.pipes

\* The nodes an operator lists, with everything under them.
ListedBy(q, op) ==
  {e \in DOMAIN q.exprs : \E j \in DOMAIN op.items :
     e = op.items[j].root \/ op.items[j].root \in q.within[e]}

IsPipeline(q, p) ==
  /\ q.pipes[p].source \in Tables \cup {NoTable}
  /\ q.pipes[p].ops \in Seq(Op(q))
  /\ \A i \in DOMAIN q.pipes[p].ops :
       LET op == q.pipes[p].ops[i] IN
       /\ op.kind = "join" => Len(op.subs) = 1
       /\ op.kind = "rename" => \A j \in DOMAIN op.items : op.items[j].as # NoName
       /\ op.kind # "makeseries" => \A j \in DOMAIN op.items : op.items[j].part # "range"
       /\ \A j \in DOMAIN op.subs :
            q.nested[op.subs[j]] = q.nested[p] \cup {p}
       /\ op.kind = "union" => op.items = << >>
       /\ \A e \in ListedBy(q, op) : q.home[e] = p
  \* no node is listed by two operators
  /\ \A i, j \in DOMAIN q.pipes[p].ops :
       i # j => ListedBy(q, q.pipes[p].ops[i]) \cap ListedBy(q, q.pipes[p].ops[j]) = {}

IsPipeTree(q) ==
  /\ IsFiniteSet(DOMAIN q.pipes)
  /\ \A p \in DOMAIN q.pipes :
       /\ q.nested[p] \subseteq DOMAIN q.pipes \ {p}
       /\ \A a \in q.nested[p] : q.nested[a] \subseteq q.nested[p]

IsQuery(q) ==
  /\ IsExprTree(q)
  /\ IsPipeTree(q)
  /\ q.main \in DOMAIN q.pipes
  /\ \A p \in DOMAIN q.pipes : IsPipeline(q, p)

(***************************************************************************)
(* SchemaAttacher._fill descends through the child attributes it names;    *)
(* the branches of a case() and the pipeline of a subquery are not among   *)
(* them.  Reached(q, e) is every node one call of _fill(e) visits.         *)
(***************************************************************************)
Reached(q, e) ==
  {x \in DOMAIN q.exprs :
     /\ x = e \/ e \in q.within[x]
     /\ \A a \in q.within[x] :
          (a = e \/ e \in q.within[a]) => q.exprs[a].form \notin Opaque}

\* Tables a query names as the source of pipeline p or of one nested in it.
Cone(q, p) ==
  {q.pipes[d].source : d \in {d \in DOMAIN q.pipes : d = p \/ p \in q.nested[d]}}
    \ {NoTable}

\* Tables a join or a union takes rows from besides the rows it is given.
Beside(q, op) ==
  IF op.kind \in {"join", "union"}
    THEN UNION {Cone(q, op.subs[j]) : j \in DOMAIN op.subs} ELSE {}

\* Tables whose rows reach the k-th operator of pipeline p.
Upstream(q, p, k) ==
  ({q.pipes[p].source} \ {NoTable})
    \cup UNION {Beside(q, q.pipes[p].ops[i]) : i \in {i \in DOMAIN q.pipes[p].ops : i < k}}
=============================================================================
