------------------------------ MODULE Annotations ------------------------------
(***************************************************************************)
(* What schema enrichment promises about the two fields it writes: a bare  *)
(* column reference may gain an owning table that has the column, $left    *)
(* may be replaced by a table whose rows come to the join from its left,   *)
(* $right by one its right pipeline reads, and an expression whose type is *)
(* unknown may gain one -- each at most once, each with evidence for it    *)
(* among the tables drawn from at that place of the pipeline.  How the     *)
(* scopes that supply the evidence are kept is SchemaAttacher's business.  *)
(*                                                                         *)
(* That the table put for a side has the column is not promised: the code  *)
(* takes the last table of the side, whatever the column.                  *)
(***************************************************************************)
EXTENDS QueryIR

VARIABLES query, schemas, table, rtype

vars == <<query, schemas, table, rtype>>

Has(t, c) == t \in DOMAIN schemas /\ c \in DOMAIN schemas[t]

\* The operator that lists node e, and its place among its pipeline's.
Place(e) ==
  LET ops == query.pipes[query.home[e]].ops IN
  CHOOSE i \in DOMAIN ops : e \in ListedBy(query, ops[i])
Holder(e) == query.pipes[query.home[e]].ops[Place(e)]

\* Tables whose rows reach the operator that holds e, and those it combines
\* them with.
Reaching(e) == Upstream(query, query.home[e], Place(e))
Near(e) == Reaching(e) \cup Beside(query, Holder(e))

\* Only a join has two sides; elsewhere $right is the side there is.
OnSide(side, e) ==
  IF side = "$right" /\ Holder(e).kind = "join" THEN Beside(query, Holder(e))
  ELSE Reaching(e)

Init ==
  /\ table = [e \in DOMAIN query.exprs |-> query.exprs[e].table]
  /\ rtype = [e \in DOMAIN query.exprs |-> query.exprs[e].rtype]

OwnerStep(e) ==
  \/ table'[e] = table[e]
  \/ /\ query.exprs[e].form = "column"
     /\ \/ table[e] \in Sides /\ table'[e] \in OnSide(table[e], e)
        \/ /\ table[e] = NoTable
           /\ table'[e] \in Near(e)
           /\ Has(table'[e], query.exprs[e].name)

TypeStep(e) ==
  \/ rtype'[e] = rtype[e]
  \/ /\ rtype[e] = "unknown"
     /\ rtype'[e] \in KustoTypes
     /\ LET x == query.exprs[e] IN
          \/ /\ x.form = "column"
             /\ Has(table'[e], x.name)
             /\ rtype'[e] = schemas[table'[e]][x.name]
          \/ x.form = "literal" /\ rtype'[e] = x.lit
          \/ x.form \in Predicates /\ rtype'[e] = "bool"

Next ==
  /\ UNCHANGED <<query, schemas>>
  /\ DOMAIN table' = DOMAIN table
  /\ DOMAIN rtype' = DOMAIN rtype
  /\ \A e \in DOMAIN query.exprs : OwnerStep(e) /\ TypeStep(e)

Spec == Init /\ [][Next]_vars

-----------------------------------------------------------------------------
\* A reference the query writes without a table is attributed only to a table
\* that has the column and whose rows reach the reference: never to a table of
\* a sibling union branch, to the outer pipeline of a join's right side, nor to
\* a table only a later operator brings in.
Attributed ==
  \A e \in DOMAIN query.exprs :
    query.exprs[e].table = NoTable /\ table[e] # NoTable
      => table[e] \in Near(e) /\ Has(table[e], query.exprs[e].name)

\* A column type that did not come from the .NET binder is the type the schema
\* gives that column in the table the reference now names, also after the
\* table itself was filled in.
TypesJustified ==
  \A e \in DOMAIN query.exprs :
    query.exprs[e].form = "column" /\ query.exprs[e].rtype = "unknown"
      /\ rtype[e] # "unknown"
      => /\ Has(table[e], query.exprs[e].name)
         /\ rtype[e] = schemas[table[e]][query.exprs[e].name]
=============================================================================
