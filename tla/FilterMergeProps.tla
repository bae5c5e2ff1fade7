--------------------------- MODULE FilterMergeProps ---------------------------
(***************************************************************************)
(* What merge_filter_ops promises the rest of the builder.                 *)
(***************************************************************************)
EXTENDS FilterMerge

\* The loop's variables keep their types: the operators keep their classes, and
\* the result lists operators of the pipeline.
TypeOK ==
  /\ given \in OpLists
  /\ DOMAIN ops = DOMAIN given
  /\ \A n \in DOMAIN ops : ops[n].filter = given[n].filter
  /\ out \in Seq(DOMAIN given)
  /\ i \in Nat \ {0} /\ j \in Nat \ {0}
  /\ fresh \in BOOLEAN
  /\ pc \in {"scan", "run", "done"}

\* No where operator of the result stands next to another one, which is what
\* every reader of a pipeline is told it may count on.
NoAdjacentFilters ==
  \A k \in DOMAIN out :
    (k > 1 /\ given[out[k]].filter) => ~given[out[k - 1]].filter

Words(list, n) ==
  IF list[n].filter THEN FlattenSeq(list[n].operands) ELSE <<n>>

\* Between two iterations of the outer loop the operators put out say what the
\* operators read so far said: every conjunct of every where, in the order of
\* the query, and every other operator at its place between them.
ConjunctsKept ==
  pc # "run" =>
    FlattenSeq([k \in DOMAIN out |-> Words(ops, out[k])])
      = FlattenSeq([n \in 1 .. i - 1 |-> Words(given, n)])

IsFlat(op) == \A k \in DOMAIN op.operands : Len(op.operands[k]) = 1

\* canonical() sorts the operands' texts: their order in canon is immaterial.
Occurrences(operands, x) == Cardinality({k \in DOMAIN operands : operands[k] = x})
IsCurrent(op) ==
  \A x \in Range(op.operands) \cup Range(op.canon) :
    Occurrences(op.operands, x) = Occurrences(op.canon, x)

\* A run whose first predicate is not an And ends as one flat And with a
\* canonical form of its own, whatever the shapes of the later predicates.
NewConjunctionsNormal ==
  \A n \in Range(out) :
    ~IsAnd(given[n].operands) => IsFlat(ops[n]) /\ IsCurrent(ops[n])

=============================================================================
