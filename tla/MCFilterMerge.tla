---------------------------- MODULE MCFilterMerge ----------------------------
(***************************************************************************)
(* Operator lists for TLC: every list of at most MaxOps operators, each a  *)
(* where with one, two or three conjuncts or an operator of another kind.  *)
(***************************************************************************)
EXTENDS FilterMergeProps

CONSTANTS a, b, c, MaxOps

MCConjuncts == {a, b, c}

Where(conjuncts) ==
  LET operands == [k \in DOMAIN conjuncts |-> <<conjuncts[k]>>] IN
  [filter |-> TRUE, operands |-> operands, canon |-> operands]

Other == [filter |-> FALSE, operands |-> << >>, canon |-> << >>]

Catalogue ==
  {Other, Where(<<a>>), Where(<<b>>), Where(<<a, c>>), Where(<<b, c, a>>)}

MCOpLists == UNION {[1 .. n -> Catalogue] : n \in 0 .. MaxOps}
=============================================================================
