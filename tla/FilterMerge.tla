----------------------------- MODULE FilterMerge -----------------------------
(***************************************************************************)
(* merge_filter_ops (ir/_builder_helpers.py): the loop that collapses      *)
(* consecutive where operators of a pipeline into one, run by the builder  *)
(* on the operators of every pipeline it has read.                         *)
(*                                                                         *)
(* The operators are objects: out refers to them by their place in ops,    *)
(* and the conjunction the loop extends is sometimes the predicate of the  *)
(* first where operator itself and sometimes a new one.  A predicate is    *)
(* the list of its operands, one for anything but an And; an operand is    *)
(* the list of its conjuncts, more than one for a nested And.              *)
(***************************************************************************)
EXTENDS Naturals, SequencesExt

CONSTANTS
  Conjuncts,  \* predicates that are not an And
  OpLists     \* the operator lists the builder collects

Operand   == Seq(Conjuncts) \ {<< >>}
Predicate == Seq(Operand) \ {<< >>}
OpRecord  == [filter : BOOLEAN, operands : Seq(Operand),
              canon : Seq(Operand)]

IsAnd(operands) == Len(operands) > 1

\* What _visit_expr leaves behind: an And directly under an And is unfolded,
\* and the canonical form describes the operands the node has.
IsBuilt(op) ==
  /\ op.filter = (op.operands # << >>)
  /\ \A k \in DOMAIN op.operands : Len(op.operands[k]) = 1
  /\ op.canon = op.operands

ASSUME OpListsAssumption ==
  \A l \in OpLists : l \in Seq(OpRecord) /\ \A i \in DOMAIN l : IsBuilt(l[i])

VARIABLES
  given,   \* the list as the builder collected it; no step changes it
  ops,     \* the same operators as they are now
  out,     \* places of the operators of the result
  i,       \* the place the outer loop has reached
  j,       \* the place the inner loop has reached
  fresh,   \* merged is not op.predicate
  merged,  \* the operands of the new And while fresh
  pc

vars == <<given, ops, out, i, j, fresh, merged, pc>>

Init ==
  /\ given \in OpLists
  /\ ops = given
  /\ out = << >>
  /\ i = 1
  /\ j = 1
  /\ fresh = FALSE
  /\ merged = << >>
  /\ pc = "scan"

\* An And appended to a list of operands is one operand of it.
AsOperand(operands) == FlattenSeq(operands)

\* normalize_in_place: one level of nested Ands unfolded.
Flat(operands) ==
  LET conjuncts == FlattenSeq(operands) IN
  [n \in 1 .. Len(conjuncts) |-> <<conjuncts[n]>>]

-----------------------------------------------------------------------------

PassOther ==
  /\ pc = "scan"
  /\ i \in DOMAIN ops
  /\ ~ops[i].filter
  /\ out' = Append(out, i)
  /\ i' = i + 1
  /\ UNCHANGED <<given, ops, j, fresh, merged, pc>>

StartRun ==
  /\ pc = "scan"
  /\ i \in DOMAIN ops
  /\ ops[i].filter
  /\ j' = i + 1
  /\ fresh' = FALSE
  /\ merged' = << >>
  /\ pc' = "run"
  /\ UNCHANGED <<given, ops, out, i>>

RunGoesOn == j \in DOMAIN ops /\ ops[j].filter

\* The first predicate is an And: it is extended where it stands.
AbsorbInPlace ==
  /\ pc = "run"
  /\ RunGoesOn
  /\ ~fresh
  /\ IsAnd(ops[i].operands)
  /\ ops' = [ops EXCEPT ![i].operands = Append(@, AsOperand(ops[j].operands))]
  /\ j' = j + 1
  /\ UNCHANGED <<given, out, i, fresh, merged, pc>>

\* Slip: the later predicate first (ConjunctsKept).
AbsorbInFront ==
  /\ pc = "run"
  /\ RunGoesOn
  /\ ~fresh
  /\ ~IsAnd(ops[i].operands)
  /\ fresh' = TRUE
  /\ merged' = <<AsOperand(ops[j].operands), AsOperand(ops[i].operands)>>
  /\ j' = j + 1
  /\ UNCHANGED <<given, ops, out, i, pc>>

\* The first predicate is not an And: a new And takes both.
AbsorbFirst ==
  /\ pc = "run"
  /\ RunGoesOn
  /\ ~fresh
  /\ ~IsAnd(ops[i].operands)
  /\ fresh' = TRUE
  /\ merged' = <<AsOperand(ops[i].operands), AsOperand(ops[j].operands)>>
  /\ j' = j + 1
  /\ UNCHANGED <<given, ops, out, i, pc>>

AbsorbMore ==
  /\ pc = "run"
  /\ RunGoesOn
  /\ fresh
  /\ merged' = Append(merged, AsOperand(ops[j].operands))
  /\ j' = j + 1
  /\ UNCHANGED <<given, ops, out, i, fresh, pc>>

\* Slip: the new And becomes the predicate without being normalised
\* (NewConjunctionsNormal).
CloseRunAsItIs ==
  /\ pc = "run"
  /\ ~RunGoesOn
  /\ ops' = IF fresh
              THEN [ops EXCEPT ![i].operands = merged, ![i].canon = merged]
              ELSE ops
  /\ out' = Append(out, i)
  /\ i' = j
  /\ pc' = "scan"
  /\ UNCHANGED <<given, j, fresh, merged>>

\* Slip: the outer loop goes on behind the first operator of the run
\* (NoAdjacentFilters).
CloseRunRescanning ==
  /\ pc = "run"
  /\ ~RunGoesOn
  /\ ops' = IF fresh
              THEN [ops EXCEPT ![i].operands = Flat(merged),
                               ![i].canon = Flat(merged)]
              ELSE ops
  /\ out' = Append(out, i)
  /\ i' = i + 1
  /\ pc' = "scan"
  /\ UNCHANGED <<given, j, fresh, merged>>

CloseRun ==
  /\ pc = "run"
  /\ ~RunGoesOn
  /\ ops' = IF fresh
              THEN [ops EXCEPT ![i].operands = Flat(merged),
                               ![i].canon = Flat(merged)]
              ELSE ops
  /\ out' = Append(out, i)
  /\ i' = j
  /\ pc' = "scan"
  /\ UNCHANGED <<given, j, fresh, merged>>

Return ==
  /\ pc = "scan"
  /\ i \notin DOMAIN ops
  /\ pc' = "done"
  /\ UNCHANGED <<given, ops, out, i, j, fresh, merged>>

Next ==
  \/ PassOther
  \/ StartRun
  \/ AbsorbInPlace
  \/ AbsorbFirst
  \/ AbsorbMore
  \/ CloseRun
  \/ Return

Spec == Init /\ [][Next]_vars
=============================================================================
