-------------------------- MODULE FilterMergeProofs --------------------------
(***************************************************************************)
(* Proofs that the result of merge_filter_ops never has two where          *)
(* operators next to each other, that the conjunctions the loop creates    *)
(* are in normal form, and that no conjunct is lost, doubled or moved, for *)
(* operator lists of any length.                                           *)
(***************************************************************************)
EXTENDS FilterMergeProps, RecursionLemmas

Fields == {"filter", "operands", "canon"}

\* The operators keep their classes, and those not put out yet their
\* predicates, except an And the loop is extending.
Kept ==
  /\ given \in OpLists
  /\ ops = [n \in DOMAIN given |-> ops[n]]
  /\ \A n \in DOMAIN given :
       DOMAIN ops[n] = Fields /\ ops[n].filter = given[n].filter
  /\ \A n \in DOMAIN given :
       (n >= i /\ ~IsAnd(given[n].operands)) => ops[n] = given[n]

\* Where the loops are: everything put out lies behind the outer loop, which
\* stands on a where operator while the inner loop runs ahead of it.
Places ==
  /\ i \in Nat \ {0}
  /\ j \in Nat \ {0}
  /\ out \in Seq(DOMAIN given)
  /\ \A k \in DOMAIN out : out[k] < i
  /\ pc \in {"scan", "run", "done"}
  /\ pc = "run" => i \in DOMAIN given /\ given[i].filter /\ i < j

\* A run put out last is maximal: what follows it is no where operator.
RunsMaximal ==
  (out # << >> /\ given[out[Len(out)]].filter /\ i \in DOMAIN given)
    => ~given[i].filter

Inv == /\ Kept
       /\ Places
       /\ RunsMaximal
       /\ NoAdjacentFilters
       /\ NewConjunctionsNormal

LEMMA GivenTypes ==
  ASSUME given \in OpLists
  PROVE  /\ given \in Seq(OpRecord)
         /\ DOMAIN given = 1 .. Len(given)
         /\ Len(given) \in Nat
         /\ \A n \in DOMAIN given : given[n] \in OpRecord /\ IsBuilt(given[n])
BY OpListsAssumption

\* An operator as the builder made it is in normal form already.
LEMMA BuiltIsNormal ==
  ASSUME NEW op, IsBuilt(op)
  PROVE  IsFlat(op) /\ IsCurrent(op)
BY DEF IsBuilt, IsFlat, IsCurrent

\* So is one whose predicate the loop has replaced.
LEMMA FlatIsNormal ==
  ASSUME NEW op, NEW m, op.operands = Flat(m), op.canon = Flat(m)
  PROVE  IsFlat(op) /\ IsCurrent(op)
<1>1. IsCurrent(op) BY DEF IsCurrent
<1>2. \A n \in DOMAIN Flat(m) : Len(Flat(m)[n]) = 1 BY DEF Flat
<1> QED BY <1>1, <1>2 DEF IsFlat

\* Writing to a field of a record leaves the others.
LEMMA RecordUpdate ==
  ASSUME NEW r, DOMAIN r = Fields, NEW v, NEW w
  PROVE  /\ LET u == [r EXCEPT !.operands = v] IN
              DOMAIN u = Fields /\ u.filter = r.filter
         /\ LET u == [r EXCEPT !.operands = v, !.canon = w] IN
              /\ DOMAIN u = Fields /\ u.filter = r.filter
              /\ u.operands = v /\ u.canon = w
BY DEF Fields

THEOREM Initially == Init => Inv
<1> SUFFICES ASSUME Init PROVE Inv OBVIOUS
<1>1. given \in OpLists BY DEF Init
<1>2. given \in Seq(OpRecord) BY <1>1, GivenTypes
<1>3. given = [n \in DOMAIN given |-> given[n]] BY <1>2
<1>4. \A n \in DOMAIN given :
        DOMAIN given[n] = Fields
  BY <1>1, GivenTypes DEF OpRecord, Fields
<1>5. Kept BY <1>1, <1>3, <1>4 DEF Init, Kept
<1>6. Places BY DEF Init, Places
<1>7. RunsMaximal /\ NoAdjacentFilters /\ NewConjunctionsNormal
  BY DEF Init, RunsMaximal, NoAdjacentFilters, NewConjunctionsNormal, Range
<1> QED BY <1>5, <1>6, <1>7 DEF Inv

\* Putting an operator out preserves what is said of the operators put out,
\* when the operator is no where operator or none came directly before it.
LEMMA PutOut ==
  ASSUME Inv, NEW n, n = i, n \in DOMAIN given,
         given' = given, out' = Append(out, n), i' \in Nat \ {0}, n < i',
         \A m \in DOMAIN given \ {n} : ops'[m] = ops[m],
         ~IsAnd(given[n].operands) => IsFlat(ops'[n]) /\ IsCurrent(ops'[n])
  PROVE  /\ out' \in Seq(DOMAIN given')
         /\ \A k \in DOMAIN out' : out'[k] < i'
         /\ NoAdjacentFilters'
         /\ NewConjunctionsNormal'
<1>1. out \in Seq(DOMAIN given) /\ \A k \in DOMAIN out : out[k] < n
  BY DEF Inv, Places
<1>2. DOMAIN given \subseteq Nat BY GivenTypes DEF Inv, Kept
<1>3. /\ DOMAIN out' = 1 .. Len(out) + 1
      /\ Len(out) \in Nat
      /\ \A k \in 1 .. Len(out) : out'[k] = out[k] /\ out'[k] \in DOMAIN given
      /\ out'[Len(out) + 1] = n
      /\ out' \in Seq(DOMAIN given)
  BY <1>1
<1>4. \A k \in DOMAIN out' : out'[k] < i' BY <1>1, <1>2, <1>3 DEF Inv, Places
<1>5. NoAdjacentFilters'
  <2> SUFFICES ASSUME NEW k \in DOMAIN out', k > 1, given[out'[k]].filter
               PROVE  ~given[out'[k - 1]].filter
    BY DEF NoAdjacentFilters
  <2>1. CASE k \in 1 .. Len(out)
    BY <2>1, <1>1, <1>3 DEF Inv, NoAdjacentFilters
  <2>2. CASE k = Len(out) + 1
    BY <2>2, <1>1, <1>3 DEF Inv, RunsMaximal
  <2> QED BY <2>1, <2>2, <1>3
<1>6. NewConjunctionsNormal'
  <2> SUFFICES ASSUME NEW k \in DOMAIN out', ~IsAnd(given[out'[k]].operands)
               PROVE  IsFlat(ops'[out'[k]]) /\ IsCurrent(ops'[out'[k]])
    BY DEF NewConjunctionsNormal, Range
  <2>1. CASE k \in 1 .. Len(out)
    <3>1. out'[k] = out[k] /\ out[k] # n /\ out[k] \in Range(out)
      BY <2>1, <1>1, <1>2, <1>3 DEF Range
    <3>2. ops'[out[k]] = ops[out[k]] BY <3>1, <1>1, <2>1
    <3> QED BY <3>1, <3>2 DEF Inv, NewConjunctionsNormal
  <2>2. CASE k = Len(out) + 1
    BY <2>2, <1>3
  <2> QED BY <2>1, <2>2, <1>3
<1> QED BY <1>3, <1>4, <1>5, <1>6

LEMMA PassOtherKeeps == ASSUME Inv, PassOther PROVE Inv'
<1> USE DEF PassOther
<1>1. i \in DOMAIN given /\ ~given[i].filter BY DEF Inv, Kept
<1>2. ~IsAnd(given[i].operands) => ops[i] = given[i] BY <1>1 DEF Inv, Kept, Places
<1>3. IsBuilt(given[i]) BY <1>1, GivenTypes DEF Inv, Kept
<1>4. ~IsAnd(given[i].operands) => IsFlat(ops'[i]) /\ IsCurrent(ops'[i])
  BY <1>2, <1>3, BuiltIsNormal
<1>5. i' \in Nat \ {0} /\ i < i' BY DEF Inv, Places
<1>6. /\ out' \in Seq(DOMAIN given') /\ \A k \in DOMAIN out' : out'[k] < i'
      /\ NoAdjacentFilters' /\ NewConjunctionsNormal'
  BY <1>1, <1>4, <1>5, PutOut
<1>7. Places' BY <1>5, <1>6 DEF Inv, Places
<1>8. Kept' 
  <2>1. DOMAIN given \subseteq Nat BY GivenTypes DEF Inv, Kept
  <2> QED BY <2>1, <1>5 DEF Inv, Kept, Places
<1>9. RunsMaximal'
  <2>1. out'[Len(out')] = i BY DEF Inv, Places
  <2> QED BY <2>1, <1>1 DEF RunsMaximal
<1> QED BY <1>6, <1>7, <1>8, <1>9 DEF Inv

LEMMA StartRunKeeps == ASSUME Inv, StartRun PROVE Inv'
<1>1. i \in DOMAIN given /\ given[i].filter BY DEF Inv, Kept, StartRun
<1>2. Places' BY <1>1 DEF Inv, Places, StartRun
<1>3. Kept' BY DEF Inv, Kept, StartRun
<1>4. RunsMaximal' /\ NoAdjacentFilters' /\ NewConjunctionsNormal'
  BY DEF Inv, StartRun, RunsMaximal, NoAdjacentFilters, NewConjunctionsNormal
<1> QED BY <1>2, <1>3, <1>4 DEF Inv

LEMMA AbsorbInPlaceKeeps == ASSUME Inv, AbsorbInPlace PROVE Inv'
<1> USE DEF AbsorbInPlace
<1>1. i \in DOMAIN given /\ i \in Nat BY DEF Inv, Places
<1>2. IsAnd(given[i].operands)
  <2>1. i \in DOMAIN given /\ i >= i BY <1>1
  <2> QED BY <2>1 DEF Inv, Kept
<1> DEFINE op == [ops[i] EXCEPT !.operands = Append(@, AsOperand(ops[j].operands))]
<1>3. ops' = [ops EXCEPT ![i] = op] OBVIOUS
<1>4. DOMAIN ops[i] = Fields /\ ops[i].filter = given[i].filter
  BY <1>1 DEF Inv, Kept
<1>5. DOMAIN op = Fields /\ op.filter = given[i].filter
  BY <1>4, RecordUpdate
<1> HIDE DEF op
<1>6. Kept'
  <2>1. ops' = [n \in DOMAIN given |-> IF n = i THEN op ELSE ops[n]]
    BY <1>1, <1>3 DEF Inv, Kept
  <2> QED BY <2>1, <1>2, <1>5 DEF Inv, Kept
<1>7. Places' BY <1>1 DEF Inv, Places
<1>8. RunsMaximal' /\ NoAdjacentFilters'
  BY DEF Inv, RunsMaximal, NoAdjacentFilters
<1>9. NewConjunctionsNormal'
  <2> SUFFICES ASSUME NEW k \in DOMAIN out, ~IsAnd(given[out[k]].operands)
               PROVE  IsFlat(ops'[out[k]]) /\ IsCurrent(ops'[out[k]])
    BY DEF NewConjunctionsNormal, Range
  <2>1. out[k] # i /\ out[k] \in DOMAIN given BY <1>2 DEF Inv, Places
  <2>2. ops'[out[k]] = ops[out[k]] BY <1>3, <2>1 DEF Inv, Kept
  <2>3. out[k] \in Range(out) BY DEF Range
  <2> QED BY <2>2, <2>3 DEF Inv, NewConjunctionsNormal
<1> QED BY <1>6, <1>7, <1>8, <1>9 DEF Inv

LEMMA AbsorbFreshKeeps == ASSUME Inv, AbsorbFirst \/ AbsorbMore PROVE Inv'
<1> USE DEF AbsorbFirst, AbsorbMore
<1>1. Kept' BY DEF Inv, Kept
<1>2. Places' BY DEF Inv, Places
<1>3. RunsMaximal' /\ NoAdjacentFilters' /\ NewConjunctionsNormal'
  BY DEF Inv, RunsMaximal, NoAdjacentFilters, NewConjunctionsNormal
<1> QED BY <1>1, <1>2, <1>3 DEF Inv

LEMMA CloseRunKeeps == ASSUME Inv, CloseRun PROVE Inv'
<1> USE DEF CloseRun
<1>1. i \in DOMAIN given /\ i \in Nat /\ j \in Nat \ {0} /\ i < j
  BY DEF Inv, Places
<1>2. DOMAIN ops[i] = Fields /\ ops[i].filter = given[i].filter
  BY <1>1 DEF Inv, Kept
<1> DEFINE op == IF fresh THEN [ops[i] EXCEPT !.operands = Flat(merged),
                                              !.canon = Flat(merged)]
                 ELSE ops[i]
<1>3. ops' = [ops EXCEPT ![i] = op]
  BY <1>1 DEF Inv, Kept
<1>4. DOMAIN op = Fields /\ op.filter = given[i].filter
  BY <1>2, RecordUpdate
<1>5. fresh => op.operands = Flat(merged) /\ op.canon = Flat(merged)
  BY <1>2, RecordUpdate
<1>6. ~fresh => op = ops[i] OBVIOUS
<1> HIDE DEF op
<1>7. ops' = [n \in DOMAIN given |-> IF n = i THEN op ELSE ops[n]]
  BY <1>1, <1>3 DEF Inv, Kept
<1>8. ~IsAnd(given[i].operands) => IsFlat(ops'[i]) /\ IsCurrent(ops'[i])
  <2>1. CASE fresh BY <2>1, <1>1, <1>5, <1>7, FlatIsNormal
  <2>2. CASE ~fresh
    <3>1. IsBuilt(given[i]) BY <1>1, GivenTypes DEF Inv, Kept
    <3>2. i >= i BY <1>1
    <3>3. ~IsAnd(given[i].operands) => ops'[i] = given[i]
      BY <2>2, <3>2, <1>1, <1>6, <1>7 DEF Inv, Kept
    <3> QED BY <3>1, <3>3, BuiltIsNormal
  <2> QED BY <2>1, <2>2
<1>9. \A m \in DOMAIN given \ {i} : ops'[m] = ops[m] BY <1>7
<1>10. /\ out' \in Seq(DOMAIN given') /\ \A k \in DOMAIN out' : out'[k] < i'
       /\ NoAdjacentFilters' /\ NewConjunctionsNormal'
  <2>1. given' = given /\ out' = Append(out, i) /\ i' \in Nat \ {0} /\ i < i'
    BY <1>1
  <2> QED BY <2>1, <1>1, <1>8, <1>9, PutOut
<1>11. Places' BY <1>1, <1>10 DEF Inv, Places
<1>12. Kept'
  <2>1. DOMAIN given \subseteq Nat BY GivenTypes DEF Inv, Kept
  <2>2. \A n \in DOMAIN given : n >= j => n # i /\ n >= i BY <2>1, <1>1
  <2> QED BY <2>2, <1>4, <1>7 DEF Inv, Kept
<1>13. RunsMaximal'
  <2>1. j \in DOMAIN given => ~given[j].filter
    <3>1. DOMAIN ops = DOMAIN given BY DEF Inv, Kept
    <3>2. \A n \in DOMAIN given : ops[n].filter = given[n].filter
      BY DEF Inv, Kept
    <3> QED BY <3>1, <3>2 DEF RunGoesOn
  <2> QED BY <2>1 DEF RunsMaximal
<1> QED BY <1>10, <1>11, <1>12, <1>13 DEF Inv

LEMMA StepKeepsInv == Inv /\ [Next]_vars => Inv'
<1> SUFFICES ASSUME Inv, [Next]_vars PROVE Inv' OBVIOUS
<1>1. CASE PassOther BY <1>1, PassOtherKeeps
<1>2. CASE StartRun BY <1>2, StartRunKeeps
<1>3. CASE AbsorbInPlace BY <1>3, AbsorbInPlaceKeeps
<1>4. CASE AbsorbFirst \/ AbsorbMore BY <1>4, AbsorbFreshKeeps
<1>5. CASE CloseRun BY <1>5, CloseRunKeeps
<1>6. CASE Return
  BY <1>6 DEF Return, Inv, Kept, Places, RunsMaximal, NoAdjacentFilters,
              NewConjunctionsNormal
<1>7. CASE UNCHANGED vars
  BY <1>7 DEF vars, Inv, Kept, Places, RunsMaximal, NoAdjacentFilters,
              NewConjunctionsNormal
<1> QED BY <1>1, <1>2, <1>3, <1>4, <1>5, <1>6, <1>7 DEF Next

Flag == fresh \in BOOLEAN

LEMMA StepKeepsFlag == Flag /\ [Next]_vars => Flag'
BY DEF Flag, Next, vars, PassOther, StartRun, AbsorbInPlace, AbsorbFirst, AbsorbMore,
       CloseRun, Return

\* The loop's variables keep their types.
THEOREM TypesHold == Spec => []TypeOK
<1>1. Init => Flag BY DEF Init, Flag
<1>2. Inv /\ Flag => TypeOK BY DEF Inv, Kept, Places, Flag, TypeOK
<1> QED BY <1>1, <1>2, Initially, StepKeepsInv, StepKeepsFlag, PTL DEF Spec

\* The result never has two where operators next to each other.
THEOREM NoAdjacentFiltersHold == Spec => []NoAdjacentFilters
<1>1. Inv => NoAdjacentFilters BY DEF Inv
<1> QED BY <1>1, Initially, StepKeepsInv, PTL DEF Spec

\* Every conjunction the loop creates is flat and has its own canonical form.
THEOREM NewConjunctionsNormalHold == Spec => []NewConjunctionsNormal
<1>1. Inv => NewConjunctionsNormal BY DEF Inv
<1> QED BY <1>1, Initially, StepKeepsInv, PTL DEF Spec

-----------------------------------------------------------------------------
(* No conjunct is lost, doubled or moved.                                  *)

\* What a predicate is made of, and what stands for an operator that has none.
Elements == Conjuncts \cup Nat

OutWords == [k \in DOMAIN out |-> Words(ops, out[k])]
GivenWords(m) == [n \in 1 .. m |-> Words(given, n)]

\* The operands collected so far of the run that is being read.
Held == IF fresh THEN merged ELSE ops[i].operands

\* Operators the loops have not reached are as they were given, and neither
\* loop goes further than the end of the list.
Later ==
  /\ i <= Len(given) + 1
  /\ pc = "run" => j <= Len(given) + 1
  /\ \A n \in DOMAIN given : n > i \/ (n = i /\ pc # "run") => ops[n] = given[n]

OperandsOK ==
  /\ \A n \in DOMAIN given : ops[n].operands \in Seq(Seq(Elements))
  /\ merged \in Seq(Seq(Elements))

\* In the middle of a run, what is put out and what is held together say what
\* the operators before j said.
RunKept ==
  pc = "run" =>
    FlattenSeq(OutWords) \o FlattenSeq(Held) = FlattenSeq(GivenWords(j - 1))

Contents == Inv /\ Later /\ OperandsOK /\ RunKept /\ ConjunctsKept

LEMMA GivenOperands ==
  ASSUME given \in OpLists, NEW n \in DOMAIN given
  PROVE  given[n].operands \in Seq(Seq(Elements))
<1>1. given[n] \in OpRecord
  BY GivenTypes
<1>2. given[n].operands \in Seq(Operand)
  BY <1>1 DEF OpRecord
<1>3. Operand \subseteq Seq(Elements)
  BY DEF Operand, Elements
<1> QED
  BY <1>2, <1>3

LEMMA WordsType ==
  ASSUME NEW list, NEW n \in Nat, list[n].operands \in Seq(Seq(Elements))
  PROVE  Words(list, n) \in Seq(Elements)
<1>1. FlattenSeq(list[n].operands) \in Seq(Elements)
  BY FlattenType
<1>2. <<n>> \in Seq(Elements)
  BY DEF Elements
<1> QED
  BY <1>1, <1>2 DEF Words

LEMMA WordsTypes ==
  ASSUME Inv, OperandsOK
  PROVE  /\ OutWords \in Seq(Seq(Elements))
         /\ \A n \in DOMAIN given :
              Words(given, n) \in Seq(Elements) /\ Words(ops, n) \in Seq(Elements)
<1>1. given \in OpLists /\ DOMAIN given \subseteq Nat
  BY GivenTypes DEF Inv, Kept
<1>2. \A n \in DOMAIN given :
        Words(given, n) \in Seq(Elements) /\ Words(ops, n) \in Seq(Elements)
  BY <1>1, GivenOperands, WordsType DEF OperandsOK
<1>3. out \in Seq(DOMAIN given)
  BY DEF Inv, Places
<1>4. DOMAIN out = 1 .. Len(out) /\ Len(out) \in Nat
  BY <1>3
<1>5. OutWords = [k \in 1 .. Len(out) |-> OutWords[k]]
  BY <1>4 DEF OutWords
<1>6. \A k \in 1 .. Len(out) : OutWords[k] \in Seq(Elements)
  BY <1>2, <1>3, <1>4 DEF OutWords
<1>7. OutWords \in Seq(Seq(Elements))
  BY <1>4, <1>5, <1>6, SequenceType
<1> QED
  BY <1>2, <1>7

\* The words of one operator more.
LEMMA GivenWordsMore ==
  ASSUME given \in OpLists, NEW m \in Nat, m + 1 \in DOMAIN given
  PROVE  /\ GivenWords(m) \in Seq(Seq(Elements))
         /\ Words(given, m + 1) \in Seq(Elements)
         /\ FlattenSeq(GivenWords(m + 1))
              = FlattenSeq(GivenWords(m)) \o Words(given, m + 1)
<1>1. DOMAIN given = 1 .. Len(given) /\ Len(given) \in Nat
  BY GivenTypes
<1>2. \A n \in 1 .. m + 1 : n \in DOMAIN given /\ n \in Nat
  BY <1>1
<1>3. \A n \in 1 .. m + 1 : Words(given, n) \in Seq(Elements)
  BY <1>2, GivenOperands, WordsType
<1>4. Words(given, m + 1) \in Seq(Elements)
  BY <1>3
<1>5. GivenWords(m) \in Seq(Seq(Elements)) /\ Len(GivenWords(m)) = m
  BY <1>3, SequenceType DEF GivenWords
<1>6. GivenWords(m + 1) = Append(GivenWords(m), Words(given, m + 1))
  <2> DEFINE s == GivenWords(m)
             t == GivenWords(m + 1)
             x == Words(given, m + 1)
             Q == Seq(Elements)
  <2>1. t = [k \in 1 .. m + 1 |-> t[k]] /\ t[m + 1] = x /\ \A k \in 1 .. m : t[k] = s[k]
    BY DEF GivenWords
  <2>2. s \in Seq(Q) /\ Len(s) = m /\ x \in Q
    BY <1>4, <1>5
  <2> HIDE DEF s, t, x, Q
  <2>3. IsLonger(t, s, x, m)
    BY <2>1, <2>2 DEF IsLonger
  <2>4. t = Append(s, x)
    BY <2>2, <2>3, SequenceAppend
  <2> QED
    BY <2>4 DEF s, t, x
<1> QED
  BY <1>4, <1>5, <1>6, FlattenAppend

THEOREM ContentsInitially == Init => Contents
<1> SUFFICES ASSUME Init PROVE Contents
  OBVIOUS
<1>1. Inv
  BY Initially
<1>2. given \in OpLists /\ DOMAIN given = 1 .. Len(given) /\ Len(given) \in Nat
  BY GivenTypes DEF Init
<1>3. Later /\ RunKept
  BY <1>2 DEF Init, Later, RunKept
<1>4. OperandsOK
  BY <1>2, GivenOperands DEF Init, OperandsOK
<1>5. ConjunctsKept
  <2>1. OutWords = << >> /\ GivenWords(0) = << >>
    BY DEF Init, OutWords, GivenWords
  <2>2. i - 1 = 0
    BY DEF Init
  <2>3. FlattenSeq(OutWords) = FlattenSeq(GivenWords(i - 1))
    BY <2>1, <2>2
  <2> QED
    BY <2>3 DEF ConjunctsKept, OutWords, GivenWords
<1> QED
  BY <1>1, <1>3, <1>4, <1>5 DEF Contents

\* Putting out an operator that has not been changed, or a finished run.
LEMMA PutOutKeeps ==
  ASSUME Contents, Inv', OperandsOK', NEW w \in Seq(Elements), NEW m \in Nat,
         given' = given, out' = Append(out, i),
         \A n \in DOMAIN given \ {i} : ops'[n] = ops[n],
         i \in DOMAIN given, Words(ops', i) = w,
         FlattenSeq(OutWords) \o w = FlattenSeq(GivenWords(m)), i' = m + 1
  PROVE  ConjunctsKept'
<1>1. out \in Seq(DOMAIN given) /\ \A k \in DOMAIN out : out[k] < i
  BY DEF Contents, Inv, Places
<1>2. OutWords' = Append(OutWords, w)
  <2>1. /\ DOMAIN out = 1 .. Len(out) /\ Len(out) \in Nat
        /\ DOMAIN out' = 1 .. Len(out) + 1
        /\ out'[Len(out) + 1] = i
        /\ \A k \in 1 .. Len(out) : out'[k] = out[k]
    BY <1>1
  <2>2. \A k \in 1 .. Len(out) : Words(ops', out'[k]) = Words(ops, out[k])
    <3> TAKE k \in 1 .. Len(out)
    <3>1. out[k] \in DOMAIN given /\ out[k] # i
      BY <1>1, <2>1, GivenTypes DEF Contents, Inv, Kept
    <3> QED
      BY <2>1, <3>1 DEF Words
  <2>3. OutWords \in Seq(Seq(Elements)) /\ Len(OutWords) = Len(out)
    BY <2>1, WordsTypes DEF Contents, OutWords
  <2>4. OutWords' = [k \in 1 .. Len(out) + 1 |-> (OutWords')[k]]
    BY <2>1, <2>3 DEF OutWords
  <2>5. \A k \in 1 .. Len(out) : (OutWords')[k] = OutWords[k]
    BY <2>1, <2>2, <2>3 DEF OutWords
  <2>6. (OutWords')[Len(out) + 1] = w /\ Len(out) \in Nat
    BY <2>1, <2>3 DEF OutWords
  <2> QED
    <3>1. IsLonger(OutWords', OutWords, w, Len(out))
      BY <2>3, <2>4, <2>5, <2>6 DEF IsLonger
    <3> QED
      BY <2>3, <2>6, <3>1, SequenceAppend
<1>3. FlattenSeq(OutWords') = FlattenSeq(OutWords) \o w
  BY <1>2, WordsTypes, FlattenAppend DEF Contents
<1>4. GivenWords(m)' = GivenWords(m) /\ i' - 1 = m
  BY DEF GivenWords, Words
<1> QED
  BY <1>3, <1>4 DEF ConjunctsKept, OutWords, GivenWords


LEMMA PassOtherKeepsContents == ASSUME Contents, PassOther PROVE Contents'
<1>1. Inv'
  BY PassOtherKeeps DEF Contents
<1>2. i \in DOMAIN given /\ ~given[i].filter /\ ops[i] = given[i]
  BY DEF Contents, Inv, Kept, Later, PassOther
<1>3. DOMAIN given = 1 .. Len(given) /\ Len(given) \in Nat /\ i \in Nat \ {0}
  BY GivenTypes DEF Contents, Inv, Kept, Places
<1>4. Later' /\ OperandsOK' /\ RunKept'
  BY <1>2, <1>3 DEF Contents, Later, OperandsOK, RunKept, PassOther
<1>5. ConjunctsKept'
  <2> DEFINE w == Words(given, i)
  <2>1. w \in Seq(Elements)
    BY <1>2, WordsTypes DEF Contents
  <2>2. Words(ops', i) = w
    BY <1>2 DEF Words, PassOther
  <2>3. FlattenSeq(OutWords) = FlattenSeq(GivenWords(i - 1))
    BY DEF Contents, ConjunctsKept, OutWords, GivenWords, PassOther
  <2>4. (i - 1) + 1 = i /\ i - 1 \in Nat
    BY <1>3
  <2>5. FlattenSeq(GivenWords(i)) = FlattenSeq(GivenWords(i - 1)) \o w
    BY <1>2, <2>4, GivenWordsMore DEF Contents, Inv, Kept
  <2> HIDE DEF w
  <2>6. /\ given' = given /\ out' = Append(out, i) /\ i' = i + 1 /\ i \in Nat
        /\ \A n \in DOMAIN given \ {i} : ops'[n] = ops[n]
    BY <1>3 DEF PassOther
  <2> QED
    BY <1>1, <1>2, <1>4, <2>1, <2>2, <2>3, <2>5, <2>6, PutOutKeeps
<1> QED
  BY <1>1, <1>4, <1>5 DEF Contents

LEMMA StartRunKeepsContents == ASSUME Contents, StartRun PROVE Contents'
<1>1. Inv'
  BY StartRunKeeps DEF Contents
<1>2. i \in DOMAIN given /\ given[i].filter /\ ops[i] = given[i]
  BY DEF Contents, Inv, Kept, Later, StartRun
<1>3. DOMAIN given = 1 .. Len(given) /\ Len(given) \in Nat /\ i \in Nat \ {0}
  BY GivenTypes DEF Contents, Inv, Kept, Places
<1>4. Later' /\ OperandsOK' /\ ConjunctsKept'
  BY <1>2, <1>3 DEF Contents, Later, OperandsOK, ConjunctsKept, StartRun
<1>5. RunKept'
  <2>1. Held' = given[i].operands
    BY <1>2 DEF Held, StartRun
  <2>2. Words(given, i) = FlattenSeq(given[i].operands)
    BY <1>2 DEF Words
  <2>3. FlattenSeq(OutWords) = FlattenSeq(GivenWords(i - 1))
    BY DEF Contents, ConjunctsKept, OutWords, GivenWords, StartRun
  <2>4. (i - 1) + 1 = i /\ i - 1 \in Nat /\ j' - 1 = i
    BY <1>3 DEF StartRun
  <2>5. FlattenSeq(GivenWords(i)) = FlattenSeq(GivenWords(i - 1)) \o Words(given, i)
    BY <1>2, <2>4, GivenWordsMore DEF Contents, Inv, Kept
  <2>6. OutWords' = OutWords /\ \A m : GivenWords(m)' = GivenWords(m)
    BY DEF OutWords, GivenWords, Words, StartRun
  <2> QED
    BY <2>1, <2>2, <2>3, <2>4, <2>5, <2>6 DEF RunKept
<1> QED
  BY <1>1, <1>4, <1>5 DEF Contents

\* The run takes in one more where operator.
LEMMA AbsorbKeepsRun ==
  ASSUME Contents, pc = "run", RunGoesOn, UNCHANGED <<given, out, i, pc>>, j' = j + 1,
         \A n \in DOMAIN given \ {i} : ops'[n] = ops[n],
         Held \in Seq(Seq(Elements)),
         FlattenSeq(Held') = FlattenSeq(Held) \o FlattenSeq(ops[j].operands)
  PROVE  RunKept' /\ j + 1 <= Len(given) + 1
<1>1. DOMAIN given = 1 .. Len(given) /\ Len(given) \in Nat
  BY GivenTypes DEF Contents, Inv, Kept
<1>2. j \in DOMAIN given /\ given[j].filter /\ j \in Nat \ {0} /\ i \in Nat /\ i < j
  BY DEF Contents, Inv, Kept, Places, RunGoesOn
<1>3. ops[j] = given[j]
  BY <1>2 DEF Contents, Later
<1>4. Words(given, j) = FlattenSeq(ops[j].operands)
  BY <1>2, <1>3 DEF Words
<1>5. (j - 1) + 1 = j /\ j - 1 \in Nat /\ j' - 1 = j
  BY <1>2
<1>6. /\ Words(given, j) \in Seq(Elements)
      /\ FlattenSeq(GivenWords(j)) = FlattenSeq(GivenWords(j - 1)) \o Words(given, j)
  BY <1>2, <1>5, GivenWordsMore DEF Contents, Inv, Kept
<1>7. FlattenSeq(OutWords) \o FlattenSeq(Held) = FlattenSeq(GivenWords(j - 1))
  BY DEF Contents, RunKept
<1>8. OutWords' = OutWords
  <2>1. \A k \in DOMAIN out : out[k] \in DOMAIN given \ {i}
    BY <1>1, <1>2 DEF Contents, Inv, Places
  <2>2. \A k \in DOMAIN out : Words(ops', out[k]) = Words(ops, out[k])
    BY <2>1 DEF Words
  <2> QED
    BY <2>2 DEF OutWords
<1>9. [n \in 1 .. j' - 1 |-> Words(given', n)] = GivenWords(j)
  BY <1>5 DEF GivenWords
<1>10. FlattenSeq(OutWords) \in Seq(Elements) /\ FlattenSeq(Held) \in Seq(Elements)
  BY WordsTypes, FlattenType DEF Contents
<1>11. (FlattenSeq(OutWords) \o FlattenSeq(Held)) \o Words(given, j)
         = FlattenSeq(OutWords) \o (FlattenSeq(Held) \o Words(given, j))
  <2> DEFINE a == FlattenSeq(OutWords)
             b == FlattenSeq(Held)
             c == Words(given, j)
  <2>1. a \in Seq(Elements) /\ b \in Seq(Elements) /\ c \in Seq(Elements)
    BY <1>6, <1>10
  <2> HIDE DEF a, b, c
  <2>2. (a \o b) \o c = a \o (b \o c)
    BY <2>1
  <2> QED
    BY <2>2 DEF a, b, c
<1>12. RunKept'
  <2>1. FlattenSeq(OutWords') \o FlattenSeq(Held')
          = FlattenSeq([n \in 1 .. j' - 1 |-> Words(given', n)])
    BY <1>4, <1>6, <1>7, <1>8, <1>9, <1>11
  <2> QED
    BY <2>1 DEF RunKept, GivenWords
<1> QED
  BY <1>1, <1>2, <1>12

LEMMA AbsorbInPlaceKeepsContents == ASSUME Contents, AbsorbInPlace PROVE Contents'
<1> USE DEF AbsorbInPlace
<1>1. Inv'
  BY AbsorbInPlaceKeeps DEF Contents
<1>2. /\ DOMAIN given = 1 .. Len(given) /\ Len(given) \in Nat
      /\ i \in DOMAIN given /\ j \in DOMAIN given /\ i < j
      /\ i \in Nat /\ DOMAIN ops = DOMAIN given
  BY GivenTypes DEF Contents, Inv, Kept, Places, RunGoesOn
<1> DEFINE more == Append(ops[i].operands, AsOperand(ops[j].operands))
<1>3. DOMAIN ops[i] = Fields
  BY <1>2 DEF Contents, Inv, Kept
<1>4. ops'[i].operands = more
  BY <1>2, <1>3 DEF Fields
<1>5. \A n \in DOMAIN given \ {i} : ops'[n] = ops[n]
  BY <1>2
<1>6. ops[i].operands \in Seq(Seq(Elements)) /\ AsOperand(ops[j].operands) \in Seq(Elements)
  BY <1>2, FlattenType DEF Contents, OperandsOK, AsOperand
<1>7. more \in Seq(Seq(Elements))
  BY <1>6
<1>8. FlattenSeq(more) = FlattenSeq(ops[i].operands) \o FlattenSeq(ops[j].operands)
  BY <1>6, FlattenAppend DEF AsOperand
<1> HIDE DEF more
<1>9. Held = ops[i].operands /\ Held' = more
  BY <1>4 DEF Held
<1>10. RunKept' /\ j + 1 <= Len(given) + 1
  BY <1>5, <1>6, <1>8, <1>9, AbsorbKeepsRun
<1>11. OperandsOK'
  BY <1>4, <1>5, <1>7 DEF Contents, OperandsOK
<1>12. Later' /\ ConjunctsKept'
  BY <1>2, <1>5, <1>10 DEF Contents, Later, ConjunctsKept
<1> QED
  BY <1>1, <1>10, <1>11, <1>12 DEF Contents

LEMMA AbsorbFreshKeepsContents ==
  ASSUME Contents, AbsorbFirst \/ AbsorbMore PROVE Contents'
<1>1. Inv'
  BY AbsorbFreshKeeps DEF Contents
<1>2. i \in DOMAIN given /\ j \in DOMAIN given
  BY DEF Contents, Inv, Kept, Places, RunGoesOn, AbsorbFirst, AbsorbMore
<1>3. /\ ops[i].operands \in Seq(Seq(Elements)) /\ merged \in Seq(Seq(Elements))
      /\ AsOperand(ops[i].operands) \in Seq(Elements)
      /\ AsOperand(ops[j].operands) \in Seq(Elements)
  BY <1>2, FlattenType DEF Contents, OperandsOK, AsOperand
<1>4. /\ merged' \in Seq(Seq(Elements))
      /\ FlattenSeq(Held') = FlattenSeq(Held) \o FlattenSeq(ops[j].operands)
  <2>1. CASE AbsorbFirst
    <3>1. merged' = <<AsOperand(ops[i].operands), AsOperand(ops[j].operands)>>
          /\ Held = ops[i].operands /\ Held' = merged'
      BY <2>1 DEF AbsorbFirst, Held
    <3>2. FlattenSeq(merged') = AsOperand(ops[i].operands) \o AsOperand(ops[j].operands)
      BY <1>3, <3>1, FlattenTwo
    <3>3. FlattenSeq(Held') = FlattenSeq(Held) \o FlattenSeq(ops[j].operands)
      BY <3>1, <3>2 DEF AsOperand
    <3>4. merged' \in Seq(Seq(Elements))
      BY <1>3, <3>1
    <3> QED
      BY <3>3, <3>4
  <2>2. CASE AbsorbMore
    <3>1. merged' = Append(merged, AsOperand(ops[j].operands))
          /\ Held = merged /\ Held' = merged'
      BY <2>2 DEF AbsorbMore, Held
    <3>2. FlattenSeq(merged') = FlattenSeq(merged) \o AsOperand(ops[j].operands)
      BY <1>3, <3>1, FlattenAppend
    <3>3. FlattenSeq(Held') = FlattenSeq(Held) \o FlattenSeq(ops[j].operands)
      BY <3>1, <3>2 DEF AsOperand
    <3>4. merged' \in Seq(Seq(Elements))
      BY <1>3, <3>1
    <3> QED
      BY <3>3, <3>4
  <2> QED
    BY <2>1, <2>2
<1>5. Held \in Seq(Seq(Elements))
  BY <1>3 DEF Held
<1>6. /\ UNCHANGED <<given, ops, out, i, pc>> /\ j' = j + 1 /\ pc = "run" /\ RunGoesOn
  BY DEF AbsorbFirst, AbsorbMore
<1>7. RunKept' /\ j + 1 <= Len(given) + 1
  BY <1>4, <1>5, <1>6, AbsorbKeepsRun
<1>8. OperandsOK' /\ Later' /\ ConjunctsKept'
  BY <1>4, <1>6, <1>7 DEF Contents, OperandsOK, Later, ConjunctsKept
<1> QED
  BY <1>1, <1>7, <1>8 DEF Contents

LEMMA CloseRunKeepsContents == ASSUME Contents, CloseRun PROVE Contents'
<1> USE DEF CloseRun
<1>1. Inv'
  BY CloseRunKeeps DEF Contents
<1>2. /\ DOMAIN given = 1 .. Len(given) /\ Len(given) \in Nat
      /\ i \in DOMAIN given /\ given[i].filter /\ i < j
      /\ i \in Nat /\ j \in Nat \ {0} /\ DOMAIN ops = DOMAIN given
  BY GivenTypes DEF Contents, Inv, Kept, Places
<1>3. DOMAIN ops[i] = Fields /\ ops[i].filter = given[i].filter
  BY <1>2 DEF Contents, Inv, Kept
<1>4. merged \in Seq(Seq(Elements)) /\ ops[i].operands \in Seq(Seq(Elements))
  BY <1>2 DEF Contents, OperandsOK
<1>5. Flat(merged) \in Seq(Seq(Elements)) /\ FlattenSeq(Flat(merged)) = FlattenSeq(merged)
  <2>1. FlattenSeq(merged) \in Seq(Elements)
    BY <1>4, FlattenType
  <2>2. Flat(merged) = Singles(FlattenSeq(merged))
    BY DEF Flat, Singles
  <2> QED
    BY <2>1, <2>2, FlattenSingles
<1>6. \A n \in DOMAIN given \ {i} : ops'[n] = ops[n]
  BY <1>2
<1>7. /\ ops'[i].operands \in Seq(Seq(Elements)) /\ ops'[i].filter
      /\ FlattenSeq(ops'[i].operands) = FlattenSeq(Held)
  <2>1. CASE fresh
    <3>1. ops'[i].operands = Flat(merged) /\ ops'[i].filter
      BY <2>1, <1>2, <1>3 DEF Fields
    <3> QED
      BY <2>1, <3>1, <1>5 DEF Held
  <2>2. CASE ~fresh
    BY <2>2, <1>2, <1>3, <1>4 DEF Held
  <2> QED
    BY <2>1, <2>2
<1>8. OperandsOK'
  BY <1>6, <1>7, <1>4 DEF Contents, OperandsOK
<1>9. Later' /\ RunKept'
  <2>1. j <= Len(given) + 1
    BY DEF Contents, Later
  <2>2. \A n \in DOMAIN given : n >= j => ops'[n] = given[n]
    BY <1>2, <1>6 DEF Contents, Later
  <2> QED
    BY <1>2, <2>1, <2>2 DEF Later, RunKept
<1>10. ConjunctsKept'
  <2> DEFINE w == FlattenSeq(Held)
  <2>1. Words(ops', i) = w
    BY <1>7 DEF Words
  <2>2. w \in Seq(Elements)
    BY <1>4, FlattenType DEF Held
  <2>3. FlattenSeq(OutWords) \o w = FlattenSeq(GivenWords(j - 1))
    BY DEF Contents, RunKept
  <2> HIDE DEF w
  <2>4. /\ given' = given /\ out' = Append(out, i) /\ i' = (j - 1) + 1 /\ j - 1 \in Nat
    BY <1>2
  <2> QED
    BY <1>1, <1>2, <1>6, <1>8, <2>1, <2>2, <2>3, <2>4, PutOutKeeps
<1> QED
  BY <1>1, <1>8, <1>9, <1>10 DEF Contents

LEMMA StepKeepsContents == Contents /\ [Next]_vars => Contents'
<1> SUFFICES ASSUME Contents, [Next]_vars PROVE Contents' OBVIOUS
<1>1. CASE PassOther BY <1>1, PassOtherKeepsContents
<1>2. CASE StartRun BY <1>2, StartRunKeepsContents
<1>3. CASE AbsorbInPlace BY <1>3, AbsorbInPlaceKeepsContents
<1>4. CASE AbsorbFirst \/ AbsorbMore BY <1>4, AbsorbFreshKeepsContents
<1>5. CASE CloseRun BY <1>5, CloseRunKeepsContents
<1>6. CASE Return \/ UNCHANGED vars
  <2>1. Inv'
    BY <1>6, StepKeepsInv DEF Contents, Next
  <2>2. /\ given' = given /\ ops' = ops /\ out' = out /\ i' = i /\ j' = j
        /\ fresh' = fresh /\ merged' = merged
        /\ pc' = pc \/ (pc' # "run" /\ pc # "run")
    BY <1>6 DEF Return, vars
  <2>3. Later' /\ OperandsOK'
    BY <2>2 DEF Contents, Later, OperandsOK
  <2>4. OutWords' = OutWords /\ Held' = Held
    BY <2>2 DEF OutWords, Held, Words
  <2>5. RunKept'
    BY <2>2, <2>4 DEF Contents, RunKept, GivenWords
  <2>6. ConjunctsKept'
    BY <2>2 DEF Contents, ConjunctsKept
  <2> QED
    BY <2>1, <2>3, <2>5, <2>6 DEF Contents
<1> QED BY <1>1, <1>2, <1>3, <1>4, <1>5, <1>6 DEF Next

\* Every conjunct of every where operator, and every other operator, is in the
\* result once and in the order of the query.
THEOREM ConjunctsKeptHold == Spec => []ConjunctsKept
<1>1. Contents => ConjunctsKept BY DEF Contents
<1> QED BY <1>1, ContentsInitially, StepKeepsContents, PTL DEF Spec
=============================================================================
