--------------------------- MODULE KindAuditProofs ---------------------------
(***************************************************************************)
(* Proofs about the ratchet on unhandled kinds, for any set of kinds.      *)
(*                                                                         *)
(* The two histories, recorded and decided, are what the baseline is       *)
(* measured by: every baseline that is read back holds no gap that was not *)
(* recorded and skips nothing but tokens and what was decided.  Inside a   *)
(* run the computed state says the same of the baseline to be written, for *)
(* the time in which the file itself is torn.                              *)
(***************************************************************************)
EXTENDS KindAuditProps, TLAPS

(***************************************************************************)
(* Type correctness, the two Boolean variables apart.                      *)
(***************************************************************************)
Typed ==
  /\ dll \subseteq Kinds /\ handled \subseteq Handleable
  /\ file \in Files /\ loaded \in Files /\ state \in Files
  /\ pc \in {"idle", "compute", "write", "truncated", "check"}
  /\ mode \in {"report", "check", "update"}
  /\ checked \in {-1, 0, 1, 2} /\ tested \in {"none", "passed", "failed", "skipped"}
  /\ recorded \subseteq Kinds /\ decided \subseteq Kinds

Flags == reflects \in BOOLEAN /\ fresh \in BOOLEAN

LEMMA KindsOfDll == Typed => SyntaxKinds \subseteq Kinds
  BY DEF Typed, SyntaxKinds

LEMMA BaselineIsFile ==
  ASSUME NEW S \in SUBSET Kinds, NEW U \in SUBSET Kinds
  PROVE  Baseline(S, U) \in Files
  BY DEF Baseline, Files

LEMMA NoBaselineIsFile == Absent \in Files /\ NoBaseline("torn") \in Files
  BY DEF Absent, NoBaseline, Files

LEMMA ComputedIsFile ==
  ASSUME Typed, NEW S \in SUBSET Kinds
  PROVE  ComputeState(S) \in Files
<1>1. SyntaxKinds \subseteq Kinds
  BY KindsOfDll
<1>2. (SyntaxKinds \cap DefaultSkipped) \cup S \in SUBSET Kinds
  BY <1>1, KindsAssumption
<1>3. SyntaxKinds \ (handled \cup ((SyntaxKinds \cap DefaultSkipped) \cup S)) \in SUBSET Kinds
  BY <1>1
<1> QED
  BY <1>2, <1>3, BaselineIsFile DEF ComputeState

LEMMA TypedInit == Init => Typed /\ Flags
  BY KindsAssumption, NoBaselineIsFile DEF Init, Typed, Flags

LEMMA FlagsNext == Flags /\ [Next]_vars => Flags'
<1> SUFFICES ASSUME Flags, [Next]_vars PROVE Flags'
  OBVIOUS
<1> USE DEF Flags, Changed, Ends, vars, maintained, locals, verdicts, history
<1>1. CASE UpgradeDll     BY <1>1, Zenon DEF UpgradeDll
<1>2. CASE ChangeBuilder  BY <1>2, Zenon DEF ChangeBuilder
<1>3. CASE SkipByHand     BY <1>3, Zenon DEF SkipByHand
<1>4. CASE LoseBaseline   BY <1>4, Zenon DEF LoseBaseline
<1>5. CASE Load           BY <1>5, Zenon DEF Load
<1>6. CASE LoadRaises     BY <1>6, Zenon DEF LoadRaises
<1>7. CASE Compute        BY <1>7, Zenon DEF Compute
<1>8. CASE Report         BY <1>8, Zenon DEF Report
<1>9. CASE Truncate       BY <1>9, Zenon DEF Truncate
<1>10. CASE Write         BY <1>10, Zenon DEF Write
<1>11. CASE Dies          BY <1>11, Zenon DEF Dies
<1>12. CASE Check         BY <1>12, Zenon DEF Check
<1>13. CASE RunTest       BY <1>13, Zenon DEF RunTest
<1>14. CASE UNCHANGED vars  BY <1>14, Zenon
<1> QED
  BY <1>1, <1>2, <1>3, <1>4, <1>5, <1>6, <1>7, <1>8, <1>9, <1>10, <1>11, <1>12,
     <1>13, <1>14 DEF Next

LEMMA TypedNext == Typed /\ [Next]_vars => Typed'
<1> SUFFICES ASSUME Typed, [Next]_vars PROVE Typed'
  OBVIOUS
<1> USE DEF Typed, Changed, Ends, vars, maintained, locals, verdicts, history
<1>1. CASE UpgradeDll     BY <1>1 DEF UpgradeDll
<1>2. CASE ChangeBuilder  BY <1>2 DEF ChangeBuilder
<1>3. CASE SkipByHand     BY <1>3 DEF SkipByHand, Files
<1>4. CASE LoseBaseline   BY <1>4, NoBaselineIsFile DEF LoseBaseline
<1>5. CASE Load           BY <1>5 DEF Load
<1>6. CASE LoadRaises     BY <1>6 DEF LoadRaises
<1>7. CASE Compute
  <2>1. loaded.skipped \in SUBSET Kinds
    BY DEF Files
  <2>2. state' \in Files
    BY <1>7, <2>1, ComputedIsFile DEF Compute
  <2> QED
    BY <1>7, <2>2 DEF Compute
<1>8. CASE Report         BY <1>8, NoBaselineIsFile DEF Report
<1>9. CASE Truncate       BY <1>9, NoBaselineIsFile DEF Truncate
<1>10. CASE Write
  <2>1. SyntaxKinds \ handled \subseteq Kinds
    BY KindsOfDll
  <2> QED
    BY <1>10, <2>1, NoBaselineIsFile DEF Write
<1>11. CASE Dies          BY <1>11, NoBaselineIsFile DEF Dies
<1>12. CASE Check         BY <1>12, NoBaselineIsFile DEF Check, ExitCode
<1>13. CASE RunTest       BY <1>13 DEF RunTest
<1>14. CASE UNCHANGED vars  BY <1>14
<1> QED
  BY <1>1, <1>2, <1>3, <1>4, <1>5, <1>6, <1>7, <1>8, <1>9, <1>10, <1>11, <1>12,
     <1>13, <1>14 DEF Next

LEMMA TypedHolds == Spec => [](Typed /\ Flags)
<1>1. Typed /\ Flags /\ [Next]_vars => (Typed /\ Flags)'
  BY TypedNext, FlagsNext
<1> QED
  BY TypedInit, <1>1, PTL DEF Spec

\* The audit's variables keep their types, whatever the kinds (TypeOK).
THEOREM TypesHold == Spec => []TypeOK
<1>1. Typed /\ Flags => TypeOK
  BY Zenon DEF Typed, Flags, TypeOK
<1> QED
  BY TypedHolds, <1>1, PTL

(***************************************************************************)
(* The baseline, and what stands in for it inside a run.                   *)
(***************************************************************************)
\* A baseline against the two histories.
Accounted(b) ==
  /\ b.unhandled \subseteq recorded
  /\ b.skipped \subseteq DefaultSkipped \cup decided
  /\ decided \subseteq b.skipped

FileSound ==
  /\ file.is = "baseline" => Accounted(file)
  /\ file.is = "absent" => file.skipped = {} /\ decided = {}

LoadedIsFile ==
  pc \in {"compute", "write", "check"} =>
    /\ file.is # "torn" /\ loaded.is = file.is
    /\ loaded.skipped = file.skipped /\ loaded.unhandled = file.unhandled

\* What a run computed, from the kinds it skips, which are its own and the
\* loaded ones.
StateSound ==
  pc \in {"write", "truncated", "check"} =>
    /\ state.is = "baseline"
    /\ decided \subseteq state.skipped
    /\ state.skipped \subseteq DefaultSkipped \cup decided
    /\ state.skipped = (SyntaxKinds \cap DefaultSkipped) \cup loaded.skipped
    /\ state.unhandled = SyntaxKinds \ (handled \cup state.skipped)

InvBaseline == FileSound /\ LoadedIsFile /\ StateSound

LEMMA BaselineInit == Init => InvBaseline
  BY DEF Init, InvBaseline, FileSound, LoadedIsFile, StateSound, Accounted,
         Absent, NoBaseline

LEMMA BaselineNext == Typed /\ InvBaseline /\ [Next]_vars => InvBaseline'
<1> SUFFICES ASSUME Typed, InvBaseline, [Next]_vars PROVE InvBaseline'
  OBVIOUS
<1> USE DEF InvBaseline, FileSound, LoadedIsFile, StateSound, Accounted,
            Changed, Ends, vars, maintained, locals, verdicts, history
<1>0. ASSUME UNCHANGED <<dll, reflects>> PROVE SyntaxKinds' = SyntaxKinds
  BY <1>0, Zenon DEF SyntaxKinds
<1>1. CASE UpgradeDll     BY <1>1 DEF UpgradeDll
<1>2. CASE ChangeBuilder  BY <1>2 DEF ChangeBuilder
<1>3. CASE SkipByHand
  <2>1. PICK k \in Kinds : /\ file' = [file EXCEPT !.skipped = @ \cup {k}]
                           /\ decided' = decided \cup {k}
    BY <1>3 DEF SkipByHand
  <2>2. /\ file'.is = file.is /\ file'.unhandled = file.unhandled
        /\ file'.skipped = file.skipped \cup {k}
    BY <2>1 DEF Typed, Files
  <2> QED
    BY <1>3, <2>1, <2>2 DEF SkipByHand
<1>4. CASE LoseBaseline   BY <1>4 DEF LoseBaseline, Absent, NoBaseline
<1>5. CASE Load           BY <1>5 DEF Load
<1>6. CASE LoadRaises     BY <1>6 DEF LoadRaises
<1>7. CASE Compute
  <2>1. /\ state'.is = "baseline"
        /\ state'.skipped = (SyntaxKinds \cap DefaultSkipped) \cup loaded.skipped
        /\ state'.unhandled = SyntaxKinds \ (handled \cup state'.skipped)
    BY <1>7 DEF Compute, ComputeState, Baseline
  <2>2. decided \subseteq loaded.skipped /\ loaded.skipped \subseteq DefaultSkipped \cup decided
    BY <1>7 DEF Compute, Typed, Files
  <2>3. SyntaxKinds' = SyntaxKinds
    BY <1>7, <1>0 DEF Compute
  <2> QED
    BY <1>7, <2>1, <2>2, <2>3 DEF Compute
<1>8. CASE Report         BY <1>8 DEF Report
<1>9. CASE Truncate       BY <1>9, <1>0 DEF Truncate, NoBaseline
<1>10. CASE Write
  <2>1. file'.is = "baseline" /\ file'.skipped = state.skipped /\ file'.unhandled = state.unhandled
    BY <1>10 DEF Write
  <2> QED
    BY <1>10, <2>1 DEF Write
<1>11. CASE Dies          BY <1>11 DEF Dies
<1>12. CASE Check         BY <1>12 DEF Check
<1>13. CASE RunTest       BY <1>13 DEF RunTest
<1>14. CASE UNCHANGED vars  BY <1>14, <1>0
<1> QED
  BY <1>1, <1>2, <1>3, <1>4, <1>5, <1>6, <1>7, <1>8, <1>9, <1>10, <1>11, <1>12,
     <1>13, <1>14 DEF Next

\* A kind that was skipped by hand is skipped by every later baseline, until the
\* file is lost (SkipsKept).
THEOREM SkipsHold == Spec => []SkipsKept
<1>1. Typed /\ Flags /\ InvBaseline /\ [Next]_vars => InvBaseline'
  BY BaselineNext
<1>2. InvBaseline => SkipsKept
  BY DEF InvBaseline, FileSound, Accounted, SkipsKept
<1> QED
  BY TypedHolds, BaselineInit, <1>1, <1>2, PTL DEF Spec

(***************************************************************************)
(* The verdicts.                                                           *)
(***************************************************************************)
\* What the test asks of the baseline, and the check, which needs less.
Covered(skipped) == SyntaxKinds \ (handled \cup skipped) \subseteq file.unhandled
AcceptedByTest == file.is = "baseline" /\ Covered(file.skipped)
AcceptedByCheck == file.is = "baseline" /\ Covered(DefaultSkipped \cup file.skipped)

Verdicts ==
  /\ checked = 0 => AcceptedByCheck
  /\ checked = 1 => file.is # "absent" /\ ~AcceptedByCheck
  /\ checked = 2 => file.is = "absent"
  /\ tested = "passed" => AcceptedByTest
  /\ tested = "skipped" => file.is = "absent"
  /\ tested = "failed" => file.is # "absent" /\ ~AcceptedByTest
  /\ fresh => AcceptedByTest

\* While the file is torn in a run, there is no verdict.
NoneWhileTorn == pc = "truncated" => checked = -1 /\ tested = "none" /\ ~fresh

InvVerdicts == Verdicts /\ NoneWhileTorn

LEMMA VerdictsInit == Init => InvVerdicts
  BY DEF Init, InvVerdicts, Verdicts, NoneWhileTorn

\* Steps that leave the maintained state and the file alone leave verdicts true.
LEMMA SameAccepted ==
  ASSUME UNCHANGED <<maintained, file>>
  PROVE  AcceptedByTest' = AcceptedByTest /\ AcceptedByCheck' = AcceptedByCheck
  BY Zenon DEF maintained, AcceptedByTest, AcceptedByCheck, Covered, SyntaxKinds

\* A file the check did not accept was not accepted by the test.
LEMMA CheckNeedsLess == AcceptedByTest => AcceptedByCheck
  BY DEF AcceptedByTest, AcceptedByCheck, Covered

LEMMA CheckVerdict ==
  ASSUME Typed, InvBaseline, Check
  PROVE  /\ checked' = 0 => AcceptedByCheck
         /\ checked' = 1 => file.is # "absent" /\ ~AcceptedByCheck
         /\ checked' = 2 => file.is = "absent"
<1>1. /\ file.is # "torn" /\ loaded.is = file.is
      /\ loaded.skipped = file.skipped /\ loaded.unhandled = file.unhandled
  BY DEF Check, InvBaseline, LoadedIsFile
<1>2. state.unhandled = SyntaxKinds \ (handled \cup (DefaultSkipped \cup file.skipped))
  BY <1>1 DEF Check, InvBaseline, StateSound
<1>3. file.is = "absent" \/ file.is = "baseline"
  BY <1>1 DEF Typed, Files
<1> QED
  BY <1>1, <1>2, <1>3 DEF Check, ExitCode, AcceptedByCheck, Covered

LEMMA TestVerdict ==
  ASSUME Typed, RunTest
  PROVE  /\ tested' = "passed" => AcceptedByTest
         /\ tested' = "skipped" => file.is = "absent"
         /\ tested' = "failed" => file.is # "absent" /\ ~AcceptedByTest
<1>1. CASE file.is = "absent"
  BY <1>1 DEF RunTest
<1>2. CASE file.is = "torn"
  BY <1>2 DEF RunTest, AcceptedByTest
<1>3. CASE file.is = "baseline"
  BY <1>3 DEF RunTest, AcceptedByTest, Covered
<1> QED
  BY <1>1, <1>2, <1>3 DEF Typed, Files

LEMMA WriteVerdict ==
  ASSUME InvBaseline, Write
  PROVE  AcceptedByTest'
<1>1. file' = state /\ UNCHANGED maintained
  BY DEF Write
<1>2. SyntaxKinds' = SyntaxKinds /\ handled' = handled
  BY <1>1, Zenon DEF maintained, SyntaxKinds
<1>3. file'.is = "baseline" /\ file'.unhandled = SyntaxKinds \ (handled \cup file'.skipped)
  BY <1>1 DEF Write, InvBaseline, StateSound
<1> QED
  BY <1>2, <1>3 DEF AcceptedByTest, Covered

LEMMA VerdictsNext ==
  Typed /\ InvBaseline /\ InvVerdicts /\ [Next]_vars => InvVerdicts'
<1> SUFFICES ASSUME Typed, InvBaseline, InvVerdicts, [Next]_vars PROVE InvVerdicts'
  OBVIOUS
<1> USE DEF InvVerdicts, Verdicts, NoneWhileTorn, Changed, Ends, vars, locals, verdicts, history
<1>1. CASE UpgradeDll     BY <1>1 DEF UpgradeDll
<1>2. CASE ChangeBuilder  BY <1>2 DEF ChangeBuilder
<1>3. CASE SkipByHand     BY <1>3 DEF SkipByHand
<1>4. CASE LoseBaseline   BY <1>4 DEF LoseBaseline
<1>5. CASE Load           BY <1>5, SameAccepted DEF Load
<1>6. CASE LoadRaises
  <2>1. ~AcceptedByCheck /\ file.is # "absent"
    BY <1>6 DEF LoadRaises, AcceptedByCheck
  <2> QED
    BY <1>6, <2>1, SameAccepted DEF LoadRaises
<1>7. CASE Compute        BY <1>7, SameAccepted DEF Compute
<1>8. CASE Report         BY <1>8, SameAccepted DEF Report
<1>9. CASE Truncate       BY <1>9 DEF Truncate
<1>10. CASE Write         BY <1>10, WriteVerdict DEF Write
<1>11. CASE Dies          BY <1>11, SameAccepted DEF Dies
<1>12. CASE Check         BY <1>12, SameAccepted, CheckVerdict DEF Check
<1>13. CASE RunTest       BY <1>13, SameAccepted, TestVerdict DEF RunTest
<1>14. CASE UNCHANGED vars  BY <1>14, SameAccepted
<1> QED
  BY <1>1, <1>2, <1>3, <1>4, <1>5, <1>6, <1>7, <1>8, <1>9, <1>10, <1>11, <1>12,
     <1>13, <1>14 DEF Next

LEMMA VerdictsHold == Spec => [](Typed /\ InvBaseline /\ InvVerdicts)
<1>1. Typed /\ InvBaseline /\ InvVerdicts /\ [Next]_vars
        => (Typed /\ InvBaseline /\ InvVerdicts)'
  BY TypedNext, BaselineNext, VerdictsNext
<1> QED
  BY TypedInit, BaselineInit, VerdictsInit, <1>1, PTL DEF Spec

\* A content check leaves no gap that nobody recorded or decided on
\* (QuietMeansRecorded).
THEOREM QuietHolds == Spec => []QuietMeansRecorded
<1>1. InvBaseline /\ InvVerdicts => QuietMeansRecorded
  BY DEF InvBaseline, FileSound, Accounted, InvVerdicts, Verdicts, AcceptedByCheck, Covered,
         QuietMeansRecorded
<1> QED
  BY VerdictsHold, <1>1, PTL

\* What an update wrote is accepted by the check and by the test
\* (FreshIsAccepted).
THEOREM FreshHolds == Spec => []FreshIsAccepted
<1>1. Typed /\ InvVerdicts => FreshIsAccepted
  <2> SUFFICES ASSUME Typed, InvVerdicts, fresh PROVE checked \in {-1, 0} /\ tested \in {"none", "passed"}
    BY DEF FreshIsAccepted
  <2>1. AcceptedByTest /\ AcceptedByCheck /\ file.is # "absent"
    BY CheckNeedsLess DEF InvVerdicts, Verdicts, AcceptedByTest
  <2> QED
    BY <2>1 DEF InvVerdicts, Verdicts, Typed
<1> QED
  BY VerdictsHold, <1>1, PTL

\* The test fails on what the check fails on (TestIsAsStrict).
THEOREM StrictHolds == Spec => []TestIsAsStrict
<1>1. Typed /\ InvVerdicts => TestIsAsStrict
  BY CheckNeedsLess DEF InvVerdicts, Verdicts, Typed, TestIsAsStrict
<1> QED
  BY VerdictsHold, <1>1, PTL
=============================================================================
