------------------------------ MODULE KindAudit ------------------------------
(***************************************************************************)
(* scripts/audit_syntax_kinds.py: which kinds of syntax nodes of the DLL   *)
(* the builder does not handle, compared with a baseline in the repository *)
(* that the same script writes; and the unit test that reads the baseline, *)
(* too.  In between, a maintainer upgrades the DLL, teaches the builder    *)
(* kinds, and edits or loses the baseline.                                 *)
(***************************************************************************)
EXTENDS Integers, FiniteSets

CONSTANTS
  Kinds,           \* the names of kinds that any release of the DLL has
  DefaultSkipped,  \* those that are tokens, trivia or lists by their name
  Handleable       \* those the builder may come to handle

ASSUME KindsAssumption == DefaultSkipped \subseteq Kinds /\ Handleable \subseteq Kinds

VARIABLES
  dll,        \* the kinds of the installed DLL
  reflects,   \* whether they can be read from it
  handled,    \* _HANDLED_EXPR_KINDS and _HANDLED_OPERATOR_KINDS
  file,       \* the baseline in the repository, as much as is read back of it
  pc,         \* of the script: "idle", "compute", "write", "truncated", "check"
  mode,       \* its flag: "report", "check" or "update"
  loaded,     \* the baseline it loaded
  state,      \* what it computed
  checked,    \* the exit code of a check since anything changed, or -1
  tested,     \* the outcome of the test since anything changed, or "none"
  recorded,   \* the gaps there were when the baseline was last written
  decided,    \* the kinds skipped by hand since the baseline was last lost
  fresh       \* an update ended, and nothing changed since

maintained == <<dll, reflects, handled>>
locals == <<mode, loaded, state>>
verdicts == <<checked, tested>>
history == <<recorded, decided, fresh>>
vars == <<maintained, file, pc, locals, verdicts, history>>

Baseline(skipped, unhandled) ==
  [is |-> "baseline", skipped |-> skipped, unhandled |-> unhandled]
\* No file, or what a write that was cut off leaves.
NoBaseline(is) == [is |-> is, skipped |-> {}, unhandled |-> {}]
Absent == NoBaseline("absent")

Init ==
  /\ dll \in SUBSET Kinds /\ reflects = TRUE /\ handled \in SUBSET Handleable
  /\ file = Absent
  /\ pc = "idle" /\ mode = "report" /\ loaded = Absent /\ state = Absent
  /\ checked = -1 /\ tested = "none"
  /\ recorded = {} /\ decided = {} /\ fresh = FALSE

(***************************************************************************)
(* The maintainer, between runs.                                           *)
(***************************************************************************)
Changed == checked' = -1 /\ tested' = "none" /\ fresh' = FALSE

UpgradeDll ==
  /\ pc = "idle"
  /\ dll' \in SUBSET Kinds /\ reflects' \in BOOLEAN
  /\ Changed
  /\ UNCHANGED <<handled, file, pc, locals, recorded, decided>>

ChangeBuilder ==
  /\ pc = "idle"
  /\ handled' \in SUBSET Handleable
  /\ Changed
  /\ UNCHANGED <<dll, reflects, file, pc, locals, recorded, decided>>

SkipByHand ==
  /\ pc = "idle" /\ file.is = "baseline"
  /\ \E k \in Kinds :
       /\ file' = [file EXCEPT !.skipped = @ \cup {k}]
       /\ decided' = decided \cup {k}
  /\ Changed
  /\ UNCHANGED <<maintained, pc, locals, recorded>>

LoseBaseline ==
  /\ pc = "idle"
  /\ file' = Absent /\ recorded' = {} /\ decided' = {}
  /\ Changed
  /\ UNCHANGED <<maintained, pc, locals>>

(***************************************************************************)
(* The script.                                                             *)
(***************************************************************************)
\* The script's process ends, and its variables with it.
Ends == pc' = "idle" /\ mode' = "report" /\ loaded' = Absent /\ state' = Absent

\* reflection.syntax_kinds: empty if reflection fails.
SyntaxKinds == IF reflects THEN dll ELSE {}

Load ==
  /\ pc = "idle" /\ file.is # "torn"
  /\ mode' \in {"report", "check", "update"}
  /\ loaded' = file /\ pc' = "compute"
  /\ UNCHANGED <<maintained, file, state, verdicts, history>>

\* json.loads raises on what is left of a write: a traceback, and exit code 1.
LoadRaises ==
  /\ pc = "idle" /\ file.is = "torn"
  /\ checked' \in {checked, 1}
  /\ UNCHANGED <<maintained, file, pc, locals, tested, history>>

\* Slip: the kinds that are skipped by their name are not written to the
\* baseline (FreshIsAccepted).
ComputeUnwritten(extraSkipped) ==
  Baseline(extraSkipped, SyntaxKinds \ (handled \cup DefaultSkipped \cup extraSkipped))

\* Slip: kinds are skipped by their name alone (SkipsKept).
ComputeAnew(extraSkipped) ==
  Baseline(SyntaxKinds \cap DefaultSkipped, SyntaxKinds \ (handled \cup DefaultSkipped))

ComputeState(extraSkipped) ==
  LET skipped == (SyntaxKinds \cap DefaultSkipped) \cup extraSkipped
  IN Baseline(skipped, SyntaxKinds \ (handled \cup skipped))

Compute ==
  /\ pc = "compute" /\ mode # "report"
  /\ state' = ComputeState(loaded.skipped)
  /\ pc' = IF mode = "update" THEN "write" ELSE "check"
  /\ UNCHANGED <<maintained, file, mode, loaded, verdicts, history>>

Report ==
  /\ pc = "compute" /\ mode = "report"
  /\ Ends
  /\ UNCHANGED <<maintained, file, verdicts, history>>

\* write_text truncates the file before it writes.
Truncate ==
  /\ pc = "write"
  /\ file' = NoBaseline("torn") /\ pc' = "truncated"
  /\ Changed
  /\ UNCHANGED <<maintained, locals, recorded, decided>>

Write ==
  /\ pc = "truncated"
  /\ file' = state /\ Ends
  /\ recorded' = SyntaxKinds \ handled /\ fresh' = TRUE
  /\ UNCHANGED <<maintained, verdicts, decided>>

Dies ==
  /\ pc # "idle"
  /\ Ends
  /\ UNCHANGED <<maintained, file, verdicts, history>>

\* Slip: as many kinds as the baseline has will do (QuietMeansRecorded).
ExitByCount ==
  IF loaded.is = "absent" THEN 2
  ELSE IF Cardinality(state.unhandled) <= Cardinality(loaded.unhandled) THEN 0 ELSE 1

\* Slip: kinds that are handled by now fail the check, too (TestIsAsStrict).
ExitIfDifferent ==
  IF loaded.is = "absent" THEN 2 ELSE IF state.unhandled = loaded.unhandled THEN 0 ELSE 1

ExitCode ==
  IF loaded.is = "absent" THEN 2
  ELSE IF state.unhandled \ loaded.unhandled = {} THEN 0 ELSE 1

Check ==
  /\ pc = "check"
  /\ checked' = ExitCode
  /\ Ends
  /\ UNCHANGED <<maintained, file, tested, history>>

(***************************************************************************)
(* test_no_new_unhandled_syntax_kinds: reads the same baseline, and skips  *)
(* no kind by its name.                                                    *)
(***************************************************************************)
RunTest ==
  /\ pc = "idle"
  /\ tested' =
       CASE file.is = "absent" -> "skipped"
         [] file.is = "torn" -> "failed"
         [] OTHER -> IF SyntaxKinds \ (handled \cup file.skipped) \subseteq file.unhandled
                     THEN "passed" ELSE "failed"
  /\ UNCHANGED <<maintained, file, pc, locals, checked, history>>

Next ==
  \/ UpgradeDll \/ ChangeBuilder \/ SkipByHand \/ LoseBaseline
  \/ Load \/ LoadRaises \/ Compute \/ Report \/ Truncate \/ Write \/ Dies \/ Check
  \/ RunTest

Spec == Init /\ [][Next]_vars
=============================================================================
