---------------------------- MODULE KindAuditProps ----------------------------
(***************************************************************************)
(* What the ratchet on unhandled kinds promises.                           *)
(***************************************************************************)
EXTENDS KindAudit

Files == [is : {"absent", "torn", "baseline"}, skipped : SUBSET Kinds, unhandled : SUBSET Kinds]

\* Type correctness: kinds are kinds, and a check ends with a documented code.
TypeOK ==
  /\ dll \subseteq Kinds /\ reflects \in BOOLEAN /\ handled \subseteq Handleable
  /\ file \in Files /\ loaded \in Files /\ state \in Files
  /\ pc \in {"idle", "compute", "write", "truncated", "check"}
  /\ mode \in {"report", "check", "update"}
  /\ checked \in {-1, 0, 1, 2} /\ tested \in {"none", "passed", "failed", "skipped"}
  /\ recorded \subseteq Kinds /\ decided \subseteq Kinds /\ fresh \in BOOLEAN

\* A check that is content leaves no gap that is neither the name of a token or
\* a list, nor was there when the baseline was written, nor was skipped by hand
\* since: what an upgrade brought, or the builder lost, is reported.
QuietMeansRecorded ==
  checked = 0 => SyntaxKinds \ (handled \cup DefaultSkipped) \subseteq recorded \cup decided

\* Kinds skipped by hand stay skipped over any number of upgrades and updates,
\* until the file is lost.
SkipsKept == file.is = "baseline" => decided \subseteq file.skipped

\* A baseline that was just written is accepted by the check and by the test.
FreshIsAccepted == fresh => checked \in {-1, 0} /\ tested \in {"none", "passed"}

\* The test does not pass over what makes the check fail.
TestIsAsStrict == checked = 1 => tested \in {"none", "failed"}
=============================================================================
