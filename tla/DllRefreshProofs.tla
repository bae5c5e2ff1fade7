--------------------------- MODULE DllRefreshProofs ---------------------------
(***************************************************************************)
(* Proofs, for any versions and packages, what a refresh leaves behind and *)
(* what a verification tells of it: the properties of DllRefreshProps that *)
(* the runs check, from one inductive invariant.                           *)
(***************************************************************************)
EXTENDS DllRefreshProps, TLAPS

\* The type invariant in two parts: Z3 takes the one, Zenon the other.
Flags == rest \in BOOLEAN /\ pin \in BOOLEAN /\ kept \in BOOLEAN /\ alone \in BOOLEAN
         /\ shipped \in BOOLEAN

Typed ==
  /\ dll \in Dlls \cup {Torn, NoDll}
  /\ record \in [version : Versions, sha : Dlls] \cup {NoRecord}
  /\ pinned \in Versions \cup {NoVersion}
  /\ stage \in {"new", "fetching", "copying", "copied", "recording", "recorded",
                "pinning", "finished", "died"}
  /\ target \in Versions \cup {NoVersion}
  /\ fetched \in Dlls \cup {Torn}
  /\ step \in {"off", "hash", "record", "fetch", "ended"}
  /\ against \in Versions \cup {NoVersion}
  /\ hashed \in Dlls \cup {Torn, NoDll}
  /\ reply \in {"none", "package", "failure"}
  /\ exit \in 0 .. 2
  /\ stage # "new" => target \in Versions
  /\ step \in {"hash", "record", "fetch"} => against \in Versions

Copied == {"copied", "recording", "recorded", "pinning", "finished"}

\* How far the refresh is tells what is in the files.
Progress ==
  /\ stage \in Copied \cup {"copying"} => fetched \in Builds[target]
  /\ stage \in Copied => dll = fetched
  /\ stage \in {"recorded", "pinning", "finished"} => record = Record(target, fetched)

Compared == step = "fetch" \/ (step = "ended" /\ exit = 0)

\* How far an undisturbed verification is tells what it has read.
Observed ==
  /\ (step = "ended" /\ exit = 0)
       => against \in Versions /\ hashed \in Builds[against] /\ reply = "package"
  /\ alone /\ (step = "record" \/ Compared) => hashed = dll
  /\ alone /\ Compared => record = NoRecord \/ record.sha = hashed

\* What a verification accepts, it or bin/ has met since it started.
Met ==
  /\ step # "off" /\ Shipped(dll, against) => shipped
  /\ (step = "record" \/ Compared) /\ Shipped(hashed, against) => shipped

Inv == /\ Typed
       /\ Flags
       /\ RecordedVersionRight
       /\ Progress
       /\ Observed
       /\ Met
       /\ FreshPasses

-----------------------------------------------------------------------------
LEMMA BuildsAreDlls ==
  ASSUME NEW v \in Versions
  PROVE  Builds[v] \subseteq Dlls
BY BuildsAssumption

\* What a record says is what was written into it.
LEMMA RecordFields ==
  ASSUME NEW v \in Versions, NEW d \in Dlls
  PROVE  /\ Record(v, d) \in [version : Versions, sha : Dlls]
         /\ Record(v, d) # NoRecord
         /\ Record(v, d).version = v
         /\ Record(v, d).sha = d
BY SentinelsAssumption DEF Record

LEMMA InitInv == Init => Inv
<1> SUFFICES ASSUME Init PROVE Inv
  OBVIOUS
<1>1. pinned \in Versions /\ dll \in Builds[pinned] => dll \in Dlls
  BY BuildsAreDlls
<1>2. Typed
  BY <1>1, RecordFields DEF Init, Typed
<1>3. RecordedVersionRight
  BY <1>1, RecordFields DEF Init, RecordedVersionRight
<1>4. Flags
  BY DEF Init, Flags
<1>5. Progress /\ Observed /\ Met /\ FreshPasses
  BY DEF Init, Progress, Copied, Observed, Compared, Met, FreshPasses
<1> QED BY <1>2, <1>3, <1>4, <1>5 DEF Inv

\* A step of the refresh keeps the invariant: the verification is no longer
\* alone, so nothing is claimed of what it has read.
LEMMA RefreshKeepsInv == ASSUME Inv, Refresh PROVE Inv'
<1> USE DEF Inv, files, verify
<1> Observed' /\ FreshPasses'
  BY DEF Refresh, Observed, Compared, FreshPasses, Typed
<1> Met'
  BY DEF Refresh, Met, Compared, Shipped
<1>1. Flags'
  BY DEF Refresh, Flags, StartRefresh, Publish, CopyEnd, TruncateRecord, WriteRecord,
         TruncateProject, WriteProject, Die
<1>2. CASE StartRefresh
  <2>1. Typed'
    BY <1>2, SentinelsAssumption DEF Refresh, StartRefresh, Typed
  <2> QED BY <1>1, <1>2, <2>1 DEF Refresh, StartRefresh, Progress, Copied, RecordedVersionRight
<1>3. CASE Publish
  <2>1. target \in Versions /\ fetched' \in Dlls
    BY <1>3, BuildsAreDlls DEF Publish, Typed
  <2> QED BY <1>1, <1>3, <2>1 DEF Refresh, Publish, Typed, Progress, Copied, RecordedVersionRight
<1>4. CASE CopyEnd
  <2>1. target \in Versions /\ fetched \in Dlls
    BY <1>4, BuildsAreDlls DEF CopyEnd, Typed, Progress
  <2> QED BY <1>1, <1>4, <2>1 DEF Refresh, CopyEnd, Typed, Progress, Copied, RecordedVersionRight
<1>5. CASE TruncateRecord
  BY <1>1, <1>5 DEF Refresh, TruncateRecord, Typed, Progress, Copied, RecordedVersionRight
<1>6. CASE WriteRecord
  <2>1. target \in Versions /\ fetched \in Builds[target] /\ fetched \in Dlls
    BY <1>6, BuildsAreDlls DEF WriteRecord, Typed, Progress, Copied
  <2>2. Typed'
    BY <1>6, <2>1, RecordFields DEF Refresh, WriteRecord, Typed
  <2>3. RecordedVersionRight'
    BY <1>6, <2>1, RecordFields DEF WriteRecord, RecordedVersionRight
  <2>4. Progress'
    BY <1>6 DEF WriteRecord, Progress, Copied, Record
  <2> QED BY <1>1, <2>2, <2>3, <2>4
<1>7. CASE TruncateProject
  BY <1>1, <1>7 DEF Refresh, TruncateProject, Typed, Progress, Copied, RecordedVersionRight, Record
<1>8. CASE WriteProject
  BY <1>1, <1>8 DEF Refresh, WriteProject, Typed, Progress, Copied, RecordedVersionRight, Record
<1>9. CASE Die
  BY <1>1, <1>9 DEF Refresh, Die, Idle, Typed, Progress, Copied, RecordedVersionRight
<1> QED BY <1>2, <1>3, <1>4, <1>5, <1>6, <1>7, <1>8, <1>9 DEF Refresh

\* A step of the verification keeps it: the files and the refresh stand still.
LEMMA VerifyKeepsInv == ASSUME Inv, Verify PROVE Inv'
<1> USE DEF Inv, files, refresh, history, Exit
<1>1. (shipped \in BOOLEAN)'
  BY DEF Verify, Flags, StartVerify, Hash, ReadRecord, Fetch, Shipped
<1>2. (alone \in BOOLEAN)'
  BY DEF Verify, Flags, StartVerify, Hash, ReadRecord, Fetch
<1> Flags'
  BY <1>1, <1>2 DEF Verify, Flags
<1>3. ASSUME StartVerify PROVE Met'
  <2>1. ~(step' = "record" \/ Compared')
    BY <1>3 DEF StartVerify, Compared
  <2>2. shipped' = Shipped(dll, against') /\ dll' = dll
    BY <1>3 DEF Verify, StartVerify
  <2>3. Shipped(dll, against)' => shipped'
    BY <2>2 DEF Shipped
  <2> QED BY <2>1, <2>3 DEF Met
<1>4. ASSUME Hash \/ ReadRecord \/ Fetch PROVE Met'
  BY <1>4 DEF Verify, Met, Compared, Hash, ReadRecord, Fetch, Shipped
<1>5. Met'
  BY <1>3, <1>4 DEF Verify
<1>6. RecordedVersionRight' /\ Progress'
  BY DEF Verify, RecordedVersionRight, Progress, Copied, Record
<1>7. CASE StartVerify
  <2>1. Typed'
    BY <1>7, SentinelsAssumption DEF Verify, StartVerify, Typed
  <2>2. Observed'
    BY <1>7 DEF Verify, StartVerify, Observed, Compared
  <2>3. FreshPasses'
    BY <1>7, SentinelsAssumption DEF Verify, StartVerify, FreshPasses, Typed
  <2> QED BY <1>5, <1>6, <2>1, <2>2, <2>3
<1>8. CASE Hash
  <2>1. Typed'
    BY <1>8 DEF Verify, Hash, Typed
  <2>2. Observed'
    BY <1>8 DEF Verify, Hash, Observed, Compared
  <2>3. stage = "finished" => dll \in Dlls
    BY BuildsAreDlls DEF Typed, Progress, Copied
  <2>4. FreshPasses'
    BY <1>8, <2>3, SentinelsAssumption DEF Verify, Hash, FreshPasses
  <2> QED BY <1>5, <1>6, <2>1, <2>2, <2>4
<1>9. CASE ReadRecord
  <2>1. Typed'
    BY <1>9 DEF Verify, ReadRecord, Typed
  <2>2. Observed'
    BY <1>9 DEF Verify, ReadRecord, Observed, Compared
  <2>3. stage = "finished" => record = NoRecord \/ record.sha = dll
    BY RecordFields, BuildsAreDlls DEF Typed, Progress, Copied
  <2>4. FreshPasses'
    BY <1>9, <2>3 DEF Verify, ReadRecord, FreshPasses, Observed
  <2> QED BY <1>5, <1>6, <2>1, <2>2, <2>4
<1>10. CASE Fetch
  <2>1. Typed'
    BY <1>10 DEF Verify, Fetch, Typed
  <2>2. Observed'
    BY <1>10 DEF Verify, Fetch, Typed, Observed, Compared
  <2>3. stage = "finished" => dll \in Builds[target]
    BY DEF Progress, Copied
  <2>4. FreshPasses'
    BY <1>10, <2>3 DEF Verify, Fetch, FreshPasses, Observed, Compared
  <2> QED BY <1>5, <1>6, <2>1, <2>2, <2>4
<1> QED BY <1>5, <1>7, <1>8, <1>9, <1>10 DEF Verify

LEMMA NextInv == Inv /\ [Next]_vars => Inv'
<1> SUFFICES ASSUME Inv, [Next]_vars PROVE Inv'
  OBVIOUS
<1>1. CASE Edit
  <2>1. Flags'
    BY <1>1 DEF Edit, Inv, refresh, history, Flags
  <2> QED
    BY <1>1, <2>1 DEF Edit, Inv, refresh, verify, history, Typed, RecordedVersionRight, Progress,
                      Copied, Record, Observed, Compared, Met, Shipped, FreshPasses
<1>2. CASE UNCHANGED vars
  BY <1>2 DEF vars, files, refresh, verify, history, Inv, Typed, Flags, RecordedVersionRight,
              Progress, Copied, Record, Observed, Compared, Met, Shipped, FreshPasses
<1> QED BY <1>1, <1>2, RefreshKeepsInv, VerifyKeepsInv DEF Next

LEMMA Invariance == Spec => []Inv
BY InitInv, NextInv, PTL DEF Spec

-----------------------------------------------------------------------------
\* Every variable keeps its type, and scripts work with versions they have.
THEOREM TypesHold == Spec => []TypeOK
<1>1. Inv => TypeOK BY DEF Inv, Typed, Flags, TypeOK
<1> QED BY <1>1, Invariance, PTL

\* VERSION.txt never names a version its hash is not of, whatever refreshes died.
THEOREM RecordedVersionRightHolds == Spec => []RecordedVersionRight
<1>1. Inv => RecordedVersionRight BY DEF Inv
<1> QED BY <1>1, Invariance, PTL

\* A refresh that finishes leaves the DLL of its version, and the record of it.
THEOREM ConsistentHolds == Spec => []Consistent
<1>1. Inv => Consistent BY DEF Inv, Progress, Copied, Consistent
<1> QED BY <1>1, Invariance, PTL

\* A verification that ends with 0, whatever runs next to it, has met a DLL of the
\* version it verifies against; undisturbed, one of the version recorded too.
THEOREM AcceptedWasShippedHolds == Spec => []AcceptedWasShipped
<1>1. ASSUME Inv, step = "ended", exit = 0
      PROVE  /\ shipped
             /\ (alone /\ record # NoRecord) => Shipped(dll, against) /\ Shipped(dll, record.version)
  <2>1. hashed \in Builds[against] /\ against \in Versions
    BY <1>1 DEF Inv, Observed
  <2>2. shipped
    BY <1>1, <2>1 DEF Inv, Met, Compared, Shipped
  <2>3. ASSUME alone, record # NoRecord
        PROVE  Shipped(dll, against) /\ Shipped(dll, record.version)
    <3>1. hashed = dll /\ record.sha = dll
      BY <1>1, <2>3 DEF Inv, Observed, Compared
    <3>2. record.sha \in Builds[record.version] /\ record.version \in Versions
      BY <1>1, <2>3 DEF Inv, Typed, RecordedVersionRight
    <3> QED BY <2>1, <3>1, <3>2 DEF Shipped
  <2> QED BY <2>2, <2>3
<1>2. Inv => AcceptedWasShipped BY <1>1 DEF AcceptedWasShipped
<1> QED BY <1>2, Invariance, PTL

\* An undisturbed verification of what was just fetched ends with 0.
THEOREM FreshPassesHolds == Spec => []FreshPasses
<1>1. Inv => FreshPasses BY DEF Inv
<1> QED BY <1>1, Invariance, PTL

\* The pin is the last thing a refresh writes.
THEOREM PinFollowsDllHolds == Spec => PinFollowsDll
<1> DEFINE Last == (stage = "pinning" /\ pinned' # pinned) =>
                     dll \in Builds[pinned'] /\ record = Record(pinned', dll)
<1>1. ASSUME Inv, [Next]_vars PROVE [Last]_vars
  <2>1. SUFFICES ASSUME stage = "pinning", pinned' # pinned
                 PROVE  dll \in Builds[pinned'] /\ record = Record(pinned', dll)
    OBVIOUS
  <2>2. WriteProject
    BY <1>1, <2>1 DEF Next, Refresh, Verify, Edit, StartRefresh, Publish, CopyEnd, TruncateRecord,
                      WriteRecord, TruncateProject, Die, Idle, vars, files
  <2> QED BY <1>1, <2>1, <2>2 DEF WriteProject, Inv, Progress, Copied
<1> QED BY <1>1, Invariance, PTL DEF Spec, PinFollowsDll
=============================================================================
