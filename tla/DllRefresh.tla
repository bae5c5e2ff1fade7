------------------------------ MODULE DllRefresh ------------------------------
(***************************************************************************)
(* scripts/refresh_dll.py and scripts/verify_dll.py over the three files   *)
(* they share: bin/Kusto.Language.dll, bin/VERSION.txt and pyproject.toml. *)
(*                                                                         *)
(* One refresh at a time runs next to one verification, and may die        *)
(* between any two of its writes.  A file is truncated when it is opened   *)
(* and has its new content when it is closed, so a death or a reader in    *)
(* between meets it empty.  The content of a file takes one step to read.  *)
(* A SHA-256 stands for the bytes it is of.                                *)
(***************************************************************************)
EXTENDS Naturals

CONSTANTS
  Versions,   \* of the NuGet package
  Dlls,       \* contents of Kusto.Language.dll
  Builds,     \* the ones a version's package holds, one per target framework
  Torn,       \* a DLL of which not all is written
  NoDll,      \* no such file
  NoVersion,  \* no version given, or none found
  NoRecord    \* VERSION.txt missing or empty

ASSUME BuildsAssumption == Builds \in [Versions -> SUBSET Dlls]
ASSUME SentinelsAssumption ==
  /\ Torn \notin Dlls /\ NoDll \notin Dlls /\ Torn # NoDll
  /\ NoVersion \notin Versions
  /\ NoRecord \notin [version : Versions, sha : Dlls]

VARIABLES
  dll, record,    \* what the first two files hold
  pinned,         \* kusto_language_version in pyproject.toml
  rest,           \* whether pyproject.toml holds its other sections
  stage,          \* of the refresh; "died" when the latest one did not finish
  target,         \* the version it fetches
  pin,            \* its --pin
  fetched,        \* the DLL dotnet publish made
  kept,           \* rest, as write_pinned_version read it
  step,           \* of the verification
  against,        \* the version it verifies against
  hashed,         \* the DLL as it read it
  reply,          \* what nuget.org answered
  exit,           \* its exit code
  alone,          \* whether no refresh took a step since it started
  shipped         \* whether bin/ has held a DLL of that version since it started

files == <<dll, record, pinned, rest>>
refresh == <<stage, target, pin, fetched, kept>>
verify == <<step, against, hashed, reply, exit>>
history == <<alone, shipped>>
vars == <<files, refresh, verify, history>>

Record(v, d) == [version |-> v, sha |-> d]
Shipped(d, v) == v \in Versions /\ d \in Builds[v]
Idle == stage \in {"new", "finished", "died"}

\* A checkout as released, or one whose bin/ was never filled.
Init ==
  /\ pinned \in Versions
  /\ \/ dll \in Builds[pinned] /\ record = Record(pinned, dll)
     \/ dll = NoDll /\ record = NoRecord
  /\ rest = TRUE
  /\ stage = "new" /\ target = NoVersion /\ pin = FALSE /\ fetched = Torn /\ kept = TRUE
  /\ step = "off" /\ against = NoVersion /\ hashed = Torn /\ reply = "none" /\ exit = 0
  /\ alone = FALSE /\ shipped = FALSE

-----------------------------------------------------------------------------
(* refresh_dll.py.                                                         *)

StartRefresh ==
  /\ Idle
  /\ \E given \in Versions \cup {NoVersion} :
       target' = IF given # NoVersion THEN given ELSE pinned
  /\ target' # NoVersion
  /\ pin' \in BOOLEAN
  /\ stage' = "fetching"
  /\ UNCHANGED <<files, fetched, kept>>

\* dotnet publish, and the first half of the copy.
Publish ==
  /\ stage = "fetching"
  /\ fetched' \in Builds[target]
  /\ dll' = Torn
  /\ stage' = "copying"
  /\ UNCHANGED <<record, pinned, rest, target, pin, kept>>

CopyEnd ==
  /\ stage = "copying"
  /\ dll' = fetched
  /\ stage' = "copied"
  /\ UNCHANGED <<record, pinned, rest, target, pin, fetched, kept>>

TruncateRecord ==
  /\ stage = "copied"
  /\ record' = NoRecord
  /\ stage' = "recording"
  /\ UNCHANGED <<dll, pinned, rest, target, pin, fetched, kept>>

WriteRecord ==
  /\ stage = "recording"
  /\ record' = Record(target, fetched)
  /\ stage' = IF pin THEN "recorded" ELSE "finished"
  /\ UNCHANGED <<dll, pinned, rest, target, pin, fetched, kept>>

\* Slip: the pin is written as soon as the DLL is there (PinFollowsDll,
\* Consistent).
TruncateProjectEarly ==
  /\ stage \in {"copied", "recorded"} /\ pin
  /\ kept' = rest
  /\ pinned' = NoVersion /\ rest' = FALSE
  /\ stage' = "pinning"
  /\ UNCHANGED <<dll, record, target, pin, fetched>>

\* write_pinned_version: the whole file is read, truncated and written.
TruncateProject ==
  /\ stage = "recorded"
  /\ kept' = rest
  /\ pinned' = NoVersion /\ rest' = FALSE
  /\ stage' = "pinning"
  /\ UNCHANGED <<dll, record, target, pin, fetched>>

WriteProject ==
  /\ stage = "pinning"
  /\ pinned' = target /\ rest' = kept
  /\ stage' = "finished"
  /\ UNCHANGED <<dll, record, target, pin, fetched, kept>>

\* Killed, or ended by an exception: dotnet fails, the disk is full.
Die ==
  /\ ~Idle
  /\ stage' = "died"
  /\ UNCHANGED <<files, target, pin, fetched, kept>>

Refresh ==
  /\ \/ StartRefresh \/ Publish \/ CopyEnd \/ TruncateRecord \/ WriteRecord
     \/ TruncateProject \/ WriteProject \/ Die
  /\ alone' = FALSE
  /\ shipped' = (shipped \/ Shipped(dll', against))
  /\ UNCHANGED verify

-----------------------------------------------------------------------------
(* verify_dll.py.                                                          *)

Exit(code) == step' = "ended" /\ exit' = code

StartVerify ==
  /\ step \in {"off", "ended"}
  /\ \E given \in Versions \cup {NoVersion} :
       against' = IF given # NoVersion THEN given ELSE pinned
  /\ IF against' = NoVersion THEN Exit(2) ELSE step' = "hash" /\ exit' = 0
  /\ alone' = TRUE
  /\ shipped' = Shipped(dll, against')
  /\ reply' = "none"
  /\ UNCHANGED hashed

\* Slip: the hash is taken from VERSION.txt when it has one (AcceptedWasShipped).
HashRecorded ==
  /\ step = "hash"
  /\ hashed' = IF record = NoRecord THEN dll ELSE record.sha
  /\ IF dll = NoDll THEN Exit(2) ELSE step' = "record" /\ exit' = 0
  /\ UNCHANGED <<against, reply, history>>

Hash ==
  /\ step = "hash"
  /\ hashed' = dll
  /\ IF dll = NoDll THEN Exit(2) ELSE step' = "record" /\ exit' = 0
  /\ UNCHANGED <<against, reply, history>>

ReadRecord ==
  /\ step = "record"
  /\ IF record # NoRecord /\ record.sha # hashed
       THEN Exit(1)
       ELSE step' = "fetch" /\ exit' = 0
  /\ UNCHANGED <<against, hashed, reply, history>>

\* Slip: the pin is expected to be that version too (FreshPasses).
FetchByPin ==
  /\ step = "fetch"
  /\ reply' \in {"package", "failure"}
  /\ Exit(IF reply' = "package" /\ hashed \in Builds[against] /\ pinned = against
            THEN 0 ELSE 1)
  /\ UNCHANGED <<against, hashed, history>>

\* SystemExit with a text, which is what a failing download ends in, is code 1.
Fetch ==
  /\ step = "fetch"
  /\ reply' \in {"package", "failure"}
  /\ Exit(IF reply' = "package" /\ hashed \in Builds[against] THEN 0 ELSE 1)
  /\ UNCHANGED <<against, hashed, history>>

Verify ==
  /\ StartVerify \/ Hash \/ ReadRecord \/ Fetch
  /\ UNCHANGED <<files, refresh>>

-----------------------------------------------------------------------------
\* Somebody edits pyproject.toml, or restores it, while no script writes it.
Edit ==
  /\ stage # "pinning"
  /\ pinned' \in Versions
  /\ rest' = TRUE
  /\ UNCHANGED <<dll, record, refresh, verify, history>>

Next == Refresh \/ Verify \/ Edit

Spec == Init /\ [][Next]_vars
=============================================================================
