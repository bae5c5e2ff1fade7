---------------------------- MODULE DllRefreshProps ----------------------------
(***************************************************************************)
(* What the files say of each other after refreshes that finish or die,    *)
(* and what the exit code of a verification tells.                         *)
(***************************************************************************)
EXTENDS DllRefresh

\* Values of their types, and a version wherever one is worked with.
TypeOK ==
  /\ dll \in Dlls \cup {Torn, NoDll}
  /\ record \in [version : Versions, sha : Dlls] \cup {NoRecord}
  /\ pinned \in Versions \cup {NoVersion}
  /\ rest \in BOOLEAN
  /\ stage \in {"new", "fetching", "copying", "copied", "recording", "recorded",
                "pinning", "finished", "died"}
  /\ target \in Versions \cup {NoVersion}
  /\ pin \in BOOLEAN
  /\ fetched \in Dlls \cup {Torn}
  /\ kept \in BOOLEAN
  /\ step \in {"off", "hash", "record", "fetch", "ended"}
  /\ against \in Versions \cup {NoVersion}
  /\ hashed \in Dlls \cup {Torn, NoDll}
  /\ reply \in {"none", "package", "failure"}
  /\ exit \in 0 .. 2
  /\ alone \in BOOLEAN /\ shipped \in BOOLEAN
  /\ stage # "new" => target \in Versions
  /\ step \in {"hash", "record", "fetch"} => against \in Versions

\* Whatever dies and whatever is edited meanwhile, VERSION.txt, when it holds
\* anything, holds a version and the hash of a DLL of that version's package.
RecordedVersionRight ==
  record # NoRecord => record.sha \in Builds[record.version]

\* However many refreshes died before, after one that finishes the DLL is of the
\* version it fetched and VERSION.txt says so.
Consistent ==
  stage = "finished" =>
    /\ dll \in Builds[target]
    /\ record = Record(target, dll)

\* The script writes a version into pyproject.toml only once the DLL of that
\* version and the record of it are in place.
PinFollowsDll ==
  [][(stage = "pinning" /\ pinned' # pinned) =>
       dll \in Builds[pinned'] /\ record = Record(pinned', dll)]_vars

\* Exit code 0 tells, whatever refreshes ran or died before and meanwhile, that
\* at some moment of the verification bin/ held a whole DLL of the version verified
\* against; and, if no refresh ran meanwhile and VERSION.txt holds anything, that
\* the DLL is also of the version named there.  It tells nothing of VERSION.txt
\* when that is empty, as a refresh leaves it that dies right after emptying it,
\* and nothing of the pin.
AcceptedWasShipped ==
  (step = "ended" /\ exit = 0) =>
    /\ shipped
    /\ (alone /\ record # NoRecord) => Shipped(dll, against) /\ Shipped(dll, record.version)

\* A refresh that finishes and then, with no other refresh begun, a verification
\* against the same version succeed, unless nuget.org cannot be reached.
FreshPasses ==
  (step = "ended" /\ alone /\ stage = "finished" /\ against = target) =>
    exit = 0 \/ reply = "failure"

=============================================================================
