---------------------------- MODULE PackageImport ----------------------------
(***************************************************************************)
(* import kustology: the bridge to .NET (bridge.py) and the tables of      *)
(* function names (reflection.py, filled for the first time while          *)
(* utils/analysis.py is imported), with threads that import and call at    *)
(* the same time.                                                          *)
(*                                                                         *)
(* Python runs the body of a module once, under that module's lock, and    *)
(* forgets modules whose import failed.  A thread that imports             *)
(* kustology.reflection takes no lock of the package when the package is   *)
(* already being imported: it only waits for kustology.bridge.  A call of  *)
(* _load by the importer is under no lock that such a thread would take.   *)
(***************************************************************************)
EXTENDS Naturals, Sequences

CONSTANTS
  Threads,
  Roots       \* the candidate .NET roots that exist, in the order they are tried

ASSUME ThreadsAssumption == Threads \cap {"absent", "present"} = {}
ASSUME RootsAssumption ==
  /\ Roots \in Seq({Roots[k] : k \in DOMAIN Roots})
  /\ "none" \notin {Roots[k] : k \in DOMAIN Roots}

VARIABLES
  rootSet,    \* DOTNET_ROOT is set
  working,    \* which of the default and the roots can be loaded
  usable,     \* bin/Kusto.Language.dll can be loaded
  reflects,   \* its classes have the members reflection.py looks for
  runtime,    \* what pythonnet has loaded
  paths,      \* how often bin/ is in sys.path
  package,    \* kustology: "absent", "present", or the thread importing it
  bridged,    \* kustology.bridge has been imported
  filled,     \* keys of _CATEGORIES
  loadFailed, \* _LOAD_FAILED
  timeFuncs,  \* _TIME_FUNCS of analysis.py
  pc, entry, asked, answer,  \* of each thread
  next        \* which root a thread tries next, or which table it fills next

world == <<rootSet, working, usable, reflects>>
bridge == <<runtime, paths, package, bridged>>
tables == <<filled, loadFailed>>
vars == <<world, bridge, tables, timeFuncs, pc, entry, next, asked, answer>>

\* Slip: in the order of their names (TimeFuncsReflected).
CategoriesByName == <<"aggregate", "all", "scalar", "string", "time">>

\* In the order _load fills them.
Categories == <<"time", "aggregate", "string", "scalar", "all">>
Names == {Categories[k] : k \in DOMAIN Categories}
Default == "default"

Init ==
  /\ rootSet \in BOOLEAN
  /\ working \in SUBSET ({Default} \cup {Roots[k] : k \in DOMAIN Roots})
  /\ usable \in BOOLEAN
  /\ reflects \in BOOLEAN
  /\ runtime = "none" /\ paths = 0 /\ package = "absent" /\ bridged = FALSE
  /\ filled = {} /\ loadFailed = FALSE
  /\ timeFuncs = "none"
  /\ pc = [t \in Threads |-> "new"]
  /\ entry = [t \in Threads |-> "none"]
  /\ next = [t \in Threads |-> 1]
  /\ asked = [t \in Threads |-> "time"]
  /\ answer = [t \in Threads |-> "none"]

Goto(t, place) == pc' = [pc EXCEPT ![t] = place]

\* .NET, or the DLL, is installed properly.
Repair ==
  /\ working' = {Default} \cup {Roots[k] : k \in DOMAIN Roots}
  /\ usable' = TRUE
  /\ UNCHANGED <<rootSet, reflects, bridge, tables, timeFuncs, pc, entry, next,
                 asked, answer>>

-----------------------------------------------------------------------------
(* The import statement.                                                   *)

StartImport(t) ==
  /\ pc[t] \in {"new", "failed"}
  /\ Goto(t, "start")
  /\ UNCHANGED <<world, bridge, tables, timeFuncs, entry, next, asked, answer>>

\* import kustology, with the package absent: its body runs here.
Enter(t) ==
  /\ pc[t] = "start" /\ package = "absent"
  /\ package' = t
  /\ entry' = [entry EXCEPT ![t] = "package"]
  /\ next' = [next EXCEPT ![t] = 1]
  /\ Goto(t, "runtime")
  /\ UNCHANGED <<world, runtime, paths, bridged, tables, timeFuncs, asked, answer>>

\* With the package there, at once or after waiting for it.
FindPresent(t) ==
  /\ pc[t] = "start" /\ package = "present"
  /\ entry' = [entry EXCEPT ![t] = "package"]
  /\ Goto(t, "ready")
  /\ UNCHANGED <<world, bridge, tables, timeFuncs, next, asked, answer>>

\* import kustology.reflection, while another thread imports the package.
FindReflection(t) ==
  /\ pc[t] = "start" /\ package \in Threads /\ bridged
  /\ entry' = [entry EXCEPT ![t] = "reflection"]
  /\ Goto(t, "ready")
  /\ UNCHANGED <<world, bridge, tables, timeFuncs, next, asked, answer>>

Fail(t) ==
  /\ package' = "absent"
  /\ Goto(t, "failed")

-----------------------------------------------------------------------------
(* bridge.py.                                                              *)

Attempts == IF rootSet THEN <<Default>> ELSE <<Default>> \o Roots
Loads(t) == Attempts[next[t]] \in working

\* Slip: the root that was refused is tried again and again (ImportsEnd).
RefuseSame(t) == ~Loads(t) /\ next[t] < Len(Attempts) /\ UNCHANGED next

Refuse(t) ==
  /\ ~Loads(t) /\ next[t] < Len(Attempts)
  /\ next' = [next EXCEPT ![t] = @ + 1]

\* Slip: pythonnet is asked to load again, and refuses (FailsOnlyIfBroken).
LoadRuntimeAgain(t) ==
  /\ pc[t] = "runtime"
  /\ \/ /\ runtime = "none" /\ Loads(t)
        /\ runtime' = Attempts[next[t]]
        /\ Goto(t, "reference")
        /\ UNCHANGED <<package, next>>
     \/ runtime = "none" /\ Refuse(t) /\ UNCHANGED <<runtime, package, pc>>
     \/ /\ runtime # "none" \/ (~Loads(t) /\ next[t] = Len(Attempts))
        /\ Fail(t)
        /\ UNCHANGED <<runtime, next>>
  /\ UNCHANGED <<world, paths, bridged, tables, timeFuncs, entry, asked, answer>>

\* One attempt: the first, by DOTNET_ROOT or the defaults, and then root by root.
LoadRuntime(t) ==
  /\ pc[t] = "runtime"
  /\ \/ /\ runtime # "none"
        /\ Goto(t, "reference")
        /\ UNCHANGED <<runtime, package, next>>
     \/ /\ runtime = "none" /\ Loads(t)
        /\ runtime' = Attempts[next[t]]
        /\ Goto(t, "reference")
        /\ UNCHANGED <<package, next>>
     \/ runtime = "none" /\ Refuse(t) /\ UNCHANGED <<runtime, package, pc>>
     \/ /\ runtime = "none" /\ ~Loads(t) /\ next[t] = Len(Attempts)
        /\ Fail(t)
        /\ UNCHANGED <<runtime, next>>
  /\ UNCHANGED <<world, paths, bridged, tables, timeFuncs, entry, asked, answer>>

\* Slip: the package is there without a first call of _load (CallersAnswered).
AddReferenceLazily(t) ==
  /\ pc[t] = "reference"
  /\ paths' = IF paths = 0 THEN 1 ELSE paths
  /\ \/ usable /\ bridged' = TRUE /\ package' = "present" /\ Goto(t, "ready")
     \/ ~usable /\ Fail(t) /\ UNCHANGED bridged
  /\ UNCHANGED <<world, runtime, tables, timeFuncs, entry, next, asked, answer>>

AddReference(t) ==
  /\ pc[t] = "reference"
  /\ paths' = IF paths = 0 THEN 1 ELSE paths
  /\ \/ usable /\ bridged' = TRUE /\ Goto(t, "guard") /\ UNCHANGED package
     \/ ~usable /\ Fail(t) /\ UNCHANGED bridged
  /\ UNCHANGED <<world, runtime, tables, timeFuncs, entry, next, asked, answer>>

-----------------------------------------------------------------------------
(* reflection.py: a call is _load and then a look into _CATEGORIES.        *)

Call(t) ==
  /\ pc[t] = "ready"
  /\ \E name \in Names : asked' = [asked EXCEPT ![t] = name]
  /\ answer' = [answer EXCEPT ![t] = "none"]
  /\ Goto(t, "guard")
  /\ UNCHANGED <<world, bridge, tables, timeFuncs, entry, next>>

Guard(t) ==
  /\ pc[t] = "guard"
  /\ Goto(t, IF loadFailed \/ filled # {} THEN "look" ELSE "enumerate")
  /\ UNCHANGED <<world, bridge, tables, timeFuncs, entry, next, asked, answer>>

\* The flag comes before the fall-back sets that it stands for.
Enumerate(t) ==
  /\ pc[t] = "enumerate"
  /\ loadFailed' = (loadFailed \/ ~reflects)
  /\ next' = [next EXCEPT ![t] = 1]
  /\ Goto(t, "fill")
  /\ UNCHANGED <<world, bridge, filled, timeFuncs, entry, asked, answer>>

Fill(t) ==
  /\ pc[t] = "fill"
  /\ filled' = filled \cup {Categories[next[t]]}
  /\ next' = [next EXCEPT ![t] = @ + 1]
  /\ Goto(t, IF next[t] = Len(Categories) THEN "look" ELSE "fill")
  /\ UNCHANGED <<world, bridge, loadFailed, timeFuncs, entry, asked, answer>>

Found(name) == IF name \in filled THEN "table" ELSE "KeyError"

\* The call of time_functions() with which analysis.py is imported, and the
\* rest of the package after it.
LookImporting(t) ==
  /\ pc[t] = "look" /\ package = t
  /\ timeFuncs' = IF "time" \in filled THEN "table" ELSE "hard-coded"
  /\ package' = "present"
  /\ Goto(t, "ready")
  /\ UNCHANGED <<world, runtime, paths, bridged, tables, entry, next, asked, answer>>

Look(t) ==
  /\ pc[t] = "look" /\ package # t
  /\ answer' = [answer EXCEPT ![t] = Found(asked[t])]
  /\ Goto(t, "ready")
  /\ UNCHANGED <<world, bridge, tables, timeFuncs, entry, next, asked>>

-----------------------------------------------------------------------------
Step(t) ==
  \/ Enter(t) \/ FindPresent(t) \/ FindReflection(t)
  \/ LoadRuntime(t) \/ AddReference(t)
  \/ Guard(t) \/ Enumerate(t) \/ Fill(t) \/ LookImporting(t) \/ Look(t)

Next == Repair \/ \E t \in Threads : StartImport(t) \/ Call(t) \/ Step(t)

\* A thread that has begun an import or a call goes on with it.
Spec == Init /\ [][Next]_vars /\ \A t \in Threads : WF_vars(Step(t))
=============================================================================
