-------------------------- MODULE PackageImportProofs --------------------------
(***************************************************************************)
(* Proofs, for any number of threads and of roots: who can get KeyError,   *)
(* that analysis.py works with the reflected names, and that failed        *)
(* imports leave nothing harmful behind.                                   *)
(***************************************************************************)
EXTENDS PackageImportProps, TLAPS

Places == {"new", "start", "runtime", "reference", "guard", "enumerate", "fill", "look",
           "ready", "failed"}

Cursors == 1 .. Len(Roots) + 6

Typed ==
  /\ filled \subseteq Names /\ loadFailed \in BOOLEAN
  /\ pc \in [Threads -> Places]
  /\ entry \in [Threads -> {"none", "package", "reflection"}]
  /\ next \in [Threads -> Cursors]
  /\ asked \in [Threads -> Names]
  /\ answer \in [Threads -> {"none", "table", "KeyError"}]
  /\ package \in Threads \cup {"absent", "present"}

\* The importer is where an import goes through, and alone there; who fills has
\* a category to fill and has filled those before it.
Importer ==
  \A t \in Threads :
    /\ package = t => pc[t] \in {"runtime", "reference", "guard", "enumerate", "fill", "look"}
    /\ pc[t] \in {"runtime", "reference"} => package = t
    /\ pc[t] = "runtime" => next[t] \in 1 .. Len(Attempts)
    /\ pc[t] = "fill" => /\ next[t] \in 1 .. 5
                        /\ \A k \in 1 .. 5 : k < next[t] => Categories[k] \in filled

Begun == filled # {} \/ loadFailed

\* Tables that have been begun and are not whole are being filled, and behind the
\* guard they have been begun.
Fillers ==
  /\ Begun /\ filled # Names => \E u \in Threads : pc[u] = "fill"
  /\ \A t \in Threads : pc[t] = "look" => Begun

\* Who came by import kustology is the importer, or finds the tables begun.
Entries ==
  /\ package = "present" => Begun
  /\ \A t \in Threads :
       /\ pc[t] \in {"enumerate", "fill"} => entry[t] = "reflection" \/ package = t
       /\ pc[t] \in {"guard", "look", "ready"}
            => entry[t] = "reflection" \/ package \in {t, "present"}

Inv == Typed /\ Importer /\ Fillers /\ Entries

LEMMA NamesAre == Len(Categories) = 5 /\ Names = {Categories[k] : k \in 1 .. 5}
BY DEF Names, Categories

\* What pythonnet can be asked to load is the default or one of the roots.
LEMMA AttemptsAre ==
  /\ Len(Roots) \in Nat
  /\ Len(Attempts) \in 1 .. Len(Roots) + 1
  /\ DOMAIN Attempts = 1 .. Len(Attempts)
  /\ \A k \in DOMAIN Attempts : Attempts[k] \in {Default} \cup {Roots[n] : n \in DOMAIN Roots}
<1> DEFINE Given == {Roots[n] : n \in DOMAIN Roots}
           All   == {Default} \cup Given
<1>1. Roots \in Seq(Given)
  BY RootsAssumption
<1> HIDE DEF Given
<1>2. Given \subseteq All /\ Default \in All
  OBVIOUS
<1> HIDE DEF All
<1>3. Roots \in Seq(All) /\ <<Default>> \in Seq(All)
  BY <1>1, <1>2
<1>4. Len(Roots) \in Nat /\ Len(<<Default>> \o Roots) = 1 + Len(Roots)
  BY <1>3
<1>5. Len(Attempts) \in 1 .. Len(Roots) + 1
  BY <1>4 DEF Attempts
<1>6. Attempts \in Seq(All)
  BY <1>3 DEF Attempts
<1>7. DOMAIN Attempts = 1 .. Len(Attempts) /\ \A k \in DOMAIN Attempts : Attempts[k] \in All
  BY <1>6
<1> QED BY <1>4, <1>5, <1>7 DEF All, Given

LEMMA Lengths == Len(Roots) \in Nat /\ Len(Attempts) \in 1 .. Len(Roots) + 1
BY AttemptsAre

LEMMA CursorsAre ==
  /\ 1 \in Cursors
  /\ \A k \in 1 .. 5 : k + 1 \in Cursors
  /\ \A k \in 1 .. Len(Attempts) : k < Len(Attempts) => k + 1 \in Cursors
BY Lengths DEF Cursors

LEMMA InitInv == Init => Inv
<1> SUFFICES ASSUME Init PROVE Inv
  OBVIOUS
<1> USE ThreadsAssumption DEF Init
<1>1. "time" \in Names BY DEF Names, Categories
<1>3. Typed BY <1>1, CursorsAre DEF Typed, Places
<1>4. Importer BY DEF Importer
<1>5. Fillers /\ Entries BY DEF Fillers, Entries, Begun
<1> QED BY <1>3, <1>4, <1>5 DEF Inv

LEMMA TypedStep == ASSUME Inv, [Next]_vars PROVE Typed'
<1> USE DEF Inv, Typed, Places, world, bridge, tables, Goto, Fail
<1>1. CASE Repair \/ UNCHANGED vars
  BY <1>1 DEF Repair, vars
<1>2. ASSUME NEW t \in Threads, StartImport(t) \/ Call(t) PROVE Typed'
  BY <1>2 DEF StartImport, Call
<1>3. ASSUME NEW t \in Threads, Enter(t) \/ FindPresent(t) \/ FindReflection(t) PROVE Typed'
  BY <1>3, CursorsAre DEF Enter, FindPresent, FindReflection
<1>4. ASSUME NEW t \in Threads, LoadRuntime(t) PROVE Typed'
  <2>1. next[t] \in 1 .. Len(Attempts)
    BY <1>4 DEF LoadRuntime, Importer
  <2>2. next[t] < Len(Attempts) => next[t] + 1 \in Cursors
    BY <2>1, CursorsAre
  <2> QED BY <1>4, <2>2 DEF LoadRuntime, Refuse
<1>5. ASSUME NEW t \in Threads, AddReference(t) PROVE Typed'
  BY <1>5 DEF AddReference
<1>6. ASSUME NEW t \in Threads, Guard(t) \/ Enumerate(t) PROVE Typed'
  BY <1>6, CursorsAre DEF Guard, Enumerate
<1>7. ASSUME NEW t \in Threads, Fill(t) PROVE Typed'
  <2>1. next[t] \in 1 .. 5
    BY <1>7 DEF Fill, Importer
  <2>2. next[t] + 1 \in Cursors /\ Categories[next[t]] \in Names
    BY <2>1, CursorsAre, NamesAre
  <2> QED BY <1>7, <2>2 DEF Fill
<1>8. ASSUME NEW t \in Threads, LookImporting(t) \/ Look(t) PROVE Typed'
  BY <1>8 DEF LookImporting, Look, Found
<1> QED BY <1>1, <1>2, <1>3, <1>4, <1>5, <1>6, <1>7, <1>8 DEF Next, Step

LEMMA ImporterStep == ASSUME Inv, [Next]_vars PROVE Importer'
<1> USE ThreadsAssumption, Lengths, NamesAre
    DEF Inv, Typed, Importer, world, bridge, tables, Goto, Fail
<1>1. CASE Repair \/ UNCHANGED vars
  BY <1>1 DEF Repair, vars, Attempts
<1> SUFFICES ASSUME ~Repair, ~UNCHANGED vars PROVE Importer'
  BY <1>1
<1>2. Attempts' = Attempts
  BY DEF Attempts, Next, Step, StartImport, Call, Enter, FindPresent, FindReflection,
         LoadRuntime, AddReference, Guard, Enumerate, Fill, LookImporting, Look
<1>3. ASSUME NEW t \in Threads, StartImport(t) \/ Call(t) PROVE Importer'
  BY <1>2, <1>3 DEF StartImport, Call
<1>4. ASSUME NEW t \in Threads, Enter(t) \/ FindPresent(t) \/ FindReflection(t)
      PROVE  Importer'
  BY <1>2, <1>4 DEF Enter, FindPresent, FindReflection
<1>5. ASSUME NEW t \in Threads, LoadRuntime(t) PROVE Importer'
  BY <1>2, <1>5 DEF LoadRuntime, Refuse
<1>6. ASSUME NEW t \in Threads, AddReference(t) PROVE Importer'
  BY <1>2, <1>6 DEF AddReference
<1>7. ASSUME NEW t \in Threads, Guard(t) \/ Enumerate(t) PROVE Importer'
  BY <1>2, <1>7 DEF Guard, Enumerate
<1>8. ASSUME NEW t \in Threads, Fill(t) PROVE Importer'
  BY <1>2, <1>8 DEF Fill
<1>9. ASSUME NEW t \in Threads, LookImporting(t) \/ Look(t) PROVE Importer'
  BY <1>2, <1>9 DEF LookImporting, Look
<1> QED BY <1>3, <1>4, <1>5, <1>6, <1>7, <1>8, <1>9 DEF Next, Step

LEMMA FillersStep == ASSUME Inv, [Next]_vars PROVE Fillers'
<1> USE DEF Inv, Typed, Fillers, Begun, world, bridge, tables, Goto, Fail
<1>1. CASE Repair \/ UNCHANGED vars
  BY <1>1 DEF Repair, vars
<1>2. ASSUME NEW t \in Threads, StartImport(t) \/ Call(t) PROVE Fillers'
  BY <1>2 DEF StartImport, Call
<1>3. ASSUME NEW t \in Threads, Enter(t) \/ FindPresent(t) \/ FindReflection(t)
      PROVE  Fillers'
  BY <1>3 DEF Enter, FindPresent, FindReflection
<1>4. ASSUME NEW t \in Threads, LoadRuntime(t) \/ AddReference(t) PROVE Fillers'
  BY <1>4 DEF LoadRuntime, Refuse, AddReference
<1>5. ASSUME NEW t \in Threads, Guard(t) \/ Enumerate(t) PROVE Fillers'
  BY <1>5 DEF Guard, Enumerate
<1>6. ASSUME NEW t \in Threads, Fill(t) PROVE Fillers'
  <2> USE <1>6, NamesAre DEF Fill, Importer
  <2>1. next[t] \in 1 .. 5 /\ \A k \in 1 .. 5 : k < next[t] => Categories[k] \in filled
    OBVIOUS
  <2>2. filled' = filled \cup {Categories[next[t]]} /\ Categories[next[t]] \in filled'
    OBVIOUS
  <2>3. CASE next[t] = 5
    <3>1. \A k \in 1 .. 5 : Categories[k] \in filled'
      BY <2>1, <2>2, <2>3
    <3>2. filled' = Names
      BY <2>1, <2>2, <3>1
    <3> QED BY <2>2, <3>2
  <2>4. CASE next[t] # 5
    <3>1. pc'[t] = "fill"
      BY <2>4
    <3> QED BY <2>2, <3>1
  <2> QED BY <2>3, <2>4
<1>7. ASSUME NEW t \in Threads, LookImporting(t) \/ Look(t) PROVE Fillers'
  BY <1>7 DEF LookImporting, Look
<1> QED BY <1>1, <1>2, <1>3, <1>4, <1>5, <1>6, <1>7 DEF Next, Step

LEMMA EntriesStep == ASSUME Inv, [Next]_vars PROVE Entries'
<1> USE ThreadsAssumption
    DEF Inv, Typed, Importer, Entries, Begun, world, bridge, tables, Goto, Fail
<1>1. CASE Repair \/ UNCHANGED vars
  BY <1>1 DEF Repair, vars
<1>2. ASSUME NEW t \in Threads, StartImport(t) \/ Call(t) PROVE Entries'
  BY <1>2 DEF StartImport, Call
<1>3. ASSUME NEW t \in Threads, Enter(t) \/ FindPresent(t) \/ FindReflection(t)
      PROVE  Entries'
  BY <1>3 DEF Enter, FindPresent, FindReflection
<1>4. ASSUME NEW t \in Threads, LoadRuntime(t) PROVE Entries'
  BY <1>4 DEF LoadRuntime, Refuse
<1>5. ASSUME NEW t \in Threads, AddReference(t) PROVE Entries'
  BY <1>5 DEF AddReference
<1>6. ASSUME NEW t \in Threads, Guard(t) \/ Enumerate(t) \/ Fill(t) PROVE Entries'
  BY <1>6 DEF Guard, Enumerate, Fill
<1>7. ASSUME NEW t \in Threads, LookImporting(t) \/ Look(t) PROVE Entries'
  BY <1>7 DEF LookImporting, Look, Fillers
<1> QED BY <1>1, <1>2, <1>3, <1>4, <1>5, <1>6, <1>7 DEF Next, Step

LEMMA NextInv == Inv /\ [Next]_vars => Inv'
BY TypedStep, ImporterStep, FillersStep, EntriesStep DEF Inv

\* A call fails only while another thread fills the tables, and only if one of
\* the two came in by kustology.reflection, for any number of threads.
THEOREM CallersAnsweredHolds == Spec => CallersAnswered
<1> DEFINE Answered ==
      \A t \in Threads :
        answer[t] # "KeyError" /\ answer'[t] = "KeyError"
          => \E u \in Threads : pc[u] = "fill" /\ "reflection" \in {entry[t], entry[u]}
<1>1. ASSUME Inv, [Next]_vars PROVE Answered
  <2> SUFFICES ASSUME NEW t \in Threads, answer[t] # "KeyError", answer'[t] = "KeyError"
               PROVE  \E u \in Threads : /\ pc[u] = "fill"
                                        /\ "reflection" \in {entry[t], entry[u]}
    OBVIOUS
  <2>1. Look(t)
    BY <1>1 DEF Inv, Typed, Next, Step, vars, world, bridge, tables, Repair, StartImport, Call,
                Enter, FindPresent, FindReflection, LoadRuntime, AddReference, Guard,
                Enumerate, Fill, LookImporting, Look
  <2>2. asked[t] \in Names /\ asked[t] \notin filled
    BY <1>1, <2>1 DEF Inv, Typed, Look, Found
  <2>3. Begun
    BY <1>1, <2>1 DEF Inv, Fillers, Look
  <2>4. PICK u \in Threads : pc[u] = "fill"
    BY <1>1, <2>2, <2>3 DEF Inv, Fillers
  <2>5. CASE entry[t] = "reflection"
    BY <2>4, <2>5
  <2>6. CASE entry[t] # "reflection"
    <3>1. package = "present"
      BY <1>1, <2>1, <2>6 DEF Inv, Entries, Look
    <3>2. entry[u] = "reflection"
      BY <1>1, <2>4, <3>1, ThreadsAssumption DEF Inv, Entries
    <3> QED BY <2>4, <3>2
  <2> QED BY <2>5, <2>6
<1>2. Inv /\ [Next]_vars => [Answered]_vars
  BY <1>1
<1> QED BY <1>2, InitInv, NextInv, PTL DEF Spec, CallersAnswered

-----------------------------------------------------------------------------
\* The time functions come first, so who passes the guard while another thread
\* fills the tables finds them.
TimeFirst ==
  /\ reflects => ~loadFailed
  /\ filled # {} => "time" \in filled
  /\ \A t \in Threads : pc[t] = "fill" => next[t] = 1 \/ filled # {}

TimeInv == Inv /\ TimeFirst /\ TimeFuncsReflected

LEMMA TimeStep == ASSUME TimeInv, [Next]_vars PROVE TimeInv'
<1>1. Inv'
  BY NextInv DEF TimeInv
<1> USE DEF TimeInv, Inv, Typed, Fillers, Begun, world, bridge, tables, Goto, TimeFirst, TimeFuncsReflected
<1>2. CASE Repair
  BY <1>1, <1>2 DEF Repair
<1>3. CASE UNCHANGED vars
  BY <1>1, <1>3 DEF vars
<1>4. ASSUME NEW t \in Threads, StartImport(t) \/ Call(t) PROVE TimeInv'
  BY <1>1, <1>4 DEF StartImport, Call
<1>5. ASSUME NEW t \in Threads, Enter(t) \/ FindPresent(t) \/ FindReflection(t) PROVE TimeInv'
  BY <1>1, <1>5 DEF Enter, FindPresent, FindReflection
<1>6. ASSUME NEW t \in Threads, LoadRuntime(t) \/ AddReference(t) PROVE TimeInv'
  <2>1. UNCHANGED <<reflects, loadFailed, filled, timeFuncs>>
    BY <1>6 DEF LoadRuntime, AddReference
  <2>2. \A u \in Threads : pc'[u] = "fill" => pc[u] = "fill" /\ next'[u] = next[u]
    BY <1>6 DEF LoadRuntime, Refuse, AddReference, Fail
  <2> QED BY <1>1, <2>1, <2>2
<1>7. ASSUME NEW t \in Threads, Guard(t) \/ Enumerate(t) PROVE TimeInv'
  BY <1>1, <1>7 DEF Guard, Enumerate
<1>8. ASSUME NEW t \in Threads, Fill(t) PROVE TimeInv'
  <2>1. Categories[1] = "time"
    BY DEF Categories
  <2> QED BY <1>1, <1>8, <2>1 DEF Fill
<1>9. ASSUME NEW t \in Threads, LookImporting(t) \/ Look(t) PROVE TimeInv'
  BY <1>1, <1>9 DEF LookImporting, Look
<1> QED BY <1>2, <1>3, <1>4, <1>5, <1>6, <1>7, <1>8, <1>9 DEF Next, Step

\* analysis.py works with the reflected time functions whenever there are any.
THEOREM TimeFuncsReflectedHolds == Spec => []TimeFuncsReflected
<1>1. Init => TimeInv
  BY InitInv DEF Init, TimeInv, TimeFirst, TimeFuncsReflected
<1>2. TimeInv /\ [Next]_vars => TimeInv'
  BY TimeStep
<1>3. TimeInv => TimeFuncsReflected
  BY DEF TimeInv
<1> QED BY <1>1, <1>2, <1>3, PTL DEF Spec

-----------------------------------------------------------------------------
\* A root that has been tried can be loaded only if everything has been repaired
\* since.
Refused ==
  \A t \in Threads :
    pc[t] = "runtime" =>
      \/ {Attempts[k] : k \in DOMAIN Attempts} \subseteq working
      \/ \A k \in 1 .. next[t] - 1 : Attempts[k] \notin working

Loaded ==
  /\ runtime \in {"none", Default} \cup {Roots[k] : k \in DOMAIN Roots}
  /\ paths \in {0, 1}
  /\ timeFuncs \in {"none", "table", "hard-coded"}

\* How far the thread is that imports tells what has been loaded.
RuntimeFirst ==
  /\ package = "present" => runtime # "none"
  /\ \A t \in Threads : package = t /\ pc[t] # "runtime" => runtime # "none"

BridgeFirst ==
  /\ package = "present" => bridged
  /\ \A t \in Threads :
       package = t /\ pc[t] \notin {"runtime", "reference"} => bridged

Flag == bridged \in BOOLEAN

TypeInv == Inv /\ Loaded /\ RuntimeFirst /\ BridgeFirst /\ Flag

LEMMA TypeInit == ASSUME Init PROVE TypeInv
<1> USE DEF Init
<1>1. Inv
  BY InitInv
<1>2. Loaded
  BY DEF Loaded
<1>3. RuntimeFirst /\ BridgeFirst
  BY ThreadsAssumption DEF RuntimeFirst, BridgeFirst
<1>4. Flag
  BY DEF Flag
<1> QED BY <1>1, <1>2, <1>3, <1>4 DEF TypeInv

LEMMA LoadedStep == ASSUME TypeInv, [Next]_vars PROVE Loaded'
<1> USE DEF TypeInv, Inv, Importer, Loaded, world, bridge, tables
<1>1. CASE Repair \/ UNCHANGED vars
  BY <1>1 DEF Repair, vars
<1>2. ASSUME NEW t \in Threads, StartImport(t) PROVE Loaded'
  BY <1>2 DEF StartImport
<1>3. ASSUME NEW t \in Threads, LoadRuntime(t) PROVE Loaded'
  BY <1>3, AttemptsAre DEF LoadRuntime, Loads, Refuse
<1>4. ASSUME NEW t \in Threads, AddReference(t) PROVE Loaded'
  BY <1>4 DEF AddReference
<1>5. ASSUME NEW t \in Threads, LookImporting(t) PROVE Loaded'
  BY <1>5 DEF LookImporting
<1>6. ASSUME NEW t \in Threads,
             Enter(t) \/ FindPresent(t) \/ FindReflection(t) \/ Call(t)
               \/ Guard(t) \/ Enumerate(t) \/ Fill(t) \/ Look(t)
      PROVE  Loaded'
  BY <1>6 DEF Enter, FindPresent, FindReflection, Call, Guard, Enumerate, Fill, Look
<1> QED BY <1>1, <1>2, <1>3, <1>4, <1>5, <1>6 DEF Next, Step

LEMMA RuntimeFirstStep == ASSUME TypeInv, [Next]_vars PROVE RuntimeFirst'
<1> USE ThreadsAssumption
    DEF TypeInv, Inv, Typed, Importer, RuntimeFirst, world, bridge, tables, Goto
<1>1. CASE Repair \/ UNCHANGED vars
  BY <1>1 DEF Repair, vars
<1>2. ASSUME NEW t \in Threads, StartImport(t) \/ Call(t) PROVE RuntimeFirst'
  BY <1>2 DEF StartImport, Call
<1>3. ASSUME NEW t \in Threads, Enter(t) \/ FindPresent(t) \/ FindReflection(t)
      PROVE  RuntimeFirst'
  BY <1>3 DEF Enter, FindPresent, FindReflection
<1>4. ASSUME NEW t \in Threads, LoadRuntime(t) PROVE RuntimeFirst'
  <2>1. \A k \in DOMAIN Attempts : Attempts[k] # "none"
    BY AttemptsAre, RootsAssumption DEF Default
  <2> QED BY <1>4, <2>1, AttemptsAre DEF LoadRuntime, Refuse, Fail
<1>5. ASSUME NEW t \in Threads, AddReference(t) PROVE RuntimeFirst'
  BY <1>5 DEF AddReference, Fail
<1>6. ASSUME NEW t \in Threads, Guard(t) \/ Enumerate(t) \/ Fill(t) PROVE RuntimeFirst'
  BY <1>6 DEF Guard, Enumerate, Fill
<1>7. ASSUME NEW t \in Threads, LookImporting(t) \/ Look(t) PROVE RuntimeFirst'
  BY <1>7 DEF LookImporting, Look
<1> QED BY <1>1, <1>2, <1>3, <1>4, <1>5, <1>6, <1>7 DEF Next, Step

LEMMA BridgeFirstStep == ASSUME TypeInv, [Next]_vars PROVE BridgeFirst' /\ Flag'
<1> USE ThreadsAssumption
    DEF TypeInv, Inv, Typed, Importer, BridgeFirst, Flag, world, bridge, tables, Goto
<1>1. CASE Repair \/ UNCHANGED vars
  BY <1>1 DEF Repair, vars
<1>2. ASSUME NEW t \in Threads, StartImport(t) \/ Call(t) PROVE BridgeFirst' /\ Flag'
  BY <1>2 DEF StartImport, Call
<1>3. ASSUME NEW t \in Threads, Enter(t) \/ FindPresent(t) \/ FindReflection(t)
      PROVE  BridgeFirst' /\ Flag'
  BY <1>3 DEF Enter, FindPresent, FindReflection
<1>4. ASSUME NEW t \in Threads, LoadRuntime(t) PROVE BridgeFirst' /\ Flag'
  BY <1>4 DEF LoadRuntime, Refuse, Fail
<1>5. ASSUME NEW t \in Threads, AddReference(t) PROVE BridgeFirst' /\ Flag'
  BY <1>5 DEF AddReference, Fail
<1>6. ASSUME NEW t \in Threads, Guard(t) \/ Enumerate(t) \/ Fill(t)
      PROVE  BridgeFirst' /\ Flag'
  BY <1>6 DEF Guard, Enumerate, Fill
<1>7. ASSUME NEW t \in Threads, LookImporting(t) \/ Look(t) PROVE BridgeFirst' /\ Flag'
  BY <1>7 DEF LookImporting, Look
<1> QED BY <1>1, <1>2, <1>3, <1>4, <1>5, <1>6, <1>7 DEF Next, Step

\* Types; bin/ is in sys.path at most once however often the import is tried, and
\* the package is there only with its runtime and its bridge.
THEOREM TypesHold == Spec => []TypeOK
<1>1. Init => TypeInv
  BY TypeInit
<1>2. TypeInv /\ [Next]_vars => TypeInv'
  BY NextInv, LoadedStep, RuntimeFirstStep, BridgeFirstStep DEF TypeInv
<1>3. TypeInv => TypeOK
  <2> SUFFICES ASSUME TypeInv PROVE TypeOK
    OBVIOUS
  <2>1. 1 .. Len(Roots) + Len(Categories) + 1 = Cursors
    BY NamesAre, Lengths DEF Cursors
  <2> QED BY <2>1 DEF TypeInv, Inv, Typed, Loaded, RuntimeFirst, BridgeFirst, Flag, TypeOK, Places
<1> QED BY <1>1, <1>2, <1>3, PTL DEF Spec

LEMMA RefusedStep == ASSUME Inv, Refused, [Next]_vars PROVE Refused'
<1> DEFINE Candidates == {Attempts[k] : k \in DOMAIN Attempts}
<1> USE DEF Inv, Typed, world, bridge, tables, Goto, Fail
<1>1. CASE UNCHANGED vars
  BY <1>1 DEF vars, Attempts, Refused
<1>2. CASE Repair
  <2>1. Attempts' = Attempts
    BY <1>2 DEF Repair, Attempts
  <2>2. Candidates \subseteq working'
    BY <1>2, AttemptsAre DEF Repair
  <2> QED BY <2>1, <2>2 DEF Refused
<1> SUFFICES ASSUME NEW t \in Threads, StartImport(t) \/ Call(t) \/ Step(t) PROVE Refused'
  BY <1>1, <1>2 DEF Next
<1>3. UNCHANGED <<Attempts, working>>
  BY DEF Attempts, Step, StartImport, Call, Enter, FindPresent, FindReflection,
         LoadRuntime, AddReference, Guard, Enumerate, Fill, LookImporting, Look
<1>4. SUFFICES \A u \in Threads : pc'[u] = "runtime" =>
                 \/ next'[u] = 1
                 \/ pc[u] = "runtime" /\ next'[u] = next[u]
                 \/ /\ pc[u] = "runtime" /\ next'[u] = next[u] + 1
                    /\ Attempts[next[u]] \notin working
  <2> SUFFICES ASSUME NEW u \in Threads, pc'[u] = "runtime", ~(Candidates \subseteq working),
                      NEW k \in 1 .. next'[u] - 1
               PROVE  Attempts[k] \notin working
    BY <1>3 DEF Refused
  <2>1. CASE next'[u] = 1
    BY <2>1
  <2>2. CASE pc[u] = "runtime" /\ next'[u] = next[u]
    BY <2>2 DEF Refused
  <2>3. CASE /\ pc[u] = "runtime" /\ next'[u] = next[u] + 1
             /\ Attempts[next[u]] \notin working
    <3>1. next[u] \in 1 .. Len(Attempts) /\ Len(Attempts) \in Nat
      BY <2>3, Lengths DEF Importer
    <3>2. k \in 1 .. next[u] - 1 \/ k = next[u]
      BY <2>3, <3>1
    <3> QED BY <2>3, <3>2 DEF Refused
  <2> QED BY <1>4, <2>1, <2>2, <2>3
<1>5. CASE Enter(t)
  BY <1>5 DEF Enter
<1>6. CASE LoadRuntime(t)
  BY <1>6 DEF LoadRuntime, Refuse, Loads
<1>7. CASE Fill(t) \/ Enumerate(t) \/ Guard(t)
  BY <1>7 DEF Fill, Enumerate, Guard
<1>8. CASE StartImport(t) \/ Call(t) \/ FindPresent(t) \/ FindReflection(t) \/ AddReference(t)
  BY <1>8 DEF StartImport, Call, FindPresent, FindReflection, AddReference
<1>9. CASE LookImporting(t) \/ Look(t)
  BY <1>9 DEF LookImporting, Look
<1> QED BY <1>5, <1>6, <1>7, <1>8, <1>9 DEF Step

\* An import fails only while no runtime or no DLL can be loaded, whatever earlier
\* imports left behind and in whatever order the roots are tried.
THEOREM FailsOnlyIfBrokenHolds == Spec => FailsOnlyIfBroken
<1> DEFINE Fails == \E t \in Threads : pc[t] # "failed" /\ pc'[t] = "failed"
           Candidates == {Attempts[k] : k \in DOMAIN Attempts}
           Broken == ~usable \/ (runtime = "none" /\ Candidates \cap working = {})
<1>1. ASSUME Inv, Refused, [Next]_vars, Fails PROVE Broken
  <2> USE <1>1 DEF Inv, Typed, Goto
  <2>1. CASE Repair
    BY <2>1 DEF Repair
  <2>2. CASE UNCHANGED vars
    BY <2>2 DEF vars
  <2>3. ASSUME NEW t \in Threads, StartImport(t) \/ Call(t) \/ Enter(t) \/ FindPresent(t)
                                    \/ FindReflection(t)
        PROVE  FALSE
    BY <2>3 DEF StartImport, Call, Enter, FindPresent, FindReflection
  <2>4. ASSUME NEW t \in Threads, LoadRuntime(t) PROVE Broken
    <3>1. runtime = "none" /\ ~Loads(t) /\ next[t] = Len(Attempts) /\ pc[t] = "runtime"
      BY <2>4 DEF LoadRuntime, Fail
    <3>2. Len(Attempts) \in DOMAIN Attempts /\ Attempts[Len(Attempts)] \notin working
      BY <3>1, AttemptsAre DEF Loads
    <3>3. ASSUME NEW k \in DOMAIN Attempts PROVE Attempts[k] \notin working
      <4>1. k = Len(Attempts) \/ k \in 1 .. next[t] - 1
        BY <3>1, AttemptsAre
      <4>2. ~(Candidates \subseteq working)
        BY <3>2
      <4> QED BY <3>1, <3>2, <4>1, <4>2 DEF Refused
    <3> QED BY <3>1, <3>3
  <2>5. ASSUME NEW t \in Threads, AddReference(t) PROVE Broken
    BY <2>5 DEF AddReference, Fail
  <2>6. ASSUME NEW t \in Threads, Guard(t) \/ Enumerate(t) \/ Fill(t) \/ LookImporting(t)
                                    \/ Look(t)
        PROVE  FALSE
    BY <2>6 DEF Guard, Enumerate, Fill, LookImporting, Look
  <2> QED BY <2>1, <2>2, <2>3, <2>4, <2>5, <2>6 DEF Next, Step
<1>2. Inv /\ Refused /\ [Next]_vars => [Fails => Broken]_vars
  BY <1>1
<1>3. Init => Refused
  BY DEF Init, Refused
<1>4. Inv /\ Refused /\ [Next]_vars => Refused'
  BY RefusedStep
<1> QED BY <1>2, <1>3, <1>4, InitInv, NextInv, PTL DEF Spec, FailsOnlyIfBroken
=============================================================================
