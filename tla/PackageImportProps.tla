-------------------------- MODULE PackageImportProps --------------------------
(***************************************************************************)
(* Who gets a whole table of function names, what a failed import leaves   *)
(* behind, and that importing comes to an end.                             *)
(***************************************************************************)
EXTENDS PackageImport

\* Types; bin/ is in sys.path at most once however often the import is tried;
\* the package is there only with its runtime and its bridge.
TypeOK ==
  /\ runtime \in {"none", Default} \cup {Roots[k] : k \in DOMAIN Roots}
  /\ paths \in {0, 1}
  /\ package \in Threads \cup {"absent", "present"}
  /\ bridged \in BOOLEAN /\ loadFailed \in BOOLEAN
  /\ filled \subseteq Names
  /\ timeFuncs \in {"none", "table", "hard-coded"}
  /\ pc \in [Threads -> {"new", "start", "runtime", "reference", "guard", "enumerate",
                         "fill", "look",
                         "ready", "failed"}]
  /\ entry \in [Threads -> {"none", "package", "reflection"}]
  /\ next \in [Threads -> 1 .. Len(Roots) + Len(Categories) + 1]
  /\ asked \in [Threads -> Names]
  /\ answer \in [Threads -> {"none", "table", "KeyError"}]
  /\ package = "present" => bridged /\ runtime # "none"

\* _load has no lock, and yet a call finds its table unless somebody came in by
\* kustology.reflection while the package was being imported: a call fails only
\* while another thread fills the tables, and only if the caller or that thread
\* came in that way.  Threads that import kustology find the tables whole, as the
\* import of analysis.py has called _load before any of them is let in.
CallersAnswered ==
  [][\A t \in Threads :
       answer[t] # "KeyError" /\ answer'[t] = "KeyError"
         => \E u \in Threads : pc[u] = "fill" /\ "reflection" \in {entry[t], entry[u]}]_vars

\* The time functions analysis.py works with are the reflected ones, even when
\* another thread is filling the tables at that moment.
TimeFuncsReflected == (reflects /\ timeFuncs # "none") => timeFuncs = "table"

\* An import fails only while no runtime or no DLL can be loaded: nothing that
\* earlier failures leave behind makes a later import fail, and no root that can
\* be loaded is passed over.
FailsOnlyIfBroken ==
  [][(\E t \in Threads : pc[t] # "failed" /\ pc'[t] = "failed")
       => ~usable \/ (runtime = "none" /\ {Attempts[k] : k \in DOMAIN Attempts} \cap working = {})]_vars

\* An import that runs comes to an end, through every root it tries, and makes
\* way for those that wait for it.
ImportsEnd == \A t \in Threads : package = t ~> package # t

(***************************************************************************)
(* Not so, with the lines that say otherwise.                              *)
(***************************************************************************)

\* reflection.py:6-7 "Cached after first call; falls back to hard-coded sets if
\* reflection fails": a call while the tables are being filled raises KeyError.
EveryCallAnswered == reflects => \A t \in Threads : answer[t] # "KeyError"
=============================================================================
