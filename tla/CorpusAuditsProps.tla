-------------------------- MODULE CorpusAuditsProps --------------------------
(***************************************************************************)
(* What writing an IR out and searching it promise.                        *)
(***************************************************************************)
EXTENDS CorpusAudits

\* Nodes that stand, however deep, in a field of some forms; behind a field of
\* type Any; in the branches of a case().
Kids(i, n) == KidsOf(i[n].fields)
Under(i, tops) == UNION {Reach(i, t, [n \in DOMAIN i |-> Kids(i, n)]) : t \in tops}
BehindAny(i) ==
  Under(i, UNION {Kids(i, n) :
             n \in {n \in DOMAIN i : i[n].class \in {"MaterializeExpr", "ToScalarExpr"}}})
InPairs(i) == Under(i, UNION {Held(i, n, {"pairs", "lists"}) : n \in DOMAIN i})
HasPairs(i, n) == \E f \in DOMAIN i[n].fields : i[n].fields[f].form = "pairs"

WasReloaded == reloaded # Nothing

(***************************************************************************)
(* Writing and reading.                                                    *)
(***************************************************************************)
\* No data is lost: what is read back is an IR, each field in the form its class
\* declares, and is written as what it was read from, whatever classes were
\* chosen on the way (query.py:48-51).
DataSurvives ==
  WasReloaded => IsIR(reloaded) /\ ModelDumpJson(reloaded) = json

(***************************************************************************)
(* Traversal.                                                              *)
(***************************************************************************)
\* walk() misses no node but those in the branches of a case(), into whose tuples it
\* does not look (walk.py:42), and after reading back loses none but those behind a
\* field of type Any (expr.py:158).  That it should reach all of them (walk.py:22) is
\* not so.
WalkReaches ==
  /\ ir # Nothing => DOMAIN ir \ InPairs(ir) \subseteq Walk(ir, 1)
  /\ WasReloaded => Walk(ir, 1) \ BehindAny(ir) \subseteq Walk(reloaded, 1)

(***************************************************************************)
(* The view for language models.                                           *)
(***************************************************************************)
\* Two IRs of a corpus that differ in a class or in a field have different views, but for the
\* flag that a schema is attached and the canonical form of names and literals.
Differ(i, j, n) ==
  \/ i[n].class # j[n].class
  \/ \E f \in DOMAIN i[n].fields \ {"schema_attached"} :
       /\ i[n].fields[f] # j[n].fields[f]
       /\ f = "canonical_form" => i[n].class \notin {"ColumnRef", "LiteralExpr"}
ViewTellsApart ==
  pc = "search" =>
    \A q \in DOMAIN corpus :
      LET j == corpus[q].built
      IN DOMAIN j = DOMAIN ir /\ (\E n \in DOMAIN ir : Differ(ir, j, n)) =>
           ToLlmDict(ir) # ToLlmDict(j)

(***************************************************************************)
(* The two audits.                                                         *)
(***************************************************************************)
\* A query that passed has no gap in its main pipeline but in a case(), where nobody
\* looks, and has no case() behind a field of type Any, whose tuples come back as lists.
\* (It may well come back with other classes: RoundTripLossless.)
PassedMeansClean ==
  \A p \in ToSet(passed) :
    LET i == corpus[p].built
        main == Under(i, {MainPipeline(i)})
    IN /\ Gaps(i, main \ InPairs(i)) = {}
       /\ \A n \in BehindAny(i) \cap main : ~HasPairs(i, n)

FailureIn(q, category) ==
  \E k \in DOMAIN failures : failures[k].id = q /\ category \in failures[k].categories

\* What mine_corpus finds in a query verify_corpus finds, too, if it can build the
\* query.
MinedIsVerified ==
  pc = "done" =>
    \A g \in mined : \/ FailureIn(g[1], GapCategory(ClassOf(g)))
                     \/ FailureIn(g[1], "builder_exception")

(***************************************************************************)
(* Not so.                                                                 *)
(***************************************************************************)
\* "model_dump_json round-trips losslessly through QueryIR.model_validate_json"
\* (README.md:46), and every node is dispatched by isinstance (README.md:44).
RoundTripLossless ==
  WasReloaded => \A n \in DOMAIN ir : reloaded[n].class = ir[n].class
=============================================================================
