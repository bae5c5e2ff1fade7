# A verification of kustology

kustology wraps Microsoft's KQL parser, a .NET assembly loaded through pythonnet,
and builds a serializable intermediate representation (IR) of a parsed query on
top of it. This directory holds TLA+ models of the parts of kustology that have
state, order or failure in them, the TLC configurations that check the models,
and TLAPS proofs of the most important properties. Paths like `binder.py:109` are
relative to `src/src/kustology/ir/`, or to the place named beside them.

    tlc -workers 4 -config SchemaAttacher.cfg MCSchemaAttacher
    tlapm SchemaAttacherProofs.tla

`PROJECT.json` lists the components, the runs, the source lines of every definition,
the hazards and the theorems. For every property of a passing run it also names
a plausible slip in the code (a definition marked `Slip:` next to the one it
replaces) with which TLC finds the property violated.

## 1. The system

| Component | Where | State it keeps | Operations |
|---|---|---|---|
| Bridge to .NET | `bridge.py`, `__init__.py` | the runtime loaded into the process, `sys.path`, Python's module table | import, run once under a module lock; may fail and be tried again |
| Reflection | `reflection.py` | `_CATEGORIES`, `_FUNCS_BY_NAME`, `_LOAD_FAILED` | `_load`, `time_functions` and the other accessors |
| Syntactic and semantic analysis | `utils/analysis.py`, `utils/walker.py` | `_TIME_FUNCS`, fixed at import; what a walk collects | table references, table replacement, columns, time ranges, hashes |
| IR builder: pipelines | `ir/builder.py` | variables of active calls | `build_from_code`, `_visit_pipeline`, `_visit_operator` |
| IR builder: expressions | `ir/builder.py`, `ir/_normalize.py` | the nodes being made | `_visit_expr`, `normalize_in_place`, `canonical` |
| Filter merging | `ir/_builder_helpers.py` | the operator list and a conjunction that may alias one of its nodes | `merge_filter_ops` |
| Schema enrichment | `ir/binder.py` | the scopes of active calls; the fields it fills in the IR | `enrich` |
| LLM view, traversal, serialization | `ir/llm_view.py`, `ir/walk.py`, `ir/query.py` and the other classes | none | `to_llm_dict`, `walk`, `find_all`, JSON and back |
| Services, `KustoQuery`, command line | `services.py`, `core.py`, `cli.py` | none | `parse`, `format_query`, `validate`, exit codes |
| DLL scripts | `scripts/refresh_dll.py`, `scripts/verify_dll.py` | the DLL, `VERSION.txt`, `pyproject.toml` | refresh, pin, verify |
| Corpus audits | `scripts/verify_corpus.py`, `scripts/mine_corpus.py` | verdicts and counts of one run | build, search, enrich, write and read back every query of a directory |
| Syntax kind audit | `scripts/audit_syntax_kinds.py`, `tests/test_coverage_audit.py` | a baseline file | report, check, update, test |
| Corpus extraction | `scripts/sample_sentinel_corpus.py`, `scripts/extract_*.py` | none | sampling of files |

A call of `parse` yields a `KustoQuery` around the .NET syntax tree. `to_ir` hands the
tree to the builder, which calls `_visit_pipeline`, `_visit_operator` and `_visit_expr`
recursively, normalises each expression as it is made and merges where operators
at the end of each pipeline. `SchemaAttacher.enrich` then walks the IR and mutates it
in place, keeping the tables in scope. The builder and the attacher therefore
meet only in the IR. The names that `analysis.py` uses come from `reflection.py` at
import time, which needs the bridge; the bridge needs the DLL that the
scripts put in place. The corpus audits run the whole chain, from the builder to
JSON and back; the kind audit compares what a DLL can produce with what the
builder says it handles.

What is hard in this code:

- **Threads and failing imports.** The runtime can be loaded once per process, a
  module body runs once under a lock but runs again after a failure, and
  `reflection._load` has no lock of its own.
- **Death between writes.** A refresh writes three files one after the other.
- **Aliasing and order.** Enrichment reads fields it wrote before; merging
  extends a node other operators may still be read through; scopes depend on the
  order operators come in and on what `scope[-2]` happens to be.
- **Nesting.** Pipelines hold operators that hold pipelines; a flat loop looks one
  level down and relies on what earlier calls left behind.
- **Two views of one thing.** Table references are found with the binder and without
  it, in offsets of .NET and of Python; two scripts and `walk()` search one IR
  each in its own way; a script and a test read one baseline.
- **Classes that are guessed.** JSON holds no class names, and pydantic chooses
  among the classes of a union whose fields fit.

What would make each part correct, and is therefore what the properties say: owners
and types are only filled in when there is evidence for them among the tables whose
rows reach the reference; no column that reaches the result of a pipeline is lost;
a pipeline has the operators of its text in their order and the source its text
names; merging and normalising keep what the query means and give equal queries equal
shapes; a verification accepts no half-installed DLL; every caller gets a whole
table of names, and imports end; a renaming moves all and only the references; what is
written out loses no data and what is searched is found; a check that is content has
nothing to hide.

## 2. Modules

Each component has a module with its state and actions, a `…Props` module with the
properties, an `MC…` module with values for TLC, and, where there are theorems, a
`…Proofs` module. **RecursionLemmas** has what the proofs share.

**QueryIR** is the shape of an IR: pipelines, operators, items, expression nodes, each
with the set of its ancestors. `IsQuery` is the assumption enrichment is modelled and
proved under: pipelines are finitely many, a nested one knows all it is nested in, a join has one
right side, a union lists no expressions of its own, and every node is listed by one operator of the
pipeline it is at home in, because the builder makes a new object for each part of the
text and never hands one out twice. `PipelineBuilder`'s property `OutputIsQuery` shows the
builder establishes what it says of pipelines.

**SchemaAttacher** is `SchemaAttacher.enrich`. The recursion of `_walk_pipeline` and
`_walk_operator` is a stack of frames (`pipe`, `pc`, the branch being read `sub`,
`scope`); there is one action per operator handler, one to enter a sub-pipeline
(`EnterSub`), and one per way of coming back (`JoinReturn`, `UnionMerge`,
`UnionReturn`, `Finish`). The table and type of every node and the result schema of
every pipeline are the variables `table`, `rtype` and `result`; `Fill` is a whole call
of `_fill`. A rename is one step per assignment because each lookup sees
the scope of the one before. `enrich` may be called again on its own output.

**Annotations** is the contract of the two annotated fields, with no scopes and no
order in it: an unowned reference may gain a table that has the column and whose rows
reach its operator or are combined with them there, `$left` may be replaced by a table whose rows
come to the join from its left, `$right` by one its right pipeline reads, an unknown type may become
the one the schema gives, and nothing else changes. What reaches an operator (`Upstream`) is read
off the query: a table that only a later operator brings in does not. That the table put for a side
has the column is not in the contract, for the code does not see to it (section 3).
SchemaAttacher implements it (`ImplementsAnnotations`; the refinement
mapping is the identity on the four variables they share).

**FilterMerge** is `merge_filter_ops`: two loops over one list. Whether `merged` is a new
node or the predicate of the first where operator is the variable `fresh`; the canonical
form cached in a node is a field that only the code that recomputes it changes.

**PipelineBuilder** is `build_from_code` from the choice of the main expression on, all
of `_visit_pipeline`, and the part of `_visit_operator` that visits pipelines or fails
on a count. Its state is the stack of calls; `walk()`'s recursion through pipes
and parentheses is the agenda of a frame. Merging is one step here
(`MergeFilters`), and a module of its own there.

**ExprBuilder** is `_visit_expr` on conditions, with `normalize_in_place` and `canonical`.
A syntax tree is its nodes in the order `_visit_expr` returns from them. A canonical
form is a list of words, so that neither quoting nor spacing matters; every comparison
made of canonical forms is of equality, for which any fixed order of words serves.

**DllRefresh** is both scripts over the three files. Opening a file truncates it and
closing it fills it, and a refresh may die between any two steps; a verification reads
one file per step beside it, and somebody edits the pin. The history `shipped` tells whether, since
the verification began, `bin/` held a whole DLL of the version verified against.

**PackageImport** is the import of the package by several threads: `_load_runtime`, one candidate
root a step, `_initialize_bridge`, `reflection._load` from its guard to its fills,
key by key, and the call with which `analysis.py` fills `_TIME_FUNCS`. Module locks and
the removal of a failed module are Python's.

**SyntaxTree** is what `analysis.py` sees of Microsoft's parser: a tree of nodes in the order of
a walk, the words they span, and the symbol the binder gives a name by the place it
stands in. A character has one width in .NET and one in Python.

**Analysis** is `find_table_references` in both modes, `get_referenced_columns`,
`get_time_range` and `replace_table`. One action visits one node; `pre_visit`'s tables,
let names and ranges are variables; an edit replaces one reference in the text, and
`ParseAgain` is a caller who parses the outcome and goes on. `Spell` and the offsets work on
characters, so an edit in the wrong place tears a word.

**IRClasses** lists the classes of the IR with their fields, defaults and unions, in
their order. **Serialization** is what pydantic makes of them: writing drops the class, reading
takes a class of the union whose fields fit, counting the fields that are set. It also has
`walk()` and `to_llm_dict` over the same nodes. Reading goes up the document and choosing classes
goes down it, each one recursive function over the nodes. Two assumptions, `TablesAssumption`
and `ViewAssumption`, are closed formulas about the tables of `IRClasses`: what it takes for the unions
to tell their classes apart and for the view to keep fields apart. TLC evaluates them on the
tables as they are when a run starts, and a class added without care makes them false.

**CorpusAudits** is `verify_corpus.py` and `mine_corpus.py` over one corpus, which is given as the IRs
the builder makes of its queries: build, search, enrich, write, read back and file
a verdict, each of which may raise, and then the other script's own search. Each query has two IRs,
as the second script builds without schemas and from stripped text, and `SameText` says what they share:
all but names, types, diagnostics and what the binder is asked (`builder.py:693`). `Enrich` gives every
pipeline the enricher walks a result schema, and the columns and conditions it fills any owner and
type `binder.py:268-295` can give them. `IsBuilt` says what is known of an IR, whatever its size: it is a tree of nodes that have the fields of their classes,
nothing is attached to it yet (`builder.py:183`), `materialize()` and `toscalar()` hold a
pipeline (`builder.py:898`, `:901`), and a negation stands in the operator of a comparison
(`builder.py:820`; `_normalize.py:45` replaces `==` and `!=` by operators that keep it).

**KindAudit** is `audit_syntax_kinds.py` in its three modes and the test that reads the
baseline. Between runs the DLL is upgraded, the builder learns kinds, somebody skips
a kind by hand or loses the file; an update may die between truncating and
writing. `recorded` and `decided` are histories: the gaps there were when the baseline was
written, and what was skipped by hand since it was last lost.

## 3. What is checked

`N` is the number of distinct states, `Q` of initial states (inputs).

| Run | N / Q | Bounds |
|---|---|---|
| schema_attacher | 112,596 / 5,628 | all sequences of at most two operators out of 37, over a named table or none; joins and unions of five kinds of right side, up to three pipelines deep; two tables sharing a column, two schemas, one with a type Kusto has no name for; two calls of `enrich` |
| filter_merge | 31,835 / 3,906 | all lists of at most five operators, each a where of one, two or three conjuncts or another operator |
| pipeline_builder | 97,747 / 4,637 | each of 15 beginnings with all sequences of at most two operators out of 17, three of a few, nested parentheses, no or several statements |
| expr_builder | 45,669 / 2,211 | conditions of up to three levels of connectives and negations over three flags and a text column, and pairs of regroupings |
| dll_refresh | 1,431,676 / 8 | three versions, two sharing a build, four DLLs; any number of refreshes, deaths, verifications and edits |
| package_import | 177,190 / 64 | two threads with any number of imports and calls, two roots besides the default; every combination of what is installed, and repairs |
| analysis | 487,014 / 133 | five beginnings with each of ten operators, pairs of three, lets of eight kinds that bind a table's name or another; each question in both modes, two renamings one after the other |
| corpus_audits | 47,371 / 275 | every class of operator, expression and source, pairs whose nodes have the same fields, gaps in every place, queries the binder reads differently without a schema; corpora of one or two queries; each call may raise |
| kind_audit | 855,904 / 40 | three kinds that are gaps unless handled (symmetric) and one token; any number of upgrades, edits, runs, deaths and losses |

Why these bounds are enough: an operator handler reads and replaces one scope, so
the orders in which two handlers meet show what a third could be given, and joins of
joined pipelines supply scopes of three entries. A run of filters is characterised
by its first predicate, whether there is a second and a third, and what stands
behind. Pipeline building has no counter and looks at one node at a time.
`normalize_in_place` looks one level down, so three levels contain every pair of levels it
can meet. A version differs from another by being pinned, recorded or installed,
hence three. Two threads are enough for one to find what the other has half done;
the theorems hold for any number. A name is found or missed by the place it stands in
and by what encloses it, so the catalogue has every place, in the text before and behind
the others, and a wide character before, between and behind them; a second renaming
meets the first one's new name. Reading a node back depends on its fields alone,
so each class once, and each field in each of its forms, is enough, with two queries
for the scripts' accumulators. A kind is told from another by being installed, handled,
skipped or recorded; three gaps let one come, one go and one stay, and the theorems
hold for any set.

**schema_attacher.** `ScopesSound`: calls nest as the query does, every named entry of a
scope is a table whose rows have been drawn by then, with the schema's columns, and no join meets an
empty scope. `Attributed` and `TypesJustified`: what is filled in is justified at the
end, also after the owner was filled in by a different call than the type.
`ImplementsAnnotations`: at every step, and nothing is overwritten.
`UnionKeepsColumns` and `SourceColumnsAttributed`: result schemas and attributions are
complete, as far as they are; `ColumnsHaveOrigin`: no column leaks into a pipeline from
outside. `SidesNamed`: the conditions of a join before which the scope was only read name the
pipeline's own table for `$left`, and the right pipeline's own table for `$right` unless that pipeline
reshapes its rows. `SecondPassChangesNothing`.

**filter_merge.** `NoAdjacentFilters`, `ConjunctsKept` (order included, at every
iteration), `NewConjunctionsNormal`.

**pipeline_builder.** `OperatorsInOrder` (with the where operators of every pipeline merged),
`SourceFromText`, `OutputIsQuery`, `BuildReturns`: pipes and parentheses nest as they like,
yet nothing is lost, doubled or taken from a nested pipeline. `SourceFromText` says nothing of a
text that begins with a shape `walk()` does not know (below).

**expr_builder.** `AllNormal`: no node at any depth would change if normalised again.
`MeaningKept`: in all 24 rows a condition and its IR have one truth value.
`RegroupingsCollapse`: the order and grouping of operands and parentheses do not show
in the canonical form.

**dll_refresh.** `Consistent`, `PinFollowsDll`: what the three files
say of each other through deaths. `AcceptedWasShipped`: exit code 0 tells, whatever refreshes run
or die next to the verification, that a whole DLL of the version was in `bin/` at some moment of it;
with no refresh meanwhile, that it is also of the version in `VERSION.txt`, unless that is empty.
`FreshPasses`: what was just fetched is accepted when no refresh interferes.

**package_import.** `CallersAnswered`: a call fails only while another thread fills the tables, and
only if one of the two came in by `kustology.reflection`. `TimeFuncsReflected`, `FailsOnlyIfBroken`.
`ImportsEnd`: whoever imports the package makes way in the end, through every root and every failure,
for those that wait.

**analysis.** `RenamesReferences`: the text `replace_table` returns has the new name at all and
only the references, each once, and is otherwise the old text. `RenameMovesTable`: what the
renamed query reads, when it is parsed again, is what the old one read with one table
in another's place; it excludes names for which that is not so (below). `ModesAgree`: with the
binder and without it the same tables and columns are found, but for names that are used
for two things. `TimesComplete`: time calls and the literals outside of them, each once, in order.

**corpus_audits.** `DataSurvives`: reading back may choose another class but loses no data and
always yields an IR. `WalkReaches`: `walk()` misses no node but those in the pairs of a `case()`, and after
reading back loses none but those behind a field of type Any; its own promise, every node, it does not
keep (below). `ViewTellsApart`: two
IRs that differ, differ for a language model, too. `PassedMeansClean`, `MinedIsVerified`: what one
may conclude from a verdict, and that one script finds what the other finds.

**kind_audit.** `QuietMeansRecorded`: an exit code 0 leaves no gap that was neither recorded nor
decided on. `SkipsKept`: hand-made skips stay. `FreshIsAccepted`: what an update wrote passes.
`TestIsAsStrict`: the test fails where the check does.

The type invariants (`TypeOK` of the `…Props` modules that have proofs) and
`RecordedVersionRight` are proved and not run.

### Fairness

`PipelineBuilder` assumes weak fairness of its steps: these are synchronous Python functions
that nothing else holds up. `PackageImport` assumes weak fairness of each thread's next step once it
has begun an import or a call (the interpreter schedules every runnable thread), not of beginning one
and not of a repair of the installation. That a thread which waits gets the import next is not
claimed: Python's lock is free for whoever comes first. The other modules have no liveness property
and assume none: a refresh may die, a verification may be abandoned, an update may never
be made.

Deadlock is not checked where the behaviour ends by design: a build or merge
that returned, `enrich` called or a text renamed as
often as bounded, a corpus both scripts are through with. The scripts of `dll_refresh` and
`kind_audit` can always be started again, and there it is checked.

### Where code and documentation disagree

Each of these is a run of its own that TLC finds violated.

- `JoinKeepsColumns`: after a join `binder.py:109` extends the scope by the first entry of
  the right side only. Columns the right side computed or joined itself are missing from
  `result_schema`, "the final column shape" (`README.md:51-52`).
- `EveryCallAnswered`: `reflection.py:138` takes the tables for loaded once one key is there;
  a thread that imports `kustology.reflection` while another imports the package can
  meet a `KeyError` (`reflection.py:6-7`, `:136`).
- `RoundTripLossless`: nodes are written without their class (`query.py:379`) and read back as a
  class with the same fields, so `project-away` becomes `ProjectOp`, an Or an And, a reference to
  a let a table; `README.md:46` says JSON "round-trips losslessly".

Others met on the way that no run is devoted to.

*Enrichment.* `binder.py:271` takes `scope[-2]` for the left side: after an earlier join that is
the earlier right side, and `$left.x` is attributed to a table without `x` (`expr.py:47-48`).
Branches of `case()` are never filled (`binder.py:253`); pipelines inside partition,
mv-apply, fork and facet get no `result_schema` although `query.py:394` announces it for every
pipeline; a column redefined by `extend` is still attributed to the table (`binder.py:245`).

*Building.* `_builder_helpers.py:169` recomputes the canonical form only of a new And, so
`where a and b | where c` keeps the form of `a and b` (`_normalize.py:8-9`), and a later And stays
nested in an And that is extended in place (`_builder_helpers.py:165` against
`_normalize.py:37`). `_normalize.py:45` turns `tolower(X) == "A"`, never true, into `X =~ "A"`
("semantic-preserving rewrites", `_normalize.py:33`). Operands are joined without
parentheses, so `p and (q or r)` and `(p and q) or r` have one canonical form
(`_normalize.py:82`). A pipeline that begins with a shape `walk()` does not know and goes on with
operators gets an `ImplicitSource` (`builder.py:278`), as if nothing stood there; `README.md:54-55`,
`:127` and `query.py:96-100` have `UnknownSource` for it. A count that is no literal ends the build
with `ValueError` (`_builder_helpers.py:27`); `in`, `in~`, `has_any` and `has_all` are one node
(`builder.py:828`).

*Analysis.* `find_table_references` promises "one entry per occurrence" (`analysis.py:168-169`),
but without the binder a source is reported for its pipe and again for its statement.
Offsets count UTF-16 code units and index code points (`analysis.py:371`): behind a
character outside the basic plane every edit is shifted. Without the binder the `T` of
`let v = d.T` is taken for a table, and a table whose name a let binds anywhere is not reported at
all. A table renamed to a name the schema lacks, or that a column has, cannot be renamed
back. The operator chain leaves out what stands in parentheses, and the structural hash has
no brackets, so differently nested calls may share it (`analysis.py:296`).

*Serialization and corpus audits.* `walk()` is to "yield every BaseModel descendant"
(`walk.py:22-23`, `README.md:130-131`) and does not enter the branches of a `CaseExpr`
(`walk.py:42`), nor, after reading back, the pipeline of `materialize()`, which comes back as dicts
(`expr.py:158`). A corpus file that is not UTF-8 stops `verify_corpus.py` and not `mine_corpus.py`,
which reads it with `errors="replace"` (`mine_corpus.py:46`).
`verify_corpus.py` searches the main pipeline only, and compares a severity with "error" that .NET
spells "Error" (`:243`). `mine_corpus.py` counts what stands in a named expression twice and
misses the branches of `case()`, `by` clauses, sort keys, let bindings and the pipelines of
`materialize()`.

*Kind audit.* `syntax_kinds()` is empty if reflection fails (`reflection.py:232`): the check then
says "Coverage OK", and an update writes an empty baseline. The test's docstring says that every
kind is handled or explicitly skipped, yet the baseline records hundreds that are neither.
A new kind that is skipped by its name fails the test and not the check. "matches baseline" is
printed also when gaps are gone. A baseline that was cut off ends each mode in a traceback with
exit code 1. `--update` (`ARCHITECTURE.md:66`) works because argparse completes `--update-baseline`.

*Scripts and command line.* `write_pinned_version` is not atomic (`refresh_dll.py:53`, `:84`). A
refresh that dies right after it opened `VERSION.txt` leaves the new DLL, an empty record and the old
pin, and `verify_dll.py --version` of the new version accepts that: it compares with the record only
when there is one. A
failing download ends `verify_dll.py` with exit code 1 (`verify_dll.py:96`), which its lines 26-27
reserve for a mismatch. A missing file is a usage error with exit code 2 in `cli.py:11`, and ends
with 1 (`cli.py:222-224`); `parse` of a malformed query ends with 0.

## 4. What is proved

All theorems hold for all values of the constants under the ASSUMEs of the modules:
names are distinct, queries satisfy `IsQuery` and schemas map names to types, syntax trees
satisfy `IsTree`, `Builds` gives versions sets of DLLs, corpora hold IRs that satisfy `IsBuilt`, and
the classes' tables are as `TablesAssumption` and `ViewAssumption` say. TLC evaluates them in the runs.

**SchemaAttacherProofs.** The inductive invariant is
`Inputs /\ TypeOK /\ ScopesSound`. Attribution alone is not inductive: that an owner is a
table in reach of the reference follows from scopes being faithful at the operator a call has reached
(`Drawn`), and faithful scopes of a
caller are preserved by a return only because calls nest as the query does (`CallsNest`)
and a callee's tables are among those its caller's operator brings in. Steps are grouped by what
they do to the stack: replace the top scope (`ReplaceSound`), push (`PushSound`), pop
(`PopSound`). `FillAnnotates` shows that one `_fill` is a step of Annotations.
Theorems: `TypesHold`, `ScopesHold`, `Implementation` (the refinement),
`AttributionHolds`, `TypesJustifiedHolds`. The last two are invariants of the contract, and
are proved from its steps rather than from the walk.

A second invariant adds that no active call's scope has a column its pipeline has no origin for
(`StackNative`). Returns keep it because a nested pipeline's origins are among its caller's
(`CalleeOrigins`), which needs the nesting to be transitive. Theorem:
`ColumnsHaveOriginHolds`.

The second part of the module is about what a walk leaves behind. That a later `enrich()` changes
nothing is not inductive: it depends on the scopes the earlier one went through, which are gone by
then. The invariant `Trace` recovers them. It says that there are scopes, one for every position
between the operators of every pipeline, such that each operator that has been walked leads from
the scope before it to the one after it and would fill in exactly the owners and types that are
there now (`WalkedUpTo`, `Leads`, `Settled`), that a pipeline with a result ended with it
(`Kept`), and that every active call has the scope of its position (`TracedStack`). A union that
is taking the entries of a branch is between two positions: it will have taken the same entries
when it is done. A step either walks what was walked before, and then changes no mark
(`MoveAgain`), or writes the trace at one new position (`MoveFirst`). The second needs that
filling one operator's items disturbs no other operator's part of the trace, hence that no node is
listed by two. Before it was proved, TLC checked the invariant on the instance of
`schema_attacher`, with the trace kept in a history variable. Theorems: `TraceHolds`,
`SecondPassHolds` (an action property), `UnionKeepsColumnsHold` and `SourceColumnsAttributedHold`,
which read the finished trace: scopes only grow along growing operators, and an operator that
fills an item resolves it in a scope that still has the source's entry.

**FilterMergeProofs.** The invariant says that operators beyond the outer index are untouched
(`Kept`), that places put out stay below the index (`Places`), and that the
operator before the index and the one at it are not both where operators
(`RunsMaximal`); without the last, a new run could begin beside a finished one. That no
conjunct is lost needs more (`Contents`): what has been put out, the run under way and what
lies beyond the index are, joined, the conjuncts of the original list at every iteration, and the
run under way is the concatenation of the predicates it has absorbed. Theorems: `TypesHold`,
`NoAdjacentFiltersHold`, `NewConjunctionsNormalHold`, `ConjunctsKeptHold`.

**PipelineBuilderProofs.** `Progress` says of every active call, and not of the top one alone, that it
is a walk under way (`FrameOK`): each operator of its text has been collected, is open or lies
ahead on the agenda, in the order of the text (`OpsFound`); as long as it has no source, everything
that can be one is open or ahead (`SourceFound`); the parts of what is open that count as
visited have pipelines (`KidsMade`). Calls are made for parts of what their caller has open
(`Called`), which a return needs to count the right part. Of finished pipelines it says
what the text says (`BuiltOK`). Order rests on two assumptions of `IsTree`, which hold of
any parser's tree: no node has two parents, and the text of a part ends before that of the
next begins. `OutputIsQuery` follows because the pipelines around a nested one are those
around the one that refers to it and that one itself (`NestedInCaller`).
`MergeFiltersMerges` shows that merging keeps the nodes operators stand for, in order, and leaves no
two where operators adjacent. Theorems: `ProgressHolds`, `OperatorsInOrderHold`,
`SourceFromTextHold`, `OutputIsQueryHold`.

**RecursionLemmas.** The library's induction theorems take an operator as a parameter, which the
provers cannot instantiate. The lemmas here are stated of sets and functions instead: a set of
numbers with 0 and all successors (`InductionOverNat`), a set closed under rank
(`InductionByRank`), a recursive function over an interval and its values, and
`FlattenSeq` of a sequence with one more member. `TreeInduction` in `PipelineBuilderProofs` is the second of
them, for syntax trees.

**DllRefreshProofs.** `Progress` ties the stage of a refresh to what the files hold by then, and
`Observed` ties what a verification has read to what the files still hold as long as no
refresh took a step; `shipped` needs no such condition, for what was hashed was in `bin/`
when it was hashed. `RecordedVersionRight` needs `Progress`: the hash is written beside the
version that was fetched, not the one pinned. Theorems: `TypesHold`, `RecordedVersionRightHolds`,
`ConsistentHolds`, `AcceptedWasShippedHolds`, `FreshPassesHolds`, `PinFollowsDllHolds`.

**PackageImportProofs.** `Importer`: whoever holds the package is at a place inside its body, and
nobody else is. `Fillers`: tables that have been begun and are not whole are being filled. `Entries`:
who fills is the importer or came by `kustology.reflection`, and who calls came by reflection, is the
importer, or finds the package present and so the tables begun. A call that fails therefore has on one
side or the other somebody who came by reflection; nothing is asked of the other threads.
`TimeFirst` says that the key of the time functions is the first one filled, hence there
whenever another thread takes the tables for loaded. `Loaded`, `RuntimeFirst` and
`BridgeFirst` tell from the importer's place what has been loaded: the runtime is a root the
code tries, and the package is present only behind its runtime and its bridge. That a
failing import met something broken is shown step by step. Theorems:
`CallersAnsweredHolds`, `TimeFuncsReflectedHolds`, `FailsOnlyIfBrokenHolds`, `TypesHold`.

**KindAuditProofs.** The baseline is measured by the two histories: every file that can be read
back holds no gap that was not recorded and skips only tokens and what was decided
(`FileSound`). While a run writes, the file is torn and the same is said of the state to be
written (`StateSound`), which needs that what was loaded is still the file (`LoadedIsFile`).
Theorems: `TypesHold`, `SkipsHold`, `QuietHolds`, `FreshHolds`, `StrictHolds`.

**CorpusAuditsProofs.** What is proved of the scripts rests on what is proved of one IR.

- *Reading.* What reading computes at a node depends on the nodes below it alone
  (`ReadingLooksAtKids`), so the recursive function can be replaced by one equation per node
  (`ReadingsDef`, `ClassesReadDef`). Going up: the class a node was written from accepts it
  (`OwnClassAccepts`). What is picked from a union in the place of that class has the same
  fields and accepts the same in them (`PickedFits`): in a smart union it sets at least as
  many fields, so it has all of the node's, and a class with more of them stands further
  back and loses the tie; among operators the first that accepts is
  either one that fits, or clashes with what stands there, or comes behind one that covers it. That
  is where the tables matter. Going down: unless it stands behind a field of type Any, each node gets
  a class that fits its own (`ClassesFit`). `RoundTrip` follows: what is read back is an IR that is
  written as the same JSON. It may be of other classes, which is the finding above.
- *Traversal.* `ReachInduction` says of a search along fields what it reaches; with it each search is
  known by what it does from a parent to its child (`WalkStep`, `UnderStep`, `InPairsStep`,
  `BehindAnyStep`), and since a node stands in one place two of them can be compared from
  the root down (`InductionDown`): `WalkOfModels`, `WalkOfRead`, and `MinedIsWalked`, that
  mine_corpus visits nothing verify_corpus does not.
- *The view.* `Shows` lists what can be read off a view: the class, which fields were left out, the
  others' values, and the polarity. Two nodes that show the same differ in nothing else
  (`ShownIsSame`, `PolarityIsSame`), because a field that is left out can have been one thing only.
- *The scripts.* `IInv`: what verify_query has in its hands fits how far it is (`PhaseInv`), a query
  that was filed has a verdict of its own (`VerdictInv`), and what was mined is a gap that mine_corpus
  visits (`MinedInv`). `PassedMeansClean` and `MinedIsVerified` are not inductive by themselves: they say
  nothing of the query that is being verified. A verdict without categories means no gap and no
  difference, and pairs behind a field of type Any make a difference (`PairsBehindAnyDiffer`): they come
  back as lists. What `verify_query` has in its hands after `enrich()` is described by what enrichment
  leaves alone (`IsEnriched`: the nodes, their classes, what holds nodes or tuples), so the proof does not
  depend on which owners and types were found; the schemas it adds are walked and hold no gap. Nor are
  there gaps in what one IR of a query has and the other has not (`SameWalk`).

Theorems: `RoundTrip`, `Invariance`, `DataSurvivesAlways`, `WalkReachesAlways`,
`PassedMeansCleanAlways`, `MinedIsVerifiedAlways`, `ViewTellsApartAlways`. `RoundTripLossless` is false,
and stays a run.

**Only model-checked.** Liveness (`BuildReturns`, `ImportsEnd`) is out of the
prover's reach. `SidesNamed` is not proved: `Trace` tells what a walk would fill in given the marks there
are, and a side that has been replaced by a table is a mark it leaves alone. What is proved of sides is
the contract: the table's rows come from that side. The invariants of `ExprBuilder` (`AllNormal`, `MeaningKept`, `RegroupingsCollapse`) and
`Analysis` (`RenamesReferences`, `RenameMovesTable`, `ModesAgree`, `TimesComplete`) rest on RECURSIVE
operators or on folds that take an operator, about which nothing can be proved here: what they
compute is known only by induction over expressions and over texts.

## 5. What is not modelled

- What pythonnet and the .NET assembly do. Syntax trees are inputs, restricted to what
  the parser hands over without a syntax error.
- `_visit_operator`'s fields that are not pipelines, and expressions that are passed through
  (paths, elements, dynamic literals, graph patterns): a row of one-to-one conversions.
- Structural hashes, spans and diagnostics; `get_operator_chain`, `get_operator_stats` and
  `node_to_dict`, which list, count or print one walk.
- The services and `KustoQuery` but for the questions asked of one parse: each is one call of the
  .NET library. The command line, which reads, calls and prints. The conversion of a schema
  into the library's objects.
- Corpus extraction: one-off scripts over files and a random seed. Of the corpus audits: how schemas are
  found, cloning, counts by kind, `--soft`.
- Values that pydantic would convert from one primitive type to another: a field is read from the
  forms its annotation names. NaN, which equals nothing, is not among the values.
- File descriptors and partial writes within one `write_text`: a file is empty, torn or
  whole.
- Two refreshes, or two audits, at once: a maintainer runs the script by hand, or one job of the
  CI does.

## 6. Plan

Done so far: every component in which state, order or failure can go wrong has a module.
All safety properties of the scripts, of the import, of the kind audit, of merging, of
building pipelines, of serialization and of the corpus audits are proved, and those of enrichment on
queries with `IsQuery`. What is left, in this order:

1. Analysis: `RenamesReferences`, `RenameMovesTable`, `ModesAgree`, `TimesComplete` over
   positions of references rather than folds.
2. `SidesNamed`, from a trace that also knows the marks an operator found when it was first walked;
   enrichment proved on what the builder hands over rather than under `IsQuery`.
3. The rest of `_visit_operator`'s fields, as far as the enricher reads them.
4. *Cli*: exit codes over streams and missing files.
