------------------------------ MODULE Analysis ------------------------------
(***************************************************************************)
(* utils/analysis.py and utils/walker.py: what a caller asks of one parsed *)
(* query.  Each question is one walk over the tree, or two, node by node,  *)
(* with what pre_visit() collects; replace_table() goes on to edit the     *)
(* text, one reference at a time, and its caller may parse the outcome and *)
(* ask again.                                                              *)
(***************************************************************************)
EXTENDS SyntaxTree, TLC

CONSTANTS
  Queries,     \* the queries a caller may begin with
  Jobs,        \* the questions asked of them
  TimeFuncs,   \* _TIME_FUNCS
  Macros,      \* the words that begin with a dollar sign
  MaxRenames   \* bound: how often a text is edited and parsed again

Questions == {"replace", "columns", "times"}
NoJob == [ask |-> "none"]
IsJob(j) == /\ j.ask \in Questions /\ j.semantic \in BOOLEAN
            /\ {j.old, j.new} \subseteq DOMAIN Units

ASSUME MacrosAssumption == Macros \subseteq DOMAIN Units \ (Tables \cup Columns)
ASSUME QueriesAssumption == \A q \in Queries : IsQueryText(q)
ASSUME JobsAssumption == \A j \in Jobs : IsJob(j)

VARIABLES
  query,     \* the KustoCode
  job,       \* the question being answered
  pc,        \* "idle", "walk", "again" (the second walk), "select", "edit", "done"
  at,        \* the node the walk is at
  letVars,   \* names bound by let that the walk met
  found,     \* the nodes reported so far, in order
  names,     \* column names collected
  edits,     \* replacements still to be made, in order
  text,      \* the text being edited
  past       \* history: the renames done, with the words before each

vars == <<query, job, pc, at, letVars, found, names, edits, text, past>>

Nodes == DOMAIN query.node

Init ==
  /\ query \in Queries /\ job = NoJob
  /\ pc = "idle" /\ at = 1 /\ letVars = {} /\ found = << >> /\ names = {}
  /\ edits = << >> /\ text = << >> /\ past = << >>

Call(j) ==
  /\ pc = "idle" /\ Len(past) < MaxRenames
  /\ job' = j /\ pc' = "walk" /\ at' = 1
  /\ letVars' = {} /\ found' = << >> /\ names' = {} /\ edits' = << >>
  /\ text' = << >> /\ UNCHANGED <<query, past>>

(***************************************************************************)
(* Which names stand where a table may stand.                              *)
(***************************************************************************)
Noise == {"List", "SeparatedElement"}

\* Slip: parentheses are not looked into (ModesAgree).
UnwrapKeepsParens(q) ==
  LET names_[n \in DOMAIN q.node] ==
        CASE Kind(q, n) = "NameReference" -> <<n>>
          [] Kind(q, n) \in Noise ->
               FlattenSeq([i \in DOMAIN Kids(q, n) |-> names_[Kids(q, n)[i]]])
          [] Kind(q, n) = "PipeExpression" -> names_[Child(q, n, 0)]
          [] Kind(q, n) = "PathExpression" -> names_[Child(q, n, 2)]
          [] OTHER -> << >>
  IN names_

\* _unwrap_table_expr(), of every node.
Unwrap(q) ==
  LET names_[n \in DOMAIN q.node] ==
        CASE Kind(q, n) = "NameReference" -> <<n>>
          [] Kind(q, n) \in Noise \cup {"ParenthesizedExpression"} ->
               FlattenSeq([i \in DOMAIN Kids(q, n) |-> names_[Kids(q, n)[i]]])
          [] Kind(q, n) = "PipeExpression" -> names_[Child(q, n, 0)]
          [] Kind(q, n) = "PathExpression" -> names_[Child(q, n, 2)]
          [] OTHER -> << >>
  IN names_

UnwrapAt(q, n) == IF n = NoNode THEN << >> ELSE Unwrap(q)[n]

\* pre_visit() of _collect_table_refs.
TableNamesAt(q, n) ==
  CASE Kind(q, n) = "LetStatement" -> UnwrapAt(q, Child(q, n, 3))
    [] Kind(q, n) \in {"PipeExpression", "ExpressionStatement"} ->
         UnwrapAt(q, Child(q, n, 0))
    [] Kind(q, n) \in {"JoinOperator", "LookupOperator", "FacetOperator"} ->
         UnwrapAt(q, Expression(q, n))
    [] Kind(q, n) = "UnionOperator" ->
         FlattenSeq([i \in DOMAIN Kids(q, n) |-> UnwrapAt(q, Kids(q, n)[i])])
    [] OTHER -> << >>

\* Its end: names bound by let are no tables.
WithoutLets(refs) == SelectSeq(refs, LAMBDA n : Name(query, n) \notin letVars)

IsCallee(q, n) ==
  LET p == q.node[n].parent
  IN /\ p # NoNode /\ Kind(q, p) = "FunctionCallExpression"
     /\ Child(q, p, 0) # NoNode /\ Span(q, Child(q, p, 0)) = Span(q, n)

(***************************************************************************)
(* The walks, one pre_visit() per step.                                    *)
(***************************************************************************)
Step == at' = at + 1
InWalk(questions) == pc = "walk" /\ at \in Nodes /\ job.ask \in questions

\* Syntactic mode, of tables and as the first walk for columns.
VisitTables ==
  /\ InWalk({"replace", "columns"}) /\ ~job.semantic
  /\ found' = found \o TableNamesAt(query, at)
  /\ letVars' = letVars \cup
       (IF Kind(query, at) = "LetStatement" THEN {LetName(query, at)} ELSE {})
  /\ Step /\ UNCHANGED <<query, job, pc, names, edits, text, past>>

\* Slip: the places of the syntactic mode are searched here, too
\* (RenameMovesTable).
VisitTablePlaces ==
  /\ InWalk({"replace"}) /\ job.semantic
  /\ found' = found \o TableNamesAt(query, at)
  /\ Step /\ UNCHANGED <<query, job, pc, letVars, names, edits, text, past>>

\* Semantic mode, of tables.
VisitTableSymbols ==
  /\ InWalk({"replace"}) /\ job.semantic
  /\ found' = IF /\ Kind(query, at) = "NameReference"
                 /\ ReferencedSymbol(query, at) = "table"
              THEN Append(found, at) ELSE found
  /\ Step /\ UNCHANGED <<query, job, pc, letVars, names, edits, text, past>>

\* Semantic mode, of columns.
VisitColumnSymbols ==
  /\ InWalk({"columns"}) /\ job.semantic
  /\ names' = names \cup
       (IF /\ Kind(query, at) = "NameReference"
           /\ ReferencedSymbol(query, at) = "column"
        THEN {Name(query, at)} ELSE {})
  /\ Step /\ UNCHANGED <<query, job, pc, letVars, found, edits, text, past>>

\* FnPass of get_time_range.
VisitTimeCalls ==
  /\ InWalk({"times"})
  /\ found' = IF /\ Kind(query, at) = "FunctionCallExpression"
                 /\ Child(query, at, 0) # NoNode
                 /\ Name(query, Child(query, at, 0)) \in TimeFuncs
              THEN Append(found, at) ELSE found
  /\ Step /\ UNCHANGED <<query, job, pc, letVars, names, edits, text, past>>

WalkEnds ==
  /\ pc = "walk" /\ at \notin Nodes
  /\ pc' = CASE job.ask = "replace" -> "select"
             [] job.ask = "columns" /\ job.semantic -> "done"
             [] OTHER -> "again"
  /\ at' = 1
  /\ found' = IF job.semantic \/ job.ask = "times" THEN found
              ELSE WithoutLets(found)
  /\ UNCHANGED <<query, job, letVars, names, edits, text, past>>

Again(question) == pc = "again" /\ at \in Nodes /\ job.ask = question

\* ColumnExtractor.
VisitColumns ==
  /\ Again("columns")
  /\ LET name == Name(query, at)
         tables == {Name(query, n) : n \in ToSet(found)}
     IN names' = names \cup
          (IF /\ Kind(query, at) = "NameReference" /\ ~IsCallee(query, at)
              /\ name \notin tables \cup letVars \cup Macros
           THEN {name} ELSE {})
  /\ Step /\ UNCHANGED <<query, job, pc, letVars, found, edits, text, past>>

TimeLiterals == {"DateTimeLiteralExpression", "TimespanLiteralExpression"}

\* Slip: a literal counts as covered if it begins before the call's end
\* (TimesComplete).
BeginsBeforeCallEnds(n) ==
  \E i \in DOMAIN found :
    /\ Kind(query, found[i]) = "FunctionCallExpression"
    /\ TextStart(query, n) <= TextStart(query, found[i]) + Width(query, found[i])

\* _within_function
WithinFunction(n) ==
  \E i \in DOMAIN found :
    LET fs == TextStart(query, found[i])
    IN /\ Kind(query, found[i]) = "FunctionCallExpression"
       /\ fs <= TextStart(query, n)
       /\ TextStart(query, n) + Width(query, n) <= fs + Width(query, found[i])

\* LiteralPass
VisitLiterals ==
  /\ Again("times")
  /\ found' = IF Kind(query, at) \in TimeLiterals /\ ~WithinFunction(at)
              THEN Append(found, at) ELSE found
  /\ Step /\ UNCHANGED <<query, job, pc, letVars, names, edits, text, past>>

\* The first node of each span.
FirstOfSpans(q, refs) ==
  FoldLeft(LAMBDA kept, n : IF \E i \in DOMAIN kept : Span(q, kept[i]) = Span(q, n)
                            THEN kept ELSE Append(kept, n),
           << >>, refs)

\* The end of get_time_range.
InSourceOrder(q, refs) ==
  SortSeq(FirstOfSpans(q, refs), LAMBDA a, b : TextStart(q, a) < TextStart(q, b))

AgainEnds ==
  /\ pc = "again" /\ at \notin Nodes
  /\ pc' = "done"
  /\ found' = IF job.ask = "times" THEN InSourceOrder(query, found) ELSE found
  /\ UNCHANGED <<query, job, at, letVars, names, edits, text, past>>

(***************************************************************************)
(* replace_table                                                           *)
(***************************************************************************)
\* Slip: edits go from left to right (RenamesReferences).
LeftToRight(q, refs) ==
  LET once == FirstOfSpans(q, refs)
  IN SortSeq([i \in DOMAIN once |-> Span(q, once[i])],
             LAMBDA a, b : a.start < b.start)

Replacements(q, refs) ==
  LET once == FirstOfSpans(q, refs)
  IN SortSeq([i \in DOMAIN once |-> Span(q, once[i])],
             LAMBDA a, b : a.start > b.start)

SelectReferences ==
  /\ pc = "select"
  /\ edits' = Replacements(query,
                SelectSeq(found, LAMBDA n : Name(query, n) = job.old))
  /\ text' = Spell(query.word)
  /\ pc' = "edit"
  /\ UNCHANGED <<query, job, at, letVars, found, names, past>>

\* s[a:b]: a slice beyond the end is cut short.
Slice(s, a, b) == SubSeq(s, a + 1, IF b > Len(s) THEN Len(s) ELSE b)

Edit ==
  /\ pc = "edit" /\ edits # << >>
  /\ LET e == Head(edits)
     IN text' = Slice(text, 0, e.start) \o SpellWord(job.new)
                  \o Slice(text, e.start + e.width, Len(text))
  /\ edits' = Tail(edits)
  /\ UNCHANGED <<query, job, pc, at, letVars, found, names, past>>

EditsEnd ==
  /\ pc = "edit" /\ edits = << >>
  /\ pc' = "done"
  /\ UNCHANGED <<query, job, at, letVars, found, names, edits, text, past>>

(***************************************************************************)
(* The caller takes the answer.  A new text it parses again, if it is one. *)
(***************************************************************************)
Forget == /\ job' = NoJob /\ at' = 1 /\ letVars' = {} /\ found' = << >>
          /\ names' = {} /\ text' = << >>

TakeAnswer ==
  /\ pc = "done" /\ job.ask # "replace"
  /\ pc' = "idle" /\ Forget /\ UNCHANGED <<query, edits, past>>

ParseAgain ==
  /\ pc = "done" /\ job.ask = "replace"
  /\ IsSpelled(text) /\ Len(Words(text)) = Len(query.word)
  /\ query' = [query EXCEPT !.word = Words(text)]
  /\ past' = Append(past, [job |-> job, word |-> query.word])
  /\ pc' = "idle" /\ Forget /\ UNCHANGED edits

Next ==
  \/ \E j \in Jobs : Call(j)
  \/ VisitTables \/ VisitTableSymbols \/ VisitColumnSymbols \/ VisitTimeCalls
  \/ WalkEnds \/ VisitColumns \/ VisitLiterals \/ AgainEnds
  \/ SelectReferences \/ Edit \/ EditsEnd
  \/ TakeAnswer \/ ParseAgain

Spec == Init /\ [][Next]_vars
=============================================================================
