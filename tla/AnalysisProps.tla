---------------------------- MODULE AnalysisProps ----------------------------
(***************************************************************************)
(* What the analysis of a query owes its caller.                           *)
(***************************************************************************)
EXTENDS Analysis

NameReferences(q) == {n \in DOMAIN q.node : Kind(q, n) = "NameReference"}
IsTableIn(q, n) == ReferencedSymbol(q, n) = "table"

\* m stands above n in the tree.
Above(q, m, n) ==
  m < n /\ q.node[m].first <= q.node[n].first /\ q.node[n].last <= q.node[m].last

\* A member of a let's value, let v = d.T, which the syntactic mode takes for
\* a table of another database.
HasMember(q) == \E n \in DOMAIN q.node : q.node[n].place = "member"

(***************************************************************************)
(* Editing.  Offsets are .NET's; they index a Python string rightly as     *)
(* long as nothing before the reference is wider in .NET.                  *)
(***************************************************************************)
OffsetsAgree(q, name) ==
  \A n \in NameReferences(q) : Name(q, n) = name =>
    \A k \in 1 .. q.node[n].first : Units[q.word[k]] = Points[q.word[k]]

\* The references replace_table() is to rename: in semantic mode all names the
\* binder resolved to that table, in syntactic mode the names rows come from,
\* unless a let binds the name somewhere.
ToRename(q, j) ==
  {n \in NameReferences(q) :
     /\ Name(q, n) = j.old
     /\ IF j.semantic THEN IsTableIn(q, n)
        ELSE q.node[n].place = "row" /\ j.old \notin LetNames(q)}

\* The text replace_table() returns has the new name at all and only the
\* references, each once, and is otherwise the old text.
RenamesReferences ==
  pc = "done" /\ job.ask = "replace" /\ OffsetsAgree(query, job.old)
      /\ (job.semantic \/ ~HasMember(query)) =>
    text = Spell([k \in DOMAIN query.word |->
                    IF \E n \in ToRename(query, job) : query.node[n].first = k
                    THEN job.new ELSE query.word[k]])

TablesOf(q) == {Name(q, n) : n \in {m \in NameReferences(q) : IsTableIn(q, m)}}

\* A query renamed in semantic mode and parsed again reads the tables it read
\* before, with the new one in the old one's place: no reference is left behind
\* and none is captured, provided the new name is a table of the schema and
\* neither a column's name nor one the query binds by let.
RenameMovesTable ==
  past # << >> =>
    LET p == Last(past)
        j == p.job
    IN j.semantic /\ j.new \in Tables \ (Columns \cup LetNames(query)) =>
       TablesOf(query) = {IF t = j.old THEN j.new ELSE t :
                            t \in TablesOf([query EXCEPT !.word = p.word])}

(***************************************************************************)
(* Reading.                                                                *)
(***************************************************************************)
\* The names in the schema that the syntactic walk finds are exactly those the
\* binder takes for tables, where rows come from and no let binds the name in
\* the text (analysis.py:97-143 against :146-164).
TablesAgree ==
  pc = "select" /\ ~job.semantic /\ ~HasMember(query) =>
    {n \in ToSet(found) : Name(query, n) \in Tables} =
      {n \in NameReferences(query) :
         /\ IsTableIn(query, n) /\ query.node[n].place = "row"
         /\ Name(query, n) \notin LetNames(query)}

\* Without the binder the same columns are reported as with it, unless a name
\* is a table's or a let's as well, or is none the binder knows; $left and $right
\* are reported in neither mode (analysis.py:226-276).
ColumnsAgree ==
  pc = "done" /\ job.ask = "columns" /\ ~job.semantic =>
    LET is(symbols) == {Name(query, n) : n \in
          {m \in NameReferences(query) : ReferencedSymbol(query, m) \in symbols}}
        columns == is({"column"})
        other == is({"table", "variable", "none"}) \ Macros
    IN names \ other = columns \ (other \cup LetNames(query))

\* A query has the same tables and columns in both modes, but for names that the
\* schema does not know and names that are used for two things.
ModesAgree == TablesAgree /\ ColumnsAgree

\* get_time_range reports, in the order of the text, each call of a time function
\* and each literal that stands in none, and every one of them once.
TimesComplete ==
  pc = "done" /\ job.ask = "times" =>
    LET calls == {n \in DOMAIN query.node :
                    /\ Kind(query, n) = "FunctionCallExpression"
                    /\ Name(query, Child(query, n, 0)) \in TimeFuncs}
        literals == {n \in DOMAIN query.node : Kind(query, n) \in TimeLiterals}
    IN /\ ToSet(found) =
            calls \cup {n \in literals : \A c \in calls : ~Above(query, c, n)}
       /\ \A i \in 1 .. Len(found) - 1 :
            TextStart(query, found[i]) < TextStart(query, found[i + 1])

=============================================================================
