--------------------------- MODULE ExprBuilderProps ---------------------------
(***************************************************************************)
(* Conditions mean what their text means, and have one shape and one       *)
(* canonical form for all regroupings.                                     *)
(***************************************************************************)
EXTENDS ExprBuilder

Arity(form) ==
  CASE form \in {"column", "literal"} -> {0}
    [] form = "compare"               -> {2}
    [] form \in {"and", "or"}         -> 2 .. 9
    [] form \in {"not", "exists"}     -> {1}
    [] form = "call"                  -> {0, 1}
    [] form = "member"                -> {2, 3}
    [] form = "between"               -> {3}
    [] form = "case"                  -> {3, 5}

RECURSIVE WellFormed(_)
WellFormed(e) ==
  /\ Len(e.args) \in Arity(e.form)
  /\ e.exact \in BOOLEAN /\ e.holds \in BOOLEAN
  /\ \A k \in DOMAIN e.args : WellFormed(e.args[k])

RECURSIVE Normal(_)
Normal(e) ==
  /\ Normalized(e) = e
  /\ \A k \in DOMAIN e.args :
       e.form \in {"and", "or"} => e.args[k].form # e.form
  /\ \A k \in DOMAIN e.args : Normal(e.args[k])

\* normalize_in_place looks one level down, and is called once for each node of
\* the text; yet every result is a node with the parts its form has, and has at
\* no depth a node that would be changed again.
AllNormal ==
  \A e \in Range(results) \cup Range(built) : WellFormed(e) /\ Normal(e)

-----------------------------------------------------------------------------
(* What a condition means in a row: the language's own semantics of the    *)
(* operators, and the same operators read off the IR.                      *)

Texts == {"a", "A", "ab"}   \* "ab" has the word a and another one
Rows == [X : Texts, p : BOOLEAN, q : BOOLEAN, r : BOOLEAN]

Lowered(s) == IF s = "A" THEN "a" ELSE s
HasWord(s, w) == Lowered(s) = Lowered(w) \/ (s = "ab" /\ Lowered(w) = "a")

Compared(op, v, w) ==
  CASE op = "=="  -> v = w
    [] op = "!="  -> v # w
    [] op = "=~"  -> Lowered(v) = Lowered(w)
    [] op = "!~"  -> Lowered(v) # Lowered(w)
    [] op = "has" -> HasWord(v, w)

Within(v, low, high) == Rank(low) <= Rank(v) /\ Rank(v) <= Rank(high)

Chosen(values) ==  \* of branches: conditions, each with its value, and a default
  LET hits == {k \in 1 .. Len(values) \div 2 : values[2 * k - 1]} IN
  IF hits = {} THEN Last(values) ELSE values[2 * Min(hits)]

InText(n, row, values) ==
  CASE n.kind = "name"    -> row[n.name]
    [] n.kind = "literal" -> n.name
    [] n.kind = "paren"   -> values[1]
    [] n.kind = "binary" /\ n.name = "and" -> values[1] /\ values[2]
    [] n.kind = "binary" /\ n.name = "or"  -> values[1] \/ values[2]
    [] n.kind = "binary"  -> Compared(n.name, values[1], values[2])
    [] n.kind = "in"      ->
         LET hit == \E k \in 2 .. Len(values) :
                      CASE n.name \in {"in", "!in"}   -> values[1] = values[k]
                        [] n.name \in {"in~", "!in~"} -> Lowered(values[1]) = Lowered(values[k])
                        [] n.name = "has_any"         -> HasWord(values[1], values[k])
         IN hit = (n.name \in Positive)
    [] n.kind = "between" ->
         Within(values[1], values[2], values[3]) = (n.name \in Positive)
    [] n.kind = "call" /\ n.name = "not"       -> ~values[1]
    [] n.kind = "call" /\ n.name \in {"iif", "case"} -> Chosen(values)
    [] n.kind = "call" /\ n.name = "isnotnull" -> TRUE
    [] n.kind = "call" /\ n.name = "tolower"   -> Lowered(values[1])

Meaning(tree, row) ==
  LET step(values, n) ==
        LET rest == Len(values) - n.parts IN
        Append(SubSeq(values, 1, rest),
               InText(n, row, SubSeq(values, rest + 1, Len(values))))
  IN Last(FoldLeft(step, << >>, tree))

RECURSIVE Value(_, _)
Value(e, row) ==
  LET values == [k \in DOMAIN e.args |-> Value(e.args[k], row)] IN
  CASE e.form = "column"  -> row[e.name]
    [] e.form = "literal" -> e.name
    [] e.form = "compare" -> Compared(e.name, values[1], values[2])
    [] e.form = "and"     -> \A k \in DOMAIN values : values[k]
    [] e.form = "or"      -> \E k \in DOMAIN values : values[k]
    [] e.form = "not"     -> ~values[1]
    [] e.form = "exists"  -> TRUE
    [] e.form = "call"    -> Lowered(values[1])
    [] e.form = "member"  ->
         LET hit == \E k \in 2 .. Len(values) :
                      IF e.exact THEN values[1] = values[k]
                      ELSE Lowered(values[1]) = Lowered(values[k])
         IN hit = e.holds
    [] e.form = "between" -> Within(values[1], values[2], values[3]) = e.holds
    [] e.form = "case"    -> Chosen(values)

Names(tree) == {tree[k].name : k \in DOMAIN tree}
Means(k) == [row \in Rows |-> Meaning(input.trees[k], row)]

\* tolower() is compared with a text that is not lower case.
ComparesCase(tree) == {"tolower", "A"} \subseteq Names(tree)
ExactLists == {"in", "!in", "has_any"}

\* Whatever is rewritten, unfolded and taken out of parentheses, a finished
\* condition holds in the rows its text holds in; tests of membership in
\* exact lists apart, of which the IR keeps too little, and of tolower() compared
\* with a text in upper case, which becomes a comparison that ignores case.
MeaningKept ==
  \A k \in DOMAIN built :
    (~ComparesCase(input.trees[k]) /\ Names(input.trees[k]) \cap ExactLists = {})
      => \A row \in Rows : Value(built[k], row) = Means(k)[row]

\* Conditions that differ in the order of the operands of and and or, in how
\* these are grouped, and in parentheses have the same canonical form.
RegroupingsCollapse ==
  (input.regrouped /\ Len(built) = 2) => Canonical(built[1]) = Canonical(built[2])

=============================================================================
