----------------------------- MODULE SyntaxTree -----------------------------
(***************************************************************************)
(* What utils/analysis.py sees of a parsed query: the .NET syntax tree,    *)
(* its text, and the symbols the binder gave its names.  All of it belongs *)
(* to Microsoft's parser and is modelled from how analysis.py uses it.     *)
(*                                                                         *)
(* A query is its nodes, numbered in the order of a depth-first walk, and  *)
(* its words.  A node knows its kind, its children, its parent (0 at the   *)
(* root), the words it spans and, if it is a name, the place it stands in. *)
(* A text is its characters; a character is a word's name and a position   *)
(* in the word, and one space stands between two words.                    *)
(***************************************************************************)
EXTENDS Integers, SequencesExt

CONSTANTS
  Units,     \* the width of every word in .NET, in UTF-16 code units
  Points,    \* its width in Python, in code points
  Tables,    \* the tables of the schema
  Columns    \* the columns they have

NoNode == 0

\* Where a name stands: where rows come from; as an argument that takes rows;
\* in an expression; as the function that is called; behind a dot.
Places == {"row", "argument", "value", "callee", "member", "other"}

IsQueryText(q) ==
  /\ q.word \in Seq(DOMAIN Units) /\ q.word # << >>
  /\ \A n \in DOMAIN q.node :
       LET m == q.node[n] IN
       /\ m.place \in Places
       /\ 1 <= m.first /\ m.first <= m.last /\ m.last <= Len(q.word)
       /\ \A i \in DOMAIN m.kids :
            m.kids[i] \in DOMAIN q.node /\ m.kids[i] > n
              /\ q.node[m.kids[i]].parent = n

Kind(q, n) == q.node[n].kind
Kids(q, n) == q.node[n].kids

\* GetChild(i), which counts from 0 and is None beyond the last.
Child(q, n, i) == IF i < Len(Kids(q, n)) THEN Kids(q, n)[i + 1] ELSE NoNode

\* The property Expression of a join, lookup or facet operator: what stands
\* behind the keyword.
Expression(q, n) == Child(q, n, 1)

Name(q, n) == q.word[q.node[n].first]

(***************************************************************************)
(* Offsets, as .NET counts them.                                           *)
(***************************************************************************)
WordStart(words, k) ==
  LET start[j \in 1 .. k] ==
        IF j = 1 THEN 0 ELSE start[j - 1] + Units[words[j - 1]] + 1
  IN start[k]

TextStart(q, n) == WordStart(q.word, q.node[n].first)
Width(q, n) ==
  LET last == q.node[n].last
  IN WordStart(q.word, last) + Units[q.word[last]] - TextStart(q, n)

Span(q, n) == [start |-> TextStart(q, n), width |-> Width(q, n)]

(***************************************************************************)
(* The text as a Python string, and how the parser cuts one into words.    *)
(***************************************************************************)
Space == <<" ", 0>>
SpellWord(w) == [i \in 1 .. Points[w] |-> <<w, i>>]
Spell(words) ==
  FlattenSeq([k \in DOMAIN words |->
                IF k = 1 THEN SpellWord(words[k])
                         ELSE <<Space>> \o SpellWord(words[k])])

Words(text) ==
  LET heads == SelectSeq(text, LAMBDA c : c[2] = 1)
  IN [k \in DOMAIN heads |-> heads[k][1]]
IsSpelled(text) == text = Spell(Words(text))

(***************************************************************************)
(* The binder.  A let name is in scope behind the statement that binds it. *)
(***************************************************************************)
Lets(q) == {n \in DOMAIN q.node : Kind(q, n) = "LetStatement"}
LetName(q, s) == Name(q, Child(q, s, 1))
LetNames(q) == {LetName(q, s) : s \in Lets(q)}
InScope(q, n) ==
  {LetName(q, s) : s \in {s \in Lets(q) : q.node[s].last < q.node[n].first}}

ReferencedSymbol(q, n) ==
  LET name == Name(q, n)
      place == q.node[n].place
  IN CASE place = "callee" -> "function"
       [] place = "value" /\ name \in Columns -> "column"
       [] place \in {"row", "argument", "value"} /\ name \in InScope(q, n)
            -> "variable"
       [] place \in {"row", "argument", "value"} /\ name \in Tables \ InScope(q, n)
            -> "table"
       [] OTHER -> "none"
=============================================================================
