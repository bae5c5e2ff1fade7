---------------------------- MODULE MCExprBuilder ----------------------------
(***************************************************************************)
(* Conditions for TLC: boolean columns and comparisons of a text column,   *)
(* under two levels of connectives, negations and parentheses, and paired  *)
(* with their regroupings.                                                 *)
(***************************************************************************)
EXTENDS ExprBuilderProps

Item(kind, name, parts) == <<[kind |-> kind, name |-> name, parts |-> parts]>>
Name(c) == Item("name", c, 0)
Text(s) == Item("literal", s, 0)
Binary(l, op, r) == l \o r \o Item("binary", op, 2)
CallOf(f, args) == FlattenSeq(args) \o Item("call", f, Len(args))
In(op, l, values) == l \o FlattenSeq(values) \o Item("in", op, 1 + Len(values))
Between(op, e, l, h) == e \o l \o h \o Item("between", op, 3)
Paren(e) == e \o Item("paren", "paren", 1)
Not(e) == CallOf("not", <<e>>)

X == Name("X")
Lower(e) == CallOf("tolower", <<e>>)

Flags == {Name("p"), Name("q"), Name("r")}
Tests ==
  {Binary(X, op, Text("A")) : op \in {"==", "!=", "=~", "has"}}
  \cup {Binary(Lower(X), op, Text(s)) : op \in {"==", "!=", "has"}, s \in {"a", "A"}}
  \cup {Binary(Lower(Lower(X)), "==", Text("a")), CallOf("isnotnull", <<X>>)}
  \cup {In(op, X, <<Text("A"), Text("ab")>>) : op \in {"in", "!in", "in~", "!in~", "has_any"}}
  \cup {Between(op, X, Text("A"), Text("a")) : op \in {"between", "!between"}}

Connected(S, T) ==
  {Binary(l, op, r) : l \in S, op \in {"and", "or"}, r \in T}

Groups == Connected({Name("p"), Not(Name("q"))}, {Name("q"), Binary(X, "has", Text("a"))})
Mixed == Groups \cup {Not(g) : g \in Groups} \cup {Paren(g) : g \in Groups} \cup Tests
           \cup {Not(Not(g)) : g \in Groups} \cup {Not(Paren(Not(g))) : g \in Groups}
           \cup {CallOf("iif", <<Name("p"), g, Name("r")>>) : g \in Groups}
           \cup {CallOf("case", <<g, Not(g), Name("p"), Not(Not(Name("q"))), Name("r")>>) : g \in Groups}

Single(e) == [trees |-> <<e>>, regrouped |-> FALSE]
Regrouped(e, f) == [trees |-> <<e, f>>, regrouped |-> TRUE]

\* Both operands of the outer connective may be of its kind, of the other kind,
\* negated or in parentheses.
Either == {Not(Not(Binary(Name("p"), op, Name("q")))) : op \in {"and", "or"}}
            \cup {Paren(Binary(Name("q"), op, Name("r"))) : op \in {"and", "or"}}
            \cup {Binary(Lower(X), "!=", Text("a")), In("!in", X, <<Text("ab"), Text("A")>>)}

MCInputs ==
  {Single(e) : e \in Mixed \cup Connected(Mixed, Either)}
  \cup {Regrouped(Binary(l, op, r), Binary(r, op, l)) :
          l \in Mixed, op \in {"and", "or"}, r \in Either}
  \cup {Regrouped(Binary(l, op, Binary(m, op, r)), Binary(Binary(r, op, l), op, Paren(m))) :
          l \in Groups, op \in {"and", "or"}, m \in Flags, r \in Either}
  \cup {Single(e) : e \in Connected(Flags, Connected({Name("q")}, Flags))
                            \cup Connected(Connected({Name("p")}, {Name("q")}), Flags)}
=============================================================================
