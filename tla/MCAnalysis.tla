----------------------------- MODULE MCAnalysis -----------------------------
(***************************************************************************)
(* Queries for TLC, as the parser builds them: tables in every place they  *)
(* can stand in, names bound by let that are also tables, time calls       *)
(* in time calls, literals before and behind them, and a character that    *)
(* is two code units in .NET before, between and behind references.        *)
(***************************************************************************)
EXTENDS AnalysisProps

Tok == "tok"
Wide == "wide"
MCPoints == [w \in {Tok, Wide, "A", "v", "x", "y", "5"} |-> 1]
            @@ [w \in {"$left", "$right"} |-> IF w = "$left" THEN 5 ELSE 6]
            @@ [w \in {"BB", "1h"} |-> 2] @@ [w \in {"Zed", "ago", "bin", "len"} |-> 3]
MCUnits == [MCPoints EXCEPT ![Wide] = 2]
MCTables == {"A", "BB", "Zed"}
MCColumns == {"x", "y", "BB"}
MCTimeFuncs == {"ago", "bin"}
MCMacros == {"$left", "$right"}

(***************************************************************************)
(* Trees before their nodes are numbered.                                  *)
(***************************************************************************)
Leaf(kind, w, place) == [kind |-> kind, kids |-> << >>, word |-> w, place |-> place]
Branch(kind, kids) == [kind |-> kind, kids |-> kids, word |-> Tok, place |-> "other"]
T == Leaf("Token", Tok, "other")
Ref(w, place) == Leaf("NameReference", w, place)
Row(w) == Ref(w, "row")
Value(w) == Ref(w, "value")
Decl(w) == Leaf("NameDeclaration", w, "other")
Span1h == Leaf("TimespanLiteralExpression", "1h", "other")
Five == Leaf("LongLiteralExpression", "5", "other")
Face == Leaf("StringLiteralExpression", Wide, "other")

List(ts) == Branch("List", [i \in DOMAIN ts |-> Branch("SeparatedElement", <<ts[i], T>>)])
Paren(t) == Branch("ParenthesizedExpression", <<T, t, T>>)
Pipe(t, op) == Branch("PipeExpression", <<t, T, op>>)
Equal(t, u) == Branch("EqualExpression", <<t, T, u>>)
CallOf(f, ts) == Branch("FunctionCallExpression",
                   <<Ref(f, "callee"), Branch("ExpressionList", <<T, List(ts), T>>)>>)
Path(t, u) == Branch("PathExpression", <<t, T, u>>)
Where(t) == Branch("FilterOperator", <<T, t>>)
Count == Branch("CountOperator", <<T>>)
Join(t) == Branch("JoinOperator", <<T, t, T, List(<<Value("x")>>)>>)
JoinSides(t) ==
  Branch("JoinOperator",
    <<T, t, T, List(<<Equal(Path(Value("$left"), Value("x")), Path(Value("$right"), Value("y")))>>)>>)
Lookup(t) == Branch("LookupOperator", <<T, t, T, List(<<Value("x")>>)>>)
Facet(t) == Branch("FacetOperator", <<T, t>>)
Union(ts) == Branch("UnionOperator", <<T, List(ts)>>)
Let(w, t) == Branch("LetStatement", <<T, Decl(w), T, t>>)
Main(t) == Branch("ExpressionStatement", <<t>>)
Block(ts) == Branch("QueryBlock", <<List(ts)>>)

RECURSIVE NodesIn(_)
NodesIn(t) == 1 + FoldLeft(LAMBDA n, k : n + NodesIn(k), 0, t.kids)
RECURSIVE WordsOf(_)
WordsOf(t) == IF t.kids = << >> THEN <<t.word>>
              ELSE FlattenSeq([i \in DOMAIN t.kids |-> WordsOf(t.kids[i])])

\* The nodes of t, whose first has number n and whose first word number w.
RECURSIVE Numbered(_, _, _, _)
Numbered(t, n, w, parent) ==
  LET sofar(i) == SubSeq(t.kids, 1, i - 1)
      kid(i) == n + 1 + FoldLeft(LAMBDA s, k : s + NodesIn(k), 0, sofar(i))
      word(i) == w + FoldLeft(LAMBDA s, k : s + Len(WordsOf(k)), 0, sofar(i))
  IN <<[kind |-> t.kind, place |-> t.place, parent |-> parent,
        kids |-> [i \in DOMAIN t.kids |-> kid(i)],
        first |-> w, last |-> w + Len(WordsOf(t)) - 1]>>
     \o FlattenSeq([i \in DOMAIN t.kids |-> Numbered(t.kids[i], kid(i), word(i), n)])

Parsed(statements) ==
  LET t == Block(statements)
  IN [node |-> Numbered(t, 1, 1, NoNode), word |-> WordsOf(t)]

(***************************************************************************)
(* The catalogue.                                                          *)
(***************************************************************************)
Ago == CallOf("ago", <<Span1h>>)
Bin == CallOf("bin", <<Ago, Span1h>>)
Sub == Paren(Pipe(Row("A"), Where(Equal(Value("x"), Five))))
Elsewhere == Path(CallOf("len", <<Five>>), Row("A"))

Starts == {Row("A"), Paren(Row("BB")), Paren(Paren(Pipe(Row("A"), Count))), Elsewhere,
           Union(<<Row("A"), Row("BB")>>)}
Ops == {Count, Join(Row("A")), JoinSides(Row("A")), Join(Sub), Lookup(Paren(Row("BB"))), Facet(Paren(Row("A"))),
        Union(<<Sub, Elsewhere, Row("A")>>), Where(Equal(CallOf("len", <<Value("BB")>>), Five)),
        Where(Equal(Span1h, Bin)), Where(Equal(Value("x"), Face)),
        Where(Equal(Value("x"), Ref("A", "argument")))}
Few == {Where(Equal(Value("y"), Face)), Join(Sub), Where(Equal(Bin, Span1h))}
LetSides == {Row("A"), Sub, Five, Span1h, Face, Pipe(Elsewhere, Count),
             CallOf("len", <<Ref("A", "argument")>>), Path(Value("y"), Ref("A", "member"))}
Uses(w) == {Pipe(Row("A"), Where(Equal(Value("x"), Value(w)))), Pipe(Row(w), Join(Row("A")))}

MCQueries ==
  {Parsed(<<Main(s)>>) : s \in Starts}
  \cup {Parsed(<<Main(Pipe(s, o))>>) : s \in Starts, o \in Ops}
  \cup {Parsed(<<Main(Pipe(Pipe(Row("A"), o1), o2))>>) : o1 \in Few, o2 \in Few}
  \cup {Parsed(<<Let(w, t), Main(u)>>) :
          w \in {"A", "v"}, t \in LetSides, u \in Uses("A") \cup Uses("v")}

MCJobs ==
  [ask : {"replace"}, semantic : BOOLEAN, old : {"A"}, new : {"BB", "Zed"}]
  \cup [ask : {"replace"}, semantic : BOOLEAN, old : {"BB", "Zed"}, new : {"A"}]
  \cup [ask : {"columns"}, semantic : BOOLEAN, old : {"A"}, new : {"A"}]
  \cup [ask : {"times"}, semantic : {FALSE}, old : {"A"}, new : {"A"}]
=============================================================================
