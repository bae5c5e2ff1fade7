-------------------------- MODULE MCPipelineBuilder --------------------------
(***************************************************************************)
(* Syntax trees for TLC: every beginning of a pipeline with every sequence *)
(* of at most two operators of a catalogue, and sequences of three of a    *)
(* few, where the pipelines an operator holds begin in each of the ways    *)
(* there are; and queries of two statements or of none.                    *)
(***************************************************************************)
EXTENDS PipelineBuilderProps

\* A tree as the list of its nodes in the order of the text, where a node
\* knows how far on its kids are and how many of them, from the first, are
\* branches of the operator.
Leaf(kind) == <<[kind |-> kind, kids |-> << >>, branches |-> 0]>>
Over(kind, t, n) == <<[kind |-> kind, kids |-> <<1>>, branches |-> n]>> \o t
Both(kind, t, u, n) ==
  <<[kind |-> kind, kids |-> <<1, 1 + Len(t)>>, branches |-> n]>> \o t \o u
Pipe(left, op) == Both("pipe", left, op, 0)
Paren(t) == Over("paren", t, 0)

Numbered(t, statements) ==
  [kind |-> [n \in DOMAIN t |-> t[n].kind],
   kids |-> [n \in DOMAIN t |-> [i \in DOMAIN t[n].kids |-> n + t[n].kids[i]]],
   branches |-> [n \in DOMAIN t |-> [i \in 1 .. t[n].branches |-> n + t[n].kids[i]]],
   statements |-> statements]

Where == Leaf("where")
Ref == Leaf("reference")

Kid == {Ref, Where, Pipe(Pipe(Ref, Where), Where), Paren(Pipe(Leaf("opaque"), Where)),
        Paren(Over("materialize", Pipe(Ref, Leaf("extend")), 0))}

Starts ==
  {Ref, Leaf("path"), Leaf("datatable"), Leaf("reserved"), Leaf("opaque"),
   Leaf("call"), Over("call", Where, 0), Paren(Ref), Where, Leaf("evaluate")}
  \cup {Over("materialize", k, 0) : k \in Kid}

Ops ==
  {Where, Leaf("extend"), Leaf("take"), Leaf(BadCount),
   Over("where", Ref, 0), Both("union", Where, Ref, 2),
   Both("join", Ref, Where, 1)}
  \cup {Over(kind, k, 1) : k \in Kid, kind \in {"join", "partition"}}

OneOp == {Pipe(s, o) : s \in Starts, o \in Ops}
TwoOps == {Pipe(Pipe(s, o1), o2) :
             s \in Starts, o1 \in Ops, o2 \in Ops}
Few == {Where, Leaf("extend"), Over("join", Pipe(Pipe(Ref, Where), Where), 1)}
ThreeOps == {Pipe(Pipe(Pipe(Ref, o1), o2), o3) : o1 \in Few, o2 \in Few, o3 \in Few}

\* Parentheses around a pipeline that goes on behind them, and twice over.
Odd == {Pipe(Paren(Pipe(Ref, Where)), Where),
        Paren(Paren(Pipe(Leaf("call"), Where)))}

MCTrees ==
  {Numbered(t, <<1>>) : t \in Starts \cup OneOp \cup TwoOps \cup ThreeOps \cup Odd}
  \cup {Numbered(Both("block", Pipe(Ref, Where), Leaf("call"), 0), s) :
          s \in {<< >>, <<2>>, <<2, 5>>}}
=============================================================================
