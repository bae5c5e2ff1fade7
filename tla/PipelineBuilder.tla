--------------------------- MODULE PipelineBuilder ---------------------------
(***************************************************************************)
(* IRBuilder (ir/builder.py), the part that turns a syntax tree into       *)
(* pipelines: build_from_code picks the expression to build, and           *)
(* _visit_pipeline walks it, looking for the source of the rows and        *)
(* collecting the operators, each of which may hold pipelines of its own   *)
(* (_visit_operator).  The recursion is a stack of frames.                 *)
(*                                                                         *)
(* Syntax nodes are numbered in the order of the text.  The kids of an     *)
(* operator, of a call and of materialize() are the roots of the pipelines *)
(* in them, in the order the code visits them, which is that of the text;  *)
(* its branches are those the operator's own fields hold, and the others   *)
(* belong to its expressions.                                              *)
(***************************************************************************)
EXTENDS Naturals, SequencesExt

CONSTANT Trees   \* the syntax trees the parser hands over

NoNode == 0

\* Node classes by what walk() does with them.
Transparent == {"pipe", "paren"}
Leaves      == {"reference", "path", "datatable"}
Holders     == {"call", "materialize"}
Sources     == Leaves \cup Holders
\* Shapes walk() has no case for: a reference by a reserved word, a path that
\* does not end in a name, any other expression, and a block of statements
\* none of which is an expression.
Ignored     == {"reserved", "opaque", "block"}
\* Operators with a count, apart for a count that is not a literal.
BadCount    == "take parameter"
Operators   == {"where", "extend", "take", BadCount, "join", "union",
                "partition", "evaluate"}
Kinds == Transparent \cup Sources \cup Ignored \cup Operators

IsTree(t) ==
  /\ t.kind \in Seq(Kinds) \ {<< >>}
  /\ DOMAIN t.kids = DOMAIN t.kind /\ DOMAIN t.branches = DOMAIN t.kind
  /\ \A n \in DOMAIN t.kind :
       /\ t.kids[n] \in Seq({m \in DOMAIN t.kind : m > n})
       /\ t.branches[n] \in Seq(Range(t.kids[n]))
       /\ t.kind[n] = "pipe" =>
            Len(t.kids[n]) = 2 /\ t.kind[t.kids[n][2]] \in Operators
       /\ t.kind[n] = "join" => Len(t.branches[n]) = 1
       \* no node has two parents
       /\ \A m \in DOMAIN t.kind : \A i \in DOMAIN t.kids[n], j \in DOMAIN t.kids[m] :
            t.kids[n][i] = t.kids[m][j] => n = m /\ i = j
       \* a kid's text ends before the next kid's begins
       /\ \A i, j \in DOMAIN t.kids[n] : i < j =>
            /\ t.kids[n][i] < t.kids[n][j]
            /\ \A m \in t.kids[n][i] .. t.kids[n][j] - 1 :
                 \A k \in Range(t.kids[m]) : k < t.kids[n][j]
  /\ t.statements \in Seq(DOMAIN t.kind)

ASSUME TreesAssumption == \A t \in Trees : IsTree(t)

VARIABLES
  tree,    \* code.Syntax; no step changes it
  stack,   \* active calls of _visit_pipeline, outermost first
  built,   \* the pipelines made so far, by the node they were made from
  status

vars == <<tree, stack, built, status>>

Nodes == DOMAIN tree.kind
Kind(n) == tree.kind[n]
Kids(n) == tree.kids[n]

Source == [kind : {"unknown", "implicit"} \cup Sources, node : Nodes \cup {NoNode}]
Unknown == [kind |-> "unknown", node |-> NoNode]
Implicit == [kind |-> "implicit", node |-> NoNode]

\* An operator of the IR: the syntax nodes it stands for, in order.
IROp == [kind : Operators, at : Seq(Nodes), subs : Seq(Nodes)]

\* The first expression statement, or else the whole tree.
MainNode == IF tree.statements = << >> THEN 1 ELSE tree.statements[1]

NewFrame(n) ==
  [node |-> n, agenda |-> <<n>>, source |-> Unknown, ops |-> << >>,
   open |-> NoNode, visited |-> 0]

Top == stack[Len(stack)]
Seen == Head(Top.agenda)
SetTop(frame) == stack' = [stack EXCEPT ![Len(stack)] = frame]

\* The walk of the current pipeline is about to look at a node of these kinds.
Sees(kinds) ==
  /\ status = "building"
  /\ Top.open = NoNode
  /\ Top.agenda # << >>
  /\ Kind(Seen) \in kinds

Init ==
  /\ tree \in Trees
  /\ stack = <<NewFrame(MainNode)>>
  /\ built = << >>
  /\ status = "building"

-----------------------------------------------------------------------------
(* One step of walk().                                                     *)

\* Slip: the operator of a pipe before the expression it applies to
\* (OperatorsInOrder).
DescendRightFirst ==
  /\ Sees(Transparent)
  /\ SetTop([Top EXCEPT !.agenda = Reverse(Kids(Seen)) \o Tail(@)])
  /\ UNCHANGED <<tree, built, status>>

Descend ==
  /\ Sees(Transparent)
  /\ SetTop([Top EXCEPT !.agenda = Kids(Seen) \o Tail(@)])
  /\ UNCHANGED <<tree, built, status>>

PassBy ==
  /\ Sees(Ignored)
  /\ SetTop([Top EXCEPT !.agenda = Tail(@)])
  /\ UNCHANGED <<tree, built, status>>

\* The code's test that it has no source yet never fails: the right-hand side
\* of a pipe is an operator, so a pipeline has one node that can be a source.
TakeSource ==
  /\ Sees(Leaves)
  /\ Top.source = Unknown
  /\ SetTop([Top EXCEPT !.agenda = Tail(@),
                        !.source = [kind |-> Kind(Seen), node |-> Seen]])
  /\ UNCHANGED <<tree, built, status>>

\* safe_int: the error leaves every active call.
RaiseOnCount ==
  /\ Sees({BadCount})
  /\ stack' = << >>
  /\ status' = "raised"
  /\ UNCHANGED <<tree, built>>

\* An operator, a call or a materialize() whose own parts are visited next.
Open ==
  /\ \/ Sees(Operators \ {BadCount})
     \/ Sees(Holders) /\ Top.source = Unknown
  /\ SetTop([Top EXCEPT !.agenda = Tail(@), !.open = Seen, !.visited = 0])
  /\ UNCHANGED <<tree, built, status>>

VisitKid ==
  /\ status = "building"
  /\ Top.open # NoNode
  /\ Top.visited < Len(Kids(Top.open))
  /\ stack' = Append(stack, NewFrame(Kids(Top.open)[Top.visited + 1]))
  /\ UNCHANGED <<tree, built, status>>

AllVisited ==
  /\ status = "building"
  /\ Top.open # NoNode
  /\ Top.visited = Len(Kids(Top.open))

CloseOperator ==
  /\ AllVisited
  /\ Kind(Top.open) \in Operators
  /\ SetTop([Top EXCEPT
       !.open = NoNode,
       !.ops = Append(@, [kind |-> Kind(Top.open), at |-> <<Top.open>>,
                          subs |-> tree.branches[Top.open]])])
  /\ UNCHANGED <<tree, built, status>>

CloseSource ==
  /\ AllVisited
  /\ Kind(Top.open) \in Holders
  /\ SetTop([Top EXCEPT
       !.open = NoNode,
       !.source = [kind |-> Kind(Top.open), node |-> Top.open]])
  /\ UNCHANGED <<tree, built, status>>

-----------------------------------------------------------------------------
(* The end of _visit_pipeline.                                             *)

\* merge_filter_ops; FilterMerge models its loop.
Merge(merged, op) ==
  IF merged # << >> /\ Last(merged).kind = "where" /\ op.kind = "where"
    THEN [merged EXCEPT ![Len(merged)].at = @ \o op.at]
    ELSE Append(merged, op)

MergeFilters(ops) ==
  LET merged[k \in 0 .. Len(ops)] ==
        IF k = 0 THEN << >> ELSE Merge(merged[k - 1], ops[k])
  IN merged[Len(ops)]

\* Slip: the source is settled before walk() has run (SourceFromText).
SettledTooEarly(frame) == frame.source

SettledSource(frame) ==
  IF frame.source = Unknown /\ frame.ops # << >> THEN Implicit ELSE frame.source

Finished(frame) ==
  [source |-> SettledSource(frame), ops |-> MergeFilters(frame.ops)]

WalkOver == status = "building" /\ Top.open = NoNode /\ Top.agenda = << >>

\* Slip: the caller is not told that its kid is finished (BuildReturns).
ReturnAgain ==
  /\ WalkOver
  /\ built' = [n \in DOMAIN built \cup {Top.node} |->
                 IF n = Top.node THEN Finished(Top) ELSE built[n]]
  /\ stack' = Front(stack)
  /\ status' = IF Len(stack) = 1 THEN "done" ELSE "building"
  /\ UNCHANGED tree

\* Slip: a finished pipeline counts for two kids (OutputIsQuery).
ReturnSkipping ==
  /\ WalkOver
  /\ built' = [n \in DOMAIN built \cup {Top.node} |->
                 IF n = Top.node THEN Finished(Top) ELSE built[n]]
  /\ IF Len(stack) = 1
       THEN stack' = << >> /\ status' = "done"
       ELSE LET caller == stack[Len(stack) - 1] IN
            /\ stack' = [Front(stack) EXCEPT
                 ![Len(stack) - 1].visited = Len(Kids(caller.open))]
            /\ status' = status
  /\ UNCHANGED tree

Return ==
  /\ WalkOver
  /\ built' = [n \in DOMAIN built \cup {Top.node} |->
                 IF n = Top.node THEN Finished(Top) ELSE built[n]]
  /\ IF Len(stack) = 1
       THEN stack' = << >> /\ status' = "done"
       ELSE /\ stack' = [Front(stack) EXCEPT ![Len(stack) - 1].visited = @ + 1]
            /\ status' = status
  /\ UNCHANGED tree

Next ==
  \/ Descend \/ PassBy \/ TakeSource \/ RaiseOnCount
  \/ Open \/ VisitKid \/ CloseOperator \/ CloseSource
  \/ Return

\* build_from_code is one synchronous call.
Spec == Init /\ [][Next]_vars /\ WF_vars(Next)
=============================================================================
