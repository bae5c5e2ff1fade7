--------------------------- MODULE MCSchemaAttacher ---------------------------
(***************************************************************************)
(* Queries for TLC: every sequence of at most two operators of the         *)
(* catalogue over T or over an unnamed source, where a join or a union     *)
(* reads U, a reshaped U, or a pipeline that joins in turn.                *)
(***************************************************************************)
EXTENDS SchemaAttacherProps, MCQueryIR

Where(nodes) == OpT("filter", <<Bare(nodes)>>)

Plain ==
  {Where(Tree("predicate", NoName, <<Col("a"), Literal("int")>>)),
   Where(Tree("predicate", NoName, <<Qualified("U", "b"), Bound("c", "string"), Qualified("$right", "a")>>)),
   Where(Tree("case", NoName, <<Col("b")>>)),
   OpT("extend", <<Assign("c", <<Col("a")>>), Assign("a", Tree("call", "c", <<Col("b")>>))>>),
   OpT("extend", <<Assign("b", <<Literal("null")>>), Assign("b", Tree("predicate", NoName, <<Col("c")>>))>>),
   OpT("summarize", <<Assign("c", Tree("call", NoName, <<Col("a")>>)), By(<<Col("b")>>)>>),
   OpT("project", <<Bare(<<Col("b")>>), Assign("a", <<Col("c")>>), Bare(Tree("wrapper", NoName, <<Col("a")>>))>>),
   OpT("rename", <<Assign("a", <<Col("b")>>), Assign("b", <<Col("a")>>)>>),
   OpT("rename", <<Assign("c", <<Col("a")>>)>>),
   OpT("distinct", <<Bare(<<Col("c")>>), Assign("a", <<Col("b")>>)>>),
   OpT("away", <<Bare(<<Col("b")>>)>>),
   OpT("keep", <<Bare(<<Col("a")>>), Bare(<<Col("c")>>)>>),
   OpT("parse", <<ParseTarget(<<Col("b")>>), Bare(<<Bound("a", "long")>>), Bare(<<Col("c")>>)>>),
   OpT("parse", <<ParseTarget(<<Col("a")>>), Bare(<<Literal("string")>>)>>),
   OpT("mvexpand", <<Bare(<<Expandable("b")>>), Bare(<<Col("c")>>)>>),
   OpT("makeseries", <<Assign("a", Tree("call", NoName, <<Col("b")>>)), AssignBy("c", <<Col("a")>>),
                       Range(<<Col("b")>>)>>)}

Rights ==
  {PipeT("U", << >>),
   PipeT("U", <<OpT("extend", <<Assign("a", <<Col("c")>>)>>)>>),
   PipeT("U", <<OpT("project", <<Bare(<<Col("c")>>)>>)>>),
   PipeT(NoTable, <<Where(Tree("predicate", NoName, <<Col("b")>>))>>),
   PipeT("U", <<Combine("join", <<Bare(<<Col("b")>>)>>, <<PipeT("T", << >>)>>)>>)}

OnSides == <<Bare(Tree("predicate", NoName, <<Qualified("$left", "a"), Qualified("$right", "c")>>))>>

Combining ==
  {Combine("join", OnSides, <<r>>) : r \in Rights}
    \cup {Combine("join", <<Bare(<<Col("b")>>)>>, <<r>>) : r \in Rights}
    \cup {Combine("union", << >>, <<r, PipeT("U", << >>)>>) : r \in Rights}
    \cup {Combine("union", << >>, << >>)}
    \cup {Combine("other", <<Bare(<<Col("a")>>)>>, <<r>>) : r \in Rights}

Catalogue == Plain \cup Combining

Shapes ==
  {<< >>} \cup {<<o>> : o \in Catalogue} \cup {<<o1, o2>> : o1, o2 \in Catalogue}

MCQueries == {MakeQuery(PipeT(s, ops)) : s \in {"T", NoTable}, ops \in Shapes}
=============================================================================
