------------------------------- MODULE MCQueryIR -------------------------------
(***************************************************************************)
(* Builds query structures from templates, and gives the constants of      *)
(* QueryIR small values: two tables that share a column, a third column    *)
(* only one of them has, and a column whose declared type is not a Kusto   *)
(* type.                                                                   *)
(***************************************************************************)
EXTENDS QueryIR


MCTables == {"T", "U"}
MCColumns == {"a", "b", "c"}
MCTypeNames == {"bool", "int", "long", "real", "decimal", "datetime",
                "timespan", "guid", "string", "dynamic", "tabular", "unknown",
                "varchar"}
MCSchemas == {[t \in {"T", "U"} |->
                 IF t = "T" THEN [c \in {"a", "b"} |-> IF c = "a" THEN "int" ELSE "varchar"]
                 ELSE [c \in {"b", "c"} |-> IF c = "b" THEN "long" ELSE "dynamic"]],
              [t \in {"U"} |-> [c \in {"a", "c"} |-> "string"]]}

-----------------------------------------------------------------------------
(* Templates: a node names the node it sits in by its place in the item.   *)

Node(form, name, table, rtype, up) ==
  [form |-> form, name |-> name, table |-> table, rtype |-> rtype,
   inner |-> NoType, lit |-> "string", up |-> up]

Col(c)        == Node("column", c, NoTable, "unknown", 0)
Qualified(t, c) == Node("column", c, t, "unknown", 0)
Bound(c, ty)  == Node("column", c, NoTable, ty, 0)
Expandable(c) == [Col(c) EXCEPT !.inner = "bool"]
Literal(ty)   == [Node("literal", NoName, NoTable, "unknown", 0) EXCEPT !.lit = ty]
Under(n)      == [n EXCEPT !.up = 1]
Tree(form, name, children) ==
  <<Node(form, name, NoTable, "unknown", 0)>>
    \o [i \in DOMAIN children |-> Under(children[i])]

Bare(nodes)       == [as |-> NoName, part |-> "main", nodes |-> nodes]
By(nodes)         == [as |-> NoName, part |-> "by", nodes |-> nodes]
ParseTarget(nodes) == [as |-> NoName, part |-> "target", nodes |-> nodes]
Assign(name, nodes) == [as |-> name, part |-> "main", nodes |-> nodes]
Range(nodes)      == [as |-> NoName, part |-> "range", nodes |-> nodes]
AssignBy(name, nodes) == [as |-> name, part |-> "by", nodes |-> nodes]

OpT(kind, items) == [kind |-> kind, items |-> items, subs |-> << >>]
Combine(kind, items, subs) == [kind |-> kind, items |-> items, subs |-> subs]
PipeT(source, ops) == [source |-> source, ops |-> ops]

-----------------------------------------------------------------------------
(* A template becomes a query: a pipeline's identity is its path of        *)
(* (operator, branch) pairs, a node's is its pipeline, operator, item and  *)
(* place.                                                                  *)

Branches(at, t) ==
  UNION {{at \o <<i, j>> : j \in DOMAIN t.ops[i].subs} : i \in DOMAIN t.ops}

SubAt(t, path) == t.ops[path[Len(path) - 1]].subs[path[Len(path)]]

PipesOf(main) ==
  LET one == [p \in Branches(<< >>, main) |-> SubAt(main, p)]
      two == [p \in UNION {Branches(q, one[q]) : q \in DOMAIN one} |->
                SubAt(one[SubSeq(p, 1, 2)], p)]
  IN  [p \in {<< >>} \cup DOMAIN one \cup DOMAIN two |->
         IF p = << >> THEN main ELSE IF p \in DOMAIN one THEN one[p] ELSE two[p]]

NodeIds(pipes) ==
  UNION {UNION {UNION {{<<p, i, j, k>> :
                          k \in DOMAIN pipes[p].ops[i].items[j].nodes}
                       : j \in DOMAIN pipes[p].ops[i].items}
                : i \in DOMAIN pipes[p].ops}
         : p \in DOMAIN pipes}

MakeQuery(main) ==
  LET pipes == PipesOf(main)
      ids == NodeIds(pipes)
      node(e) == pipes[e[1]].ops[e[2]].items[e[3]].nodes[e[4]]
      item(p, i, j) ==
        [as   |-> pipes[p].ops[i].items[j].as,
         part |-> pipes[p].ops[i].items[j].part,
         root |-> <<p, i, j, 1>>]
      op(p, i) ==
        [kind  |-> pipes[p].ops[i].kind,
         items |-> [j \in DOMAIN pipes[p].ops[i].items |-> item(p, i, j)],
         subs  |-> [j \in DOMAIN pipes[p].ops[i].subs |-> p \o <<i, j>>]]
  IN [main   |-> << >>,
      pipes  |-> [p \in DOMAIN pipes |->
                    [source |-> pipes[p].source,
                     ops    |-> [i \in DOMAIN pipes[p].ops |-> op(p, i)]]],
      nested |-> [p \in DOMAIN pipes |->
                    {SubSeq(p, 1, 2 * k) : k \in 0 .. (Len(p) \div 2) - 1}],
      exprs  |-> [e \in ids |->
                    [form |-> node(e).form, name |-> node(e).name,
                     table |-> node(e).table, rtype |-> node(e).rtype,
                     inner |-> node(e).inner, lit |-> node(e).lit]],
      within |-> [e \in ids |->
                    IF node(e).up = 0 THEN {}
                    ELSE {<<e[1], e[2], e[3], node(e).up>>}],
      home   |-> [e \in ids |-> e[1]]]
=============================================================================
