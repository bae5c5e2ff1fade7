----------------------------- MODULE ExprBuilder -----------------------------
(***************************************************************************)
(* IRBuilder._visit_expr (ir/builder.py) with normalize_in_place and       *)
(* canonical (ir/_normalize.py), on conditions: names, literals,           *)
(* comparisons, calls, membership, ranges and the connectives.             *)
(*                                                                         *)
(* _visit_expr visits a node after its parts.  A syntax tree is the list   *)
(* of its nodes in that order, each with the number of its parts, and      *)
(* Visit takes their results from a stack.  One behaviour builds two       *)
(* conditions, one after the other, so that properties can compare them.   *)
(***************************************************************************)
EXTENDS Naturals, SequencesExt

CONSTANT Inputs  \* pairs of conditions, and whether one is a regrouping of
                 \* the other: [trees : two lists, regrouped : BOOLEAN]

VARIABLES
  input,    \* the pair; no step changes it
  at,       \* the node of the current tree to be visited next
  results,  \* results of the nodes visited whose parents are not
  built     \* the conditions finished

vars == <<input, at, results, built>>

\* A node of the IR.  name holds a column, a function, an operator or the text
\* of a literal, whichever the form has; exact is case_sensitive and holds is
\* the polarity, TRUE for inclusion.
Node(form, name, args) ==
  [form |-> form, name |-> name, args |-> args, exact |-> TRUE, holds |-> TRUE]

Positive == {"==", "=~", "has", "contains", "startswith", "endswith", "in", "in~",
             "has_any", "between"}  \* operators without a "!"
InexactOps == {"=~", "!~", "has", "contains", "startswith", "endswith"}

-----------------------------------------------------------------------------
(* normalize_in_place.                                                     *)

IsToLower(e) == e.form = "call" /\ e.name = "tolower" /\ Len(e.args) = 1

Recased(e) ==
  [e EXCEPT !.name = IF @ = "==" THEN "=~" ELSE "!~", !.exact = FALSE,
            !.args[1] = @.args[1]]

\* Slip: only conjunctions are unfolded (AllNormal).
UnfoldedAnd(e) ==
  IF e.form = "or" THEN e
  ELSE [e EXCEPT !.args = FlattenSeq([k \in DOMAIN e.args |->
          IF e.args[k].form = e.form THEN e.args[k].args ELSE <<e.args[k]>>])]

\* Operands of the same connective directly under it are taken up into it.
Unfolded(e) ==
  [e EXCEPT !.args = FlattenSeq([k \in DOMAIN e.args |->
     IF e.args[k].form = e.form THEN e.args[k].args ELSE <<e.args[k]>>])]

\* Slip: one negation of two stays (MeaningKept).
OneNotLeft(e) == IF e.args[1].form = "not" THEN e.args[1] ELSE e

Affirmed(e) == IF e.args[1].form = "not" THEN e.args[1].args[1] ELSE e

Normalized(e) ==
  CASE e.form = "compare" /\ e.name \in {"==", "!="} /\ IsToLower(e.args[1]) -> Recased(e)
    [] e.form \in {"and", "or"} -> Unfolded(e)
    [] e.form = "not" -> Affirmed(e)
    [] OTHER -> e

-----------------------------------------------------------------------------
(* canonical: a text is a list of words, and texts are ordered word by     *)
(* word; any fixed order of the words gives the same equalities.           *)

Words == <<"case(", "exists(", "not(", "tolower", "(", ")", ",", "..", "=>",
           "| else", "A", "a", "ab", "X", "p", "q", "r", "and", "or",
           "==", "!=", "=~", "!~", "has", "in", "in~", "!in", "!in~",
           "between", "!between">>
Rank(w) == CHOOSE k \in DOMAIN Words : Words[k] = w

Before(s, t) ==
  \/ s # t /\ IsPrefix(s, t)
  \/ \E k \in DOMAIN s \cap DOMAIN t :
       /\ SubSeq(s, 1, k - 1) = SubSeq(t, 1, k - 1)
       /\ Rank(s[k]) < Rank(t[k])

\* Slip: operands as they stand (RegroupingsCollapse).
Unsorted(texts) == texts

Sorted(texts) == SortSeq(texts, Before)

Joined(texts, word) ==
  FlattenSeq([k \in DOMAIN texts |->
                IF k = 1 THEN texts[k] ELSE <<word>> \o texts[k]])

\* The operator of a membership test or a range as canonical prints it.
PrintedOp(e) ==
  LET op == IF e.form = "between" THEN "between"
            ELSE IF e.exact THEN "in" ELSE "in~" IN
  IF e.holds THEN op
  ELSE CASE op = "between" -> "!between" [] op = "in" -> "!in" [] OTHER -> "!in~"

RECURSIVE Canonical(_)
Canonical(e) ==
  LET texts == [k \in DOMAIN e.args |-> Canonical(e.args[k])] IN
  CASE e.form \in {"column", "literal"} -> <<e.name>>
    [] e.form = "compare" -> texts[1] \o <<e.name>> \o texts[2]
    [] e.form \in {"and", "or"} -> Joined(Sorted(texts), e.form)
    [] e.form = "not"     -> <<"not(">> \o texts[1] \o <<")">>
    [] e.form = "call"    -> <<e.name, "(">> \o Joined(texts, ",") \o <<")">>
    [] e.form = "member"  ->
         texts[1] \o <<PrintedOp(e), "(">> \o Joined(Sorted(Tail(texts)), ",") \o <<")">>
    [] e.form = "between" ->
         texts[1] \o <<PrintedOp(e), "(">> \o texts[2] \o <<"..">> \o texts[3] \o <<")">>
    [] e.form = "case"    ->
         LET branches == [k \in 1 .. Len(texts) \div 2 |->
                            texts[2 * k - 1] \o <<"=>">> \o texts[2 * k]] IN
         <<"case(">> \o Joined(branches, ",") \o <<"| else">> \o Last(texts) \o <<")">>
    [] e.form = "exists"  -> <<"exists(">> \o texts[1] \o <<")">>

-----------------------------------------------------------------------------
(* _visit_expr.                                                            *)

\* Calls that become nodes of their own.
Call(name, args) ==
  CASE name = "case" /\ Len(args) >= 3 /\ Len(args) % 2 = 1 -> Node("case", "case", args)
    [] name = "iif" /\ Len(args) = 3 -> Node("case", "case", args)
    [] name \in {"isnotnull", "isnotempty"} /\ Len(args) = 1 -> Node("exists", "exists", args)
    [] name = "not" /\ Len(args) = 1 -> Node("not", "not", args)
    [] OTHER -> Node("call", name, args)

Made(n, args) ==
  CASE n.kind = "name"    -> Node("column", n.name, << >>)
    [] n.kind = "literal" -> Node("literal", n.name, << >>)
    [] n.kind = "paren"   -> args[1]
    [] n.kind = "binary" /\ n.name \in {"and", "or"} -> Node(n.name, n.name, args)
    [] n.kind = "binary"  ->
         [Node("compare", n.name, args) EXCEPT !.exact = n.name \notin InexactOps,
                                               !.holds = n.name \in Positive]
    [] n.kind = "in"      ->
         [Node("member", "member", args) EXCEPT !.exact = FALSE,
                                                !.holds = n.name \in Positive]
    [] n.kind = "between" ->
         [Node("between", "between", args) EXCEPT !.holds = n.name \in Positive]
    [] n.kind = "call"    -> Call(n.name, args)

Tree == input.trees[Len(built) + 1]
Building == Len(built) < Len(input.trees)

Init ==
  /\ input \in Inputs
  /\ at = 1
  /\ results = << >>
  /\ built = << >>

Visit ==
  /\ Building
  /\ at \in DOMAIN Tree
  /\ LET n == Tree[at]
         rest == Len(results) - n.parts
         args == SubSeq(results, rest + 1, Len(results)) IN
     results' = Append(SubSeq(results, 1, rest), Normalized(Made(n, args)))
  /\ at' = at + 1
  /\ UNCHANGED <<input, built>>

Finish ==
  /\ Building
  /\ at \notin DOMAIN Tree
  /\ built' = Append(built, Last(results))
  /\ at' = 1
  /\ results' = << >>
  /\ UNCHANGED input

Next == Visit \/ Finish

Spec == Init /\ [][Next]_vars
=============================================================================
