------------------------ MODULE PipelineBuilderProofs ------------------------
(***************************************************************************)
(* Proofs that the pipelines _visit_pipeline makes have the operators and  *)
(* the source of their text, and that together they are a query the        *)
(* enricher can walk, for syntax trees of any size and depth.              *)
(***************************************************************************)
EXTENDS PipelineBuilderProps, RecursionLemmas, FiniteSetTheorems

-----------------------------------------------------------------------------
(* Trees.                                                                  *)

NodesOf(t) == DOMAIN t.kind

LEMMA TreeFacts ==
  ASSUME NEW t, IsTree(t)
  PROVE  /\ Len(t.kind) \in Nat /\ NodesOf(t) = 1 .. Len(t.kind)
         /\ \A n \in NodesOf(t) :
              /\ t.kind[n] \in Kinds
              /\ t.kids[n] \in Seq(NodesOf(t))
              /\ \A k \in Range(t.kids[n]) : k \in NodesOf(t) /\ k > n
              /\ t.branches[n] \in Seq(Range(t.kids[n]))
              /\ t.kind[n] = "join" => Len(t.branches[n]) = 1
<1>1. Len(t.kind) \in Nat /\ NodesOf(t) = 1 .. Len(t.kind)
  BY DEF IsTree, NodesOf
<1>2. ASSUME NEW n \in NodesOf(t)
      PROVE  /\ t.kind[n] \in Kinds
             /\ t.kids[n] \in Seq(NodesOf(t))
             /\ \A k \in Range(t.kids[n]) : k \in NodesOf(t) /\ k > n
  <2>1. t.kids[n] \in Seq({m \in NodesOf(t) : m > n}) /\ t.kind \in Seq(Kinds)
    BY DEF IsTree, NodesOf
  <2>2. \A i \in DOMAIN t.kids[n] : t.kids[n][i] \in {m \in NodesOf(t) : m > n}
    BY <2>1
  <2> QED
    BY <2>1, <2>2 DEF Range, NodesOf
<1>3. \A n \in NodesOf(t) : /\ t.branches[n] \in Seq(Range(t.kids[n]))
                            /\ t.kind[n] = "join" => Len(t.branches[n]) = 1
  BY DEF IsTree, NodesOf
<1> QED
  BY <1>1, <1>2, <1>3

LEMMA NodesAreNumbers == ASSUME NEW t, IsTree(t) PROVE NodesOf(t) \subseteq Nat
<1>1. Len(t.kind) \in Nat /\ NodesOf(t) = 1 .. Len(t.kind)
  BY TreeFacts
<1> QED
  BY <1>1

\* What holds of a node when it holds of its kids holds of every node.
LEMMA TreeInduction ==
  ASSUME NEW t, IsTree(t), NEW T,
         \A n \in NodesOf(t) : (\A k \in Range(t.kids[n]) : k \in T) => n \in T
  PROVE  NodesOf(t) \subseteq T
<1> DEFINE D == NodesOf(t)
           rank == [n \in D |-> Len(t.kind) - n]
<1>1. rank \in [D -> Nat]
  BY TreeFacts
<1>2. ASSUME NEW n \in D, \A m \in D : rank[m] < rank[n] => m \in T PROVE n \in T
  <2>1. \A k \in Range(t.kids[n]) : k \in D /\ k > n
    BY TreeFacts
  <2>2. \A k \in Range(t.kids[n]) : rank[k] < rank[n]
    BY <2>1, TreeFacts
  <2> QED
    BY <1>2, <2>1, <2>2
<1> HIDE DEF rank
<1> QED
  BY <1>1, <1>2, InductionByRank

\* f[n] is what is reached from n going on at nodes of the kinds K only.
IsWalk(t, K, f) ==
  f = [n \in NodesOf(t) |->
         {n} \cup IF t.kind[n] \in K THEN UNION {f[k] : k \in Range(t.kids[n])} ELSE {}]

LEMMA WalkExists ==
  ASSUME NEW t, IsTree(t), NEW K
  PROVE  \E f : IsWalk(t, K, f)
<1> DEFINE D == NodesOf(t)
           S == SUBSET D
           N == Len(t.kind)
           rank == [n \in D |-> N - n]
           body(f) == [n \in D |->
             {n} \cup IF t.kind[n] \in K THEN UNION {f[k] : k \in Range(t.kids[n])} ELSE {}]
           F == [f \in [D -> S] |-> body(f)]
<1>1. S # {} /\ N \in Nat /\ rank \in [D -> 0 .. N]
  BY TreeFacts
<1>2. ASSUME NEW f \in [D -> S] PROVE body(f) \in [D -> S]
  BY TreeFacts
<1>3. F \in [[D -> S] -> [D -> S]]
  <2> HIDE DEF body
  <2> QED
    BY <1>2
<1>4. ASSUME NEW f \in [D -> S], NEW g \in [D -> S], NEW n \in D,
             \A m \in D : rank[m] < rank[n] => f[m] = g[m]
      PROVE  F[f][n] = F[g][n]
  <2>1. \A k \in Range(t.kids[n]) : k \in D /\ rank[k] < rank[n]
    BY TreeFacts
  <2>2. \A k \in Range(t.kids[n]) : f[k] = g[k]
    BY <1>4, <2>1
  <2>3. UNION {f[k] : k \in Range(t.kids[n])} = UNION {g[k] : k \in Range(t.kids[n])}
    BY <2>2
  <2> QED
    BY <2>3
<1>5. IsRecursion(F, D, S, N, rank)
  <2> HIDE DEF F, D, S, N, rank
  <2> QED
    BY <1>1, <1>3, <1>4 DEF IsRecursion
<1>6. PICK f \in [D -> S] : f = F[f]
  <2> HIDE DEF F, D, S, N, rank
  <2> QED
    BY <1>5, RecursionByRank
<1>7. IsWalk(t, K, f)
  BY <1>6 DEF IsWalk
<1> QED
  BY <1>7

LEMMA WalkStep ==
  ASSUME NEW t, NEW K, NEW f, IsWalk(t, K, f), NEW n \in NodesOf(t)
  PROVE  /\ n \in f[n]
         /\ t.kind[n] \in K => f[n] = {n} \cup UNION {f[k] : k \in Range(t.kids[n])}
         /\ t.kind[n] \notin K => f[n] = {n}
<1>1. f[n] = {n} \cup IF t.kind[n] \in K THEN UNION {f[k] : k \in Range(t.kids[n])} ELSE {}
  BY DEF IsWalk
<1> QED
  BY <1>1

\* What is reached is the node itself or is reached from a kid.
LEMMA WalkMembers ==
  ASSUME NEW t, NEW K, NEW f, IsWalk(t, K, f), NEW n \in NodesOf(t), NEW m \in f[n]
  PROVE  m = n \/ (t.kind[n] \in K /\ \E k \in Range(t.kids[n]) : m \in f[k])
<1>1. CASE t.kind[n] \in K
  <2>1. m \in {n} \cup UNION {f[k] : k \in Range(t.kids[n])}
    BY <1>1, WalkStep
  <2> QED
    BY <1>1, <2>1
<1>2. CASE t.kind[n] \notin K
  <2>1. m \in {n}
    BY <1>2, WalkStep
  <2> QED
    BY <2>1
<1> QED
  BY <1>1, <1>2

LEMMA WalkUnique ==
  ASSUME NEW t, IsTree(t), NEW K, NEW f, IsWalk(t, K, f), NEW g, IsWalk(t, K, g)
  PROVE  f = g
<1> DEFINE T == {n \in NodesOf(t) : f[n] = g[n]}
<1>1. ASSUME NEW n \in NodesOf(t), \A k \in Range(t.kids[n]) : k \in T PROVE n \in T
  <2>1. UNION {f[k] : k \in Range(t.kids[n])} = UNION {g[k] : k \in Range(t.kids[n])}
    BY <1>1
  <2>2. f[n] = {n} \cup IF t.kind[n] \in K THEN UNION {f[k] : k \in Range(t.kids[n])} ELSE {}
    BY DEF IsWalk
  <2>3. g[n] = {n} \cup IF t.kind[n] \in K THEN UNION {g[k] : k \in Range(t.kids[n])} ELSE {}
    BY DEF IsWalk
  <2> QED
    BY <2>1, <2>2, <2>3
<1> HIDE DEF T
<1>2. NodesOf(t) \subseteq T
  BY <1>1, TreeInduction
<1>3. \A n \in NodesOf(t) : f[n] = g[n]
  BY <1>2 DEF T
<1>4. f = [n \in NodesOf(t) |-> f[n]] /\ g = [n \in NodesOf(t) |-> g[n]]
  BY DEF IsWalk
<1> QED
  BY <1>3, <1>4

\* What is reached lies behind the node it is reached from.
LEMMA WalkBehind ==
  ASSUME NEW t, IsTree(t), NEW K, NEW f, IsWalk(t, K, f), NEW n \in NodesOf(t), NEW m \in f[n]
  PROVE  m \in NodesOf(t) /\ m >= n
<1> DEFINE T == {x \in NodesOf(t) : \A y \in f[x] : y \in NodesOf(t) /\ y >= x}
<1>0. NodesOf(t) \subseteq Nat
  BY NodesAreNumbers
<1>1. ASSUME NEW x \in NodesOf(t), \A k \in Range(t.kids[x]) : k \in T PROVE x \in T
  <2> SUFFICES ASSUME NEW y \in f[x] PROVE y \in NodesOf(t) /\ y >= x
    OBVIOUS
  <2>1. \A k \in Range(t.kids[x]) : k \in NodesOf(t) /\ k > x
    BY TreeFacts
  <2>2. y = x \/ \E k \in Range(t.kids[x]) : y \in f[k]
    BY WalkMembers
  <2>3. ASSUME NEW k \in Range(t.kids[x]), y \in f[k] PROVE y \in NodesOf(t) /\ y >= x
    <3>1. y \in NodesOf(t) /\ y >= k
      BY <1>1, <2>3
    <3>2. y \in Nat /\ k \in Nat /\ x \in Nat /\ k > x
      BY <1>0, <2>1, <3>1
    <3> QED
      BY <3>1, <3>2
  <2>4. x >= x
    BY <1>0
  <2> QED
    BY <2>2, <2>3, <2>4
<1> HIDE DEF T
<1>2. NodesOf(t) \subseteq T
  BY <1>1, TreeInduction
<1> QED
  BY <1>2 DEF T

\* What is reached from a kid has its number between the kid's and the next kid's.
LEMMA WalkInOrder ==
  ASSUME NEW t, IsTree(t), NEW K, NEW f, IsWalk(t, K, f), NEW n \in NodesOf(t),
         NEW i \in DOMAIN t.kids[n], NEW j \in DOMAIN t.kids[n], i < j,
         NEW x \in f[t.kids[n][i]], NEW y \in f[t.kids[n][j]]
  PROVE  x < y
<1> DEFINE a == t.kids[n][i]
           b == t.kids[n][j]
           T == {m \in NodesOf(t) : m \in a .. b - 1 => \A z \in f[m] : z < b}
<1>0. NodesOf(t) \subseteq Nat
  BY NodesAreNumbers
<1>1. a \in NodesOf(t) /\ b \in NodesOf(t)
  BY TreeFacts DEF Range
<1>2. a < b /\ \A m \in a .. b - 1 : \A k \in Range(t.kids[m]) : k < b
  BY DEF IsTree, NodesOf
<1>3. a \in Nat /\ b \in Nat
  BY <1>0, <1>1
<1> HIDE DEF a, b
<1>4. ASSUME NEW m \in NodesOf(t), \A k \in Range(t.kids[m]) : k \in T PROVE m \in T
  <2> SUFFICES ASSUME m \in a .. b - 1, NEW z \in f[m] PROVE z < b
    OBVIOUS
  <2>1. \A k \in Range(t.kids[m]) : k \in NodesOf(t) /\ k > m /\ k < b
    BY <1>2, TreeFacts
  <2>2. \A k \in Range(t.kids[m]) : k \in Nat
    BY <1>0, <2>1
  <2>3. m \in Nat /\ m >= a /\ m < b
    BY <1>0, <1>3
  <2>4. \A k \in Range(t.kids[m]) : k \in a .. b - 1
    BY <1>3, <2>1, <2>2, <2>3
  <2>5. z = m \/ \E k \in Range(t.kids[m]) : z \in f[k]
    BY WalkMembers
  <2> QED
    BY <1>4, <2>3, <2>4, <2>5
<1> HIDE DEF T
<1>5. NodesOf(t) \subseteq T
  BY <1>4, TreeInduction
<1>6. a \in a .. b - 1
  BY <1>2, <1>3
<1>7. x < b
  BY <1>1, <1>5, <1>6 DEF T, a
<1>8. y >= b /\ y \in NodesOf(t) /\ x \in NodesOf(t)
  BY <1>1, WalkBehind DEF a, b
<1>9. x \in Nat /\ y \in Nat
  BY <1>0, <1>8
<1> QED
  BY <1>3, <1>7, <1>8, <1>9

\* What a reached node reaches is reached.
LEMMA WalkThrough ==
  ASSUME NEW t, IsTree(t), NEW K, NEW f, IsWalk(t, K, f), NEW n \in NodesOf(t), NEW m \in f[n]
  PROVE  f[m] \subseteq f[n]
<1> DEFINE T == {x \in NodesOf(t) : \A y \in f[x] : f[y] \subseteq f[x]}
<1>1. ASSUME NEW x \in NodesOf(t), \A k \in Range(t.kids[x]) : k \in T PROVE x \in T
  <2> SUFFICES ASSUME NEW y \in f[x] PROVE f[y] \subseteq f[x]
    OBVIOUS
  <2>1. ASSUME t.kind[x] \in K, NEW k \in Range(t.kids[x]), y \in f[k] PROVE f[y] \subseteq f[x]
    <3>1. f[y] \subseteq f[k]
      BY <1>1, <2>1
    <3>2. f[x] = {x} \cup UNION {f[j] : j \in Range(t.kids[x])}
      BY <2>1, WalkStep
    <3> QED
      BY <3>1, <3>2
  <2> QED
    BY <2>1, WalkMembers
<1> HIDE DEF T
<1>2. NodesOf(t) \subseteq T
  BY <1>1, TreeInduction
<1> QED
  BY <1>2 DEF T

\* A node that is reached from another is reached by way of its parent.
LEMMA WalkParent ==
  ASSUME NEW t, IsTree(t), NEW K, NEW f, IsWalk(t, K, f), NEW n \in NodesOf(t), NEW m \in f[n],
         m # n
  PROVE  \E x \in f[n] : x \in NodesOf(t) /\ t.kind[x] \in K /\ m \in Range(t.kids[x])
<1> DEFINE Has(x, y) ==
             \E z \in f[x] : z \in NodesOf(t) /\ t.kind[z] \in K /\ y \in Range(t.kids[z])
           T == {x \in NodesOf(t) : \A y \in f[x] : y # x => Has(x, y)}
<1>1. ASSUME NEW x \in NodesOf(t), \A k \in Range(t.kids[x]) : k \in T PROVE x \in T
  <2> SUFFICES ASSUME NEW y \in f[x], y # x PROVE Has(x, y)
    OBVIOUS
  <2>1. t.kind[x] \in K /\ \E k \in Range(t.kids[x]) : y \in f[k]
    BY WalkMembers
  <2>2. PICK k \in Range(t.kids[x]) : y \in f[k]
    BY <2>1
  <2>3. x \in f[x] /\ f[k] \subseteq f[x]
    <3>1. f[x] = {x} \cup UNION {f[j] : j \in Range(t.kids[x])}
      BY <2>1, WalkStep
    <3> QED
      BY <3>1
  <2>4. CASE y = k
    BY <2>1, <2>3, <2>4
  <2>5. CASE y # k
    <3>1. Has(k, y)
      BY <1>1, <2>2, <2>5
    <3> QED
      BY <2>3, <3>1
  <2> QED
    BY <2>4, <2>5
<1> HIDE DEF T
<1>2. NodesOf(t) \subseteq T
  BY <1>1, TreeInduction
<1> QED
  BY <1>2 DEF T

\* A walk that goes on at more nodes reaches more.
LEMMA WalkWider ==
  ASSUME NEW t, IsTree(t), NEW K, NEW f, IsWalk(t, K, f), NEW L, K \subseteq L,
         NEW g, IsWalk(t, L, g), NEW n \in NodesOf(t)
  PROVE  f[n] \subseteq g[n]
<1> DEFINE T == {x \in NodesOf(t) : f[x] \subseteq g[x]}
<1>1. ASSUME NEW x \in NodesOf(t), \A k \in Range(t.kids[x]) : k \in T PROVE x \in T
  <2> SUFFICES ASSUME NEW y \in f[x] PROVE y \in g[x]
    OBVIOUS
  <2>1. CASE y = x
    BY <2>1, WalkStep
  <2>2. CASE y # x
    <3>1. t.kind[x] \in L /\ \E k \in Range(t.kids[x]) : y \in f[k]
      BY <2>2, WalkMembers
    <3>2. g[x] = {x} \cup UNION {g[k] : k \in Range(t.kids[x])}
      BY <3>1, WalkStep
    <3> QED
      BY <1>1, <3>1, <3>2
  <2> QED
    BY <2>1, <2>2
<1> HIDE DEF T
<1>2. NodesOf(t) \subseteq T
  BY <1>1, TreeInduction
<1> QED
  BY <1>2 DEF T

ReachOf(t) == CHOOSE f : IsWalk(t, Transparent, f)
UnderOf(t) == CHOOSE f : IsWalk(t, Kinds, f)

LEMMA TheWalks ==
  ASSUME NEW t, IsTree(t)
  PROVE  IsWalk(t, Transparent, ReachOf(t)) /\ IsWalk(t, Kinds, UnderOf(t))
BY WalkExists DEF ReachOf, UnderOf

LEMMA ReachFacts ==
  ASSUME NEW t, IsTree(t), NEW n \in NodesOf(t)
  PROVE  /\ n \in ReachOf(t)[n]
         /\ \A m \in ReachOf(t)[n] : m \in NodesOf(t) /\ m >= n
         /\ t.kind[n] \in Transparent =>
              ReachOf(t)[n] = {n} \cup UNION {ReachOf(t)[k] : k \in Range(t.kids[n])}
         /\ t.kind[n] \notin Transparent => ReachOf(t)[n] = {n}
         /\ ReachOf(t)[n] \subseteq UnderOf(t)[n]
<1>1. IsWalk(t, Transparent, ReachOf(t)) /\ IsWalk(t, Kinds, UnderOf(t))
  BY TheWalks
<1>2. \A m \in ReachOf(t)[n] : m \in NodesOf(t) /\ m >= n
  BY <1>1, WalkBehind
<1>3. ReachOf(t)[n] \subseteq UnderOf(t)[n]
  <2>1. Transparent \subseteq Kinds
    BY DEF Kinds
  <2> QED
    BY <1>1, <2>1, WalkWider
<1> QED
  BY <1>1, <1>2, <1>3, WalkStep

LEMMA UnderFacts ==
  ASSUME NEW t, IsTree(t), NEW n \in NodesOf(t)
  PROVE  /\ n \in UnderOf(t)[n]
         /\ \A m \in UnderOf(t)[n] :
              m \in NodesOf(t) /\ m >= n /\ UnderOf(t)[m] \subseteq UnderOf(t)[n]
         /\ \A m \in UnderOf(t)[n], k \in NodesOf(t) :
              k \in Range(t.kids[m]) => k \in UnderOf(t)[n]
<1> DEFINE u == UnderOf(t)
<1>1. IsWalk(t, Kinds, u)
  BY TheWalks
<1>2. n \in u[n]
  BY <1>1, WalkStep
<1>3. \A m \in u[n] : m \in NodesOf(t) /\ m >= n /\ u[m] \subseteq u[n]
  BY <1>1, WalkBehind, WalkThrough
<1>4. ASSUME NEW m \in u[n], NEW k \in NodesOf(t), k \in Range(t.kids[m]) PROVE k \in u[n]
  <2>1. m \in NodesOf(t) /\ t.kind[m] \in Kinds
    BY <1>3, TreeFacts
  <2>2. u[m] = {m} \cup UNION {u[j] : j \in Range(t.kids[m])}
    BY <1>1, <2>1, WalkStep
  <2>3. k \in u[k]
    BY <1>1, WalkStep
  <2> QED
    BY <1>3, <1>4, <2>2, <2>3
<1> QED
  BY <1>2, <1>3, <1>4

LEMMA ReachIsReachOf == IsTree(tree) => Reach = ReachOf(tree)
BY DEF Reach, ReachOf, IsWalk, NodesOf, Nodes, Kind, Kids

LEMMA UnderIsUnderOf == IsTree(tree) => Under = UnderOf(tree)
<1> SUFFICES ASSUME IsTree(tree) PROVE Under = UnderOf(tree)
  OBVIOUS
<1> DEFINE Is(f) == f = [n \in Nodes |-> {n} \cup UNION {f[k] : k \in Range(Kids(n))}]
<1>1. ASSUME NEW f PROVE Is(f) <=> IsWalk(tree, Kinds, f)
  <2>1. \A n \in Nodes : tree.kind[n] \in Kinds
    BY TreeFacts DEF Nodes, NodesOf
  <2>2. [n \in Nodes |-> {n} \cup UNION {f[k] : k \in Range(Kids(n))}]
          = [n \in NodesOf(tree) |-> {n} \cup IF tree.kind[n] \in Kinds
               THEN UNION {f[k] : k \in Range(tree.kids[n])} ELSE {}]
    BY <2>1 DEF Nodes, NodesOf, Kids
  <2> QED
    BY <2>2 DEF IsWalk
<1>2. Under = CHOOSE f : Is(f)
  BY DEF Under
<1>3. (CHOOSE f : Is(f)) = CHOOSE f : IsWalk(tree, Kinds, f)
  BY <1>1
<1> QED
  BY <1>2, <1>3 DEF UnderOf

-----------------------------------------------------------------------------
(* MergeFilters: the operators of one pipeline.                            *)

IROpOf(t) == [kind : Operators, at : Seq(NodesOf(t)), subs : Seq(NodesOf(t))]

Ats(ops) == [k \in DOMAIN ops |-> ops[k].at]
Firsts(ops) == [k \in DOMAIN ops |-> ops[k].at[1]]

\* An operator stands for its first node, and for others if it is a where.
StandsFor(t, op) ==
  /\ op.at # << >>
  /\ op.kind = t.kind[op.at[1]]
  /\ op.subs = t.branches[op.at[1]]

\* The operators a walk collects, each for one node.
Collected(t, ops) ==
  /\ ops \in Seq(IROpOf(t))
  /\ \A k \in DOMAIN ops : Len(ops[k].at) = 1 /\ StandsFor(t, ops[k])

LEMMA AtsAppend ==
  ASSUME NEW t, NEW ops \in Seq(IROpOf(t)), NEW op \in IROpOf(t)
  PROVE  /\ Ats(ops) \in Seq(Seq(NodesOf(t)))
         /\ Ats(Append(ops, op)) = Append(Ats(ops), op.at)
         /\ FlattenSeq(Ats(Append(ops, op))) = FlattenSeq(Ats(ops)) \o op.at
         /\ FlattenSeq(Ats(ops)) \in Seq(NodesOf(t))
<1> DEFINE S == Seq(NodesOf(t))
           N == Len(ops)
           more == Append(ops, op)
<1>1. /\ N \in Nat /\ DOMAIN ops = 1 .. N /\ op.at \in S
      /\ \A k \in 1 .. N : ops[k].at \in S
  <2>1. \A o \in IROpOf(t) : o.at \in S
    BY DEF IROpOf
  <2>2. N \in Nat /\ DOMAIN ops = 1 .. N /\ \A k \in 1 .. N : ops[k] \in IROpOf(t)
    BY LenProperties, ElementOfSeq
  <2> QED
    BY <2>1, <2>2
<1>2. /\ DOMAIN more = 1 .. N + 1 /\ more[N + 1] = op
      /\ \A k \in 1 .. N : more[k] = ops[k]
  BY <1>1
<1> HIDE DEF S, more
<1>3. Ats(ops) \in Seq(S) /\ Len(Ats(ops)) = N
  <2>1. /\ Ats(ops) = [k \in 1 .. N |-> Ats(ops)[k]]
        /\ \A k \in 1 .. N : Ats(ops)[k] \in S
    BY <1>1 DEF Ats
  <2> QED
    BY <1>1, <2>1, SequenceType
<1>4. IsLonger(Ats(more), Ats(ops), op.at, N)
  BY <1>1, <1>2, <1>3 DEF IsLonger, Ats
<1>5. Ats(more) = Append(Ats(ops), op.at)
  BY <1>1, <1>3, <1>4, SequenceAppend
<1>6. FlattenSeq(Append(Ats(ops), op.at)) = FlattenSeq(Ats(ops)) \o op.at
  BY <1>1, <1>3, FlattenAppend DEF S
<1>7. FlattenSeq(Ats(ops)) \in Seq(NodesOf(t))
  BY <1>3, FlattenType DEF S
<1> QED
  BY <1>3, <1>5, <1>6, <1>7 DEF S, more

\* Giving the last of some operators more to stand for.
LEMMA AtsLonger ==
  ASSUME NEW t, NEW front \in Seq(IROpOf(t)), NEW last \in IROpOf(t), NEW longer \in IROpOf(t),
         NEW at \in Seq(NodesOf(t)), longer.at = last.at \o at
  PROVE  FlattenSeq(Ats(Append(front, longer))) = FlattenSeq(Ats(Append(front, last))) \o at
<1> DEFINE a == FlattenSeq(Ats(front))
           b == last.at
<1>1. a \in Seq(NodesOf(t)) /\ b \in Seq(NodesOf(t))
  BY AtsAppend DEF IROpOf
<1>2. FlattenSeq(Ats(Append(front, last))) = a \o b
  BY AtsAppend
<1>3. FlattenSeq(Ats(Append(front, longer))) = a \o (b \o at)
  BY AtsAppend
<1> HIDE DEF a, b
<1>4. a \o (b \o at) = (a \o b) \o at
  BY <1>1
<1> QED
  BY <1>2, <1>3, <1>4

Longer(op, at) == [op EXCEPT !.at = @ \o at]

LEMMA LongerFacts ==
  ASSUME NEW t, NEW op \in IROpOf(t), NEW at \in Seq(NodesOf(t))
  PROVE  /\ Longer(op, at) \in IROpOf(t)
         /\ Longer(op, at).at = op.at \o at
         /\ Longer(op, at).kind = op.kind /\ Longer(op, at).subs = op.subs
<1>1. op.at \in Seq(NodesOf(t)) /\ op.at \o at \in Seq(NodesOf(t))
  BY DEF IROpOf
<1> QED
  BY <1>1 DEF IROpOf, Longer

LEMMA MergeLast ==
  ASSUME NEW t, NEW front \in Seq(IROpOf(t)), NEW last \in IROpOf(t), NEW op \in IROpOf(t),
         last.kind = "where", op.kind = "where"
  PROVE  Merge(Append(front, last), op) = Append(front, Longer(last, op.at))
<1> DEFINE S == IROpOf(t)
           n == Len(front) + 1
<1>1. PICK s : s = Append(front, last)
  OBVIOUS
<1>2. s # << >> /\ Len(s) = n /\ s[n] = last
  BY <1>1, AppendProperties
<1>3. Merge(s, op) = ReplaceAt(s, n, Longer(last, op.at))
  BY <1>2 DEF Merge, Last, Longer, ReplaceAt
<1>4. Longer(last, op.at) \in S
  <2>1. op.at \in Seq(NodesOf(t))
    BY DEF IROpOf
  <2> QED
    BY <2>1, LongerFacts
<1>5. ReplaceAt(s, n, Longer(last, op.at)) = Append(front, Longer(last, op.at))
  <2> HIDE DEF S
  <2>1. front \in Seq(S) /\ last \in S
    BY DEF S
  <2> QED
    BY <1>1, <1>4, <2>1, SequenceReplaceLast
<1> QED
  BY <1>1, <1>3, <1>5

\* No two of the operators that follow one another are wheres.
Apart(ops) == \A k \in 2 .. Len(ops) : ops[k].kind = "where" => ops[k - 1].kind # "where"

LEMMA ApartAppend ==
  ASSUME NEW S, NEW ops \in Seq(S), NEW op \in S
  PROVE  Apart(Append(ops, op)) <=>
           /\ Apart(ops)
           /\ ops # << >> /\ op.kind = "where" => ops[Len(ops)].kind # "where"
<1>1. PICK n \in Nat : n = Len(ops)
  BY LenProperties
<1>2. PICK more : more = Append(ops, op)
  OBVIOUS
<1>3. /\ Len(more) = n + 1 /\ more[n + 1] = op
      /\ \A k \in 1 .. n : more[k] = ops[k]
  BY <1>1, <1>2, AppendProperties
<1>4. ops # << >> <=> n # 0
  BY <1>1, EmptySeq
<1>5. ASSUME NEW k \in 2 .. n + 1, k # n + 1
      PROVE  k \in 2 .. n /\ more[k] = ops[k] /\ more[k - 1] = ops[k - 1]
  <2>1. k \in 1 .. n /\ k - 1 \in 1 .. n /\ k \in 2 .. n
    BY <1>5
  <2> QED
    BY <1>3, <2>1
<1>6. ASSUME n # 0
      PROVE  n + 1 \in 2 .. n + 1 /\ more[n + 1] = op /\ more[(n + 1) - 1] = ops[n]
  <2>1. n \in 1 .. n /\ (n + 1) - 1 = n
    BY <1>6
  <2> QED
    BY <1>3, <2>1
<1>7. \A k \in 2 .. n : k \in 2 .. n + 1 /\ k # n + 1
  OBVIOUS
<1>8. n = 0 => ~ \E k \in 2 .. n + 1 : k = n + 1
  OBVIOUS
<1>9. ASSUME Apart(more)
      PROVE  Apart(ops) /\ (n # 0 /\ op.kind = "where" => ops[n].kind # "where")
  BY <1>1, <1>3, <1>5, <1>6, <1>7, <1>9 DEF Apart
<1>10. ASSUME Apart(ops), n # 0 /\ op.kind = "where" => ops[n].kind # "where"
       PROVE  Apart(more)
  <2> SUFFICES ASSUME NEW k \in 2 .. n + 1, more[k].kind = "where"
               PROVE  more[k - 1].kind # "where"
    BY <1>3 DEF Apart
  <2>1. CASE k = n + 1
    BY <1>6, <1>8, <1>10, <2>1
  <2>2. CASE k # n + 1
    BY <1>1, <1>5, <1>10, <2>2 DEF Apart
  <2> QED
    BY <2>1, <2>2
<1> QED
  BY <1>1, <1>2, <1>4, <1>9, <1>10

\* Each of the merged operators begins where one of the collected ones does.
BeginsOne(t, m, ops) == StandsFor(t, m) /\ \E i \in DOMAIN ops : m.at[1] = ops[i].at[1]
Begins(t, merged, ops) == \A k \in DOMAIN merged : BeginsOne(t, merged[k], ops)

LEMMA BeginsAppend ==
  ASSUME NEW t, NEW S, NEW merged \in Seq(S), NEW m \in S, NEW ops
  PROVE  Begins(t, Append(merged, m), ops) <=> Begins(t, merged, ops) /\ BeginsOne(t, m, ops)
<1>1. PICK n \in Nat : n = Len(merged)
  BY LenProperties
<1>2. PICK more : more = Append(merged, m)
  OBVIOUS
<1>3. /\ DOMAIN more = 1 .. n + 1 /\ more[n + 1] = m /\ DOMAIN merged = 1 .. n
      /\ \A k \in 1 .. n : more[k] = merged[k]
  BY <1>1, <1>2, AppendProperties, LenProperties
<1>4. \A k : k \in 1 .. n + 1 <=> k = n + 1 \/ k \in 1 .. n
  OBVIOUS
<1>5. Begins(t, more, ops) <=> Begins(t, merged, ops) /\ BeginsOne(t, m, ops)
  BY <1>3, <1>4 DEF Begins
<1> QED
  BY <1>2, <1>5

\* What becomes of the operators a walk collects.
IsMerged(t, merged, ops) ==
  /\ merged \in Seq(IROpOf(t))
  /\ merged = << >> => ops = << >>
  /\ Begins(t, merged, ops)
  /\ FlattenSeq(Ats(merged)) = FlattenSeq(Ats(ops))
  /\ Apart(merged)

\* One more operator.
LEMMA MergeOne ==
  ASSUME NEW t, NEW ops \in Seq(IROpOf(t)), NEW op \in IROpOf(t), StandsFor(t, op),
         NEW merged, IsMerged(t, merged, ops)
  PROVE  IsMerged(t, Merge(merged, op), Append(ops, op))
<1>1. PICK more \in Seq(IROpOf(t)) : more = Append(ops, op)
  <2>1. Append(ops, op) \in Seq(IROpOf(t))
    BY AppendProperties
  <2> QED
    BY <2>1
<1>2. op.at \in Seq(NodesOf(t)) /\ merged \in Seq(IROpOf(t)) /\ Apart(merged)
  BY DEF IROpOf, IsMerged
<1>3. FlattenSeq(Ats(more)) = FlattenSeq(Ats(merged)) \o op.at
  BY <1>1, AtsAppend DEF IsMerged
<1>4. Begins(t, merged, more) /\ BeginsOne(t, op, more)
  <2>1. PICK n \in Nat : n = Len(ops)
    BY LenProperties
  <2>2. /\ DOMAIN ops = 1 .. n /\ DOMAIN more = 1 .. n + 1 /\ more[n + 1] = op
        /\ \A k \in 1 .. n : more[k] = ops[k]
    BY <1>1, <2>1, AppendProperties, LenProperties
  <2>3. n + 1 \in 1 .. n + 1 /\ \A k \in 1 .. n : k \in 1 .. n + 1
    OBVIOUS
  <2>4. Begins(t, merged, ops)
    BY DEF IsMerged
  <2>5. \A k \in DOMAIN merged : \E i \in DOMAIN ops : merged[k].at[1] = ops[i].at[1]
    BY <2>4 DEF Begins, BeginsOne
  <2>6. \A i \in DOMAIN ops : i \in DOMAIN more /\ more[i] = ops[i]
    BY <2>2, <2>3
  <2>7. \A k \in DOMAIN merged : \E i \in DOMAIN more : merged[k].at[1] = more[i].at[1]
    BY <2>5, <2>6
  <2> QED
    BY <2>2, <2>3, <2>4, <2>7 DEF Begins, BeginsOne
<1>5. CASE merged # << >> /\ Last(merged).kind = "where" /\ op.kind = "where"
  <2>1. PICK front \in Seq(IROpOf(t)), last \in IROpOf(t) : merged = Append(front, last)
    BY <1>2, <1>5, SequenceEmptyOrAppend
  <2>2. merged[Len(merged)] = last
    BY <2>1, AppendProperties
  <2>3. last.kind = "where"
    BY <1>5, <2>2 DEF Last
  <2>4. PICK longer : longer = Longer(last, op.at)
    OBVIOUS
  <2>5. last.at \in Seq(NodesOf(t))
    BY DEF IROpOf
  <2>6. /\ longer \in IROpOf(t)
        /\ longer.at = last.at \o op.at /\ longer.kind = last.kind /\ longer.subs = last.subs
    BY <1>2, <2>4, LongerFacts
  <2>7. Merge(merged, op) = Append(front, longer)
    <3>1. Merge(Append(front, last), op) = Append(front, Longer(last, op.at))
      BY <1>5, <2>3, MergeLast
    <3> QED
      BY <2>1, <2>4, <3>1
  <2>8. FlattenSeq(Ats(Append(front, longer))) = FlattenSeq(Ats(merged)) \o op.at
    BY <1>2, <2>1, <2>6, AtsLonger
  <2>9. Begins(t, front, more) /\ BeginsOne(t, last, more)
    <3>1. Begins(t, Append(front, last), more)
      BY <1>4, <2>1
    <3> QED
      BY <3>1, BeginsAppend
  <2>10. longer.at[1] = last.at[1] /\ longer.at # << >>
    <3>1. last.at # << >>
      BY <2>9 DEF BeginsOne, StandsFor
    <3>2. PICK a \in Seq(NodesOf(t)) : a = last.at
      BY <2>5
    <3>3. Len(a) \in Nat \ {0} /\ 1 \in 1 .. Len(a)
      BY <3>1, <3>2, EmptySeq
    <3>4. Len(op.at) \in Nat
      BY <1>2, LenProperties
    <3>5. (a \o op.at)[1] = a[1] /\ Len(a \o op.at) # 0
      BY <1>2, <3>3, <3>4
    <3>6. a \o op.at # << >>
      BY <3>5, EmptySeq
    <3> QED
      BY <2>6, <3>2, <3>5, <3>6
  <2>11. BeginsOne(t, longer, more)
    BY <2>6, <2>9, <2>10 DEF BeginsOne, StandsFor
  <2>12. Begins(t, Append(front, longer), more)
    BY <2>6, <2>9, <2>11, BeginsAppend
  <2>13. Apart(Append(front, longer))
    BY <1>2, <2>1, <2>6, ApartAppend
  <2>14. Append(front, longer) \in Seq(IROpOf(t)) /\ Append(front, longer) # << >>
    BY <2>6, AppendProperties
  <2> QED
    BY <1>1, <1>3, <2>7, <2>8, <2>12, <2>13, <2>14 DEF IsMerged
<1>6. CASE ~ (merged # << >> /\ Last(merged).kind = "where" /\ op.kind = "where")
  <2>1. Merge(merged, op) = Append(merged, op)
    BY <1>6 DEF Merge
  <2>2. FlattenSeq(Ats(Append(merged, op))) = FlattenSeq(Ats(merged)) \o op.at
    BY <1>2, AtsAppend
  <2>3. Begins(t, Append(merged, op), more)
    BY <1>2, <1>4, BeginsAppend
  <2>4. Apart(Append(merged, op))
    BY <1>2, <1>6, ApartAppend DEF Last
  <2>5. Append(merged, op) \in Seq(IROpOf(t)) /\ Append(merged, op) # << >>
    BY <1>2, AppendProperties
  <2> QED
    BY <1>1, <1>3, <2>1, <2>2, <2>3, <2>4, <2>5 DEF IsMerged
<1> QED
  BY <1>5, <1>6

LEMMA MergeType ==
  ASSUME NEW t, NEW merged \in Seq(IROpOf(t)), NEW op \in IROpOf(t)
  PROVE  Merge(merged, op) \in Seq(IROpOf(t))
<1>1. CASE merged # << >> /\ Last(merged).kind = "where" /\ op.kind = "where"
  <2>1. PICK front \in Seq(IROpOf(t)), last \in IROpOf(t) : merged = Append(front, last)
    BY <1>1, SequenceEmptyOrAppend
  <2>2. last.kind = "where"
    BY <1>1, <2>1, AppendProperties DEF Last
  <2>3. Merge(Append(front, last), op) = Append(front, Longer(last, op.at))
    BY <1>1, <2>2, MergeLast
  <2>4. Longer(last, op.at) \in IROpOf(t)
    <3>1. op.at \in Seq(NodesOf(t))
      BY DEF IROpOf
    <3> QED
      BY <3>1, LongerFacts
  <2> QED
    BY <2>1, <2>3, <2>4, AppendProperties
<1>2. CASE ~ (merged # << >> /\ Last(merged).kind = "where" /\ op.kind = "where")
  BY <1>2, AppendProperties DEF Merge
<1> QED
  BY <1>1, <1>2

\* The loop of merge_filter_ops, as a function of the operators it has seen.
IsMergeLoop(merged, ops) ==
  merged = [k \in 0 .. Len(ops) |-> IF k = 0 THEN << >> ELSE Merge(merged[k - 1], ops[k])]

LEMMA MergeLoopExists ==
  ASSUME NEW t, NEW ops \in Seq(IROpOf(t))
  PROVE  \E merged : IsMergeLoop(merged, ops)
<1> DEFINE N == Len(ops)
           D == 0 .. N
           S == Seq(IROpOf(t))
           rank == [k \in D |-> k]
           body(f) == [k \in D |-> IF k = 0 THEN << >> ELSE Merge(f[k - 1], ops[k])]
           F == [f \in [D -> S] |-> body(f)]
<1>1. N \in Nat /\ S # {} /\ rank \in [D -> 0 .. N]
  <2>1. << >> \in S /\ N \in Nat
    BY EmptySeq, LenProperties
  <2> QED
    BY <2>1
<1>2. ASSUME NEW f \in [D -> S] PROVE body(f) \in [D -> S]
  <2>1. ASSUME NEW k \in D PROVE (IF k = 0 THEN << >> ELSE Merge(f[k - 1], ops[k])) \in S
    <3>1. CASE k = 0
      BY <3>1, EmptySeq
    <3>2. CASE k # 0
      <4>1. k - 1 \in D /\ k \in 1 .. N
        BY <1>1, <3>2
      <4>2. f[k - 1] \in Seq(IROpOf(t)) /\ ops[k] \in IROpOf(t)
        BY <4>1, ElementOfSeq
      <4> QED
        BY <3>2, <4>2, MergeType
    <3> QED
      BY <3>1, <3>2
  <2> QED
    BY <2>1
<1>3. F \in [[D -> S] -> [D -> S]]
  <2> HIDE DEF body
  <2> QED
    BY <1>2
<1>4. ASSUME NEW f \in [D -> S], NEW g \in [D -> S], NEW k \in D,
             \A m \in D : rank[m] < rank[k] => f[m] = g[m]
      PROVE  F[f][k] = F[g][k]
  <2>1. k # 0 => k - 1 \in D /\ rank[k - 1] < rank[k]
    BY <1>1
  <2>2. k # 0 => f[k - 1] = g[k - 1]
    BY <1>4, <2>1
  <2> QED
    BY <2>2
<1> HIDE DEF F, D, S, N, rank
<1>5. IsRecursion(F, D, S, N, rank)
  BY <1>1, <1>3, <1>4 DEF IsRecursion
<1>6. PICK f \in [D -> S] : f = F[f]
  BY <1>5, RecursionByRank
<1>7. IsMergeLoop(f, ops)
  BY <1>6 DEF IsMergeLoop, F, D, N
<1> QED
  BY <1>7

\* merge_filter_ops keeps the operators in order and leaves no two filters
\* next to each other.
LEMMA MergeFiltersMerges ==
  ASSUME NEW t, NEW ops, Collected(t, ops)
  PROVE  IsMerged(t, MergeFilters(ops), ops)
<1>1. ops \in Seq(IROpOf(t)) /\ \A k \in DOMAIN ops : StandsFor(t, ops[k])
  BY DEF Collected
<1>2. PICK N \in Nat : N = Len(ops)
  BY <1>1, LenProperties
<1> DEFINE merged == CHOOSE f : IsMergeLoop(f, ops)
<1>3. MergeFilters(ops) = merged[N]
  BY <1>2 DEF MergeFilters, IsMergeLoop
<1>4. IsMergeLoop(merged, ops)
  BY <1>1, MergeLoopExists
<1> HIDE DEF merged
<1>5. /\ merged[0] = << >>
      /\ \A k \in 1 .. N : merged[k] = Merge(merged[k - 1], ops[k])
  <2>1. \A k \in 0 .. N : merged[k] = IF k = 0 THEN << >> ELSE Merge(merged[k - 1], ops[k])
    BY <1>2, <1>4 DEF IsMergeLoop
  <2>2. 0 \in 0 .. N /\ \A k \in 1 .. N : k \in 0 .. N /\ k # 0
    OBVIOUS
  <2> QED
    BY <2>1, <2>2
<1> DEFINE T == {k \in Nat : k <= N => IsMerged(t, merged[k], SubSeq(ops, 1, k))}
<1>6. 0 \in T
  <2>1. SubSeq(ops, 1, 0) = << >> /\ << >> \in Seq(IROpOf(t))
    BY <1>1, SubSeqEmpty, EmptySeq
  <2>2. Begins(t, << >>, << >>) /\ Apart(<< >>)
    BY DEF Begins, Apart
  <2>3. IsMerged(t, << >>, << >>)
    BY <2>1, <2>2 DEF IsMerged
  <2> QED
    BY <1>5, <2>1, <2>3
<1>7. ASSUME NEW k \in Nat, k \in T PROVE k + 1 \in T
  <2> SUFFICES ASSUME k + 1 <= N PROVE IsMerged(t, merged[k + 1], SubSeq(ops, 1, k + 1))
    OBVIOUS
  <2>1. k + 1 \in 1 .. N /\ k <= N /\ (k + 1) - 1 = k
    OBVIOUS
  <2>2. ops[k + 1] \in IROpOf(t) /\ StandsFor(t, ops[k + 1])
    BY <1>1, <1>2, <2>1, ElementOfSeq, LenProperties
  <2>3. /\ SubSeq(ops, 1, k) \in Seq(IROpOf(t))
        /\ SubSeq(ops, 1, k + 1) = Append(SubSeq(ops, 1, k), ops[k + 1])
    <3> DEFINE s == SubSeq(ops, 1, k)
               u == SubSeq(ops, 1, k + 1)
    <3>1. /\ s \in Seq(IROpOf(t)) /\ Len(s) = k /\ \A i \in 1 .. k : s[i] = ops[i]
          /\ u \in Seq(IROpOf(t)) /\ Len(u) = k + 1 /\ \A i \in 1 .. k + 1 : u[i] = ops[i]
      BY <1>1, <1>2, <2>1
    <3> HIDE DEF s, u
    <3>2. IsLonger(u, s, ops[k + 1], k)
      BY <3>1 DEF IsLonger
    <3>3. u = Append(s, ops[k + 1])
      BY <2>2, <3>1, <3>2, SequenceAppend
    <3> QED
      BY <3>1, <3>3 DEF s, u
  <2>4. IsMerged(t, Merge(merged[k], ops[k + 1]), Append(SubSeq(ops, 1, k), ops[k + 1]))
    BY <1>7, <2>1, <2>2, <2>3, MergeOne
  <2> QED
    BY <1>5, <2>1, <2>3, <2>4
<1> HIDE DEF T
<1>8. N \in T
  <2>1. Nat \subseteq T
    BY <1>6, <1>7, InductionOverNat
  <2> QED
    BY <2>1
<1>9. SubSeq(ops, 1, N) = ops
  BY <1>1, <1>2, SubSeqFull
<1>10. IsMerged(t, merged[N], SubSeq(ops, 1, N))
  <2>1. N <= N
    OBVIOUS
  <2> QED
    BY <1>8, <2>1 DEF T
<1> QED
  BY <1>3, <1>9, <1>10

\* The nodes of collected operators.
LEMMA CollectedNodes ==
  ASSUME NEW t, NEW ops, Collected(t, ops)
  PROVE  FlattenSeq(Ats(ops)) = Firsts(ops)
<1>1. ops \in Seq(IROpOf(t)) /\ \A k \in DOMAIN ops : Len(ops[k].at) = 1
  BY DEF Collected
<1>2. PICK N \in Nat : N = Len(ops)
  BY <1>1, LenProperties
<1>3. \A k \in 1 .. N : ops[k].at \in Seq(NodesOf(t)) /\ Len(ops[k].at) = 1
  <2>1. \A o \in IROpOf(t) : o.at \in Seq(NodesOf(t))
    BY DEF IROpOf
  <2> QED
    BY <1>1, <1>2, <2>1, ElementOfSeq, LenProperties
<1>4. \A k \in 1 .. N : ops[k].at = <<ops[k].at[1]>> /\ ops[k].at[1] \in NodesOf(t)
  <2> TAKE k \in 1 .. N
  <2>1. PICK a \in Seq(NodesOf(t)) : a = ops[k].at /\ Len(a) = 1
    BY <1>3
  <2>2. a = <<a[1]>> /\ a[1] \in NodesOf(t)
    BY <2>1
  <2> QED
    BY <2>1, <2>2
<1>5. Firsts(ops) \in Seq(NodesOf(t)) /\ Len(Firsts(ops)) = N
  <2>1. Firsts(ops) = [k \in 1 .. N |-> Firsts(ops)[k]] /\ \A k \in 1 .. N : Firsts(ops)[k] \in NodesOf(t)
    BY <1>1, <1>2, <1>4, LenProperties DEF Firsts
  <2> QED
    BY <2>1, SequenceType
<1>6. Ats(ops) = Singles(Firsts(ops))
  <2>1. \A k \in 1 .. N : Firsts(ops)[k] = ops[k].at[1]
    BY <1>1, <1>2, LenProperties DEF Firsts
  <2>2. Ats(ops) = [k \in 1 .. N |-> ops[k].at]
    BY <1>1, <1>2, LenProperties DEF Ats
  <2>3. Singles(Firsts(ops)) = [k \in 1 .. N |-> <<Firsts(ops)[k]>>]
    BY <1>5 DEF Singles
  <2> QED
    BY <1>4, <2>1, <2>2, <2>3
<1> QED
  BY <1>5, <1>6, FlattenSingles

-----------------------------------------------------------------------------
(* The frames of the stack: what a walk under way has seen and has yet to  *)
(* see of the text of its pipeline.                                        *)

SourceOf(t) == [kind : {"unknown", "implicit"} \cup Sources, node : NodesOf(t) \cup {NoNode}]
FrameOf(t) ==
  [node : NodesOf(t), agenda : Seq(NodesOf(t)), source : SourceOf(t), ops : Seq(IROpOf(t)),
   open : NodesOf(t) \cup {NoNode}, visited : Nat]

\* The nodes a walk is still to see.
Ahead(t, agenda) == UNION {ReachOf(t)[m] : m \in Range(agenda)}
\* The node whose kids it is visiting, if any.
Opened(f) == IF f.open = NoNode THEN {} ELSE {f.open}

InOrder(t, agenda) ==
  \A i, j \in DOMAIN agenda : i < j =>
    \A x \in ReachOf(t)[agenda[i]], y \in ReachOf(t)[agenda[j]] : x < y

\* The operators of the pipeline are collected, open or ahead, in this order.
OpsFound(t, f) ==
  /\ Opened(f) \cup Ahead(t, f.agenda) \subseteq ReachOf(t)[f.node]
  /\ \A k \in DOMAIN f.ops : f.ops[k].at[1] \in ReachOf(t)[f.node]
  /\ \A m \in ReachOf(t)[f.node] : t.kind[m] \in Operators =>
       \/ \E k \in DOMAIN f.ops : m = f.ops[k].at[1]
       \/ m \in Opened(f) \cup Ahead(t, f.agenda)
  /\ \A k \in DOMAIN f.ops, m \in Opened(f) \cup Ahead(t, f.agenda) : f.ops[k].at[1] < m
  /\ \A k, l \in DOMAIN f.ops : k < l => f.ops[k].at[1] < f.ops[l].at[1]
  /\ \A m \in Opened(f), x \in Ahead(t, f.agenda) : m < x
  /\ InOrder(t, f.agenda)

\* As long as there is no source, all that can be one is open or ahead.
SourceFound(t, f) ==
  \/ /\ f.source = Unknown
     /\ \A m \in ReachOf(t)[f.node] :
          t.kind[m] \in Sources => m \in Opened(f) \cup Ahead(t, f.agenda)
  \/ /\ f.source.node \in ReachOf(t)[f.node]
     /\ f.source.kind = t.kind[f.source.node]
     /\ f.source.kind \in Sources

\* B are the nodes whose pipelines are built.
KidsMade(t, B, f) ==
  f.open # NoNode =>
    /\ t.kind[f.open] \in (Operators \ {BadCount}) \cup Holders
    /\ f.visited <= Len(t.kids[f.open])
    /\ \A i \in 1 .. f.visited : t.kids[f.open][i] \in B

SubsMade(B, ops) == \A k \in DOMAIN ops : Range(ops[k].subs) \subseteq B

FrameOK(t, B, f) ==
  /\ f \in FrameOf(t)
  /\ Collected(t, f.ops)
  /\ OpsFound(t, f)
  /\ SourceFound(t, f)
  /\ KidsMade(t, B, f)
  /\ SubsMade(B, f.ops)

\* Building more leaves frames as they should be.
LEMMA FrameMonotone ==
  ASSUME NEW t, NEW B, NEW f, FrameOK(t, B, f), NEW C, B \subseteq C
  PROVE  FrameOK(t, C, f)
BY DEF FrameOK, KidsMade, SubsMade

LEMMA AheadParts ==
  ASSUME NEW t, IsTree(t), NEW agenda \in Seq(NodesOf(t)), agenda # << >>, InOrder(t, agenda)
  PROVE  /\ Head(agenda) \in NodesOf(t) /\ Tail(agenda) \in Seq(NodesOf(t))
         /\ Ahead(t, agenda) = ReachOf(t)[Head(agenda)] \cup Ahead(t, Tail(agenda))
         /\ \A x \in ReachOf(t)[Head(agenda)], y \in Ahead(t, Tail(agenda)) : x < y
         /\ InOrder(t, Tail(agenda))
<1>1. PICK n \in Nat : n = Len(agenda)
  BY LenProperties
<1>2. PICK tail : tail = Tail(agenda)
  OBVIOUS
<1>3. n # 0
  BY <1>1, EmptySeq
<1>4. /\ Head(agenda) = agenda[1] /\ Head(agenda) \in NodesOf(t) /\ tail \in Seq(NodesOf(t))
      /\ Len(tail) = n - 1 /\ \A i \in 1 .. n - 1 : tail[i] = agenda[i + 1]
  BY <1>1, <1>2, HeadTailProperties
<1>5. DOMAIN agenda = 1 .. n /\ DOMAIN tail = 1 .. n - 1
  BY <1>1, <1>3, <1>4, LenProperties
<1>6. \A i : i \in 1 .. n <=> i = 1 \/ \E j \in 1 .. n - 1 : i = j + 1
  <2>1. ASSUME NEW i \in 1 .. n, i # 1 PROVE i - 1 \in 1 .. n - 1 /\ i = (i - 1) + 1
    BY <2>1
  <2>2. 1 \in 1 .. n /\ \A j \in 1 .. n - 1 : j + 1 \in 1 .. n
    BY <1>3
  <2> QED
    BY <2>1, <2>2
<1>7. Range(agenda) = {Head(agenda)} \cup Range(tail)
  <2>1. ASSUME NEW i \in 1 .. n PROVE agenda[i] \in {Head(agenda)} \cup Range(tail)
    <3>1. CASE i = 1
      BY <1>4, <3>1
    <3>2. ASSUME NEW j \in 1 .. n - 1, i = j + 1 PROVE agenda[i] \in Range(tail)
      BY <1>4, <1>5, <3>2 DEF Range
    <3> QED
      BY <1>6, <3>1, <3>2
  <2>2. Head(agenda) \in Range(agenda)
    BY <1>4, <1>5, <1>6 DEF Range
  <2>3. \A j \in 1 .. n - 1 : tail[j] \in Range(agenda)
    BY <1>4, <1>5, <1>6 DEF Range
  <2> QED
    BY <1>5, <2>1, <2>2, <2>3 DEF Range
<1>8. Ahead(t, agenda) = ReachOf(t)[Head(agenda)] \cup Ahead(t, tail)
  BY <1>7 DEF Ahead
<1>9. ASSUME NEW x \in ReachOf(t)[Head(agenda)], NEW y \in Ahead(t, tail) PROVE x < y
  <2>1. PICK m \in Range(tail) : y \in ReachOf(t)[m]
    BY <1>9 DEF Ahead
  <2>2. PICK j \in 1 .. n - 1 : m = tail[j]
    BY <1>5 DEF Range
  <2>3. 1 \in 1 .. n /\ j + 1 \in 1 .. n /\ 1 < j + 1 /\ m = agenda[j + 1]
    BY <1>4, <1>6, <2>2
  <2> QED
    BY <1>4, <1>5, <2>1, <2>3 DEF InOrder
<1>10. InOrder(t, tail)
  <2> SUFFICES ASSUME NEW i \in 1 .. n - 1, NEW j \in 1 .. n - 1, i < j,
                      NEW x \in ReachOf(t)[tail[i]], NEW y \in ReachOf(t)[tail[j]]
               PROVE  x < y
    BY <1>5 DEF InOrder
  <2>1. i + 1 \in 1 .. n /\ j + 1 \in 1 .. n /\ i + 1 < j + 1
    BY <1>6
  <2>2. tail[i] = agenda[i + 1] /\ tail[j] = agenda[j + 1]
    BY <1>4
  <2> QED
    BY <1>5, <2>1, <2>2 DEF InOrder
<1> QED
  BY <1>2, <1>4, <1>8, <1>9, <1>10

LEMMA AheadJoin ==
  ASSUME NEW t, IsTree(t), NEW s \in Seq(NodesOf(t)), NEW u \in Seq(NodesOf(t)),
         InOrder(t, s), InOrder(t, u)
  PROVE  /\ s \o u \in Seq(NodesOf(t))
         /\ Ahead(t, s \o u) = Ahead(t, s) \cup Ahead(t, u)
         /\ (\A x \in Ahead(t, s), y \in Ahead(t, u) : x < y) => InOrder(t, s \o u)
<1>1. PICK n \in Nat, l \in Nat : n = Len(s) /\ l = Len(u)
  BY LenProperties
<1>2. PICK v \in Seq(NodesOf(t)) : v = s \o u
  <2>1. s \o u \in Seq(NodesOf(t))
    BY ConcatProperties
  <2> QED
    BY <2>1
<1>3. Range(v) = Range(s) \cup Range(u)
  BY <1>2, RangeConcatenation
<1>4. Ahead(t, v) = Ahead(t, s) \cup Ahead(t, u)
  BY <1>3 DEF Ahead
<1>5. /\ DOMAIN v = 1 .. n + l /\ DOMAIN s = 1 .. n /\ DOMAIN u = 1 .. l
      /\ \A i \in 1 .. n : v[i] = s[i]
      /\ \A i \in 1 .. l : v[n + i] = u[i]
  BY <1>1, <1>2
<1>6. ASSUME \A x \in Ahead(t, s), y \in Ahead(t, u) : x < y PROVE InOrder(t, v)
  <2> SUFFICES ASSUME NEW i \in 1 .. n + l, NEW j \in 1 .. n + l, i < j,
                      NEW x \in ReachOf(t)[v[i]], NEW y \in ReachOf(t)[v[j]]
               PROVE  x < y
    BY <1>5 DEF InOrder
  <2>1. CASE j <= n
    <3>1. i \in 1 .. n /\ j \in 1 .. n
      BY <2>1
    <3> QED
      BY <1>5, <3>1 DEF InOrder
  <2>2. CASE n < i
    <3>1. i - n \in 1 .. l /\ j - n \in 1 .. l /\ i - n < j - n /\ i = n + (i - n) /\ j = n + (j - n)
      BY <2>2
    <3>2. PICK a \in 1 .. l, b \in 1 .. l : a = i - n /\ b = j - n /\ a < b
      BY <3>1
    <3>3. v[i] = u[a] /\ v[j] = u[b]
      BY <1>5, <3>1, <3>2
    <3>4. /\ a \in DOMAIN u /\ b \in DOMAIN u
          /\ x \in ReachOf(t)[u[a]] /\ y \in ReachOf(t)[u[b]]
      BY <1>5, <3>3
    <3> QED
      BY <3>2, <3>4 DEF InOrder
  <2>3. CASE i <= n /\ n < j
    <3>1. i \in 1 .. n /\ j - n \in 1 .. l /\ j = n + (j - n)
      BY <2>3
    <3>2. v[i] = s[i] /\ v[j] = u[j - n]
      BY <1>5, <3>1
    <3>3. v[i] \in Range(s) /\ v[j] \in Range(u)
      BY <1>5, <3>1, <3>2 DEF Range
    <3> QED
      BY <1>6, <3>3 DEF Ahead
  <2> QED
    BY <2>1, <2>2, <2>3
<1> QED
  BY <1>2, <1>4, <1>6

\* The kids of a node, as a walk looks at them.
LEMMA AheadKids ==
  ASSUME NEW t, IsTree(t), NEW n \in NodesOf(t), t.kind[n] \in Transparent
  PROVE  /\ t.kids[n] \in Seq(NodesOf(t))
         /\ InOrder(t, t.kids[n])
         /\ ReachOf(t)[n] = {n} \cup Ahead(t, t.kids[n])
<1>1. IsWalk(t, Transparent, ReachOf(t))
  BY TheWalks
<1>2. InOrder(t, t.kids[n])
  BY <1>1, WalkInOrder DEF InOrder
<1>3. ReachOf(t)[n] = {n} \cup Ahead(t, t.kids[n])
  BY ReachFacts DEF Ahead
<1> QED
  BY <1>2, <1>3, TreeFacts

\* Every frame starts as it should be.
LEMMA NewFrameOK ==
  ASSUME NEW t, IsTree(t), NEW B, NEW n \in NodesOf(t)
  PROVE  FrameOK(t, B, NewFrame(n))
<1> DEFINE f == NewFrame(n)
<1>1. /\ f.node = n /\ f.agenda = <<n>> /\ f.source = Unknown /\ f.ops = << >>
      /\ f.open = NoNode /\ f.visited = 0
  BY DEF NewFrame
<1>2. <<n>> \in Seq(NodesOf(t)) /\ DOMAIN <<n>> = {1} /\ <<n>>[1] = n
  OBVIOUS
<1>3. << >> \in Seq(IROpOf(t)) /\ DOMAIN << >> = {}
  BY EmptySeq
<1>4. Unknown \in SourceOf(t)
  BY DEF Unknown, SourceOf
<1>5. f \in FrameOf(t)
  BY <1>2, <1>3, <1>4 DEF NewFrame, FrameOf
<1>6. Ahead(t, <<n>>) = ReachOf(t)[n] /\ InOrder(t, <<n>>)
  BY <1>2 DEF Ahead, InOrder, Range
<1> HIDE DEF f
<1>7. Opened(f) = {}
  BY <1>1 DEF Opened
<1>8. OpsFound(t, f) /\ Collected(t, f.ops) /\ SubsMade(B, f.ops)
  BY <1>1, <1>3, <1>6, <1>7 DEF OpsFound, Collected, SubsMade
<1>9. SourceFound(t, f) /\ KidsMade(t, B, f)
  BY <1>1, <1>6, <1>7 DEF SourceFound, KidsMade
<1> QED
  BY <1>5, <1>8, <1>9 DEF FrameOK, f

-----------------------------------------------------------------------------
(* What each step of walk() makes of the frame it is in.                   *)

LEMMA FrameParts ==
  ASSUME NEW t, NEW B, NEW f, FrameOK(t, B, f)
  PROVE  /\ f.node \in NodesOf(t) /\ f.agenda \in Seq(NodesOf(t))
         /\ f.source \in SourceOf(t) /\ f.ops \in Seq(IROpOf(t))
         /\ f.open \in NodesOf(t) \cup {NoNode} /\ f.visited \in Nat
         /\ InOrder(t, f.agenda)
BY DEF FrameOK, FrameOf, OpsFound

\* In the lemmas that follow g is the frame f after a step: it has f's parts but
\* for those the lemma gives anew.
LEMMA DescendOK ==
  ASSUME NEW t, IsTree(t), NEW B, NEW f, FrameOK(t, B, f),
         f.open = NoNode, f.agenda # << >>, t.kind[Head(f.agenda)] \in Transparent,
         NEW g \in FrameOf(t), g.node = f.node, g.source = f.source, g.ops = f.ops,
         g.open = NoNode, g.agenda = t.kids[Head(f.agenda)] \o Tail(f.agenda)
  PROVE  FrameOK(t, B, g)
<1> DEFINE h == Head(f.agenda)
           rest == Tail(f.agenda)
           kids == t.kids[h]
<1>1. /\ h \in NodesOf(t) /\ rest \in Seq(NodesOf(t)) /\ InOrder(t, rest)
      /\ Ahead(t, f.agenda) = ReachOf(t)[h] \cup Ahead(t, rest)
      /\ \A x \in ReachOf(t)[h], y \in Ahead(t, rest) : x < y
  BY FrameParts, AheadParts
<1>2. /\ kids \in Seq(NodesOf(t)) /\ InOrder(t, kids)
      /\ ReachOf(t)[h] = {h} \cup Ahead(t, kids)
  BY <1>1, AheadKids
<1> HIDE DEF h, rest, kids
<1>3. /\ Ahead(t, kids \o rest) = Ahead(t, kids) \cup Ahead(t, rest)
      /\ InOrder(t, kids \o rest)
  BY <1>1, <1>2, AheadJoin
<1>4. g.agenda = kids \o rest
  BY DEF h, rest, kids
<1>5. Opened(f) = {} /\ Opened(g) = {}
  BY DEF Opened
<1>6. Ahead(t, f.agenda) = {h} \cup Ahead(t, g.agenda) /\ InOrder(t, g.agenda)
  BY <1>1, <1>2, <1>3, <1>4
<1>7. t.kind[h] \notin Operators \cup Sources
  BY DEF h, Transparent, Operators, Sources, Leaves, Holders, BadCount
<1>8. OpsFound(t, g)
  BY <1>5, <1>6, <1>7 DEF FrameOK, OpsFound
<1>9. SourceFound(t, g)
  BY <1>5, <1>6, <1>7 DEF FrameOK, SourceFound
<1> QED
  BY <1>8, <1>9 DEF FrameOK, KidsMade

\* The node a walk looks at, when it goes no further there.
LEMMA SeenFacts ==
  ASSUME NEW t, IsTree(t), NEW B, NEW f, FrameOK(t, B, f),
         f.open = NoNode, f.agenda # << >>, t.kind[Head(f.agenda)] \notin Transparent
  PROVE  /\ Head(f.agenda) \in NodesOf(t)
         /\ Head(f.agenda) \in ReachOf(t)[f.node]
         /\ Ahead(t, f.agenda) = {Head(f.agenda)} \cup Ahead(t, Tail(f.agenda))
         /\ \A y \in Ahead(t, Tail(f.agenda)) : Head(f.agenda) < y
         /\ InOrder(t, Tail(f.agenda))
         /\ Opened(f) = {}
<1> DEFINE h == Head(f.agenda)
           rest == Tail(f.agenda)
<1>1. /\ h \in NodesOf(t) /\ rest \in Seq(NodesOf(t)) /\ InOrder(t, rest)
      /\ Ahead(t, f.agenda) = ReachOf(t)[h] \cup Ahead(t, rest)
      /\ \A x \in ReachOf(t)[h], y \in Ahead(t, rest) : x < y
  BY FrameParts, AheadParts
<1>2. ReachOf(t)[h] = {h}
  BY <1>1, ReachFacts
<1>3. h \in ReachOf(t)[f.node]
  BY <1>1, <1>2 DEF FrameOK, OpsFound
<1> QED
  BY <1>1, <1>2, <1>3 DEF Opened

LEMMA PassByOK ==
  ASSUME NEW t, IsTree(t), NEW B, NEW f, FrameOK(t, B, f),
         f.open = NoNode, f.agenda # << >>, t.kind[Head(f.agenda)] \in Ignored,
         NEW g \in FrameOf(t), g.node = f.node, g.source = f.source, g.ops = f.ops,
         g.open = NoNode, g.agenda = Tail(f.agenda)
  PROVE  FrameOK(t, B, g)
<1> DEFINE h == Head(f.agenda)
<1>1. t.kind[h] \notin Transparent \cup Operators \cup Sources
  BY DEF Transparent, Operators, Sources, Leaves, Holders, BadCount, Ignored
<1>2. /\ Ahead(t, f.agenda) = {h} \cup Ahead(t, g.agenda)
      /\ InOrder(t, g.agenda) /\ Opened(f) = {}
  BY <1>1, SeenFacts
<1>3. Opened(g) = {}
  BY DEF Opened
<1> HIDE DEF h
<1>4. OpsFound(t, g)
  BY <1>1, <1>2, <1>3 DEF FrameOK, OpsFound
<1>5. SourceFound(t, g)
  BY <1>1, <1>2, <1>3 DEF FrameOK, SourceFound
<1> QED
  BY <1>4, <1>5 DEF FrameOK, KidsMade

LEMMA TakeSourceOK ==
  ASSUME NEW t, IsTree(t), NEW B, NEW f, FrameOK(t, B, f),
         f.open = NoNode, f.agenda # << >>, t.kind[Head(f.agenda)] \in Leaves,
         NEW g \in FrameOf(t), g.node = f.node, g.ops = f.ops,
         g.open = NoNode, g.agenda = Tail(f.agenda),
         g.source.kind = t.kind[Head(f.agenda)], g.source.node = Head(f.agenda)
  PROVE  FrameOK(t, B, g)
<1> DEFINE h == Head(f.agenda)
<1>1. t.kind[h] \notin Transparent \cup Operators /\ t.kind[h] \in Sources
  BY DEF Transparent, Operators, Sources, Leaves, Holders, BadCount
<1>2. /\ Ahead(t, f.agenda) = {h} \cup Ahead(t, g.agenda)
      /\ h \in ReachOf(t)[f.node]
      /\ InOrder(t, g.agenda) /\ Opened(f) = {}
  BY <1>1, SeenFacts
<1>3. Opened(g) = {}
  BY DEF Opened
<1>4. SourceFound(t, g)
  BY <1>1, <1>2 DEF SourceFound
<1> HIDE DEF h
<1>5. OpsFound(t, g)
  BY <1>1, <1>2, <1>3 DEF FrameOK, OpsFound
<1> QED
  BY <1>4, <1>5 DEF FrameOK, KidsMade

LEMMA OpenOK ==
  ASSUME NEW t, IsTree(t), NEW B, NEW f, FrameOK(t, B, f),
         f.open = NoNode, f.agenda # << >>,
         t.kind[Head(f.agenda)] \in (Operators \ {BadCount}) \cup Holders,
         NEW g \in FrameOf(t), g.node = f.node, g.source = f.source, g.ops = f.ops,
         g.open = Head(f.agenda), g.visited = 0, g.agenda = Tail(f.agenda)
  PROVE  FrameOK(t, B, g)
<1> DEFINE h == Head(f.agenda)
<1>1. t.kind[h] \notin Transparent
  BY DEF Transparent, Operators, Holders, BadCount
<1>2. /\ Ahead(t, f.agenda) = {h} \cup Ahead(t, g.agenda)
      /\ h \in NodesOf(t) /\ h \in ReachOf(t)[f.node]
      /\ \A y \in Ahead(t, g.agenda) : h < y
      /\ InOrder(t, g.agenda) /\ Opened(f) = {}
  BY <1>1, SeenFacts
<1>3. g.open = h /\ h # NoNode
  BY <1>2, TreeFacts DEF NoNode
<1> HIDE DEF h
<1>4. Opened(g) = {h}
  BY <1>3 DEF Opened
<1>5. Opened(g) \cup Ahead(t, g.agenda) = Opened(f) \cup Ahead(t, f.agenda)
  BY <1>2, <1>4
<1>6. OpsFound(t, g)
  BY <1>2, <1>4, <1>5 DEF FrameOK, OpsFound
<1>7. SourceFound(t, g)
  BY <1>5 DEF FrameOK, SourceFound
<1>8. KidsMade(t, B, g)
  <2>1. Len(t.kids[h]) \in Nat
    BY <1>2, TreeFacts, LenProperties
  <2> QED
    BY <1>3, <2>1 DEF KidsMade, h
<1> QED
  BY <1>6, <1>7, <1>8 DEF FrameOK

LEMMA VisitedOK ==
  ASSUME NEW t, IsTree(t), NEW B, NEW f, FrameOK(t, B, f),
         f.open # NoNode, f.visited < Len(t.kids[f.open]),
         t.kids[f.open][f.visited + 1] \in B,
         NEW g \in FrameOf(t), g.node = f.node, g.source = f.source, g.ops = f.ops,
         g.open = f.open, g.visited = f.visited + 1, g.agenda = f.agenda
  PROVE  FrameOK(t, B, g)
<1>1. f.open \in NodesOf(t) /\ f.visited \in Nat /\ Len(t.kids[f.open]) \in Nat
  BY FrameParts, TreeFacts, LenProperties
<1>2. Opened(g) = Opened(f)
  BY DEF Opened
<1>3. OpsFound(t, g)
  BY <1>2 DEF FrameOK, OpsFound
<1>4. SourceFound(t, g)
  BY <1>2 DEF FrameOK, SourceFound
<1>5. KidsMade(t, B, g)
  <2>1. \A i \in 1 .. f.visited + 1 : i = f.visited + 1 \/ i \in 1 .. f.visited
    BY <1>1
  <2>2. \A i \in 1 .. f.visited + 1 : t.kids[f.open][i] \in B
    BY <2>1 DEF FrameOK, KidsMade
  <2>3. f.visited + 1 <= Len(t.kids[f.open])
    BY <1>1
  <2> QED
    BY <2>2, <2>3 DEF FrameOK, KidsMade
<1> QED
  BY <1>3, <1>4, <1>5 DEF FrameOK

\* The IR operator of a syntax node.
Plain(t, n) == [kind |-> t.kind[n], at |-> <<n>>, subs |-> t.branches[n]]

LEMMA PlainFacts ==
  ASSUME NEW t, IsTree(t), NEW n \in NodesOf(t), t.kind[n] \in Operators
  PROVE  /\ Plain(t, n) \in IROpOf(t) /\ Plain(t, n).at[1] = n
         /\ Len(Plain(t, n).at) = 1 /\ StandsFor(t, Plain(t, n))
         /\ Range(Plain(t, n).subs) \subseteq Range(t.kids[n])
<1>1. /\ t.kids[n] \in Seq(NodesOf(t)) /\ t.branches[n] \in Seq(Range(t.kids[n]))
      /\ \A k \in Range(t.kids[n]) : k \in NodesOf(t)
  BY TreeFacts
<1>2. t.branches[n] \in Seq(NodesOf(t))
  <2>1. Range(t.kids[n]) \subseteq NodesOf(t)
    BY <1>1
  <2> QED
    BY <1>1, <2>1, SeqMonotonic
<1>3. Range(t.branches[n]) \subseteq Range(t.kids[n])
  BY <1>1, RangeOfSeq
<1>4. <<n>> \in Seq(NodesOf(t)) /\ <<n>>[1] = n /\ Len(<<n>>) = 1 /\ <<n>> # << >>
  OBVIOUS
<1> QED
  BY <1>2, <1>3, <1>4 DEF Plain, IROpOf, StandsFor

\* All kids of the node a walk has open are built when all are visited.
LEMMA AllKidsMade ==
  ASSUME NEW t, IsTree(t), NEW B, NEW f, FrameOK(t, B, f),
         f.open # NoNode, f.visited = Len(t.kids[f.open])
  PROVE  f.open \in NodesOf(t) /\ Range(t.kids[f.open]) \subseteq B
<1>1. f.open \in NodesOf(t)
  BY FrameParts
<1>2. t.kids[f.open] \in Seq(NodesOf(t))
  BY <1>1, TreeFacts
<1>3. DOMAIN t.kids[f.open] = 1 .. f.visited
  BY <1>2, LenProperties
<1> QED
  BY <1>1, <1>3 DEF FrameOK, KidsMade, Range

LEMMA CloseOperatorOK ==
  ASSUME NEW t, IsTree(t), NEW B, NEW f, FrameOK(t, B, f),
         f.open # NoNode, f.visited = Len(t.kids[f.open]), t.kind[f.open] \in Operators,
         NEW g \in FrameOf(t), g.node = f.node, g.source = f.source,
         g.ops = Append(f.ops, Plain(t, f.open)),
         g.open = NoNode, g.agenda = f.agenda
  PROVE  FrameOK(t, B, g)
<1>1. f.open \in NodesOf(t) /\ Range(t.kids[f.open]) \subseteq B
  BY AllKidsMade
<1>2. PICK o \in IROpOf(t) : o = Plain(t, f.open)
  BY <1>1, PlainFacts
<1>3. /\ o.at[1] = f.open /\ Len(o.at) = 1 /\ StandsFor(t, o) /\ Range(o.subs) \subseteq B
  BY <1>1, <1>2, PlainFacts
<1>4. PICK n \in Nat : n = Len(f.ops)
  BY FrameParts, LenProperties
<1>5. /\ DOMAIN f.ops = 1 .. n /\ DOMAIN g.ops = 1 .. n + 1 /\ g.ops[n + 1] = o
      /\ \A k \in 1 .. n : g.ops[k] = f.ops[k]
  BY <1>2, <1>4, FrameParts, AppendProperties, LenProperties
<1>6. \A k : k \in 1 .. n + 1 <=> k = n + 1 \/ k \in 1 .. n
  OBVIOUS
<1>7. g.ops \in Seq(IROpOf(t))
  BY DEF FrameOf
<1>8. Collected(t, g.ops)
  BY <1>3, <1>5, <1>6, <1>7 DEF FrameOK, Collected
<1>9. SubsMade(B, g.ops)
  BY <1>3, <1>5, <1>6 DEF FrameOK, SubsMade
<1>10. Opened(f) = {f.open} /\ Opened(g) = {}
  BY DEF Opened
<1>11. /\ f.open \in ReachOf(t)[f.node]
       /\ \A x \in Ahead(t, f.agenda) : f.open < x
       /\ \A k \in 1 .. n : f.ops[k].at[1] < f.open
  BY <1>5, <1>10 DEF FrameOK, OpsFound
<1>12. \A k, l \in 1 .. n + 1 : k < l => g.ops[k].at[1] < g.ops[l].at[1]
  <2> SUFFICES ASSUME NEW k \in 1 .. n + 1, NEW l \in 1 .. n + 1, k < l
               PROVE  g.ops[k].at[1] < g.ops[l].at[1]
    OBVIOUS
  <2>1. k \in 1 .. n /\ (l = n + 1 \/ l \in 1 .. n)
    OBVIOUS
  <2>2. CASE l = n + 1
    BY <1>3, <1>5, <1>11, <2>1, <2>2
  <2>3. CASE l \in 1 .. n
    BY <1>5, <2>1, <2>3 DEF FrameOK, OpsFound
  <2> QED
    BY <2>1, <2>2, <2>3
<1>13. \A k \in 1 .. n + 1 : \A m \in Ahead(t, f.agenda) : g.ops[k].at[1] < m
  <2>1. \A k \in 1 .. n : \A m \in Ahead(t, f.agenda) : f.ops[k].at[1] < m
    BY <1>5 DEF FrameOK, OpsFound
  <2> QED
    BY <1>3, <1>5, <1>6, <1>11, <2>1
<1>14. \A k \in 1 .. n + 1 : g.ops[k].at[1] \in ReachOf(t)[f.node]
  <2>1. \A k \in 1 .. n : f.ops[k].at[1] \in ReachOf(t)[f.node]
    BY <1>5 DEF FrameOK, OpsFound
  <2> QED
    BY <1>3, <1>5, <1>6, <1>11, <2>1
<1>15. ASSUME NEW m \in ReachOf(t)[f.node], t.kind[m] \in Operators
       PROVE  (\E k \in 1 .. n + 1 : m = g.ops[k].at[1]) \/ m \in Ahead(t, f.agenda)
  <2>1. \/ \E k \in 1 .. n : m = f.ops[k].at[1]
        \/ m = f.open \/ m \in Ahead(t, f.agenda)
    BY <1>5, <1>10, <1>15 DEF FrameOK, OpsFound
  <2> QED
    BY <1>3, <1>5, <1>6, <2>1
<1>16. Ahead(t, f.agenda) \subseteq ReachOf(t)[f.node] /\ InOrder(t, f.agenda)
  BY DEF FrameOK, OpsFound
<1>17. OpsFound(t, g)
  BY <1>5, <1>10, <1>12, <1>13, <1>14, <1>15, <1>16 DEF OpsFound
<1>18. SourceFound(t, g)
  <2>1. t.kind[f.open] \notin Sources
    BY DEF Operators, Sources, Leaves, Holders, BadCount
  <2> QED
    BY <1>10, <2>1 DEF FrameOK, SourceFound
<1> QED
  BY <1>8, <1>9, <1>17, <1>18 DEF FrameOK, KidsMade

LEMMA CloseSourceOK ==
  ASSUME NEW t, IsTree(t), NEW B, NEW f, FrameOK(t, B, f),
         f.open # NoNode, t.kind[f.open] \in Holders,
         NEW g \in FrameOf(t), g.node = f.node, g.ops = f.ops,
         g.open = NoNode, g.agenda = f.agenda,
         g.source.kind = t.kind[f.open], g.source.node = f.open
  PROVE  FrameOK(t, B, g)
<1>1. Opened(f) = {f.open} /\ Opened(g) = {}
  BY DEF Opened
<1>2. t.kind[f.open] \notin Operators /\ t.kind[f.open] \in Sources
  BY DEF Operators, Sources, Leaves, Holders, BadCount
<1>3. OpsFound(t, g)
  BY <1>1, <1>2 DEF FrameOK, OpsFound
<1>4. SourceFound(t, g)
  BY <1>1, <1>2 DEF FrameOK, OpsFound, SourceFound
<1> QED
  BY <1>3, <1>4 DEF FrameOK, KidsMade

-----------------------------------------------------------------------------
(* Finished pipelines.                                                     *)

\* The pipeline p made from the node n says what the text says.
BuiltOK(t, B, n, p) ==
  /\ n \in NodesOf(t)
  /\ p.ops \in Seq(IROpOf(t))
  /\ \A k \in DOMAIN p.ops :
       /\ StandsFor(t, p.ops[k])
       /\ p.ops[k].at[1] \in ReachOf(t)[n]
  /\ SubsMade(B, p.ops)
  /\ Apart(p.ops)
  /\ FlattenSeq(Ats(p.ops)) \in Seq(NodesOf(t))
  /\ Range(FlattenSeq(Ats(p.ops))) = {m \in ReachOf(t)[n] : t.kind[m] \in Operators}
  /\ \A k \in 2 .. Len(FlattenSeq(Ats(p.ops))) :
       FlattenSeq(Ats(p.ops))[k - 1] < FlattenSeq(Ats(p.ops))[k]
  /\ LET candidates == {m \in ReachOf(t)[n] : t.kind[m] \in Sources} IN
     /\ candidates # {} =>
          p.source.node \in candidates /\ p.source.kind = t.kind[p.source.node]
     /\ candidates = {} =>
          p.source = IF p.ops # << >> THEN Implicit ELSE Unknown

LEMMA BuiltMonotone ==
  ASSUME NEW t, NEW B, NEW n, NEW p, BuiltOK(t, B, n, p), NEW C, B \subseteq C
  PROVE  BuiltOK(t, C, n, p)
BY DEF BuiltOK, SubsMade

\* What _visit_pipeline makes of a walk that is over.
LEMMA FinishedOK ==
  ASSUME NEW t, IsTree(t), NEW B, NEW f, FrameOK(t, B, f), f.open = NoNode, f.agenda = << >>
  PROVE  BuiltOK(t, B, f.node, Finished(f))
<1> DEFINE ops == MergeFilters(f.ops)
           at == FlattenSeq(Ats(ops))
           source == SettledSource(f)
           reach == ReachOf(t)[f.node]
<1>1. Finished(f).ops = ops /\ Finished(f).source = source
  BY DEF Finished
<1>2. Ahead(t, f.agenda) = {} /\ Opened(f) = {}
  BY DEF Ahead, Opened, Range
<1>3. Collected(t, f.ops) /\ f.ops \in Seq(IROpOf(t)) /\ f.node \in NodesOf(t)
  BY FrameParts DEF FrameOK
<1>4. IsMerged(t, ops, f.ops) /\ at = Firsts(f.ops)
  <2>1. IsMerged(t, ops, f.ops) /\ FlattenSeq(Ats(f.ops)) = Firsts(f.ops)
    BY <1>3, MergeFiltersMerges, CollectedNodes
  <2> HIDE DEF ops
  <2> QED
    BY <2>1 DEF IsMerged
<1> HIDE DEF ops, at
<1>5. PICK n \in Nat : n = Len(f.ops) /\ DOMAIN f.ops = 1 .. n
  BY <1>3, LenProperties
<1>6. \A k \in 1 .. n : /\ f.ops[k].at[1] \in reach
                        /\ t.kind[f.ops[k].at[1]] \in Operators
  <2>1. \A o \in IROpOf(t) : o.kind \in Operators
    BY DEF IROpOf
  <2>2. \A k \in 1 .. n : f.ops[k] \in IROpOf(t)
    BY <1>3, <1>5, ElementOfSeq
  <2>3. \A k \in 1 .. n : t.kind[f.ops[k].at[1]] = f.ops[k].kind
    BY <1>3, <1>5 DEF Collected, StandsFor
  <2>4. \A k \in 1 .. n : f.ops[k].at[1] \in reach
    BY <1>5 DEF FrameOK, OpsFound
  <2> QED
    BY <2>1, <2>2, <2>3, <2>4
<1>7. at = [k \in 1 .. n |-> f.ops[k].at[1]]
  BY <1>4, <1>5 DEF Firsts
<1>8. at \in Seq(NodesOf(t)) /\ Len(at) = n
  <2>1. at = [k \in 1 .. n |-> at[k]] /\ \A k \in 1 .. n : at[k] \in NodesOf(t)
    BY <1>3, <1>6, <1>7, ReachFacts
  <2> QED
    BY <2>1, SequenceType
<1>9. Range(at) = {m \in reach : t.kind[m] \in Operators}
  <2>1. \A m \in reach : t.kind[m] \in Operators => \E k \in 1 .. n : m = f.ops[k].at[1]
    BY <1>2, <1>5 DEF FrameOK, OpsFound
  <2>2. Range(at) = {f.ops[k].at[1] : k \in 1 .. n}
    BY <1>7 DEF Range
  <2> QED
    BY <1>6, <2>1, <2>2
<1>10. \A k \in 2 .. Len(at) : at[k - 1] < at[k]
  <2> SUFFICES ASSUME NEW k \in 2 .. n PROVE at[k - 1] < at[k]
    BY <1>8
  <2>1. k - 1 \in 1 .. n /\ k \in 1 .. n /\ k - 1 < k
    OBVIOUS
  <2>2. \A i, j \in 1 .. n : i < j => f.ops[i].at[1] < f.ops[j].at[1]
    BY <1>5 DEF FrameOK, OpsFound
  <2> QED
    BY <1>7, <2>1, <2>2
<1>11. \A k \in DOMAIN ops :
         /\ StandsFor(t, ops[k]) /\ ops[k].at[1] \in reach
         /\ Range(ops[k].subs) \subseteq B
  <2> TAKE k \in DOMAIN ops
  <2>1. StandsFor(t, ops[k]) /\ \E i \in DOMAIN f.ops : ops[k].at[1] = f.ops[i].at[1]
    BY <1>4 DEF IsMerged, Begins, BeginsOne
  <2>2. PICK i \in 1 .. n : ops[k].at[1] = f.ops[i].at[1]
    BY <1>5, <2>1
  <2>3. StandsFor(t, f.ops[i]) /\ Range(f.ops[i].subs) \subseteq B
    BY <1>3, <1>5 DEF Collected, FrameOK, SubsMade
  <2>4. ops[k].subs = f.ops[i].subs
    BY <2>1, <2>2, <2>3 DEF StandsFor
  <2> QED
    BY <1>6, <2>1, <2>2, <2>3, <2>4
<1>12. ops = << >> <=> f.ops = << >>
  <2>1. ops = << >> => f.ops = << >>
    BY <1>4 DEF IsMerged
  <2>2. ops \in Seq(IROpOf(t)) /\ \A k \in DOMAIN ops : \E i \in DOMAIN f.ops : TRUE
    BY <1>4 DEF IsMerged, Begins, BeginsOne
  <2>3. ASSUME f.ops = << >>, ops # << >> PROVE FALSE
    <3>1. Len(ops) \in Nat \ {0} /\ DOMAIN ops = 1 .. Len(ops)
      BY <2>2, <2>3, EmptySeq, LenProperties
    <3>2. 1 \in DOMAIN ops
      BY <3>1
    <3>3. n = 0
      BY <1>5, <2>3, EmptySeq
    <3> QED
      BY <1>5, <2>2, <3>2, <3>3
  <2> QED
    BY <2>1, <2>3
<1> DEFINE candidates == {m \in reach : t.kind[m] \in Sources}
<1>13. /\ candidates # {} => source.node \in candidates /\ source.kind = t.kind[source.node]
       /\ candidates = {} => source = IF ops # << >> THEN Implicit ELSE Unknown
  <2>1. CASE f.source = Unknown
    <3>1. candidates = {} \/ f.source.kind \in Sources
      BY <1>2 DEF FrameOK, SourceFound
    <3>2. f.source.kind = "unknown"
      BY <2>1 DEF Unknown
    <3>3. candidates = {}
      BY <3>1, <3>2 DEF Sources, Leaves, Holders
    <3>4. source = IF f.ops # << >> THEN Implicit ELSE Unknown
      BY <2>1 DEF SettledSource
    <3> QED
      BY <1>12, <3>3, <3>4
  <2>2. CASE f.source # Unknown
    <3>1. source = f.source
      BY <2>2 DEF SettledSource
    <3> HIDE DEF source
    <3>2. /\ source.node \in reach /\ source.kind = t.kind[source.node]
          /\ source.kind \in Sources
      BY <2>2, <3>1 DEF FrameOK, SourceFound
    <3> QED
      BY <3>2
  <2> QED
    BY <2>1, <2>2
<1> HIDE DEF source
<1>14. ops \in Seq(IROpOf(t)) /\ Apart(ops) /\ SubsMade(B, ops)
  BY <1>4, <1>11 DEF IsMerged, SubsMade
<1> QED
  BY <1>1, <1>3, <1>8, <1>9, <1>10, <1>11, <1>13, <1>14 DEF BuiltOK, at

-----------------------------------------------------------------------------
(* The stack.                                                              *)

MainOf(t) == IF t.statements = << >> THEN 1 ELSE t.statements[1]

\* The nodes pipelines are made from: the main one and what operators and
\* sources hold.
Rooted(t, n) ==
  /\ n \in NodesOf(t)
  /\ n \in UnderOf(t)[MainOf(t)]
  /\ \/ n = MainOf(t)
     \/ \E x \in NodesOf(t) : t.kind[x] \in Operators \cup Holders /\ n \in Range(t.kids[x])

\* The frame f waits for the pipeline of the frame g.
Called(t, f, g) ==
  /\ f.open # NoNode
  /\ f.visited < Len(t.kids[f.open])
  /\ g.node = t.kids[f.open][f.visited + 1]

StackOK(t, B, s) ==
  /\ s \in Seq(FrameOf(t))
  /\ \A k \in DOMAIN s : FrameOK(t, B, s[k]) /\ Rooted(t, s[k].node)
  /\ s # << >> => s[1].node = MainOf(t)
  /\ \A k \in 1 .. Len(s) - 1 : Called(t, s[k], s[k + 1])

LEMMA MainRooted == ASSUME NEW t, IsTree(t) PROVE Rooted(t, MainOf(t))
<1>1. MainOf(t) \in NodesOf(t)
  <2>1. t.kind # << >> /\ t.kind \in Seq(Kinds) /\ t.statements \in Seq(NodesOf(t))
    BY DEF IsTree, NodesOf
  <2>2. 1 \in NodesOf(t)
    <3>1. Len(t.kind) \in Nat \ {0}
      BY <2>1, EmptySeq
    <3> QED
      BY <3>1, TreeFacts
  <2>3. CASE t.statements # << >>
    <3>1. Len(t.statements) \in Nat \ {0}
      BY <2>1, <2>3, EmptySeq
    <3>2. t.statements[1] \in NodesOf(t)
      BY <2>1, <3>1, ElementOfSeq
    <3> QED
      BY <2>3, <3>2 DEF MainOf
  <2> QED
    BY <2>2, <2>3 DEF MainOf
<1> QED
  BY <1>1, UnderFacts DEF Rooted

\* A kid that the top frame visits is the root of a pipeline.
LEMMA KidRooted ==
  ASSUME NEW t, IsTree(t), NEW B, NEW f, FrameOK(t, B, f), Rooted(t, f.node),
         NEW k, f.open # NoNode, k \in Range(t.kids[f.open])
  PROVE  Rooted(t, k)
<1>1. /\ f.open \in NodesOf(t) /\ f.node \in NodesOf(t)
      /\ t.kind[f.open] \in Operators \cup Holders
  BY FrameParts DEF FrameOK, KidsMade
<1>2. k \in NodesOf(t)
  BY <1>1, TreeFacts
<1>3. f.open \in ReachOf(t)[f.node]
  BY DEF FrameOK, OpsFound, Opened
<1>4. f.open \in UnderOf(t)[f.node]
  BY <1>1, <1>3, ReachFacts
<1>5. MainOf(t) \in NodesOf(t) /\ f.node \in UnderOf(t)[MainOf(t)]
  BY MainRooted DEF Rooted
<1>6. f.open \in UnderOf(t)[MainOf(t)]
  BY <1>4, <1>5, UnderFacts
<1>7. k \in UnderOf(t)[MainOf(t)]
  BY <1>2, <1>5, <1>6, UnderFacts
<1> QED
  BY <1>1, <1>2, <1>7 DEF Rooted

\* The top frame goes on.
LEMMA TopChanges ==
  ASSUME NEW t, NEW B, NEW s, StackOK(t, B, s), s # << >>,
         NEW g \in FrameOf(t), FrameOK(t, B, g), g.node = s[Len(s)].node
  PROVE  StackOK(t, B, ReplaceAt(s, Len(s), g))
<1>1. PICK n \in Nat : n = Len(s)
  BY LenProperties DEF StackOK
<1>2. PICK u : u = ReplaceAt(s, n, g)
  OBVIOUS
<1>3. s \in Seq(FrameOf(t)) /\ n # 0 /\ s \in [1 .. n -> FrameOf(t)] /\ DOMAIN s = 1 .. n
  BY <1>1, EmptySeq, LenProperties DEF StackOK
<1>4. /\ u = [k \in 1 .. n |-> u[k]]
      /\ \A k \in 1 .. n : u[k] = IF k = n THEN g ELSE s[k]
      /\ \A k \in 1 .. n : u[k] \in FrameOf(t)
  BY <1>2, <1>3 DEF ReplaceAt
<1>5. u \in Seq(FrameOf(t)) /\ Len(u) = n /\ DOMAIN u = 1 .. n
  BY <1>4, SequenceType
<1>6. \A k \in 1 .. n : u[k].node = s[k].node
  BY <1>1, <1>4
<1>7. \A k \in 1 .. n : FrameOK(t, B, u[k]) /\ Rooted(t, u[k].node)
  BY <1>3, <1>4, <1>6 DEF StackOK
<1>8. u[1].node = MainOf(t)
  <2>1. 1 \in 1 .. n
    BY <1>3
  <2> QED
    BY <1>6, <2>1 DEF StackOK
<1>9. ASSUME NEW k \in 1 .. n - 1 PROVE Called(t, u[k], u[k + 1])
  <2>1. k \in 1 .. n /\ k + 1 \in 1 .. n /\ k # n
    OBVIOUS
  <2>2. Called(t, s[k], s[k + 1])
    BY <1>1 DEF StackOK
  <2>3. u[k] = s[k] /\ u[k + 1].node = s[k + 1].node
    BY <1>4, <1>6, <2>1
  <2> QED
    BY <2>2, <2>3 DEF Called
<1> QED
  BY <1>1, <1>2, <1>5, <1>7, <1>8, <1>9 DEF StackOK

\* A call.
LEMMA StackGrows ==
  ASSUME NEW t, NEW B, NEW s, StackOK(t, B, s), s # << >>,
         NEW g \in FrameOf(t), FrameOK(t, B, g), Rooted(t, g.node), Called(t, s[Len(s)], g)
  PROVE  StackOK(t, B, Append(s, g))
<1>1. PICK n \in Nat : n = Len(s)
  BY LenProperties DEF StackOK
<1>2. PICK u : u = Append(s, g)
  OBVIOUS
<1>3. s \in Seq(FrameOf(t)) /\ n # 0 /\ DOMAIN s = 1 .. n
  BY <1>1, EmptySeq, LenProperties DEF StackOK
<1>4. /\ u \in Seq(FrameOf(t)) /\ DOMAIN u = 1 .. n + 1 /\ Len(u) = n + 1
      /\ u[n + 1] = g /\ \A k \in 1 .. n : u[k] = s[k]
  BY <1>1, <1>2, <1>3, AppendProperties, LenProperties
<1>5. \A k \in 1 .. n + 1 : k = n + 1 \/ k \in 1 .. n
  OBVIOUS
<1>6. \A k \in 1 .. n + 1 : FrameOK(t, B, u[k]) /\ Rooted(t, u[k].node)
  BY <1>3, <1>4, <1>5 DEF StackOK
<1>7. u[1].node = MainOf(t)
  <2>1. 1 \in 1 .. n
    BY <1>3
  <2> QED
    BY <1>4, <2>1 DEF StackOK
<1>8. ASSUME NEW k \in 1 .. n PROVE Called(t, u[k], u[k + 1])
  <2>1. CASE k = n
    BY <1>1, <1>4, <2>1
  <2>2. CASE k # n
    <3>1. k \in 1 .. n - 1 /\ k + 1 \in 1 .. n
      BY <2>2
    <3>2. Called(t, s[k], s[k + 1])
      BY <1>1, <3>1 DEF StackOK
    <3> QED
      BY <1>4, <3>1, <3>2
  <2> QED
    BY <2>1, <2>2
<1>9. (n + 1) - 1 = n
  OBVIOUS
<1> QED
  BY <1>2, <1>4, <1>6, <1>7, <1>8, <1>9 DEF StackOK

\* A call comes back to its caller.
LEMMA StackShrinks ==
  ASSUME NEW t, IsTree(t), NEW B, NEW s, StackOK(t, B, s), Len(s) > 1, NEW C, B \subseteq C,
         s[Len(s)].node \in C
  PROVE  StackOK(t, C, [Front(s) EXCEPT ![Len(s) - 1].visited = @ + 1])
<1>1. PICK n \in Nat : n = Len(s)
  BY LenProperties DEF StackOK
<1>2. /\ s \in Seq(FrameOf(t)) /\ n > 1 /\ s \in [1 .. n -> FrameOf(t)] /\ DOMAIN s = 1 .. n
      /\ n - 1 \in 1 .. n /\ n \in 1 .. n /\ n - 1 \in Nat /\ (n - 1) + 1 = n
  BY <1>1, LenProperties DEF StackOK
<1>3. PICK f \in FrameOf(t) : f = s[n - 1]
  BY <1>2
<1>4. PICK g : g = [f EXCEPT !.visited = @ + 1]
  OBVIOUS
<1>5. /\ g \in FrameOf(t) /\ g.node = f.node /\ g.source = f.source /\ g.ops = f.ops
      /\ g.open = f.open /\ g.visited = f.visited + 1 /\ g.agenda = f.agenda
  BY <1>4 DEF FrameOf
<1>6. PICK u : u = [Front(s) EXCEPT ![n - 1].visited = @ + 1]
  OBVIOUS
<1>7. \A k \in 1 .. n - 1 : k \in 1 .. n
  OBVIOUS
<1>8. Front(s) = [k \in 1 .. n - 1 |-> s[k]]
  BY <1>1, <1>2 DEF Front
<1>9. u = [k \in 1 .. n - 1 |-> IF k = n - 1 THEN g ELSE s[k]]
  BY <1>2, <1>3, <1>4, <1>6, <1>8
<1>10. /\ u \in Seq(FrameOf(t)) /\ Len(u) = n - 1 /\ DOMAIN u = 1 .. n - 1
       /\ u[n - 1] = g /\ \A k \in 1 .. n - 1 : k # n - 1 => u[k] = s[k]
  <2>1. u = [k \in 1 .. n - 1 |-> u[k]] /\ \A k \in 1 .. n - 1 : u[k] \in FrameOf(t)
    BY <1>2, <1>5, <1>7, <1>9
  <2>2. n - 1 \in 1 .. n - 1
    BY <1>2
  <2> QED
    BY <1>2, <1>9, <2>1, <2>2, SequenceType
<1>11. \A k \in 1 .. n : FrameOK(t, C, s[k]) /\ Rooted(t, s[k].node)
  BY <1>2, FrameMonotone DEF StackOK
<1>12. Called(t, s[n - 1], s[n])
  <2>1. n - 1 \in 1 .. n - 1
    BY <1>2
  <2> QED
    BY <1>1, <1>2, <2>1 DEF StackOK
<1>13. FrameOK(t, C, g)
  <2>1. FrameOK(t, C, f)
    BY <1>2, <1>3, <1>11
  <2>2. /\ f.open # NoNode /\ f.visited < Len(t.kids[f.open])
        /\ t.kids[f.open][f.visited + 1] \in C
    BY <1>1, <1>3, <1>12 DEF Called
  <2> QED
    BY <1>5, <2>1, <2>2, VisitedOK
<1>14. \A k \in 1 .. n - 1 : FrameOK(t, C, u[k]) /\ Rooted(t, u[k].node)
  BY <1>2, <1>3, <1>5, <1>7, <1>10, <1>11, <1>13
<1>15. \A k \in 1 .. n - 1 : u[k].node = s[k].node
  BY <1>3, <1>5, <1>10
<1>16. u[1].node = MainOf(t)
  <2>1. 1 \in 1 .. n - 1 /\ s # << >>
    BY <1>1, <1>2, EmptySeq
  <2> QED
    BY <1>15, <2>1 DEF StackOK
<1>17. ASSUME NEW k \in 1 .. (n - 1) - 1 PROVE Called(t, u[k], u[k + 1])
  <2>1. k \in 1 .. n - 1 /\ k + 1 \in 1 .. n - 1 /\ k # n - 1
    BY <1>2
  <2>2. Called(t, s[k], s[k + 1])
    BY <1>1, <2>1 DEF StackOK
  <2>3. u[k] = s[k] /\ u[k + 1].node = s[k + 1].node
    BY <1>10, <1>15, <2>1
  <2> QED
    BY <2>2, <2>3 DEF Called
<1>18. StackOK(t, C, u)
  BY <1>10, <1>14, <1>16, <1>17 DEF StackOK
<1> QED
  BY <1>1, <1>6, <1>18

-----------------------------------------------------------------------------
(* The invariant.                                                          *)

(***************************************************************************)
(* Every active call knows what of its text it has seen, waits for the     *)
(* call above it, and goes back to build_from_code's; every finished       *)
(* pipeline says what its text says.                                       *)
(***************************************************************************)
Progress ==
  /\ tree \in Trees
  /\ status \in {"building", "raised", "done"}
  /\ StackOK(tree, DOMAIN built, stack)
  /\ status = "building" => stack # << >>
  /\ status = "done" => MainOf(tree) \in DOMAIN built
  /\ \A n \in DOMAIN built :
       BuiltOK(tree, DOMAIN built, n, built[n]) /\ Rooted(tree, n)

LEMMA TopFacts ==
  ASSUME Progress, status = "building"
  PROVE  /\ IsTree(tree) /\ stack # << >> /\ stack \in Seq(FrameOf(tree))
         /\ Len(stack) \in Nat /\ Len(stack) # 0
         /\ Top \in FrameOf(tree)
         /\ FrameOK(tree, DOMAIN built, Top)
         /\ Rooted(tree, Top.node)
<1>1. IsTree(tree)
  BY TreesAssumption DEF Progress
<1>2. stack # << >> /\ stack \in Seq(FrameOf(tree))
  BY DEF Progress, StackOK
<1>3. Len(stack) \in Nat /\ Len(stack) # 0 /\ DOMAIN stack = 1 .. Len(stack)
  BY <1>2, EmptySeq, LenProperties
<1>4. Len(stack) \in DOMAIN stack
  BY <1>3
<1>5. Top \in FrameOf(tree)
  BY <1>2, <1>3, <1>4, ElementOfSeq DEF Top
<1> QED
  BY <1>1, <1>2, <1>3, <1>4, <1>5 DEF Progress, StackOK, Top

\* A step of walk() keeps the invariant if it keeps what is said of its frame.
LEMMA TopSteps ==
  ASSUME Progress, status = "building",
         tree' = tree, built' = built, status' = status,
         NEW g \in FrameOf(tree), SetTop(g), FrameOK(tree, DOMAIN built, g), g.node = Top.node
  PROVE  Progress'
<1>1. stack' = ReplaceAt(stack, Len(stack), g)
  BY DEF SetTop, ReplaceAt
<1>2. StackOK(tree, DOMAIN built, stack) /\ stack # << >>
  BY DEF Progress
<1>3. StackOK(tree, DOMAIN built, stack')
  BY <1>1, <1>2, TopChanges DEF Top
<1>4. stack' # << >>
  BY <1>1, <1>2, TopFacts DEF ReplaceAt
<1> QED
  BY <1>3, <1>4 DEF Progress

\* A look at the next node.
LEMMA SeesFacts ==
  ASSUME Progress, NEW kinds, Sees(kinds)
  PROVE  /\ status = "building" /\ Top.open = NoNode /\ Top.agenda # << >>
         /\ tree.kind[Head(Top.agenda)] \in kinds
         /\ Head(Top.agenda) \in NodesOf(tree)
         /\ Tail(Top.agenda) \in Seq(NodesOf(tree))
<1>1. /\ status = "building" /\ Top.open = NoNode /\ Top.agenda # << >>
      /\ tree.kind[Head(Top.agenda)] \in kinds
  BY DEF Sees, Seen, Kind
<1>2. Top.agenda \in Seq(NodesOf(tree))
  BY <1>1, TopFacts, FrameParts
<1> QED
  BY <1>1, <1>2, HeadTailProperties

LEMMA ProgressInit == Init => Progress
<1> SUFFICES ASSUME Init PROVE Progress
  OBVIOUS
<1>1. tree \in Trees /\ IsTree(tree) /\ status = "building" /\ DOMAIN built = {}
  BY TreesAssumption DEF Init
<1>2. MainNode = MainOf(tree)
  BY DEF MainNode, MainOf
<1>3. Rooted(tree, MainOf(tree)) /\ MainOf(tree) \in NodesOf(tree)
  BY <1>1, MainRooted DEF Rooted
<1>4. FrameOK(tree, {}, NewFrame(MainOf(tree)))
  BY <1>1, <1>3, NewFrameOK
<1>5. PICK f : f = NewFrame(MainOf(tree))
  OBVIOUS
<1>6. f \in FrameOf(tree) /\ f.node = MainOf(tree)
  BY <1>4, <1>5 DEF FrameOK, NewFrame
<1>7. stack = <<f>>
  BY <1>2, <1>5 DEF Init
<1>8. /\ stack \in Seq(FrameOf(tree)) /\ DOMAIN stack = {1} /\ Len(stack) = 1
      /\ stack[1] = f /\ stack # << >>
  BY <1>6, <1>7
<1>9. StackOK(tree, DOMAIN built, stack)
  BY <1>1, <1>3, <1>4, <1>5, <1>6, <1>8 DEF StackOK
<1> QED
  BY <1>1, <1>8, <1>9 DEF Progress

LEMMA ProgressDescend == ASSUME Progress, Descend PROVE Progress'
<1>1. Sees(Transparent)
  BY DEF Descend
<1>2. PICK f \in FrameOf(tree) : f = Top
  BY <1>1, SeesFacts, TopFacts
<1>3. /\ f.open = NoNode /\ f.agenda # << >> /\ status = "building"
      /\ tree.kind[Head(f.agenda)] \in Transparent /\ Head(f.agenda) \in NodesOf(tree)
      /\ Tail(f.agenda) \in Seq(NodesOf(tree))
  BY <1>1, <1>2, SeesFacts
<1>4. IsTree(tree) /\ FrameOK(tree, DOMAIN built, f)
  BY <1>2, <1>3, TopFacts
<1>5. PICK agenda \in Seq(NodesOf(tree)) : agenda = tree.kids[Head(f.agenda)] \o Tail(f.agenda)
  <2>1. tree.kids[Head(f.agenda)] \in Seq(NodesOf(tree))
    BY <1>3, <1>4, TreeFacts
  <2> QED
    BY <1>3, <2>1, ConcatProperties
<1>6. PICK g : g = [f EXCEPT !.agenda = agenda]
  OBVIOUS
<1>7. SetTop(g)
  BY <1>2, <1>5, <1>6 DEF Descend, Seen, Kids, SetTop
<1>8. /\ g \in FrameOf(tree) /\ g.node = f.node /\ g.source = f.source /\ g.ops = f.ops
      /\ g.open = NoNode /\ g.agenda = tree.kids[Head(f.agenda)] \o Tail(f.agenda)
  BY <1>3, <1>5, <1>6 DEF FrameOf
<1>9. FrameOK(tree, DOMAIN built, g)
  BY <1>3, <1>4, <1>8, DescendOK
<1> QED
  BY <1>2, <1>3, <1>7, <1>8, <1>9, TopSteps DEF Descend

LEMMA ProgressPassBy == ASSUME Progress, PassBy PROVE Progress'
<1>1. Sees(Ignored)
  BY DEF PassBy
<1>2. PICK f \in FrameOf(tree) : f = Top
  BY <1>1, SeesFacts, TopFacts
<1>3. /\ f.open = NoNode /\ f.agenda # << >> /\ status = "building"
      /\ tree.kind[Head(f.agenda)] \in Ignored
      /\ Tail(f.agenda) \in Seq(NodesOf(tree))
  BY <1>1, <1>2, SeesFacts
<1>4. IsTree(tree) /\ FrameOK(tree, DOMAIN built, f)
  BY <1>2, <1>3, TopFacts
<1>5. PICK g : g = [f EXCEPT !.agenda = Tail(f.agenda)]
  OBVIOUS
<1>6. SetTop(g)
  BY <1>2, <1>5 DEF PassBy, SetTop
<1>7. /\ g \in FrameOf(tree) /\ g.node = f.node /\ g.source = f.source /\ g.ops = f.ops
      /\ g.open = NoNode /\ g.agenda = Tail(f.agenda)
  BY <1>3, <1>5 DEF FrameOf
<1>8. FrameOK(tree, DOMAIN built, g)
  BY <1>3, <1>4, <1>7, PassByOK
<1> QED
  BY <1>2, <1>3, <1>6, <1>7, <1>8, TopSteps DEF PassBy

LEMMA ProgressTakeSource == ASSUME Progress, TakeSource PROVE Progress'
<1>1. Sees(Leaves)
  BY DEF TakeSource
<1>2. PICK f \in FrameOf(tree) : f = Top
  BY <1>1, SeesFacts, TopFacts
<1>3. /\ f.open = NoNode /\ f.agenda # << >> /\ status = "building"
      /\ tree.kind[Head(f.agenda)] \in Leaves /\ Head(f.agenda) \in NodesOf(tree)
      /\ Tail(f.agenda) \in Seq(NodesOf(tree))
  BY <1>1, <1>2, SeesFacts
<1>4. IsTree(tree) /\ FrameOK(tree, DOMAIN built, f)
  BY <1>2, <1>3, TopFacts
<1>5. PICK source \in SourceOf(tree) :
        source = [kind |-> tree.kind[Head(f.agenda)], node |-> Head(f.agenda)]
  BY <1>3 DEF SourceOf, Sources
<1>6. PICK g : g = [f EXCEPT !.agenda = Tail(f.agenda), !.source = source]
  OBVIOUS
<1>7. SetTop(g)
  BY <1>2, <1>5, <1>6 DEF TakeSource, SetTop, Seen, Kind
<1>8. /\ g \in FrameOf(tree) /\ g.node = f.node /\ g.ops = f.ops
      /\ g.open = NoNode /\ g.agenda = Tail(f.agenda) /\ g.source = source
  BY <1>3, <1>5, <1>6 DEF FrameOf
<1>9. g.source.kind = tree.kind[Head(f.agenda)] /\ g.source.node = Head(f.agenda)
  BY <1>5, <1>8
<1>10. FrameOK(tree, DOMAIN built, g)
  BY <1>3, <1>4, <1>8, <1>9, TakeSourceOK
<1> QED
  BY <1>2, <1>3, <1>7, <1>8, <1>10, TopSteps DEF TakeSource

LEMMA ProgressRaise == ASSUME Progress, RaiseOnCount PROVE Progress'
<1>1. stack' = << >> /\ status' = "raised" /\ tree' = tree /\ built' = built
  BY DEF RaiseOnCount
<1>2. << >> \in Seq(FrameOf(tree)) /\ DOMAIN << >> = {} /\ Len(<< >>) = 0
  BY EmptySeq
<1>3. StackOK(tree, DOMAIN built, << >>)
  BY <1>2 DEF StackOK
<1> QED
  BY <1>1, <1>3 DEF Progress

LEMMA ProgressOpen == ASSUME Progress, Open PROVE Progress'
<1>1. Sees((Operators \ {BadCount}) \cup Holders)
  BY DEF Open, Sees
<1>2. PICK f \in FrameOf(tree) : f = Top
  BY <1>1, SeesFacts, TopFacts
<1>3. /\ f.open = NoNode /\ f.agenda # << >> /\ status = "building"
      /\ tree.kind[Head(f.agenda)] \in (Operators \ {BadCount}) \cup Holders
      /\ Head(f.agenda) \in NodesOf(tree)
      /\ Tail(f.agenda) \in Seq(NodesOf(tree))
  BY <1>1, <1>2, SeesFacts
<1>4. IsTree(tree) /\ FrameOK(tree, DOMAIN built, f)
  BY <1>2, <1>3, TopFacts
<1>5. PICK g : g = [f EXCEPT !.agenda = Tail(f.agenda), !.open = Head(f.agenda), !.visited = 0]
  OBVIOUS
<1>6. SetTop(g)
  BY <1>2, <1>5 DEF Open, SetTop, Seen
<1>7. /\ g \in FrameOf(tree) /\ g.node = f.node /\ g.source = f.source /\ g.ops = f.ops
      /\ g.open = Head(f.agenda) /\ g.visited = 0 /\ g.agenda = Tail(f.agenda)
  BY <1>3, <1>5 DEF FrameOf
<1>8. FrameOK(tree, DOMAIN built, g)
  BY <1>3, <1>4, <1>7, OpenOK
<1> QED
  BY <1>2, <1>3, <1>6, <1>7, <1>8, TopSteps DEF Open

LEMMA ProgressVisitKid == ASSUME Progress, VisitKid PROVE Progress'
<1>1. PICK f \in FrameOf(tree) : f = Top
  BY TopFacts DEF VisitKid
<1>2. /\ f.open # NoNode /\ f.visited < Len(tree.kids[f.open]) /\ status = "building"
      /\ stack' = Append(stack, NewFrame(tree.kids[f.open][f.visited + 1]))
  BY <1>1 DEF VisitKid, Kids
<1>3. /\ IsTree(tree) /\ FrameOK(tree, DOMAIN built, f) /\ Rooted(tree, f.node)
      /\ stack # << >> /\ stack \in Seq(FrameOf(tree))
  BY <1>1, <1>2, TopFacts
<1>4. f.open \in NodesOf(tree) /\ f.visited \in Nat
  BY <1>2, <1>3, FrameParts
<1>5. PICK k : k = tree.kids[f.open][f.visited + 1]
  OBVIOUS
<1>6. k \in Range(tree.kids[f.open])
  <2>1. tree.kids[f.open] \in Seq(NodesOf(tree))
    BY <1>3, <1>4, TreeFacts
  <2>2. Len(tree.kids[f.open]) \in Nat /\ DOMAIN tree.kids[f.open] = 1 .. Len(tree.kids[f.open])
    BY <2>1, LenProperties
  <2>3. f.visited + 1 \in DOMAIN tree.kids[f.open]
    BY <1>2, <1>4, <2>2
  <2> QED
    BY <1>5, <2>3 DEF Range
<1>7. Rooted(tree, k) /\ k \in NodesOf(tree)
  BY <1>2, <1>3, <1>6, KidRooted DEF Rooted
<1>8. FrameOK(tree, DOMAIN built, NewFrame(k))
  BY <1>3, <1>7, NewFrameOK
<1>9. PICK g : g = NewFrame(k)
  OBVIOUS
<1>10. g \in FrameOf(tree) /\ g.node = k
  BY <1>8, <1>9 DEF FrameOK, NewFrame
<1>11. Called(tree, f, g)
  BY <1>2, <1>5, <1>10 DEF Called
<1>12. stack' = Append(stack, g)
  BY <1>2, <1>5, <1>9
<1>13. StackOK(tree, DOMAIN built, stack)
  BY DEF Progress
<1>14. StackOK(tree, DOMAIN built, stack')
  BY <1>1, <1>3, <1>7, <1>8, <1>9, <1>10, <1>11, <1>12, <1>13, StackGrows DEF Top
<1>15. stack' # << >>
  BY <1>3, <1>10, <1>12, AppendProperties
<1> QED
  BY <1>14, <1>15 DEF Progress, VisitKid

LEMMA ProgressCloseOperator == ASSUME Progress, CloseOperator PROVE Progress'
<1>1. PICK f \in FrameOf(tree) : f = Top
  BY TopFacts DEF CloseOperator, AllVisited
<1>2. /\ f.open # NoNode /\ f.visited = Len(tree.kids[f.open]) /\ status = "building"
      /\ tree.kind[f.open] \in Operators
  BY <1>1 DEF CloseOperator, AllVisited, Kids, Kind
<1>3. IsTree(tree) /\ FrameOK(tree, DOMAIN built, f)
  BY <1>1, <1>2, TopFacts
<1>4. f.open \in NodesOf(tree) /\ f.ops \in Seq(IROpOf(tree))
  BY <1>2, <1>3, FrameParts
<1>5. PICK ops \in Seq(IROpOf(tree)) : ops = Append(f.ops, Plain(tree, f.open))
  BY <1>2, <1>3, <1>4, PlainFacts, AppendProperties
<1>6. PICK g : g = [f EXCEPT !.open = NoNode, !.ops = ops]
  OBVIOUS
<1>7. SetTop(g)
  BY <1>1, <1>5, <1>6 DEF CloseOperator, SetTop, Kind, Plain
<1>8. /\ g \in FrameOf(tree) /\ g.node = f.node /\ g.source = f.source
      /\ g.ops = Append(f.ops, Plain(tree, f.open))
      /\ g.open = NoNode /\ g.agenda = f.agenda
  BY <1>5, <1>6 DEF FrameOf
<1>9. FrameOK(tree, DOMAIN built, g)
  BY <1>2, <1>3, <1>8, CloseOperatorOK
<1> QED
  BY <1>1, <1>2, <1>7, <1>8, <1>9, TopSteps DEF CloseOperator

LEMMA ProgressCloseSource == ASSUME Progress, CloseSource PROVE Progress'
<1>1. PICK f \in FrameOf(tree) : f = Top
  BY TopFacts DEF CloseSource, AllVisited
<1>2. f.open # NoNode /\ status = "building" /\ tree.kind[f.open] \in Holders
  BY <1>1 DEF CloseSource, AllVisited, Kind
<1>3. IsTree(tree) /\ FrameOK(tree, DOMAIN built, f)
  BY <1>1, <1>2, TopFacts
<1>4. f.open \in NodesOf(tree)
  BY <1>2, <1>3, FrameParts
<1>5. PICK source \in SourceOf(tree) : source = [kind |-> tree.kind[f.open], node |-> f.open]
  BY <1>2, <1>4 DEF SourceOf, Sources
<1>6. PICK g : g = [f EXCEPT !.open = NoNode, !.source = source]
  OBVIOUS
<1>7. SetTop(g)
  BY <1>1, <1>5, <1>6 DEF CloseSource, SetTop, Kind
<1>8. /\ g \in FrameOf(tree) /\ g.node = f.node /\ g.ops = f.ops
      /\ g.open = NoNode /\ g.agenda = f.agenda /\ g.source = source
  BY <1>5, <1>6 DEF FrameOf
<1>9. g.source.kind = tree.kind[f.open] /\ g.source.node = f.open
  BY <1>5, <1>8
<1>10. FrameOK(tree, DOMAIN built, g)
  BY <1>2, <1>3, <1>8, <1>9, CloseSourceOK
<1> QED
  BY <1>1, <1>2, <1>7, <1>8, <1>10, TopSteps DEF CloseSource

LEMMA ProgressReturn == ASSUME Progress, Return PROVE Progress'
<1>1. PICK f \in FrameOf(tree) : f = Top
  BY TopFacts DEF Return, WalkOver
<1>2. f.open = NoNode /\ f.agenda = << >> /\ status = "building" /\ tree' = tree
  BY <1>1 DEF Return, WalkOver
<1>3. /\ IsTree(tree) /\ FrameOK(tree, DOMAIN built, f) /\ Rooted(tree, f.node)
      /\ stack # << >> /\ Len(stack) \in Nat /\ Len(stack) # 0
  BY <1>1, <1>2, TopFacts
<1>4. PICK C : C = DOMAIN built \cup {f.node}
  OBVIOUS
<1>5. built' = [n \in C |-> IF n = f.node THEN Finished(f) ELSE built[n]]
  BY <1>1, <1>4 DEF Return
<1>6. DOMAIN built' = C /\ DOMAIN built \subseteq C
  BY <1>4, <1>5
<1>7. BuiltOK(tree, C, f.node, Finished(f))
  BY <1>2, <1>3, <1>6, FinishedOK, BuiltMonotone
<1>8. \A n \in C : BuiltOK(tree, C, n, built'[n]) /\ Rooted(tree, n)
  <2> TAKE n \in C
  <2>1. CASE n = f.node
    BY <1>3, <1>5, <1>7, <2>1
  <2>2. CASE n # f.node
    <3>1. n \in DOMAIN built /\ built'[n] = built[n]
      BY <1>4, <1>5, <2>2
    <3>2. BuiltOK(tree, DOMAIN built, n, built[n]) /\ Rooted(tree, n)
      BY <3>1 DEF Progress
    <3> QED
      BY <1>6, <3>1, <3>2, BuiltMonotone
  <2> QED
    BY <2>1, <2>2
<1>9. StackOK(tree, DOMAIN built, stack)
  BY DEF Progress
<1>10. CASE Len(stack) = 1
  <2>1. stack' = << >> /\ status' = "done"
    BY <1>10 DEF Return
  <2>2. << >> \in Seq(FrameOf(tree)) /\ DOMAIN << >> = {} /\ Len(<< >>) = 0
    BY EmptySeq
  <2>3. StackOK(tree, C, << >>)
    BY <2>2 DEF StackOK
  <2>4. MainOf(tree) \in C
    BY <1>1, <1>3, <1>4, <1>9, <1>10 DEF StackOK, Top
  <2> QED
    BY <1>2, <1>6, <1>8, <2>1, <2>3, <2>4 DEF Progress
<1>11. CASE Len(stack) # 1
  <2>1. Len(stack) > 1
    <3>1. PICK n \in Nat : n = Len(stack) /\ n # 0 /\ n # 1
      BY <1>3, <1>11
    <3>2. n > 1
      BY <3>1
    <3> QED
      BY <3>1, <3>2
  <2>2. stack' = [Front(stack) EXCEPT ![Len(stack) - 1].visited = @ + 1] /\ status' = status
    BY <1>11 DEF Return
  <2>3. stack[Len(stack)].node \in C
    BY <1>1, <1>4 DEF Top
  <2>4. StackOK(tree, C, [Front(stack) EXCEPT ![Len(stack) - 1].visited = @ + 1])
    BY <1>3, <1>6, <1>9, <2>1, <2>3, StackShrinks
  <2>5. StackOK(tree, C, stack')
    BY <2>2, <2>4
  <2>6. stack' # << >>
    <3>1. 1 \in DOMAIN stack'
      BY <1>3, <2>1, <2>2 DEF Front
    <3> QED
      BY <3>1
  <2> QED
    BY <1>2, <1>6, <1>8, <2>2, <2>5, <2>6 DEF Progress
<1> QED
  BY <1>10, <1>11

LEMMA ProgressUnchanged == ASSUME Progress, UNCHANGED vars PROVE Progress'
BY DEF Progress, vars

\* Every state the builder reaches is as Progress says.
THEOREM ProgressHolds == Spec => []Progress
<1>1. Init => Progress
  BY ProgressInit
<1>2. Progress /\ [Next]_vars => Progress'
  <2> SUFFICES ASSUME Progress, [Next]_vars PROVE Progress'
    OBVIOUS
  <2>1. CASE Descend
    BY <2>1, ProgressDescend
  <2>2. CASE PassBy
    BY <2>2, ProgressPassBy
  <2>3. CASE TakeSource
    BY <2>3, ProgressTakeSource
  <2>4. CASE RaiseOnCount
    BY <2>4, ProgressRaise
  <2>5. CASE Open
    BY <2>5, ProgressOpen
  <2>6. CASE VisitKid
    BY <2>6, ProgressVisitKid
  <2>7. CASE CloseOperator
    BY <2>7, ProgressCloseOperator
  <2>8. CASE CloseSource
    BY <2>8, ProgressCloseSource
  <2>9. CASE Return
    BY <2>9, ProgressReturn
  <2>10. CASE UNCHANGED vars
    BY <2>10, ProgressUnchanged
  <2> QED
    BY <2>1, <2>2, <2>3, <2>4, <2>5, <2>6, <2>7, <2>8, <2>9, <2>10 DEF Next
<1> QED
  BY <1>1, <1>2, PTL DEF Spec

-----------------------------------------------------------------------------
(* What the properties say of it.                                          *)

\* Each pipeline has the operators of its text, in order, with no two filters
\* next to each other: merge_filter_ops and walk() lose and swap none.
THEOREM OperatorsInOrderHold == Spec => []OperatorsInOrder
<1>1. Progress => OperatorsInOrder
  <2> SUFFICES ASSUME Progress, NEW n \in DOMAIN built
               PROVE  LET ops == built[n].ops
                          at == FlattenSeq([k \in DOMAIN ops |-> ops[k].at]) IN
                      /\ Range(at) = {m \in Reach[n] : Kind(m) \in Operators}
                      /\ \A k \in 2 .. Len(at) : at[k - 1] < at[k]
                      /\ \A k \in 2 .. Len(ops) :
                           ops[k].kind = "where" => ops[k - 1].kind # "where"
    BY DEF OperatorsInOrder
  <2>1. BuiltOK(tree, DOMAIN built, n, built[n])
    BY DEF Progress
  <2>2. Reach = ReachOf(tree)
    BY TreesAssumption, ReachIsReachOf DEF Progress
  <2> QED
    BY <2>1, <2>2 DEF BuiltOK, Ats, Apart, Kind
<1> QED
  BY <1>1, ProgressHolds, PTL

\* Each pipeline has the source its text has, and an implicit one if the text is
\* operators only, which is what walk() and the end of _visit_pipeline settle.
THEOREM SourceFromTextHold == Spec => []SourceFromText
<1>1. Progress => SourceFromText
  <2> SUFFICES ASSUME Progress, NEW n \in DOMAIN built
               PROVE  LET own == {m \in Reach[n] : Kind(m) \notin Transparent}
                          candidates == {m \in own : Kind(m) \in Sources} IN
                      /\ candidates # {} =>
                           built[n].source.node \in candidates
                             /\ built[n].source.kind = Kind(built[n].source.node)
                      /\ own # {} /\ (\A m \in own : Kind(m) \in Operators) =>
                           built[n].source = Implicit
    BY DEF SourceFromText
  <2> DEFINE own == {m \in Reach[n] : Kind(m) \notin Transparent}
             candidates == {m \in Reach[n] : Kind(m) \in Sources}
  <2>1. BuiltOK(tree, DOMAIN built, n, built[n])
    BY DEF Progress
  <2>2. Reach = ReachOf(tree)
    BY TreesAssumption, ReachIsReachOf DEF Progress
  <2>3. candidates = {m \in own : Kind(m) \in Sources}
    <3>1. Sources \cap Transparent = {}
      BY DEF Sources, Leaves, Holders, Transparent
    <3> QED BY <3>1
  <2>4. candidates # {} => /\ built[n].source.node \in candidates
                           /\ built[n].source.kind = Kind(built[n].source.node)
    BY <2>1, <2>2 DEF BuiltOK, Kind
  <2>5. ASSUME own # {}, \A m \in own : Kind(m) \in Operators
        PROVE  built[n].source = Implicit
    <3>1. candidates = {}
      <4>1. Sources \cap Operators = {}
        BY DEF Sources, Leaves, Holders, Operators, BadCount
      <4> QED BY <2>3, <2>5, <4>1
    <3>2. {m \in Reach[n] : Kind(m) \in Operators} # {}
      BY <2>5
    <3>3. Range(FlattenSeq(Ats(built[n].ops))) # {}
      BY <2>1, <2>2, <3>2 DEF BuiltOK, Kind
    <3>4. ASSUME built[n].ops = << >> PROVE FALSE
      <4>1. Ats(built[n].ops) = << >>
        BY <3>4 DEF Ats
      <4>2. Range(<< >>) = {}
        BY DEF Range
      <4> QED BY <3>3, <4>1, <4>2, FlattenEmpty
    <3> QED
      BY <2>1, <2>2, <3>1, <3>4 DEF BuiltOK, Kind
  <2> QED
    BY <2>3, <2>4, <2>5
<1> QED
  BY <1>1, ProgressHolds, PTL

-----------------------------------------------------------------------------
(* Pipelines within pipelines.                                             *)

\* Any two parents of a node are one.
LEMMA OneParent ==
  ASSUME NEW t, IsTree(t), NEW m \in NodesOf(t), NEW n \in NodesOf(t), NEW k,
         k \in Range(t.kids[m]), k \in Range(t.kids[n])
  PROVE  m = n
<1>1. PICK i \in DOMAIN t.kids[m] : t.kids[m][i] = k
  BY DEF Range
<1>2. PICK j \in DOMAIN t.kids[n] : t.kids[n][j] = k
  BY DEF Range
<1>3. \A a, b \in NodesOf(t) : \A c \in DOMAIN t.kids[a], d \in DOMAIN t.kids[b] :
        t.kids[a][c] = t.kids[b][d] => a = b
  BY DEF IsTree, NodesOf
<1> QED
  BY <1>1, <1>2, <1>3

LEMMA ParentUnder ==
  ASSUME NEW t, IsTree(t), NEW n \in NodesOf(t), NEW m \in UnderOf(t)[n], m # n,
         NEW x \in NodesOf(t), m \in Range(t.kids[x])
  PROVE  x \in UnderOf(t)[n]
<1>1. IsWalk(t, Kinds, UnderOf(t))
  BY TheWalks
<1>2. PICK y \in UnderOf(t)[n] : y \in NodesOf(t) /\ m \in Range(t.kids[y])
  BY <1>1, WalkParent
<1> QED
  BY <1>2, OneParent

\* Where a pipeline's node stands within another pipeline, the whole pipeline does.
LEMMA PipelinesNest ==
  ASSUME NEW t, IsTree(t), NEW p, Rooted(t, p), NEW m, Rooted(t, m),
         NEW x \in ReachOf(t)[p], x \in UnderOf(t)[m]
  PROVE  p \in UnderOf(t)[m]
<1> DEFINE reach == ReachOf(t)[p]
<1>1. /\ p \in NodesOf(t) /\ m \in NodesOf(t)
      /\ p \in UnderOf(t)[MainOf(t)] /\ MainOf(t) \in NodesOf(t)
  BY MainRooted DEF Rooted
<1>2. IsWalk(t, Transparent, ReachOf(t))
  BY TheWalks
<1>3. NodesOf(t) \subseteq Nat
  BY NodesAreNumbers
<1>4. ASSUME NEW y \in reach, y \in UnderOf(t)[m], y # p
      PROVE  \E z \in reach : z \in UnderOf(t)[m] /\ z < y
  <2>1. PICK z \in reach : /\ z \in NodesOf(t) /\ t.kind[z] \in Transparent
                           /\ y \in Range(t.kids[z])
    BY <1>1, <1>2, <1>4, WalkParent
  <2>2. z < y /\ y \in NodesOf(t)
    BY <2>1, TreeFacts
  <2>3. y # m
    <3> SUFFICES ASSUME y = m PROVE FALSE
      OBVIOUS
    <3>1. CASE m = MainOf(t)
      <4>1. p >= MainOf(t)
        BY <1>1, UnderFacts
      <4>2. y >= p
        BY <1>1, ReachFacts
      <4>3. y \in Nat /\ p \in Nat
        BY <1>1, <1>3, <2>2
      <4> QED
        BY <1>4, <3>1, <4>1, <4>2, <4>3
    <3>2. CASE \E w \in NodesOf(t) :
                 t.kind[w] \in Operators \cup Holders /\ m \in Range(t.kids[w])
      <4>1. PICK w \in NodesOf(t) :
              t.kind[w] \in Operators \cup Holders /\ m \in Range(t.kids[w])
        BY <3>2
      <4>2. w = z
        BY <2>1, <4>1, OneParent
      <4> QED
        BY <2>1, <4>1, <4>2 DEF Transparent, Operators, Holders, BadCount
    <3> QED
      BY <3>1, <3>2 DEF Rooted
  <2>4. z \in UnderOf(t)[m]
    BY <1>1, <1>4, <2>1, <2>3, ParentUnder
  <2> QED
    BY <2>1, <2>2, <2>4
<1>5. ASSUME p \notin UnderOf(t)[m] PROVE FALSE
  <2> DEFINE D == {y \in reach : y \in UnderOf(t)[m]}
             rank == [y \in D |-> y]
             None == {}
  <2>1. D \subseteq Nat
    BY <1>1, <1>3, ReachFacts
  <2>2. rank \in [D -> Nat]
    BY <2>1
  <2>3. ASSUME NEW y \in D, \A z \in D : rank[z] < rank[y] => z \in None PROVE y \in None
    <3>1. PICK z \in reach : z \in UnderOf(t)[m] /\ z < y
      BY <1>4, <1>5, <2>3
    <3> QED
      BY <2>3, <3>1
  <2> HIDE DEF D, rank, None
  <2>4. D \subseteq None
    BY <2>2, <2>3, InductionByRank
  <2> QED
    BY <2>4 DEF D, None
<1> QED
  BY <1>5

\* The pipelines around one that an operator holds are those around the
\* operator's and that one itself.
LEMMA NestedInCaller ==
  ASSUME NEW t, IsTree(t), NEW p, Rooted(t, p), NEW x \in ReachOf(t)[p],
         NEW s \in Range(t.kids[x]), NEW m, Rooted(t, m)
  PROVE  (m # s /\ s \in UnderOf(t)[m]) <=> (m = p \/ (m # p /\ p \in UnderOf(t)[m]))
<1>1. p \in NodesOf(t) /\ m \in NodesOf(t) /\ NodesOf(t) \subseteq Nat
  BY NodesAreNumbers DEF Rooted
<1>2. x \in NodesOf(t) /\ x >= p /\ x \in UnderOf(t)[p]
  BY <1>1, ReachFacts
<1>3. s \in NodesOf(t) /\ s > x
  BY <1>2, TreeFacts
<1>4. s \in UnderOf(t)[p]
  BY <1>1, <1>2, <1>3, UnderFacts
<1>5. ASSUME m # s, s \in UnderOf(t)[m] PROVE p \in UnderOf(t)[m]
  <2>1. x \in UnderOf(t)[m]
    BY <1>1, <1>2, <1>5, ParentUnder
  <2> QED
    BY <2>1, PipelinesNest
<1>6. ASSUME p \in UnderOf(t)[m] PROVE m # s /\ s \in UnderOf(t)[m]
  <2>1. UnderOf(t)[p] \subseteq UnderOf(t)[m] /\ p >= m
    BY <1>1, <1>6, UnderFacts
  <2>2. m \in Nat /\ p \in Nat /\ x \in Nat /\ s \in Nat
    BY <1>1, <1>2, <1>3
  <2> QED
    BY <1>2, <1>3, <1>4, <2>1, <2>2
<1>7. p \in UnderOf(t)[p]
  BY <1>1, UnderFacts
<1> QED
  BY <1>5, <1>6, <1>7

LEMMA KindsInQuery ==
  ASSUME NEW kind \in Operators
  PROVE  KindInQuery(kind) \in Query!OpKinds /\ (KindInQuery(kind) = "join" => kind = "join")
BY DEF KindInQuery, Query!OpKinds, Query!Walked

\* The fields of the query enrichment is given.
LEMMA AsQueryFields ==
  ASSUME Progress
  PROVE  /\ AsQuery.main = MainOf(tree)
         /\ DOMAIN AsQuery.exprs = {}
         /\ DOMAIN AsQuery.pipes = DOMAIN built
         /\ \A n \in DOMAIN built :
              /\ AsQuery.pipes[n].source \in {"table", "no table"}
              /\ AsQuery.pipes[n].ops =
                   [k \in DOMAIN built[n].ops |->
                      [kind |-> KindInQuery(built[n].ops[k].kind), items |-> << >>,
                       subs |-> built[n].ops[k].subs]]
              /\ AsQuery.nested[n] =
                   {m \in DOMAIN built : m # n /\ n \in UnderOf(tree)[m]}
<1>1. MainNode = MainOf(tree)
  BY DEF MainNode, MainOf
<1>2. Under = UnderOf(tree)
  BY TreesAssumption, UnderIsUnderOf DEF Progress
<1> QED
  BY <1>1, <1>2 DEF AsQuery

\* What the pipelines of Progress make is what enrichment can walk.
LEMMA ProgressIsQuery == ASSUME Progress, status = "done" PROVE Query!IsQuery(AsQuery)
<1>1. IsTree(tree)
  BY TreesAssumption DEF Progress
<1>2. PICK B : B = DOMAIN built
  OBVIOUS
<1>3. PICK under : under = UnderOf(tree)
  OBVIOUS
<1>4. \A n \in B : BuiltOK(tree, B, n, built[n]) /\ Rooted(tree, n)
  BY <1>2 DEF Progress
<1>5. PICK q : q = AsQuery
  OBVIOUS
<1>6. /\ q.main = MainOf(tree) /\ DOMAIN q.exprs = {} /\ DOMAIN q.pipes = B
      /\ \A n \in B : q.pipes[n].source \in {"table", "no table"}
      /\ \A n \in B : q.pipes[n].ops =
           [k \in DOMAIN built[n].ops |->
              [kind |-> KindInQuery(built[n].ops[k].kind), items |-> << >>,
               subs |-> built[n].ops[k].subs]]
      /\ \A n \in B : q.nested[n] = {m \in B : m # n /\ n \in under[m]}
  BY <1>2, <1>3, <1>5, AsQueryFields
<1>6a. q.main = MainOf(tree) /\ DOMAIN q.exprs = {} /\ DOMAIN q.pipes = B
  BY <1>6
<1>6b. \A n \in B : q.pipes[n].source \in {"table", "no table"}
  BY <1>6
<1>6c. \A n \in B : q.nested[n] = {m \in B : m # n /\ n \in under[m]}
  BY <1>6
<1>6d. \A n \in B, m \in B : m \in q.nested[n] <=> (m # n /\ n \in under[m])
  BY <1>6c
<1>6e. \A n \in B : q.nested[n] \subseteq B
  BY <1>6c
<1>7. Query!IsExprTree(q)
  BY <1>6a DEF Query!IsExprTree
<1>8. Query!IsPipeTree(q)
  <2>1. ASSUME NEW p \in B, NEW a \in B, a # p, p \in under[a],
               NEW m \in B, m # a, a \in under[m]
        PROVE  m # p /\ p \in under[m]
    <3>1. a \in NodesOf(tree) /\ m \in NodesOf(tree) /\ NodesOf(tree) \subseteq Nat
      BY <1>1, <1>4, NodesAreNumbers DEF Rooted
    <3>2. under[a] \subseteq under[m] /\ a >= m
      BY <1>1, <1>3, <2>1, <3>1, UnderFacts
    <3>3. p \in NodesOf(tree) /\ p >= a
      BY <1>1, <1>3, <2>1, <3>1, UnderFacts
    <3>4. p \in Nat /\ a \in Nat /\ m \in Nat
      BY <3>1, <3>3
    <3> QED
      BY <2>1, <3>2, <3>3, <3>4
  <2>2. \A p \in B : q.nested[p] \subseteq B \ {p}
    BY <1>6d, <1>6e
  <2>3. \A p \in B : \A a \in q.nested[p] : q.nested[a] \subseteq q.nested[p]
    <3> TAKE p \in B
    <3> TAKE a \in q.nested[p]
    <3>1. a \in B /\ a # p /\ p \in under[a]
      BY <1>6d, <1>6e
    <3>2. ASSUME NEW m \in q.nested[a] PROVE m \in q.nested[p]
      <4>1. m \in B /\ m # a /\ a \in under[m]
        BY <1>6d, <1>6e, <3>1, <3>2
      <4>2. m # p /\ p \in under[m]
        BY <2>1, <3>1, <4>1
      <4> QED
        BY <1>6d, <4>1, <4>2
    <3> QED
      BY <3>2
  <2>4. Query!IsFiniteSet(B)
    <3>1. B \subseteq 1 .. Len(tree.kind) /\ Len(tree.kind) \in Nat
      BY <1>1, <1>4, TreeFacts DEF Rooted
    <3>2. 1 \in Int /\ Len(tree.kind) \in Int
      BY <3>1
    <3>3. IsFiniteSet(1 .. Len(tree.kind))
      BY <3>2, FS_Interval
    <3>4. IsFiniteSet(B)
      BY <3>1, <3>3, FS_Subset
    <3> QED
      BY <3>4 DEF IsFiniteSet, Query!IsFiniteSet
  <2> QED
    BY <1>6a, <2>2, <2>3, <2>4 DEF Query!IsPipeTree
<1>9. ASSUME NEW p \in B PROVE Query!IsPipeline(q, p)
  <2>1. PICK ops : ops = built[p].ops
    OBVIOUS
  <2>2. /\ ops \in Seq(IROpOf(tree))
        /\ \A k \in DOMAIN ops : /\ StandsFor(tree, ops[k])
                                 /\ ops[k].at[1] \in ReachOf(tree)[p]
                                 /\ Range(ops[k].subs) \subseteq B
        /\ Rooted(tree, p) /\ p \in NodesOf(tree)
    BY <1>4, <2>1 DEF BuiltOK, SubsMade
  <2>3. PICK n \in Nat : n = Len(ops) /\ DOMAIN ops = 1 .. n
    BY <2>2, LenProperties
  <2>4. ASSUME NEW k \in 1 .. n
        PROVE  /\ ops[k].kind \in Operators
               /\ ops[k].kind = "join" => Len(ops[k].subs) = 1
               /\ ops[k].subs \in Seq(B)
               /\ \A j \in DOMAIN ops[k].subs :
                    ops[k].subs[j] \in B /\ q.nested[ops[k].subs[j]] = q.nested[p] \cup {p}
    <3>1. ops[k] \in IROpOf(tree)
      BY <2>2, <2>3, ElementOfSeq
    <3>2. ops[k].kind \in Operators /\ ops[k].subs \in Seq(NodesOf(tree))
      BY <3>1 DEF IROpOf
    <3>3. PICK x \in ReachOf(tree)[p] :
            ops[k].kind = tree.kind[x] /\ ops[k].subs = tree.branches[x]
      BY <2>2, <2>3 DEF StandsFor
    <3>4. x \in NodesOf(tree)
      BY <1>1, <2>2, <3>3, ReachFacts
    <3>5. /\ tree.branches[x] \in Seq(Range(tree.kids[x]))
          /\ tree.kind[x] = "join" => Len(tree.branches[x]) = 1
      BY <1>1, <3>4, TreeFacts
    <3>6. ops[k].subs \in Seq(B)
      <4>1. ops[k].subs \in Seq(Range(ops[k].subs))
        BY <3>2, SeqOfRange
      <4>2. Range(ops[k].subs) \subseteq B
        BY <2>2, <2>3
      <4> QED
        BY <4>1, <4>2, SeqMonotonic
    <3>7. ASSUME NEW j \in DOMAIN ops[k].subs
          PROVE  /\ ops[k].subs[j] \in B
                 /\ q.nested[ops[k].subs[j]] = q.nested[p] \cup {p}
      <4>1. PICK s \in B : s = ops[k].subs[j] /\ s \in Range(tree.kids[x])
        <5>1. ops[k].subs[j] \in Range(ops[k].subs)
          BY DEF Range
        <5>2. Range(ops[k].subs) \subseteq Range(tree.kids[x])
          BY <3>3, <3>5, RangeOfSeq
        <5> QED
          BY <2>2, <2>3, <5>1, <5>2
      <4>2. \A m \in B : (m # s /\ s \in under[m]) <=> (m = p \/ (m # p /\ p \in under[m]))
        BY <1>1, <1>3, <1>4, <2>2, <3>3, <4>1, NestedInCaller
      <4>3. q.nested[s] = q.nested[p] \cup {p}
        <5>1. \A m \in B : m \in q.nested[s] <=> (m = p \/ m \in q.nested[p])
          BY <1>6d, <4>2
        <5>2. q.nested[s] \subseteq B /\ q.nested[p] \cup {p} \subseteq B
          BY <1>6e
        <5> QED
          BY <5>1, <5>2
      <4> QED
        BY <4>1, <4>3
    <3> QED
      BY <3>2, <3>3, <3>5, <3>6, <3>7
  <2>5. PICK out : out = q.pipes[p].ops
    OBVIOUS
  <2>6. /\ out = [k \in 1 .. n |-> out[k]]
        /\ \A k \in 1 .. n :
             out[k] = [kind |-> KindInQuery(ops[k].kind), items |-> << >>, subs |-> ops[k].subs]
    <3>1. q.pipes[p].ops =
            [k \in DOMAIN built[p].ops |->
               [kind |-> KindInQuery(built[p].ops[k].kind), items |-> << >>,
                subs |-> built[p].ops[k].subs]]
      BY <1>6
    <3>2. out = [k \in 1 .. n |->
                   [kind |-> KindInQuery(ops[k].kind), items |-> << >>, subs |-> ops[k].subs]]
      BY <2>1, <2>3, <2>5, <3>1
    <3> QED
      BY <3>2
  <2>7. \A k \in 1 .. n :
          /\ out[k] \in Query!Op(q)
          /\ out[k].kind = KindInQuery(ops[k].kind)
          /\ out[k].items = << >> /\ DOMAIN out[k].items = {}
          /\ out[k].subs = ops[k].subs
    <3> TAKE k \in 1 .. n
    <3>1. << >> \in Seq(Query!Item(q)) /\ DOMAIN << >> = {}
      BY EmptySeq
    <3>2. KindInQuery(ops[k].kind) \in Query!OpKinds
      BY <2>4, KindsInQuery
    <3>3. ops[k].subs \in Seq(DOMAIN q.pipes)
      BY <1>6a, <2>4
    <3>4. PICK kind, subs : kind = KindInQuery(ops[k].kind) /\ subs = ops[k].subs
      OBVIOUS
    <3>5. out[k] = [kind |-> kind, items |-> << >>, subs |-> subs]
      BY <2>6, <3>4
    <3>6. [kind |-> kind, items |-> << >>, subs |-> subs] \in Query!Op(q)
      BY <3>1, <3>2, <3>3, <3>4 DEF Query!Op
    <3> QED
      BY <3>1, <3>4, <3>5, <3>6
  <2>8. out \in Seq(Query!Op(q)) /\ DOMAIN out = 1 .. n
    BY <2>6, <2>7, SequenceType
  <2>9. \A k \in 1 .. n : out[k].kind = "join" => Len(out[k].subs) = 1
    BY <2>4, <2>7, KindsInQuery
  <2>10. \A k \in 1 .. n : \A j \in DOMAIN out[k].subs :
           q.nested[out[k].subs[j]] = q.nested[p] \cup {p}
    BY <2>4, <2>7
  <2>11. q.pipes[p].source \in {"table"} \cup {"no table"}
    BY <1>6a, <1>6b
  <2>12. \A k \in 1 .. n : Query!ListedBy(q, out[k]) = {}
    BY <1>6a DEF Query!ListedBy
  <2> QED
    BY <2>5, <2>7, <2>8, <2>9, <2>10, <2>11, <2>12 DEF Query!IsPipeline
<1>10. q.main \in DOMAIN q.pipes
  BY <1>2, <1>6a DEF Progress
<1> QED
  BY <1>5, <1>6a, <1>7, <1>8, <1>9, <1>10 DEF Query!IsQuery

\* The IR that build_from_code returns is one the enricher can walk: it refers
\* to no pipeline that is not there, and to each from the one around it only.
THEOREM OutputIsQueryHold == Spec => []OutputIsQuery
<1>1. Progress => OutputIsQuery
  BY ProgressIsQuery DEF OutputIsQuery
<1> QED
  BY <1>1, ProgressHolds, PTL
=============================================================================
