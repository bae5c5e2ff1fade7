------------------------- MODULE CorpusAuditsProofs -------------------------
(***************************************************************************)
(* Proofs that no data of an IR is lost in JSON, that traversal and the    *)
(* view for language models miss only what the code makes them miss, and   *)
(* that the two audits may conclude what they do, for corpora of any size  *)
(* and IRs of any size and depth.                                          *)
(***************************************************************************)
EXTENDS CorpusAuditsProps, RecursionLemmas, FiniteSetTheorems

-----------------------------------------------------------------------------
(* Sums.                                                                   *)

\* What the library's sum of a function's values is computed by.
IsSumming(iter, w) ==
  iter = [s \in SUBSET DOMAIN w |->
            IF s = {} THEN 0
            ELSE LET x == CHOOSE x \in s : TRUE IN w[x] + iter[s \ {x}]]

\* There is such a sum.
LEMMA SummingExists ==
  ASSUME NEW D, IsFiniteSet(D), NEW w \in [D -> Nat]
  PROVE  /\ \E iter \in [SUBSET D -> Nat] : IsSumming(iter, w)
<1> DEFINE body(f) == [s \in SUBSET D |->
                         IF s = {} THEN 0
                         ELSE LET x == CHOOSE x \in s : TRUE IN w[x] + f[s \ {x}]]
           F == [f \in [SUBSET D -> Nat] |-> body(f)]
           rank == [s \in SUBSET D |-> Cardinality(s)]
           N == Cardinality(D)
<1>1. /\ N \in Nat
      /\ \A s \in SUBSET D : IsFiniteSet(s) /\ Cardinality(s) \in 0 .. N
  <2>1. N \in Nat
    BY FS_CardinalityType
  <2> SUFFICES ASSUME NEW s \in SUBSET D PROVE IsFiniteSet(s) /\ Cardinality(s) \in 0 .. N
    BY <2>1
  <2>2. IsFiniteSet(s) /\ Cardinality(s) \in Nat /\ Cardinality(s) <= N
    BY FS_Subset, FS_CardinalityType
  <2> QED
    BY <2>1, <2>2
<1>2. \A s \in SUBSET D : s # {} =>
        /\ (CHOOSE x \in s : TRUE) \in s
        /\ s \ {CHOOSE x \in s : TRUE} \in SUBSET D
        /\ Cardinality(s \ {CHOOSE x \in s : TRUE}) < Cardinality(s)
  <2> SUFFICES ASSUME NEW s \in SUBSET D, s # {}, NEW x, x = CHOOSE y \in s : TRUE
               PROVE  x \in s /\ s \ {x} \in SUBSET D /\ Cardinality(s \ {x}) < Cardinality(s)
    OBVIOUS
  <2>1. x \in s
    OBVIOUS
  <2>2. Cardinality(s \ {x}) = Cardinality(s) - 1 /\ Cardinality(s) \in Nat
    BY <1>1, <2>1, FS_RemoveElement, FS_CardinalityType
  <2> QED
    BY <2>1, <2>2
<1>3. IsRecursion(F, SUBSET D, Nat, N, rank)
  <2>1. rank \in [SUBSET D -> 0 .. N]
    BY <1>1
  <2>2. ASSUME NEW f \in [SUBSET D -> Nat] PROVE body(f) \in [SUBSET D -> Nat]
    BY <1>2
  <2>3. F \in [[SUBSET D -> Nat] -> [SUBSET D -> Nat]]
    BY <2>2
  <2>4. ASSUME NEW f \in [SUBSET D -> Nat], NEW g \in [SUBSET D -> Nat], NEW s \in SUBSET D,
               \A y \in SUBSET D : rank[y] < rank[s] => f[y] = g[y]
        PROVE  F[f][s] = F[g][s]
    <3>1. CASE s = {}
      BY <3>1
    <3>2. CASE s # {}
      <4>1. PICK x : x = CHOOSE y \in s : TRUE
        OBVIOUS
      <4>2. x \in s /\ s \ {x} \in SUBSET D /\ rank[s \ {x}] < rank[s]
        BY <1>2, <3>2, <4>1
      <4>3. f[s \ {x}] = g[s \ {x}]
        BY <2>4, <4>2
      <4> QED
        BY <3>2, <4>1, <4>3
    <3> QED
      BY <3>1, <3>2
  <2> HIDE DEF F, rank
  <2> QED
    BY <1>1, <2>1, <2>3, <2>4 DEF IsRecursion
<1> HIDE DEF F, rank
<1>4. PICK f \in [SUBSET D -> Nat] : f = F[f]
  <2>1. PICK P, S : P = SUBSET D /\ S = Nat
    OBVIOUS
  <2>2. IsRecursion(F, P, S, N, rank)
    BY <1>3, <2>1
  <2> HIDE DEF N
  <2>3. \E f \in [P -> S] : f = F[f]
    BY <2>2, RecursionByRank
  <2> QED
    BY <2>1, <2>3
<1>5. f = body(f)
  BY <1>4 DEF F
<1>6. DOMAIN w = D
  OBVIOUS
<1> QED
  BY <1>5, <1>6 DEF IsSumming

Summing(w) == CHOOSE iter : IsSumming(iter, w)

\* SumFunction is the library's fold, spelt out.
LEMMA SumFunctionIsSumming ==
  ASSUME NEW w
  PROVE  SumFunction(w) = Summing(w)[DOMAIN w]
BY DEF SumFunction, SumFunctionOnSet, FoldFunctionOnSet, MapThenFoldSet, Summing, IsSumming

\* What a sum is step by step.
IsSteps(iter, w, D) ==
  /\ iter \in [SUBSET D -> Nat]
  /\ SumFunction(w) = iter[D]
  /\ iter[{}] = 0
  /\ \A s \in SUBSET D : s # {} =>
       iter[s] = w[CHOOSE x \in s : TRUE] + iter[s \ {CHOOSE x \in s : TRUE}]

\* One value at a time.
LEMMA SumSteps ==
  ASSUME NEW D, IsFiniteSet(D), NEW w \in [D -> Nat]
  PROVE  \E iter : IsSteps(iter, w, D)
<1>1. PICK f \in [SUBSET D -> Nat] : IsSumming(f, w)
  BY SummingExists
<1>2. DOMAIN w = D
  OBVIOUS
<1>3. PICK iter : iter = Summing(w)
  OBVIOUS
<1>4. IsSumming(iter, w)
  BY <1>1, <1>3 DEF Summing
<1>5. iter = [s \in SUBSET D |->
               IF s = {} THEN 0
               ELSE w[CHOOSE x \in s : TRUE] + iter[s \ {CHOOSE x \in s : TRUE}]]
  BY <1>2, <1>4 DEF IsSumming
<1>6. {} \in SUBSET D /\ D \in SUBSET D
  OBVIOUS
<1>7. \A s \in SUBSET D : iter[s] \in Nat
  <2> DEFINE rank == [s \in SUBSET D |-> Cardinality(s)]
             T == {s \in SUBSET D : iter[s] \in Nat}
  <2>1. \A s \in SUBSET D : IsFiniteSet(s) /\ Cardinality(s) \in Nat
    BY FS_Subset, FS_CardinalityType
  <2>2. rank \in [SUBSET D -> Nat]
    BY <2>1
  <2>3. ASSUME NEW s \in SUBSET D, \A t \in SUBSET D : rank[t] < rank[s] => t \in T
        PROVE  s \in T
    <3>1. CASE s = {}
      BY <1>5, <3>1
    <3>2. CASE s # {}
      <4>1. PICK x : x = CHOOSE y \in s : TRUE
        OBVIOUS
      <4>2. x \in s /\ s \ {x} \in SUBSET D
        BY <3>2, <4>1
      <4>3. Cardinality(s \ {x}) = Cardinality(s) - 1
        BY <2>1, <4>2, FS_RemoveElement
      <4>4. rank[s \ {x}] < rank[s]
        BY <2>1, <4>2, <4>3
      <4>5. iter[s \ {x}] \in Nat
        BY <2>3, <4>2, <4>4
      <4>6. iter[s] = w[x] + iter[s \ {x}] /\ w[x] \in Nat
        BY <1>5, <3>2, <4>1, <4>2
      <4> QED
        BY <4>5, <4>6
    <3> QED
      BY <3>1, <3>2
  <2> HIDE DEF T, rank
  <2>4. PICK P : P = SUBSET D
    OBVIOUS
  <2>5. rank \in [P -> Nat]
    BY <2>2, <2>4
  <2>6. ASSUME NEW s \in P, \A t \in P : rank[t] < rank[s] => t \in T PROVE s \in T
    BY <2>3, <2>4, <2>6
  <2>7. P \subseteq T
    BY <2>5, <2>6, InductionByRank
  <2> QED
    BY <2>4, <2>7 DEF T
<1>8. iter \in [SUBSET D -> Nat]
  BY <1>5, <1>7
<1>9. SumFunction(w) = iter[D]
  BY <1>2, <1>3, SumFunctionIsSumming
<1>10. iter[{}] = 0
  BY <1>5, <1>6
<1>11. \A s \in SUBSET D : s # {} =>
         iter[s] = w[CHOOSE x \in s : TRUE] + iter[s \ {CHOOSE x \in s : TRUE}]
  BY <1>5
<1> QED
  BY <1>8, <1>9, <1>10, <1>11 DEF IsSteps

\* The sum of a finite number of numbers is one.
LEMMA SumType ==
  ASSUME NEW D, IsFiniteSet(D), NEW w \in [D -> Nat]
  PROVE  SumFunction(w) \in Nat
<1>1. PICK iter : IsSteps(iter, w, D)
  BY SumSteps
<1> QED
  BY <1>1 DEF IsSteps

\* Sums grow with what is summed, and strictly if anything grows strictly.
LEMMA SumMonotonic ==
  ASSUME NEW D, IsFiniteSet(D), NEW v \in [D -> Nat], NEW w \in [D -> Nat],
         \A d \in D : v[d] <= w[d]
  PROVE  /\ SumFunction(v) <= SumFunction(w)
         /\ \A d \in D : v[d] < w[d] => SumFunction(v) < SumFunction(w)
<1>1. PICK i : IsSteps(i, v, D)
  BY SumSteps
<1>2. PICK j : IsSteps(j, w, D)
  BY SumSteps
<1> USE DEF IsSteps
<1> DEFINE rank == [s \in SUBSET D |-> Cardinality(s)]
           T == {s \in SUBSET D : i[s] <= j[s] /\ \A d \in s : v[d] < w[d] => i[s] < j[s]}
<1>3. \A s \in SUBSET D : IsFiniteSet(s) /\ Cardinality(s) \in Nat
  BY FS_Subset, FS_CardinalityType
<1>4. rank \in [SUBSET D -> Nat]
  BY <1>3
<1>5. ASSUME NEW s \in SUBSET D, \A t \in SUBSET D : rank[t] < rank[s] => t \in T
      PROVE  s \in T
  <2>1. CASE s = {}
    BY <1>1, <1>2, <2>1
  <2>2. CASE s # {}
    <3>1. PICK x : x = CHOOSE y \in s : TRUE
      OBVIOUS
    <3>2. x \in s /\ s \ {x} \in SUBSET D
      BY <2>2, <3>1
    <3>3. Cardinality(s \ {x}) = Cardinality(s) - 1
      BY <1>3, <3>2, FS_RemoveElement
    <3>4. rank[s \ {x}] < rank[s]
      BY <1>3, <3>2, <3>3
    <3>5. s \ {x} \in T
      BY <1>5, <3>2, <3>4
    <3>6. i[s] = v[x] + i[s \ {x}] /\ j[s] = w[x] + j[s \ {x}]
      BY <1>1, <1>2, <2>2, <3>1
    <3>7. /\ v[x] \in Nat /\ w[x] \in Nat /\ v[x] <= w[x]
          /\ i[s \ {x}] \in Nat /\ j[s \ {x}] \in Nat
      BY <1>1, <1>2, <3>2
    <3>8. i[s \ {x}] <= j[s \ {x}] /\ \A d \in s \ {x} : v[d] < w[d] => i[s \ {x}] < j[s \ {x}]
      BY <3>5
    <3>9. i[s] <= j[s]
      BY <3>6, <3>7, <3>8
    <3>10. ASSUME NEW d \in s, v[d] < w[d] PROVE i[s] < j[s]
      <4>1. CASE d = x
        BY <3>6, <3>7, <3>8, <3>10, <4>1
      <4>2. CASE d # x
        <5>1. i[s \ {x}] < j[s \ {x}]
          BY <3>8, <3>10, <4>2
        <5> QED
          BY <3>6, <3>7, <5>1
      <4> QED
        BY <4>1, <4>2
    <3> QED
      BY <3>9, <3>10
  <2> QED
    BY <2>1, <2>2
<1> HIDE DEF T, rank
<1>6. PICK P : P = SUBSET D
  OBVIOUS
<1>7. P \subseteq T
  <2>1. rank \in [P -> Nat]
    BY <1>4, <1>6
  <2>2. \A s \in P : (\A t \in P : rank[t] < rank[s] => t \in T) => s \in T
    BY <1>5, <1>6
  <2> QED
    BY <2>1, <2>2, InductionByRank
<1>8. D \in T
  BY <1>6, <1>7
<1> QED
  BY <1>1, <1>2, <1>8 DEF T

(***************************************************************************)
(* Least and greatest.                                                     *)
(***************************************************************************)
\* A set of numbers that is not empty has a least member.
LEMMA MinIsLeast ==
  ASSUME NEW I, I \subseteq Nat, I # {}
  PROVE  Min(I) \in I /\ \A i \in I : Min(I) <= i
<1>1. PICK n \in I : \A m \in I : ~ (<<m, n>> \in OpToRel(<, Nat))
  BY NatLessThanWellFounded, WFMin
<1>2. ASSUME NEW m \in I PROVE n <= m
  <2>1. ~ (m < n)
    BY <1>1 DEF OpToRel
  <2> QED
    BY <2>1
<1> QED
  BY <1>1, <1>2 DEF Min

\* On a finite set of positions a number is greatest at one of them.
LEMMA GreatestExists ==
  ASSUME NEW n \in Nat, NEW I, I \subseteq 1 .. n, I # {}, NEW w \in [I -> Nat]
  PROVE  \E i \in I : \A j \in I : w[j] <= w[i]
<1> DEFINE T == {k \in Nat : (\E i \in I : i <= k) =>
                   \E i \in I : \A j \in I : j <= k => w[j] <= w[i]}
<1>1. 0 \in T
  OBVIOUS
<1>2. ASSUME NEW k \in Nat, k \in T PROVE k + 1 \in T
  <2> SUFFICES ASSUME \E i \in I : i <= k + 1
               PROVE  \E i \in I : \A j \in I : j <= k + 1 => w[j] <= w[i]
    OBVIOUS
  <2>0. \A j \in I : j \in Int /\ (j <= k + 1 => j <= k \/ j = k + 1)
    OBVIOUS
  <2>1. CASE \E i \in I : i <= k
    <3>1. PICK i \in I : \A j \in I : j <= k => w[j] <= w[i]
      BY <1>2, <2>1
    <3>2. CASE k + 1 \in I /\ w[i] < w[k + 1]
      <4>1. ASSUME NEW j \in I, j <= k + 1 PROVE w[j] <= w[k + 1]
        BY <2>0, <3>1, <3>2, <4>1
      <4> QED
        BY <3>2, <4>1
    <3>3. CASE k + 1 \notin I \/ ~ (w[i] < w[k + 1])
      <4>1. ASSUME NEW j \in I, j <= k + 1 PROVE w[j] <= w[i]
        BY <2>0, <3>1, <3>3, <4>1
      <4> QED
        BY <4>1
    <3> QED
      BY <3>2, <3>3
  <2>2. CASE ~ \E i \in I : i <= k
    <3>1. k + 1 \in I /\ \A j \in I : j <= k + 1 => j = k + 1
      BY <2>0, <2>2
    <3> QED
      BY <3>1
  <2> QED
    BY <2>1, <2>2
<1> HIDE DEF T
<1>3. n \in T
  BY <1>1, <1>2, InductionOverNat
<1>4. \A i \in I : i <= n
  OBVIOUS
<1> QED
  BY <1>3, <1>4 DEF T

-----------------------------------------------------------------------------
(* What is reached.                                                        *)

IsReaching(r, N, from, inside) ==
  r = [n \in 0 .. N |->
         IF n = 0 THEN {from}
         ELSE LET before == r[n - 1]
              IN IF n \in before THEN before \cup inside[n] ELSE before]

Reaching(N, from, inside) == CHOOSE r : IsReaching(r, N, from, inside)

\* Reach is its recursive function, whose values these are.
LEMMA ReachIsReaching ==
  ASSUME NEW i, NEW from, NEW inside
  PROVE  Reach(i, from, inside) = Reaching(Len(i), from, inside)[Len(i)]
BY DEF Reach, Reaching, IsReaching

\* Such a function exists, whatever the number of nodes.
LEMMA ReachingExists ==
  ASSUME NEW N \in Nat, NEW from, NEW inside
  PROVE  \E r : IsReaching(r, N, from, inside)
<1> DEFINE T == {m \in Nat : \E r : IsReaching(r, m, from, inside)}
           step(before, n) == IF n \in before THEN before \cup inside[n] ELSE before
<1>1. 0 \in T
  <2> DEFINE r == [n \in 0 .. 0 |-> {from}]
  <2>1. \A n \in 0 .. 0 : n = 0
    OBVIOUS
  <2>2. r = [n \in 0 .. 0 |-> IF n = 0 THEN {from}
                             ELSE LET before == r[n - 1]
                                  IN IF n \in before THEN before \cup inside[n] ELSE before]
    BY <2>1
  <2> QED
    BY <2>2 DEF IsReaching
<1>2. ASSUME NEW m \in Nat, m \in T PROVE m + 1 \in T
  <2>1. PICK r : IsReaching(r, m, from, inside)
    BY <1>2
  <2> DEFINE t == [n \in 0 .. m + 1 |-> IF n \in 0 .. m THEN r[n] ELSE step(r[m], m + 1)]
  <2>2. \A n \in 0 .. m : r[n] = IF n = 0 THEN {from} ELSE step(r[n - 1], n)
    BY <2>1 DEF IsReaching
  <2>3. \A n \in 0 .. m + 1 : n \in 0 .. m \/ n = m + 1
    OBVIOUS
  <2>4. \A n \in 0 .. m + 1 : n # 0 => n - 1 \in 0 .. m /\ n - 1 \in 0 .. m + 1
    OBVIOUS
  <2>5. m + 1 \notin 0 .. m /\ m + 1 # 0 /\ m + 1 - 1 = m /\ m \in 0 .. m /\ 0 .. m \subseteq 0 .. m + 1
    OBVIOUS
  <2> HIDE DEF step
  <2>6. /\ \A n \in 0 .. m : t[n] = r[n]
        /\ t[m + 1] = step(r[m], m + 1)
        /\ DOMAIN t = 0 .. m + 1
    BY <2>5
  <2>7. t = [n \in 0 .. m + 1 |-> t[n]]
    OBVIOUS
  <2> HIDE DEF t
  <2>8. \A n \in 0 .. m + 1 : t[n] = IF n = 0 THEN {from} ELSE step(t[n - 1], n)
    BY <2>2, <2>3, <2>4, <2>5, <2>6
  <2>9. t = [n \in 0 .. m + 1 |-> IF n = 0 THEN {from} ELSE step(t[n - 1], n)]
    BY <2>7, <2>8
  <2>10. IsReaching(t, m + 1, from, inside)
    BY <2>9 DEF IsReaching, step
  <2> QED
    BY <2>10
<1> HIDE DEF T
<1>3. N \in T
  BY <1>1, <1>2, InductionOverNat
<1> QED
  BY <1>3 DEF T

\* A step leads to nodes that come later.
Onward(N, inside) == \A n \in 1 .. N : inside[n] \subseteq n + 1 .. N

\* What is reached is where one starts, and what one step leads to from what is.
LEMMA Reached ==
  ASSUME NEW i, NEW N \in Nat, N = Len(i), NEW from \in 1 .. N, NEW inside, Onward(N, inside)
  PROVE  /\ Reach(i, from, inside) \subseteq 1 .. N
         /\ \A x : x \in Reach(i, from, inside)
                     <=> x = from \/ \E n \in Reach(i, from, inside) : x \in inside[n]
<1>1. PICK r : r = Reaching(N, from, inside)
  OBVIOUS
<1>2. \A n \in 0 .. N :
        r[n] = IF n = 0 THEN {from}
               ELSE IF n \in r[n - 1] THEN r[n - 1] \cup inside[n] ELSE r[n - 1]
  <2>1. IsReaching(r, N, from, inside)
    BY <1>1, ReachingExists DEF Reaching
  <2> QED
    BY <2>1 DEF IsReaching
<1> DEFINE T == {k \in Nat : k <= N =>
                   /\ r[k] \subseteq 1 .. N
                   /\ from \in r[k]
                   /\ \A x : x \in r[k] <=> x = from \/ \E n \in r[k] : n <= k /\ x \in inside[n]}
<1>3. 0 \in T
  <2>1. r[0] = {from}
    <3>1. 0 \in 0 .. N
      OBVIOUS
    <3> QED
      BY <1>2, <3>1
  <2>2. from \in 1 .. N /\ ~ (from <= 0)
    OBVIOUS
  <2>3. \A x : x \in r[0] <=> x = from \/ \E n \in r[0] : n <= 0 /\ x \in inside[n]
    BY <2>1, <2>2
  <2>4. r[0] \subseteq 1 .. N /\ from \in r[0] /\ 0 \in Nat
    BY <2>1, <2>2
  <2> QED
    BY <2>3, <2>4
<1>4. ASSUME NEW k \in Nat, k \in T PROVE k + 1 \in T
  <2> SUFFICES ASSUME k + 1 <= N
               PROVE  /\ r[k + 1] \subseteq 1 .. N
                      /\ from \in r[k + 1]
                      /\ \A x : x \in r[k + 1] <=>
                           x = from \/ \E n \in r[k + 1] : n <= k + 1 /\ x \in inside[n]
    OBVIOUS
  <2>1. /\ r[k] \subseteq 1 .. N /\ from \in r[k]
        /\ \A x : x \in r[k] <=> x = from \/ \E n \in r[k] : n <= k /\ x \in inside[n]
    BY <1>4
  <2>2. r[k + 1] = IF k + 1 \in r[k] THEN r[k] \cup inside[k + 1] ELSE r[k]
    <3>1. PICK m : m = k + 1
      OBVIOUS
    <3>2. m \in 0 .. N /\ m # 0 /\ m - 1 = k
      BY <3>1
    <3>3. r[m] = IF m \in r[m - 1] THEN r[m - 1] \cup inside[m] ELSE r[m - 1]
      BY <1>2, <3>2
    <3> QED
      BY <3>1, <3>2, <3>3
  <2>3. k + 1 \in 1 .. N /\ inside[k + 1] \subseteq 1 .. N
    BY DEF Onward
  <2>4. \A y \in inside[k + 1] : y \in Int /\ ~ (y <= k + 1)
    BY <2>3 DEF Onward
  <2>5. \A n \in 1 .. N : n <= k + 1 <=> n <= k \/ n = k + 1
    OBVIOUS
  <2>6. \A n : n \in r[k + 1] /\ n <= k + 1 <=> n \in r[k] /\ n <= k + 1
    BY <2>2, <2>4
  <2>7. ASSUME NEW x
        PROVE  x \in r[k + 1] <=> x = from \/ \E n \in r[k + 1] : n <= k + 1 /\ x \in inside[n]
    <3>1. x \in r[k + 1] <=> x \in r[k] \/ (k + 1 \in r[k] /\ x \in inside[k + 1])
      BY <2>2
    <3>2. (\E n \in r[k + 1] : n <= k + 1 /\ x \in inside[n])
            <=> (\E n \in r[k] : n <= k /\ x \in inside[n]) \/ (k + 1 \in r[k] /\ x \in inside[k + 1])
      BY <2>1, <2>5, <2>6
    <3> QED
      BY <2>1, <3>1, <3>2
  <2> QED
    BY <2>1, <2>2, <2>3, <2>7
<1> HIDE DEF T
<1>5. N \in T
  BY <1>3, <1>4, InductionOverNat
<1>6. Reach(i, from, inside) = r[N]
  BY <1>1, ReachIsReaching
<1>7. /\ r[N] \subseteq 1 .. N
      /\ \A x : x \in r[N] <=> x = from \/ \E n \in r[N] : n <= N /\ x \in inside[n]
  BY <1>5 DEF T
<1>8. \A n \in r[N] : n <= N
  BY <1>7
<1> QED
  BY <1>6, <1>7, <1>8

-----------------------------------------------------------------------------
(* Reading.                                                                *)

\* Once the last k nodes of a document are read.
IsReading(read, doc, N) ==
  read = [k \in 0 .. N |->
            IF k = 0 THEN [n \in DOMAIN doc |-> << >>]
            ELSE LET n == Len(doc) - k + 1
                     below == read[k - 1]
                 IN [below EXCEPT ![n] = Reading(doc[n], below)]]

\* Readings is its recursive function.
LEMMA ReadingsAreReading ==
  ASSUME NEW doc
  PROVE  Readings(doc) = (CHOOSE read : IsReading(read, doc, Len(doc)))[Len(doc)]
BY DEF Readings, IsReading

\* Such a function exists, whatever the number of nodes.
LEMMA ReadingExists ==
  ASSUME NEW doc, NEW N \in Nat
  PROVE  \E r : IsReading(r, doc, N)
<1> DEFINE T == {m \in Nat : \E r : IsReading(r, doc, m)}
           nothing == [n \in DOMAIN doc |-> << >>]
           step(below, k) == LET n == Len(doc) - k + 1
                             IN [below EXCEPT ![n] = Reading(doc[n], below)]
<1>1. 0 \in T
  <2> DEFINE r == [n \in 0 .. 0 |-> nothing]
  <2>1. \A n \in 0 .. 0 : n = 0
    OBVIOUS
  <2> HIDE DEF nothing, step
  <2>2. r = [n \in 0 .. 0 |-> IF n = 0 THEN nothing ELSE step(r[n - 1], n)]
    BY <2>1
  <2>3. IsReading(r, doc, 0)
    BY <2>2 DEF IsReading, nothing, step
  <2> QED
    BY <2>3
<1>2. ASSUME NEW m \in Nat, m \in T PROVE m + 1 \in T
  <2>1. PICK r : IsReading(r, doc, m)
    BY <1>2
  <2>2. r = [n \in 0 .. m |-> IF n = 0 THEN nothing ELSE step(r[n - 1], n)]
    BY <2>1 DEF IsReading
  <2> HIDE DEF nothing, step
  <2> DEFINE t == [n \in 0 .. m + 1 |-> IF n \in 0 .. m THEN r[n] ELSE step(r[m], m + 1)]
  <2>3. \A n \in 0 .. m + 1 : n \in 0 .. m \/ n = m + 1
    OBVIOUS
  <2>4. \A n \in 0 .. m + 1 : n # 0 => n - 1 \in 0 .. m /\ n - 1 \in 0 .. m + 1
    OBVIOUS
  <2>5. m + 1 \notin 0 .. m /\ m + 1 # 0 /\ m + 1 - 1 = m /\ m \in 0 .. m /\ 0 .. m \subseteq 0 .. m + 1
    OBVIOUS
  <2>6. /\ \A n \in 0 .. m : t[n] = r[n]
        /\ t[m + 1] = step(r[m], m + 1)
        /\ DOMAIN t = 0 .. m + 1
    BY <2>5
  <2>7. t = [n \in 0 .. m + 1 |-> t[n]]
    OBVIOUS
  <2> HIDE DEF t
  <2>8. \A n \in 0 .. m + 1 : t[n] = IF n = 0 THEN nothing ELSE step(t[n - 1], n)
    BY <2>2, <2>3, <2>4, <2>5, <2>6
  <2>9. t = [n \in 0 .. m + 1 |-> IF n = 0 THEN nothing ELSE step(t[n - 1], n)]
    BY <2>7, <2>8
  <2>10. IsReading(t, doc, m + 1)
    BY <2>9 DEF IsReading, nothing, step
  <2> QED
    BY <2>10
<1> HIDE DEF T
<1>3. N \in T
  BY <1>1, <1>2, InductionOverNat
<1> QED
  BY <1>3 DEF T

\* Every node's reading is what it was when its turn came.
LEMMA ReadingsInTurn ==
  ASSUME NEW doc, NEW N \in Nat, N = Len(doc), DOMAIN doc = 1 .. N
  PROVE  \A n \in 1 .. N : \E below :
           /\ \A m \in n + 1 .. N : below[m] = Readings(doc)[m]
           /\ Readings(doc)[n] = Reading(doc[n], below)
<1>1. PICK r : IsReading(r, doc, N) /\ Readings(doc) = r[N]
  <2>1. PICK r : r = CHOOSE read : IsReading(read, doc, N)
    OBVIOUS
  <2> QED
    BY <2>1, ReadingExists, ReadingsAreReading
<1>2. /\ r[0] = [n \in 1 .. N |-> << >>]
      /\ \A k \in 0 .. N : k # 0 =>
           r[k] = [r[k - 1] EXCEPT ![N - k + 1] = Reading(doc[N - k + 1], r[k - 1])]
  <2>1. 0 \in 0 .. N
    OBVIOUS
  <2> QED
    BY <1>1, <2>1 DEF IsReading
<1> DEFINE T == {k \in Nat : k <= N =>
                   /\ DOMAIN r[k] = 1 .. N
                   /\ \A n \in N - k + 1 .. N : \E below :
                        /\ \A m \in n + 1 .. N : below[m] = r[k][m]
                        /\ r[k][n] = Reading(doc[n], below)}
<1>3. 0 \in T
  <2>1. DOMAIN r[0] = 1 .. N
    BY <1>2
  <2>2. \A n \in N - 0 + 1 .. N : FALSE
    OBVIOUS
  <2> QED
    BY <2>1, <2>2
<1>4. ASSUME NEW k \in Nat, k \in T PROVE k + 1 \in T
  <2> SUFFICES ASSUME k + 1 <= N
               PROVE  /\ DOMAIN r[k + 1] = 1 .. N
                      /\ \A n \in N - (k + 1) + 1 .. N : \E below :
                           /\ \A m \in n + 1 .. N : below[m] = r[k + 1][m]
                           /\ r[k + 1][n] = Reading(doc[n], below)
    OBVIOUS
  <2>1. PICK n0 : n0 = N - k
    OBVIOUS
  <2>2. /\ n0 \in 1 .. N /\ N - (k + 1) + 1 = n0 /\ N - k + 1 = n0 + 1
        /\ \A n \in n0 .. N : n = n0 \/ (n \in n0 + 1 .. N /\ n # n0)
        /\ \A n \in n0 .. N : \A m \in n + 1 .. N : m # n0 /\ m \in 1 .. N
    BY <2>1
  <2>3. r[k + 1] = [r[k] EXCEPT ![n0] = Reading(doc[n0], r[k])]
    <3>1. PICK j : j = k + 1
      OBVIOUS
    <3>2. j \in 0 .. N /\ j # 0 /\ j - 1 = k /\ N - j + 1 = n0
      BY <2>1, <3>1
    <3>3. r[j] = [r[j - 1] EXCEPT ![N - j + 1] = Reading(doc[N - j + 1], r[j - 1])]
      BY <1>2, <3>2
    <3> QED
      BY <3>1, <3>2, <3>3
  <2>4. /\ DOMAIN r[k] = 1 .. N
        /\ \A n \in n0 + 1 .. N : \E below :
             /\ \A m \in n + 1 .. N : below[m] = r[k][m]
             /\ r[k][n] = Reading(doc[n], below)
    BY <1>4, <2>2
  <2>5. /\ DOMAIN r[k + 1] = 1 .. N
        /\ r[k + 1][n0] = Reading(doc[n0], r[k])
        /\ \A m \in 1 .. N : m # n0 => r[k + 1][m] = r[k][m]
    BY <2>2, <2>3, <2>4
  <2>6. ASSUME NEW n \in n0 .. N
        PROVE  \E below : /\ \A m \in n + 1 .. N : below[m] = r[k + 1][m]
                          /\ r[k + 1][n] = Reading(doc[n], below)
    <3>1. \A m \in n + 1 .. N : r[k][m] = r[k + 1][m]
      BY <2>2, <2>5
    <3>2. CASE n = n0
      BY <2>5, <3>1, <3>2
    <3>3. CASE n \in n0 + 1 .. N /\ n # n0
      <4>1. PICK below : /\ \A m \in n + 1 .. N : below[m] = r[k][m]
                         /\ r[k][n] = Reading(doc[n], below)
        BY <2>4, <3>3
      <4>2. r[k + 1][n] = r[k][n]
        BY <2>2, <2>5, <3>3
      <4> QED
        BY <3>1, <4>1, <4>2
    <3> QED
      BY <2>2, <3>2, <3>3
  <2> QED
    BY <2>2, <2>5, <2>6
<1> HIDE DEF T
<1>5. N \in T
  BY <1>3, <1>4, InductionOverNat
<1>6. N - N + 1 .. N = 1 .. N
  OBVIOUS
<1> QED
  BY <1>1, <1>5, <1>6 DEF T

\* A reading looks only at the nodes held.
LEMMA ReadingLooksAtKids ==
  ASSUME NEW fields, NEW read, NEW below, \A k \in KidsOf(fields) : below[k] = read[k]
  PROVE  Reading(fields, below) = Reading(fields, read)
<1>1. \A f \in DOMAIN fields : \A k \in ToSet(fields[f].kids) : below[k] = read[k]
  BY DEF KidsOf
<1>2. ASSUME NEW type, NEW k, below[k] = read[k] PROVE Pick(type, k, below) = Pick(type, k, read)
  BY <1>2 DEF Pick
<1>3. ASSUME NEW f \in DOMAIN fields, NEW type
      PROVE  /\ Accepts(type, fields[f], below) = Accepts(type, fields[f], read)
             /\ ValueSets(type, fields[f], below) = ValueSets(type, fields[f], read)
  <2> DEFINE v == fields[f]
  <2>1. \A k \in ToSet(v.kids) : below[k] = read[k]
    BY <1>1
  <2>2. \A i \in DOMAIN v.kids : below[v.kids[i]] = read[v.kids[i]]
    BY <2>1 DEF ToSet
  <2> HIDE DEF v
  <2>3. Accepts(type, v, below) = Accepts(type, v, read)
    BY <2>2 DEF Accepts
  <2>4. [k \in ToSet(v.kids) |-> below[k][Pick(type, k, below)]]
          = [k \in ToSet(v.kids) |-> read[k][Pick(type, k, read)]]
    BY <1>2, <2>1
  <2>5. ValueSets(type, v, below) = ValueSets(type, v, read)
    BY <2>4 DEF ValueSets
  <2> QED
    BY <2>3, <2>5 DEF v
<1>4. ASSUME NEW C PROVE Takes(C, fields, below) = Takes(C, fields, read)
  BY <1>3 DEF Takes
<1>5. ASSUME NEW C PROVE FieldsSet(C, fields, below) = FieldsSet(C, fields, read)
  <2>1. [f \in DOMAIN fields |->
           IF f \in DOMAIN Fields[C] THEN ValueSets(Fields[C][f], fields[f], below) ELSE 0]
        = [f \in DOMAIN fields |->
           IF f \in DOMAIN Fields[C] THEN ValueSets(Fields[C][f], fields[f], read) ELSE 0]
    BY <1>3
  <2> QED
    BY <2>1 DEF FieldsSet
<1> QED
  BY <1>4, <1>5 DEF Reading

\* A document's nodes, those held behind their holders.
IsDoc(doc, N) ==
  /\ N \in Nat /\ N = Len(doc) /\ DOMAIN doc = 1 .. N
  /\ \A n \in 1 .. N : KidsOf(doc[n]) \subseteq n + 1 .. N

\* Each node's readings follow from those below it: what is left of the recursion.
LEMMA ReadingsDef ==
  ASSUME NEW doc, NEW N, IsDoc(doc, N), NEW n \in 1 .. N
  PROVE  Readings(doc)[n] = Reading(doc[n], Readings(doc))
<1> USE DEF IsDoc
<1>1. PICK below : /\ \A m \in n + 1 .. N : below[m] = Readings(doc)[m]
                   /\ Readings(doc)[n] = Reading(doc[n], below)
  BY ReadingsInTurn
<1>2. \A k \in KidsOf(doc[n]) : below[k] = Readings(doc)[k]
  BY <1>1
<1> QED
  BY <1>1, <1>2, ReadingLooksAtKids

-----------------------------------------------------------------------------
(* The class that is picked.                                               *)

\* The class that is picked from a union accepts the node; it is the first one that
\* does, or one that sets the most fields, and those before it set fewer.
PickedAt(p, type, accepted) ==
  /\ p \in DOMAIN type.of /\ type.of[p] \in DOMAIN accepted
  /\ type.of = Operators => \A i \in 1 .. p - 1 : type.of[i] \notin DOMAIN accepted
  /\ type.of # Operators =>
       \A i \in DOMAIN type.of : type.of[i] \in DOMAIN accepted =>
         /\ accepted[type.of[i]] <= accepted[type.of[p]]
         /\ i < p => accepted[type.of[i]] < accepted[type.of[p]]

\* Pick takes a class with these properties.
LEMMA PickProperties ==
  ASSUME NEW type, IsSequence(type.of), NEW read, NEW k,
         read[k] \in [DOMAIN read[k] -> Nat],
         \E C \in ToSet(type.of) : C \in DOMAIN read[k]
  PROVE  \E p : PickedAt(p, type, read[k]) /\ Pick(type, k, read) = type.of[p]
<1>1. PICK N \in Nat : N = Len(type.of) /\ DOMAIN type.of = 1 .. N
  BY DEF IsSequence
<1>2. PICK u : u = type.of
  OBVIOUS
<1>3. PICK w : w = read[k]
  OBVIOUS
<1> DEFINE fits == {i \in DOMAIN u : u[i] \in DOMAIN w}
           most == Max({w[u[i]] : i \in fits})
           best == {i \in fits : w[u[i]] = most}
<1>4. Pick(type, k, read) = u[Min(IF u = Operators THEN fits ELSE best)]
  BY <1>2, <1>3 DEF Pick
<1>5. fits \subseteq 1 .. N /\ fits # {}
  BY <1>1, <1>2, <1>3 DEF ToSet
<1>6. \A i \in fits : w[u[i]] \in Nat
  BY <1>3
<1> HIDE DEF fits
<1>7. CASE u = Operators
  <2>1. Min(fits) \in fits /\ \A i \in fits : Min(fits) <= i
    <3>1. fits \subseteq Nat /\ fits # {}
      BY <1>5
    <3> QED
      BY <3>1, MinIsLeast
  <2>2. PICK p : p = Min(fits)
    OBVIOUS
  <2>3. p \in 1 .. N /\ u[p] \in DOMAIN w
    BY <1>1, <1>2, <2>1, <2>2 DEF fits
  <2>4. ASSUME NEW i \in 1 .. p - 1 PROVE u[i] \notin DOMAIN w
    <3>1. i \in 1 .. N /\ ~ (p <= i)
      BY <2>3
    <3> QED
      BY <1>1, <1>2, <2>1, <2>2, <3>1 DEF fits
  <2>5. PickedAt(p, type, w)
    BY <1>1, <1>2, <1>7, <2>3, <2>4 DEF PickedAt
  <2>6. Pick(type, k, read) = u[p]
    BY <1>4, <1>7, <2>2
  <2> QED
    BY <1>2, <1>3, <2>5, <2>6
<1>8. CASE u # Operators
  <2>1. PICK g \in fits : \A i \in fits : w[u[i]] <= w[u[g]]
    <3> DEFINE v == [i \in fits |-> w[u[i]]]
    <3>1. v \in [fits -> Nat]
      BY <1>6
    <3>2. \E g \in fits : \A i \in fits : v[i] <= v[g]
      BY <1>5, <3>1, GreatestExists
    <3> QED
      BY <3>2
  <2>2. most = w[u[g]]
    <3> DEFINE S == {w[u[i]] : i \in fits}
    <3>1. w[u[g]] \in S /\ \A x \in S : x \in Nat /\ x <= w[u[g]]
      BY <1>6, <2>1
    <3> HIDE DEF S
    <3>2. Max(S) \in S /\ \A y \in S : Max(S) >= y
      BY <3>1 DEF Max
    <3>3. Max(S) = w[u[g]]
      BY <3>1, <3>2
    <3> QED
      BY <3>3 DEF S
  <2>3. best \subseteq 1 .. N /\ best # {} /\ best \subseteq fits
    BY <1>5, <2>2
  <2> HIDE DEF best
  <2>4. Min(best) \in best /\ \A i \in best : Min(best) <= i
    <3>1. best \subseteq Nat /\ best # {}
      BY <2>3
    <3> QED
      BY <3>1, MinIsLeast
  <2>5. PICK p : p = Min(best)
    OBVIOUS
  <2>6. p \in fits /\ p \in 1 .. N /\ w[u[p]] = w[u[g]] /\ u[p] \in DOMAIN w
    BY <2>2, <2>3, <2>4, <2>5 DEF best, fits
  <2>7. ASSUME NEW i \in DOMAIN u, u[i] \in DOMAIN w
        PROVE  w[u[i]] <= w[u[p]] /\ (i < p => w[u[i]] < w[u[p]])
    <3>1. i \in fits /\ i \in 1 .. N
      BY <1>1, <1>2, <2>7 DEF fits
    <3>2. w[u[i]] <= w[u[p]] /\ w[u[i]] \in Nat /\ w[u[p]] \in Nat
      BY <1>6, <2>1, <2>6, <3>1
    <3>3. ASSUME i < p PROVE w[u[i]] # w[u[p]]
      <4>1. ~ (p <= i)
        BY <2>6, <3>1, <3>3
      <4>2. i \notin best
        BY <2>4, <2>5, <4>1
      <4> QED
        BY <2>2, <2>6, <3>1, <4>2 DEF best
    <3> QED
      BY <3>2, <3>3
  <2>8. PickedAt(p, type, w)
    BY <1>1, <1>2, <1>8, <2>6, <2>7 DEF PickedAt
  <2>9. Pick(type, k, read) = u[p]
    BY <1>4, <1>8, <2>5
  <2> QED
    BY <1>2, <1>3, <2>8, <2>9
<1> QED
  BY <1>7, <1>8

-----------------------------------------------------------------------------
(* Documents that were written.                                            *)

\* A document that was written from nodes of some classes.
IsDumpAt(doc, class, n) ==
  /\ class[n] \in Classes
  /\ DOMAIN doc[n] = DOMAIN Fields[class[n]]
  /\ \A f \in DOMAIN doc[n] :
       /\ doc[n][f].form \in Forms
       /\ doc[n][f].form \in JsonForms(Fields[class[n]][f])
       /\ IsFiniteSet(ToSet(doc[n][f].kids))
       /\ Fields[class[n]][f].shape = "atom" => ToSet(doc[n][f].kids) = {}
       /\ IsUnion(Fields[class[n]][f]) =>
            \A k \in ToSet(doc[n][f].kids) : class[k] \in ToSet(Fields[class[n]][f].of)

IsDump(doc, class, N) == IsDoc(doc, N) /\ \A n \in 1 .. N : IsDumpAt(doc, class, n)

\* The tables' facts, one at a time.
LEMMA ShapesOfFields ==
  ASSUME NEW C \in Classes, NEW f \in DOMAIN Fields[C]
  PROVE  /\ Fields[C][f].shape \in {"any", "atom", "one", "optional", "many", "pairs"}
         /\ Fields[C][f].shape = "any" <=> C \in {"MaterializeExpr", "ToScalarExpr"} /\ f = "pipeline"
         /\ Fields[C][f].shape = "pairs" <=> C = "CaseExpr" /\ f = "branches"
         /\ Fields[C][f].shape = "atom" =>
              ("pairs" \in Fields[C][f].of <=> "lists" \in Fields[C][f].of)
BY TablesAssumption

\* What the assumption about the tables says of one class, and of one field.
LEMMA FieldsAreFinite ==
  ASSUME NEW C \in Classes
  PROVE  IsFiniteSet(DOMAIN Fields[C])
BY TablesAssumption

\* What the assumption about the tables says of one union.
LEMMA UnionsOfFields ==
  ASSUME NEW C \in Classes, NEW f \in DOMAIN Fields[C], IsUnion(Fields[C][f])
  PROVE  /\ IsSequence(Fields[C][f].of)
         /\ ToSet(Fields[C][f].of) \subseteq Classes
         /\ Fields[C][f].of = Operators => FirstUnion(Fields[C][f].of)
         /\ Fields[C][f].of # Operators => SmartUnion(Fields[C][f].of)
<1>1. Fields[C][f].of \in Unions
  BY DEF Unions
<1>2. PICK union : union = Fields[C][f].of
  OBVIOUS
<1>3. union \in Unions
  BY <1>1, <1>2
<1> QED
  BY <1>2, <1>3, TablesAssumption

\* The classes that accept each node, and the fields they set, are as they should be.
IsRead(read, k) == read[k] \in [DOMAIN read[k] -> Nat]

\* A field that is accepted sets at least itself.
LEMMA ValueCounts ==
  ASSUME NEW C \in Classes, NEW f \in DOMAIN Fields[C], NEW v, NEW read,
         IsFiniteSet(ToSet(v.kids)), \A k \in ToSet(v.kids) : IsRead(read, k),
         Accepts(Fields[C][f], v, read)
  PROVE  ValueSets(Fields[C][f], v, read) \in Nat /\ ValueSets(Fields[C][f], v, read) > 0
<1>1. PICK type : type = Fields[C][f]
  OBVIOUS
<1>2. CASE type.shape \in {"any", "atom"}
  BY <1>1, <1>2 DEF ValueSets
<1>3. CASE type.shape \notin {"any", "atom"}
  <2> DEFINE w == [k \in ToSet(v.kids) |-> read[k][Pick(type, k, read)]]
  <2>1. IsSequence(type.of)
    BY <1>1, <1>3, UnionsOfFields DEF IsUnion
  <2>2. ASSUME NEW k \in ToSet(v.kids) PROVE read[k][Pick(type, k, read)] \in Nat
    <3>1. PICK i \in DOMAIN v.kids : k = v.kids[i]
      BY DEF ToSet
    <3>2. PICK D \in DOMAIN read[k] : Contains(type.of, D)
      BY <1>1, <1>3, <3>1 DEF Accepts
    <3>3. D \in ToSet(type.of)
      BY <2>1, <3>2 DEF Contains, ToSet, IsSequence
    <3>4. PICK p : PickedAt(p, type, read[k]) /\ Pick(type, k, read) = type.of[p]
      BY <2>1, <3>2, <3>3, PickProperties DEF IsRead
    <3> QED
      BY <3>4 DEF PickedAt, IsRead
  <2>3. w \in [ToSet(v.kids) -> Nat]
    BY <2>2
  <2>4. SumFunction(w) \in Nat
    BY <2>3, SumType
  <2>5. ValueSets(type, v, read) = 1 + SumFunction(w)
    BY <1>3 DEF ValueSets
  <2> QED
    BY <1>1, <2>4, <2>5
<1> QED
  BY <1>2, <1>3

\* What each field of a node adds to the count of a class.
Counts(C, fields, read) ==
  [f \in DOMAIN fields |->
     IF f \in DOMAIN Fields[C] THEN ValueSets(Fields[C][f], fields[f], read) ELSE 0]

\* A class that takes a node counts each of its own fields.
LEMMA TakenCounts ==
  ASSUME NEW C \in Classes, NEW fields, NEW read, IsFiniteSet(DOMAIN fields),
         \A f \in DOMAIN fields : /\ IsFiniteSet(ToSet(fields[f].kids))
                                  /\ \A k \in ToSet(fields[f].kids) : IsRead(read, k),
         Takes(C, fields, read)
  PROVE  /\ Counts(C, fields, read) \in [DOMAIN fields -> Nat]
         /\ \A f \in DOMAIN fields : f \in DOMAIN Fields[C] => Counts(C, fields, read)[f] > 0
         /\ FieldsSet(C, fields, read) = SumFunction(Counts(C, fields, read))
         /\ FieldsSet(C, fields, read) \in Nat
<1>1. ASSUME NEW f \in DOMAIN fields, f \in DOMAIN Fields[C]
      PROVE  /\ ValueSets(Fields[C][f], fields[f], read) \in Nat
             /\ ValueSets(Fields[C][f], fields[f], read) > 0
  <2>1. Accepts(Fields[C][f], fields[f], read)
    BY <1>1 DEF Takes
  <2> QED
    BY <1>1, <2>1, ValueCounts
<1>2. Counts(C, fields, read) \in [DOMAIN fields -> Nat]
  BY <1>1 DEF Counts
<1>3. \A f \in DOMAIN fields : f \in DOMAIN Fields[C] => Counts(C, fields, read)[f] > 0
  BY <1>1 DEF Counts
<1>4. FieldsSet(C, fields, read) = SumFunction(Counts(C, fields, read))
  BY DEF FieldsSet, Counts
<1> QED
  BY <1>2, <1>3, <1>4, SumType

\* The class a node had accepts what it was written to.
LEMMA OwnClassAccepts ==
  ASSUME NEW doc, NEW class, NEW N, IsDump(doc, class, N), NEW R, R = Readings(doc)
  PROVE  \A n \in 1 .. N : class[n] \in DOMAIN R[n] /\ IsRead(R, n)
<1> DEFINE rank == [n \in 1 .. N |-> N - n]
           T == {n \in 1 .. N : class[n] \in DOMAIN R[n] /\ IsRead(R, n)}
<1>1. N \in Nat /\ rank \in [1 .. N -> Nat] /\ IsDoc(doc, N)
  BY DEF IsDump, IsDoc
<1>2. ASSUME NEW n \in 1 .. N, \A m \in 1 .. N : rank[m] < rank[n] => m \in T PROVE n \in T
  <2>1. \A m \in n + 1 .. N : class[m] \in DOMAIN R[m] /\ IsRead(R, m)
    <3> SUFFICES ASSUME NEW m \in n + 1 .. N PROVE m \in T
      OBVIOUS
    <3>1. m \in 1 .. N /\ rank[m] < rank[n]
      BY <1>1
    <3> QED
      BY <1>2, <3>1
  <2>2. IsDumpAt(doc, class, n)
    BY DEF IsDump
  <2>3. PICK fields : fields = doc[n]
    OBVIOUS
  <2>4. PICK C \in Classes : C = class[n]
    BY <2>2 DEF IsDumpAt
  <2>5. \A f \in DOMAIN fields : ToSet(fields[f].kids) \subseteq n + 1 .. N
    <3>1. KidsOf(fields) \subseteq n + 1 .. N
      BY <1>1, <2>3 DEF IsDoc
    <3> QED
      BY <3>1 DEF KidsOf
  <2>6. R[n] = [D \in {D \in Classes : Takes(D, fields, R)} |-> FieldsSet(D, fields, R)]
    <3>1. R[n] = Reading(doc[n], R)
      BY <1>1, ReadingsDef
    <3> QED
      BY <2>3, <3>1 DEF Reading
  <2>7. Takes(C, fields, R)
    <3>1. DOMAIN fields = DOMAIN Fields[C]
      BY <2>2, <2>3, <2>4 DEF IsDumpAt
    <3>2. ASSUME NEW f \in DOMAIN fields PROVE Accepts(Fields[C][f], fields[f], R)
      <4>1. PICK type : type = Fields[C][f]
        OBVIOUS
      <4>2. fields[f].form \in JsonForms(type)
        BY <2>2, <2>3, <2>4, <4>1 DEF IsDumpAt
      <4>3. CASE ~ IsUnion(type)
        BY <4>1, <4>2, <4>3 DEF IsUnion, JsonForms, Accepts
      <4>4. CASE IsUnion(type)
        <5>1. IsSequence(type.of)
          BY <3>1, <4>1, <4>4, UnionsOfFields
        <5>2. ASSUME NEW i \in DOMAIN fields[f].kids
              PROVE  \E D \in DOMAIN R[fields[f].kids[i]] : Contains(type.of, D)
          <6>1. PICK k : k = fields[f].kids[i]
            OBVIOUS
          <6>2. k \in ToSet(fields[f].kids)
            BY <6>1 DEF ToSet
          <6>3. class[k] \in ToSet(type.of)
            BY <2>2, <2>3, <2>4, <4>1, <4>4, <6>2 DEF IsDumpAt
          <6>4. class[k] \in DOMAIN R[k]
            BY <2>1, <2>5, <6>2
          <6>5. Contains(type.of, class[k])
            BY <5>1, <6>3 DEF Contains, ToSet, IsSequence
          <6> QED
            BY <6>1, <6>4, <6>5
        <5>3. type.shape \notin {"any", "atom"} /\ fields[f].form \in FormsOf(type.shape)
          BY <4>2, <4>4 DEF IsUnion, JsonForms
        <5> QED
          BY <4>1, <5>2, <5>3 DEF Accepts
      <4> QED
        BY <4>3, <4>4
    <3> QED
      BY <3>1, <3>2 DEF Takes
  <2>8. ASSUME NEW D \in Classes, Takes(D, fields, R) PROVE FieldsSet(D, fields, R) \in Nat
    <3>1. IsFiniteSet(DOMAIN fields)
      BY <2>2, <2>3, <2>4, FieldsAreFinite DEF IsDumpAt
    <3>2. \A f \in DOMAIN fields : /\ IsFiniteSet(ToSet(fields[f].kids))
                                   /\ \A k \in ToSet(fields[f].kids) : IsRead(R, k)
      BY <2>1, <2>2, <2>3, <2>5 DEF IsDumpAt
    <3> QED
      BY <2>8, <3>1, <3>2, TakenCounts
  <2>9. class[n] \in DOMAIN R[n]
    BY <2>4, <2>6, <2>7
  <2>10. R[n] \in [DOMAIN R[n] -> Nat]
    BY <2>6, <2>8
  <2> QED
    BY <2>9, <2>10 DEF IsRead
<1> HIDE DEF T, rank
<1>3. PICK D : D = 1 .. N
  OBVIOUS
<1>4. D \subseteq T
  <2>1. rank \in [D -> Nat]
    BY <1>1, <1>3
  <2>2. \A n \in D : (\A m \in D : rank[m] < rank[n] => m \in T) => n \in T
    BY <1>2, <1>3
  <2> QED
    BY <2>1, <2>2, InductionByRank
<1> QED
  BY <1>3, <1>4 DEF T

\* A class reads what it wrote.
LEMMA FitsItself == ASSUME NEW C PROVE Fits(C, C)
BY DEF Fits

\* What is picked from a union in the place of one of its classes reads the same fields,
\* and what they held.
LEMMA PickedFits ==
  ASSUME NEW doc, NEW class, NEW N, IsDump(doc, class, N), NEW R, R = Readings(doc),
         NEW k \in 1 .. N, NEW B \in Classes, NEW g \in DOMAIN Fields[B], IsUnion(Fields[B][g]),
         class[k] \in ToSet(Fields[B][g].of)
  PROVE  /\ Pick(Fields[B][g], k, R) \in DOMAIN R[k]
         /\ Pick(Fields[B][g], k, R) \in ToSet(Fields[B][g].of)
         /\ Pick(Fields[B][g], k, R) \in Classes
         /\ Fits(Pick(Fields[B][g], k, R), class[k])
<1>1. PICK type : type = Fields[B][g]
  OBVIOUS
<1>2. PICK U : U = type.of
  OBVIOUS
<1>3. /\ IsSequence(U) /\ ToSet(U) \subseteq Classes
      /\ U = Operators => FirstUnion(U)
      /\ U # Operators => SmartUnion(U)
  BY <1>1, <1>2, UnionsOfFields
<1>4. PICK fields, D : fields = doc[k] /\ D = class[k]
  OBVIOUS
<1>5. D \in DOMAIN R[k] /\ IsRead(R, k)
  BY <1>4, OwnClassAccepts
<1>6. PICK p : PickedAt(p, type, R[k]) /\ Pick(type, k, R) = type.of[p]
  BY <1>1, <1>2, <1>3, <1>4, <1>5, PickProperties DEF IsRead
<1>7. PICK M \in Nat : DOMAIN U = 1 .. M
  BY <1>3 DEF IsSequence
<1>8. PICK j \in 1 .. M : U[j] = D
  BY <1>1, <1>2, <1>4, <1>7 DEF ToSet
<1>9. PICK C : C = U[p]
  OBVIOUS
<1>10. p \in 1 .. M /\ C \in DOMAIN R[k] /\ C \in ToSet(U) /\ C \in Classes
  BY <1>2, <1>3, <1>6, <1>7, <1>9 DEF PickedAt, ToSet
<1>11. R[k] = [X \in {X \in Classes : Takes(X, fields, R)} |-> FieldsSet(X, fields, R)]
  <2>1. R[k] = Reading(doc[k], R)
    BY ReadingsDef DEF IsDump
  <2> QED
    BY <1>4, <2>1 DEF Reading
<1>12. IsDumpAt(doc, class, k)
  BY DEF IsDump
<1>13. DOMAIN fields = DOMAIN Fields[D] /\ D \in Classes /\ IsFiniteSet(DOMAIN fields)
  BY <1>4, <1>12, FieldsAreFinite DEF IsDumpAt
<1>14. \A X \in DOMAIN R[k] : X \in Classes /\ Takes(X, fields, R) /\ R[k][X] = FieldsSet(X, fields, R)
  BY <1>11
<1>15. \A X \in Classes : Takes(X, fields, R) => X \in DOMAIN R[k]
  BY <1>11
<1>16. \A X \in Classes : Takes(X, fields, R) /\ DOMAIN Fields[D] \subseteq DOMAIN Fields[X] => MayRead(X, D)
  BY <1>13 DEF Takes, MayRead
<1>17. CASE U # Operators
  <2>1. \A f \in DOMAIN Fields[C] \cap DOMAIN Fields[D] :
          Fields[C][f].shape = Fields[D][f].shape /\ Fields[C][f].of = Fields[D][f].of
    <3>1. D \in ToSet(U) /\ C \in ToSet(U)
      BY <1>7, <1>8, <1>10 DEF ToSet
    <3> QED
      BY <1>3, <1>17, <3>1 DEF SmartUnion
  <2>2. \A f \in DOMAIN fields : /\ IsFiniteSet(ToSet(fields[f].kids))
                                 /\ \A m \in ToSet(fields[f].kids) : IsRead(R, m)
    <3>1. \A f \in DOMAIN fields : \A m \in ToSet(fields[f].kids) : m \in 1 .. N
      <4>1. KidsOf(doc[k]) \subseteq k + 1 .. N /\ N \in Nat
        BY DEF IsDump, IsDoc
      <4> QED
        BY <1>4, <4>1 DEF KidsOf
    <3> QED
      BY <1>4, <1>12, <3>1, OwnClassAccepts DEF IsDumpAt
  <2> DEFINE v == Counts(C, fields, R)
             w == Counts(D, fields, R)
  <2>3. /\ v \in [DOMAIN fields -> Nat] /\ w \in [DOMAIN fields -> Nat]
        /\ \A f \in DOMAIN fields : w[f] > 0
        /\ R[k][C] = SumFunction(v) /\ R[k][D] = SumFunction(w)
        /\ R[k][C] \in Nat /\ R[k][D] \in Nat
    BY <1>5, <1>10, <1>13, <1>14, <2>2, TakenCounts
  <2>4. \A f \in DOMAIN fields : IF f \in DOMAIN Fields[C] THEN v[f] = w[f] ELSE v[f] = 0
    <3> SUFFICES ASSUME NEW f \in DOMAIN fields
                 PROVE  IF f \in DOMAIN Fields[C] THEN v[f] = w[f] ELSE v[f] = 0
      OBVIOUS
    <3>1. CASE f \in DOMAIN Fields[C]
      <4>1. PICK c, d : c = Fields[C][f] /\ d = Fields[D][f]
        OBVIOUS
      <4>2. c.shape = d.shape /\ c.of = d.of
        BY <1>13, <2>1, <3>1, <4>1
      <4>3. \A m : Pick(c, m, R) = Pick(d, m, R)
        BY <4>2 DEF Pick
      <4>4. ValueSets(c, fields[f], R) = ValueSets(d, fields[f], R)
        BY <4>2, <4>3 DEF ValueSets
      <4> QED
        BY <1>13, <3>1, <4>1, <4>4 DEF Counts
    <3>2. CASE f \notin DOMAIN Fields[C]
      BY <3>2 DEF Counts
    <3> QED
      BY <3>1, <3>2
  <2> HIDE DEF v, w
  <2>5. \A f \in DOMAIN fields : v[f] <= w[f]
    BY <2>3, <2>4
  <2>6. R[k][D] <= R[k][C] /\ (j < p => R[k][D] < R[k][C])
    BY <1>2, <1>5, <1>6, <1>7, <1>8, <1>9, <1>17 DEF PickedAt
  <2>7. DOMAIN Fields[D] \subseteq DOMAIN Fields[C]
    <3> SUFFICES ASSUME NEW f \in DOMAIN fields, f \notin DOMAIN Fields[C] PROVE FALSE
      BY <1>13
    <3>1. v[f] < w[f]
      BY <2>3, <2>4
    <3>2. SumFunction(v) < SumFunction(w)
      BY <1>13, <2>3, <2>5, <3>1, SumMonotonic
    <3> QED
      BY <2>3, <2>6, <3>2
  <2>8. R[k][C] = R[k][D]
    <3>1. \A f \in DOMAIN fields : v[f] = w[f]
      BY <1>13, <2>4, <2>7
    <3>2. v = w
      BY <2>3, <3>1
    <3> QED
      BY <2>3, <3>2
  <2>9. p <= j
    BY <1>8, <1>10, <2>3, <2>6, <2>8
  <2>10. DOMAIN Fields[C] = DOMAIN Fields[D]
    <3>1. CASE p = j
      BY <1>8, <1>9, <3>1
    <3>2. CASE p # j
      <4>1. p \in 1 .. j - 1 /\ j \in DOMAIN U
        BY <1>7, <1>8, <1>10, <2>9, <3>2
      <4>2. MayRead(U[p], U[j])
        BY <1>8, <1>9, <1>10, <1>14, <1>16, <2>7
      <4> QED
        BY <1>3, <1>8, <1>9, <1>17, <4>1, <4>2 DEF SmartUnion
    <3> QED
      BY <3>1, <3>2
  <2>11. Fits(C, D)
    BY <2>1, <2>10 DEF Fits, IsUnion
  <2> QED
    BY <1>1, <1>2, <1>4, <1>6, <1>9, <1>10, <2>11
<1>18. CASE U = Operators
  <2>1. FirstUnion(U)
    BY <1>3, <1>18
  <2>2. \A i \in 1 .. p - 1 : U[i] \notin DOMAIN R[k]
    BY <1>2, <1>6, <1>18 DEF PickedAt
  <2>3. p <= j
    <3> SUFFICES ASSUME j < p PROVE FALSE
      BY <1>8, <1>10
    <3>1. j \in 1 .. p - 1
      BY <1>8, <1>10
    <3> QED
      BY <1>5, <1>8, <2>2, <3>1
  <2>4. Takes(C, fields, R) /\ DOMAIN Fields[D] \subseteq DOMAIN Fields[C]
    <3>1. C \in OperatorClasses
      BY <1>10, <2>1 DEF FirstUnion
    <3> QED
      BY <1>10, <1>13, <1>14, <3>1 DEF Takes
  <2>5. CASE p = j
    BY <1>1, <1>2, <1>4, <1>6, <1>8, <1>9, <1>10, <2>5, FitsItself
  <2>6. CASE p # j
    <3>1. p \in 1 .. j - 1 /\ j \in DOMAIN U
      BY <1>7, <1>8, <1>10, <2>3, <2>6
    <3>2. MayRead(U[p], U[j])
      BY <1>8, <1>9, <1>10, <1>16, <2>4
    <3>3. Fits(C, D) \/ Clash(C, D) \/ \E h \in 1 .. p - 1 : Covers(U[h], D)
      BY <1>8, <1>9, <2>1, <3>1, <3>2 DEF FirstUnion
    <3>4. ~ Clash(C, D)
      <4> SUFFICES ASSUME NEW f \in DOMAIN Fields[C] \cap DOMAIN Fields[D],
                          JsonForms(Fields[C][f]) \cap JsonForms(Fields[D][f]) = {}
                   PROVE  FALSE
        BY DEF Clash
      <4>1. fields[f].form \in JsonForms(Fields[D][f]) /\ fields[f].form \in Forms
        BY <1>4, <1>12, <1>13 DEF IsDumpAt
      <4>2. Accepts(Fields[C][f], fields[f], R)
        BY <1>13, <2>4 DEF Takes
      <4>3. fields[f].form \in JsonForms(Fields[C][f])
        BY <4>1, <4>2 DEF Accepts, JsonForms
      <4> QED
        BY <4>1, <4>3
    <3>5. ASSUME NEW h \in 1 .. p - 1, Covers(U[h], D) PROVE FALSE
      <4>1. PICK H : H = U[h]
        OBVIOUS
      <4>2. h \in 1 .. M
        BY <1>10
      <4>3. H \in Classes
        BY <1>3, <1>7, <4>1, <4>2 DEF ToSet
      <4>4. DOMAIN Fields[H] = DOMAIN fields /\ Covers(H, D) /\ Fits(H, D)
        BY <1>13, <3>5, <4>1 DEF Covers, Fits
      <4>5. ASSUME NEW f \in DOMAIN fields PROVE Accepts(Fields[H][f], fields[f], R)
        <5>1. PICK c, d : c = Fields[H][f] /\ d = Fields[D][f]
          OBVIOUS
        <5>2. fields[f].form \in JsonForms(c)
          BY <1>4, <1>12, <1>13, <4>4, <4>5, <5>1 DEF IsDumpAt, Covers
        <5>3. CASE ~ IsUnion(c)
          BY <5>1, <5>2, <5>3 DEF IsUnion, JsonForms, Accepts
        <5>4. CASE IsUnion(c)
          <6>1. IsSequence(c.of)
            BY <4>3, <4>4, <5>1, <5>4, UnionsOfFields
          <6>2. IsUnion(d) /\ ToSet(d.of) \subseteq ToSet(c.of)
            BY <1>13, <4>4, <5>1, <5>4 DEF Fits
          <6>3. ASSUME NEW i \in DOMAIN fields[f].kids
                PROVE  \E X \in DOMAIN R[fields[f].kids[i]] : Contains(c.of, X)
            <7>1. PICK m : m = fields[f].kids[i]
              OBVIOUS
            <7>2. m \in ToSet(fields[f].kids)
              BY <7>1 DEF ToSet
            <7>3. class[m] \in ToSet(c.of)
              BY <1>4, <1>12, <5>1, <6>2, <7>2 DEF IsDumpAt
            <7>4. m \in 1 .. N
              <8>1. KidsOf(doc[k]) \subseteq k + 1 .. N /\ N \in Nat
                BY DEF IsDump, IsDoc
              <8> QED
                BY <1>4, <7>2, <8>1 DEF KidsOf
            <7>5. class[m] \in DOMAIN R[m]
              BY <7>4, OwnClassAccepts
            <7>6. Contains(c.of, class[m])
              BY <6>1, <7>3 DEF Contains, ToSet, IsSequence
            <7> QED
              BY <7>1, <7>5, <7>6
          <6>4. c.shape \notin {"any", "atom"} /\ fields[f].form \in FormsOf(c.shape)
            BY <5>2, <5>4 DEF IsUnion, JsonForms
          <6> QED
            BY <5>1, <6>3, <6>4 DEF Accepts
        <5> QED
          BY <5>3, <5>4
      <4>6. Takes(H, fields, R)
        BY <4>4, <4>5 DEF Takes
      <4> QED
        BY <1>15, <2>2, <4>1, <4>3, <4>6
    <3>6. Fits(C, D)
      BY <3>3, <3>4, <3>5
    <3> QED
      BY <1>1, <1>2, <1>4, <1>6, <1>9, <1>10, <3>6
  <2> QED
    BY <2>5, <2>6
<1> QED
  BY <1>17, <1>18

-----------------------------------------------------------------------------
(* Who holds a node.                                                       *)

\* Node k stands in field f of node n; and every node but the first in one field only.
StandsIn(doc, n, f, k) == n \in DOMAIN doc /\ f \in DOMAIN doc[n] /\ k \in ToSet(doc[n][f].kids)
IsDocTree(doc, N) ==
  /\ IsDoc(doc, N)
  /\ \A k \in 1 .. N : k # 1 =>
       \E n, f : /\ StandsIn(doc, n, f, k)
                 /\ \A m, g : StandsIn(doc, m, g, k) => m = n /\ g = f

\* Parents come before children.
LEMMA StandsBehind ==
  ASSUME NEW doc, NEW N, IsDoc(doc, N), NEW n, NEW f, NEW k, StandsIn(doc, n, f, k)
  PROVE  n \in 1 .. N /\ k \in n + 1 .. N /\ k \in 1 .. N /\ k # 1 /\ n < k
<1>1. n \in 1 .. N /\ N \in Nat
  BY DEF IsDoc, StandsIn
<1>2. k \in KidsOf(doc[n])
  BY DEF StandsIn, KidsOf
<1>3. k \in n + 1 .. N
  BY <1>1, <1>2 DEF IsDoc
<1> QED
  BY <1>1, <1>3

\* ParentOf and FieldOf find the one place a node stands in.
LEMMA HoldersAreUnique ==
  ASSUME NEW doc, NEW N, IsDocTree(doc, N), NEW n, NEW f, NEW k, StandsIn(doc, n, f, k)
  PROVE  /\ ParentOf(doc, k) = n /\ FieldOf(doc[n], k) = f
         /\ \A m, g : StandsIn(doc, m, g, k) => m = n /\ g = f
<1>1. k \in 1 .. N /\ k # 1 /\ n \in DOMAIN doc
  BY StandsBehind DEF IsDocTree, IsDoc
<1>2. \A m, g : StandsIn(doc, m, g, k) => m = n /\ g = f
  BY <1>1 DEF IsDocTree
<1>3. ParentOf(doc, k) = n
  <2>1. k \in KidsOf(doc[n])
    BY DEF KidsOf, StandsIn
  <2>2. \A m \in DOMAIN doc : k \in KidsOf(doc[m]) => m = n
    <3> SUFFICES ASSUME NEW m \in DOMAIN doc, NEW g \in DOMAIN doc[m], k \in ToSet(doc[m][g].kids)
                 PROVE  m = n
      BY DEF KidsOf
    <3> QED
      BY <1>2 DEF StandsIn
  <2> QED
    BY <1>1, <2>1, <2>2 DEF ParentOf
<1>4. FieldOf(doc[n], k) = f
  <2>1. f \in DOMAIN doc[n] /\ k \in ToSet(doc[n][f].kids)
    BY DEF StandsIn
  <2>2. \A g \in DOMAIN doc[n] : k \in ToSet(doc[n][g].kids) => g = f
    BY <1>1, <1>2 DEF StandsIn
  <2> QED
    BY <2>1, <2>2 DEF FieldOf
<1> QED
  BY <1>2, <1>3, <1>4

\* The classes of the nodes of a document.
IsClasses(c, doc, root, N) ==
  c = [k \in 1 .. N |->
         IF k = 1 THEN root
         ELSE ClassBelow(c[ParentOf(doc, k)], doc[ParentOf(doc, k)], k, Readings(doc))]

\* The recursive function of ClassesRead exists.
LEMMA ClassesExist ==
  ASSUME NEW doc, NEW root, NEW N, IsDocTree(doc, N)
  PROVE  \E c : IsClasses(c, doc, root, N)
<1> DEFINE T == {m \in Nat : m <= N => \E c : IsClasses(c, doc, root, m)}
           below(C, k) == ClassBelow(C, doc[ParentOf(doc, k)], k, Readings(doc))
<1>0. N \in Nat
  BY DEF IsDocTree, IsDoc
<1>1. 0 \in T
  <2> DEFINE c == [k \in 1 .. 0 |-> root]
  <2>1. \A k \in 1 .. 0 : FALSE
    OBVIOUS
  <2> HIDE DEF below
  <2>2. c = [k \in 1 .. 0 |-> IF k = 1 THEN root ELSE below(c[ParentOf(doc, k)], k)]
    BY <2>1
  <2>3. IsClasses(c, doc, root, 0)
    BY <2>2 DEF IsClasses, below
  <2> QED
    BY <2>3
<1>2. ASSUME NEW m \in Nat, m \in T PROVE m + 1 \in T
  <2> SUFFICES ASSUME m + 1 <= N PROVE \E c : IsClasses(c, doc, root, m + 1)
    OBVIOUS
  <2>1. PICK c : IsClasses(c, doc, root, m)
    BY <1>0, <1>2
  <2>2. c = [k \in 1 .. m |-> IF k = 1 THEN root ELSE below(c[ParentOf(doc, k)], k)]
    BY <2>1 DEF IsClasses
  <2> HIDE DEF below
  <2> DEFINE x == IF m + 1 = 1 THEN root ELSE below(c[ParentOf(doc, m + 1)], m + 1)
             t == [k \in 1 .. m + 1 |-> IF k \in 1 .. m THEN c[k] ELSE x]
  <2>3. \A k \in 1 .. m + 1 : k \in 1 .. m \/ k = m + 1
    OBVIOUS
  <2>4. m + 1 \notin 1 .. m /\ m + 1 \in 1 .. m + 1 /\ 1 .. m \subseteq 1 .. m + 1
    OBVIOUS
  <2>5. \A k \in 1 .. m + 1 : k # 1 => ParentOf(doc, k) \in 1 .. m
    <3> SUFFICES ASSUME NEW k \in 1 .. m + 1, k # 1 PROVE ParentOf(doc, k) \in 1 .. m
      OBVIOUS
    <3>1. k \in 1 .. N
      BY <1>0
    <3>2. PICK n, f : StandsIn(doc, n, f, k)
      BY <3>1 DEF IsDocTree
    <3>3. ParentOf(doc, k) = n
      BY <3>2, HoldersAreUnique
    <3>4. n \in 1 .. N /\ n < k
      BY <3>2, StandsBehind DEF IsDocTree
    <3> QED
      BY <1>0, <3>3, <3>4
  <2> HIDE DEF x
  <2>6. /\ \A k \in 1 .. m : t[k] = c[k]
        /\ t[m + 1] = x
    BY <2>4
  <2>7. t = [k \in 1 .. m + 1 |-> t[k]]
    OBVIOUS
  <2> HIDE DEF t
  <2>8. \A k \in 1 .. m + 1 : t[k] = IF k = 1 THEN root ELSE below(t[ParentOf(doc, k)], k)
    <3> SUFFICES ASSUME NEW k \in 1 .. m + 1
                 PROVE  t[k] = IF k = 1 THEN root ELSE below(t[ParentOf(doc, k)], k)
      OBVIOUS
    <3>1. k # 1 => t[ParentOf(doc, k)] = c[ParentOf(doc, k)]
      BY <2>5, <2>6
    <3>2. CASE k \in 1 .. m
      BY <2>2, <2>6, <3>1, <3>2
    <3>3. CASE k = m + 1
      BY <2>6, <3>1, <3>3 DEF x
    <3> QED
      BY <2>3, <3>2, <3>3
  <2>9. t = [k \in 1 .. m + 1 |-> IF k = 1 THEN root ELSE below(t[ParentOf(doc, k)], k)]
    BY <2>7, <2>8
  <2>10. IsClasses(t, doc, root, m + 1)
    BY <2>9 DEF IsClasses, below
  <2> QED
    BY <2>10
<1> HIDE DEF T
<1>3. N \in T
  BY <1>0, <1>1, <1>2, InductionOverNat
<1> QED
  BY <1>0, <1>3 DEF T

\* A node's class follows from that of its parent: what is left of the recursion.
LEMMA ClassesReadDef ==
  ASSUME NEW doc, NEW root, NEW N, IsDocTree(doc, N), NEW c, c = ClassesRead(doc, root)
  PROVE  /\ DOMAIN c = 1 .. N
         /\ 1 \in 1 .. N => c[1] = root
         /\ \A n, f, k : StandsIn(doc, n, f, k) =>
              c[k] = ClassBelow(c[n], doc[n], k, Readings(doc))
<1>1. DOMAIN doc = 1 .. N
  BY DEF IsDocTree, IsDoc
<1>2. c = CHOOSE d : IsClasses(d, doc, root, N)
  BY <1>1 DEF ClassesRead, IsClasses
<1>3. IsClasses(c, doc, root, N)
  BY <1>2, ClassesExist
<1>4. ASSUME NEW n, NEW f, NEW k, StandsIn(doc, n, f, k)
      PROVE  c[k] = ClassBelow(c[n], doc[n], k, Readings(doc))
  <2>1. k \in 1 .. N /\ k # 1
    BY <1>4, StandsBehind DEF IsDocTree
  <2>2. ParentOf(doc, k) = n
    BY <1>4, HoldersAreUnique
  <2> QED
    BY <1>3, <2>1, <2>2 DEF IsClasses
<1> QED
  BY <1>3, <1>4 DEF IsClasses

\* Where a node stands in a field of type Any, or below one, it is read as a dict; any
\* other as a class of its place's union that reads the fields it had.
IsReadAs(c, class, n, f, k) ==
  /\ c[k] = Dict <=> c[n] = Dict \/ Fields[class[n]][f].shape = "any"
  /\ c[k] # Dict =>
       /\ Fits(c[k], class[k])
       /\ f \in DOMAIN Fields[c[n]] /\ IsUnion(Fields[c[n]][f])
       /\ c[k] \in ToSet(Fields[c[n]][f].of)

FitsAt(c, class, R, k) ==
  c[k] = Dict \/ (c[k] \in Classes /\ c[k] \in DOMAIN R[k] /\ Fits(c[k], class[k]))

\* Down the document, the class chosen for a node fits the class it was written from, unless
\* it stands behind a field of type Any.
LEMMA ClassesFit ==
  ASSUME NEW doc, NEW class, NEW N, IsDump(doc, class, N), IsDocTree(doc, N), 1 \in 1 .. N,
         NEW c, c = ClassesRead(doc, class[1]), NEW R, R = Readings(doc)
  PROVE  /\ \A k \in 1 .. N : FitsAt(c, class, R, k)
         /\ \A n, f, k : StandsIn(doc, n, f, k) => IsReadAs(c, class, n, f, k)
<1>1. ASSUME NEW n, NEW f, NEW k, StandsIn(doc, n, f, k), FitsAt(c, class, R, n)
      PROVE  FitsAt(c, class, R, k) /\ IsReadAs(c, class, n, f, k)
  <2>1. n \in 1 .. N /\ k \in 1 .. N /\ f \in DOMAIN doc[n] /\ k \in ToSet(doc[n][f].kids)
    BY <1>1, StandsBehind DEF IsDocTree, StandsIn
  <2>2. c[k] = ClassBelow(c[n], doc[n], k, R) /\ FieldOf(doc[n], k) = f
    BY <1>1, ClassesReadDef, HoldersAreUnique
  <2>3. IsDumpAt(doc, class, n)
    BY <2>1 DEF IsDump
  <2>4. CASE c[n] = Dict
    BY <2>2, <2>4 DEF ClassBelow, FitsAt, IsReadAs
  <2>5. CASE c[n] # Dict
    <3>1. c[n] \in Classes /\ Fits(c[n], class[n]) /\ class[n] \in Classes
      BY <1>1, <2>3, <2>5 DEF FitsAt, IsDumpAt
    <3>2. f \in DOMAIN Fields[class[n]] /\ f \in DOMAIN Fields[c[n]]
      BY <2>1, <2>3, <3>1 DEF IsDumpAt, Fits
    <3>3. PICK t, d : t = Fields[c[n]][f] /\ d = Fields[class[n]][f]
      OBVIOUS
    <3>4. /\ t.shape = "any" <=> d.shape = "any"
          /\ IsUnion(t) <=> IsUnion(d)
          /\ IsUnion(d) => ToSet(d.of) \subseteq ToSet(t.of)
      BY <3>1, <3>2, <3>3 DEF Fits
    <3>5. CASE d.shape = "any"
      <4>1. c[k] = Dict
        BY <2>2, <3>3, <3>4, <3>5 DEF ClassBelow
      <4> QED
        BY <3>3, <3>5, <4>1 DEF FitsAt, IsReadAs
    <3>6. CASE d.shape # "any"
      <4>1. IsUnion(d)
        BY <2>1, <2>3, <3>3, <3>6 DEF IsDumpAt, IsUnion
      <4>2. class[k] \in ToSet(t.of) /\ IsUnion(t)
        BY <2>1, <2>3, <3>3, <3>4, <4>1 DEF IsDumpAt
      <4>3. c[k] = Pick(t, k, R)
        BY <2>2, <2>5, <3>2, <3>3, <3>4, <3>6 DEF ClassBelow
      <4>4. c[k] \in DOMAIN R[k] /\ c[k] \in ToSet(t.of) /\ c[k] \in Classes /\ Fits(c[k], class[k])
        BY <2>1, <3>1, <3>2, <3>3, <4>2, <4>3, PickedFits
      <4>5. c[k] # Dict
        BY <4>4, TablesAssumption
      <4> QED
        BY <2>5, <3>2, <3>3, <3>6, <4>2, <4>4, <4>5 DEF FitsAt, IsReadAs
    <3> QED
      BY <3>5, <3>6
  <2> QED
    BY <2>4, <2>5
<1> DEFINE rank == [k \in 1 .. N |-> k]
           T == {k \in 1 .. N : FitsAt(c, class, R, k)}
<1>2. rank \in [1 .. N -> Nat]
  BY DEF IsDocTree, IsDoc
<1>3. ASSUME NEW k \in 1 .. N, \A n \in 1 .. N : rank[n] < rank[k] => n \in T PROVE k \in T
  <2>1. CASE k = 1
    <3>1. c[1] = class[1]
      BY ClassesReadDef
    <3>2. class[1] \in Classes
      BY DEF IsDump, IsDumpAt
    <3>3. class[1] \in DOMAIN R[1]
      BY OwnClassAccepts
    <3> QED
      BY <2>1, <3>1, <3>2, <3>3, FitsItself DEF FitsAt
  <2>2. CASE k # 1
    <3>1. PICK n, f : StandsIn(doc, n, f, k)
      BY <2>2 DEF IsDocTree
    <3>2. n \in 1 .. N /\ n < k
      BY <3>1, StandsBehind DEF IsDocTree
    <3>3. FitsAt(c, class, R, n)
      BY <1>3, <3>2
    <3> QED
      BY <1>1, <3>1, <3>3
  <2> QED
    BY <2>1, <2>2
<1> HIDE DEF T, rank
<1>4. PICK D : D = 1 .. N
  OBVIOUS
<1>5. D \subseteq T
  <2>1. rank \in [D -> Nat]
    BY <1>2, <1>4
  <2>2. \A k \in D : (\A n \in D : rank[n] < rank[k] => n \in T) => k \in T
    BY <1>3, <1>4
  <2> QED
    BY <2>1, <2>2, InductionByRank
<1>6. \A k \in 1 .. N : FitsAt(c, class, R, k)
  BY <1>4, <1>5 DEF T
<1>7. ASSUME NEW n, NEW f, NEW k, StandsIn(doc, n, f, k) PROVE IsReadAs(c, class, n, f, k)
  <2>1. n \in 1 .. N
    BY <1>7, StandsBehind DEF IsDocTree
  <2> QED
    BY <1>1, <1>6, <1>7, <2>1
<1> QED
  BY <1>6, <1>7

-----------------------------------------------------------------------------
(* IRs and what they are written to.                                       *)

\* IsNode, where the number of nodes is known.
IsNodeAt(i, n, N) ==
  /\ i[n] = [class |-> i[n].class, fields |-> i[n].fields]
  /\ i[n].class \in Classes \cup {Dict}
  /\ i[n].fields = [f \in DOMAIN i[n].fields |-> i[n].fields[f]]
  /\ \A f \in DOMAIN i[n].fields : IsValue(i[n].fields[f], n + 1 .. N)
  /\ i[n].class # Dict =>
       /\ i[n].class \in Classes
       /\ DOMAIN i[n].fields = DOMAIN Fields[i[n].class]
       /\ \A f \in DOMAIN i[n].fields : IsField(Fields[i[n].class][f], i[n].fields[f], i)

\* What an IR says of each of its nodes.
LEMMA NodesOfIR ==
  ASSUME NEW i, IsIR(i), NEW N, N = Len(i)
  PROVE  /\ N \in Nat /\ DOMAIN i = 1 .. N /\ i = [n \in 1 .. N |-> i[n]]
         /\ \A n \in 1 .. N : IsNodeAt(i, n, N)
<1>1. N \in Nat /\ i = [n \in 1 .. N |-> i[n]] /\ DOMAIN i = 1 .. N
  BY DEF IsIR, IsSequence
<1>2. ASSUME NEW n \in 1 .. N
      PROVE  IsNodeAt(i, n, N)
  <2>1. IsNode(i, n)
    BY <1>1 DEF IsIR
  <2> QED
    BY <2>1, TablesAssumption DEF IsNode, IsNodeAt
<1> QED
  BY <1>1, <1>2

\* The other way round.
LEMMA NodesMakeIR ==
  ASSUME NEW i, NEW N \in Nat, i = [n \in 1 .. N |-> i[n]], IsTree(i),
         \A n \in 1 .. N : IsNodeAt(i, n, N)
  PROVE  IsIR(i) /\ Len(i) = N
<1>1. Len(i) = N /\ DOMAIN i = 1 .. N
  <2>1. \A k \in 1 .. N : i[k] \in {i[n] : n \in 1 .. N}
    OBVIOUS
  <2> QED
    BY <2>1, SequenceType
<1>2. ASSUME NEW n \in 1 .. N PROVE IsNode(i, n)
  <2>1. IsNodeAt(i, n, N)
    OBVIOUS
  <2> QED
    BY <1>1, <2>1 DEF IsNode, IsNodeAt
<1> QED
  BY <1>1, <1>2 DEF IsIR, IsSequence

\* What AsJson does to a value.
LEMMA ValueAsJson ==
  ASSUME NEW v, NEW nodes, IsValue(v, nodes)
  PROVE  /\ AsJson(v).form = IF v.form = "pairs" THEN "lists" ELSE v.form
         /\ AsJson(v).kids = v.kids /\ AsJson(v).data = v.data
         /\ IsValue(AsJson(v), nodes)
<1>1. PICK a, d, k : a = v.form /\ d = v.data /\ k = v.kids /\ v = [form |-> a, data |-> d, kids |-> k]
  BY DEF IsValue, Value
<1>2. CASE a = "pairs"
  <2>1. AsJson(v) = [form |-> "lists", data |-> d, kids |-> k]
    BY <1>1, <1>2 DEF AsJson
  <2>2. PICK w : w = AsJson(v)
    OBVIOUS
  <2>3. w.form = "lists" /\ w.data = d /\ w.kids = k /\ w = [form |-> w.form, data |-> w.data, kids |-> w.kids]
    BY <2>1, <2>2
  <2>4. IsValue(w, nodes)
    BY <1>1, <2>3 DEF IsValue, Value, Forms, Holding
  <2> QED
    BY <1>1, <1>2, <2>2, <2>3, <2>4
<1>3. CASE a # "pairs"
  BY <1>1, <1>3 DEF AsJson
<1> QED
  BY <1>2, <1>3

\* What reading does to one.
FieldRead(v) == IF v.form = "lists" THEN [v EXCEPT !.form = "pairs"] ELSE v

\* It undoes what AsJson does.
LEMMA ValueRead ==
  ASSUME NEW v, NEW nodes, IsValue(v, nodes)
  PROVE  /\ FieldRead(v).form = IF v.form = "lists" THEN "pairs" ELSE v.form
         /\ FieldRead(v).kids = v.kids
         /\ IsValue(FieldRead(v), nodes)
         /\ v.form # "pairs" => AsJson(FieldRead(v)) = v /\ AsJson(v) = v
<1>1. PICK a, d, k : a = v.form /\ d = v.data /\ k = v.kids /\ v = [form |-> a, data |-> d, kids |-> k]
  BY DEF IsValue, Value
<1>2. CASE a = "lists"
  <2>1. FieldRead(v) = [form |-> "pairs", data |-> d, kids |-> k]
    BY <1>1, <1>2 DEF FieldRead
  <2>2. AsJson(FieldRead(v)) = v
    BY <1>1, <1>2, <2>1 DEF AsJson
  <2>3. AsJson(v) = v
    BY <1>1, <1>2 DEF AsJson
  <2>4. IsValue(FieldRead(v), nodes)
    <3>1. PICK w : w = FieldRead(v)
      OBVIOUS
    <3>2. w.form = "pairs" /\ w.data = d /\ w.kids = k /\ w = [form |-> w.form, data |-> w.data, kids |-> w.kids]
      BY <2>1, <3>1
    <3>3. IsValue(w, nodes)
      BY <1>1, <3>2 DEF IsValue, Value, Forms, Holding
    <3> QED
      BY <3>1, <3>3
  <2> QED
    BY <1>1, <1>2, <2>1, <2>2, <2>3, <2>4
<1>3. CASE a # "lists"
  <2>1. FieldRead(v) = v
    BY <1>1, <1>3 DEF FieldRead
  <2> QED
    BY <1>1, <1>3, <2>1 DEF AsJson
<1> QED
  BY <1>2, <1>3

\* What a value holds are nodes.
LEMMA KidsAreNodes ==
  ASSUME NEW v, NEW nodes, IsValue(v, nodes)
  PROVE  ToSet(v.kids) \subseteq nodes /\ (v.kids = << >> => ToSet(v.kids) = {})
<1>1. v.kids \in Seq(nodes)
  BY DEF IsValue
<1>2. \A j \in DOMAIN v.kids : v.kids[j] \in nodes
  BY <1>1
<1> QED
  BY <1>2 DEF ToSet

\* Models without dicts, and what they are written to.
IsModels(i, N) == IsIR(i) /\ N = Len(i) /\ \A n \in 1 .. N : i[n].class # Dict

WrittenAt(doc, i, class, n, N) ==
  /\ doc[n] = [f \in DOMAIN i[n].fields |-> AsJson(i[n].fields[f])]
  /\ doc[n] = [f \in DOMAIN doc[n] |-> doc[n][f]]
  /\ DOMAIN doc[n] = DOMAIN i[n].fields
  /\ DOMAIN doc[n] = DOMAIN Fields[class[n]]
  /\ \A f \in DOMAIN doc[n] :
       /\ doc[n][f].kids = i[n].fields[f].kids
       /\ doc[n][f].form # "pairs"
       /\ IsValue(doc[n][f], n + 1 .. N)

\* An IR is written to a document in which each node has a class that accepts it.
LEMMA DumpIsDump ==
  ASSUME NEW i, NEW N, IsModels(i, N), NEW doc, doc = ModelDumpJson(i),
         NEW class, class = [n \in 1 .. N |-> i[n].class]
  PROVE  /\ IsDump(doc, class, N) /\ IsDocTree(doc, N)
         /\ \A n \in 1 .. N : WrittenAt(doc, i, class, n, N)
<1>1. /\ N \in Nat /\ DOMAIN i = 1 .. N
      /\ IsIR(i) /\ \A n \in 1 .. N : i[n].class # Dict
  BY NodesOfIR DEF IsModels
<1>2. doc = [n \in 1 .. N |-> [f \in DOMAIN i[n].fields |-> AsJson(i[n].fields[f])]]
  BY <1>1 DEF ModelDumpJson
<1>3. Len(doc) = N /\ DOMAIN doc = 1 .. N
  <2>1. doc = [n \in 1 .. N |-> doc[n]]
    BY <1>2
  <2>2. \A k \in 1 .. N : doc[k] \in {doc[n] : n \in 1 .. N}
    OBVIOUS
  <2> QED
    BY <1>1, <2>1, <2>2, SequenceType
<1>4. ASSUME NEW n \in 1 .. N
      PROVE  /\ doc[n] = [f \in DOMAIN i[n].fields |-> AsJson(i[n].fields[f])]
             /\ doc[n] = [f \in DOMAIN doc[n] |-> doc[n][f]]
             /\ DOMAIN doc[n] = DOMAIN i[n].fields
             /\ DOMAIN doc[n] = DOMAIN Fields[class[n]]
             /\ \A f \in DOMAIN doc[n] :
                  /\ doc[n][f].kids = i[n].fields[f].kids
                  /\ doc[n][f].form = IF i[n].fields[f].form = "pairs" THEN "lists"
                                      ELSE i[n].fields[f].form
                  /\ IsValue(doc[n][f], n + 1 .. N)
                  /\ IsField(Fields[class[n]][f], i[n].fields[f], i)
                  /\ ToSet(doc[n][f].kids) \subseteq n + 1 .. N
  <2>1. doc[n] = [f \in DOMAIN i[n].fields |-> AsJson(i[n].fields[f])]
    BY <1>2
  <2>2. /\ i[n].class \in Classes /\ class[n] = i[n].class
        /\ DOMAIN i[n].fields = DOMAIN Fields[class[n]]
        /\ \A f \in DOMAIN i[n].fields : /\ IsValue(i[n].fields[f], n + 1 .. N)
                                        /\ IsField(Fields[class[n]][f], i[n].fields[f], i)
    <3>1. class[n] = i[n].class /\ i[n].class # Dict
      BY <1>1
    <3>0. IsIR(i) /\ N = Len(i)
      BY DEF IsModels
    <3>4. IsNodeAt(i, n, N)
      BY <3>0, NodesOfIR
    <3>2. i[n].class \in Classes /\ DOMAIN i[n].fields = DOMAIN Fields[i[n].class]
      BY <3>1, <3>4 DEF IsNodeAt
    <3>3. ASSUME NEW f \in DOMAIN i[n].fields
          PROVE  /\ IsValue(i[n].fields[f], n + 1 .. N)
                 /\ IsField(Fields[i[n].class][f], i[n].fields[f], i)
      BY <3>1, <3>4 DEF IsNodeAt
    <3> QED
      BY <3>1, <3>2, <3>3
  <2>3. DOMAIN doc[n] = DOMAIN i[n].fields /\ doc[n] = [f \in DOMAIN doc[n] |-> doc[n][f]]
    BY <2>1
  <2>4. ASSUME NEW f \in DOMAIN doc[n]
        PROVE  /\ doc[n][f].kids = i[n].fields[f].kids
               /\ doc[n][f].form = IF i[n].fields[f].form = "pairs" THEN "lists"
                                   ELSE i[n].fields[f].form
               /\ IsValue(doc[n][f], n + 1 .. N)
               /\ IsField(Fields[class[n]][f], i[n].fields[f], i)
               /\ ToSet(doc[n][f].kids) \subseteq n + 1 .. N
    <3>1. doc[n][f] = AsJson(i[n].fields[f]) /\ IsValue(i[n].fields[f], n + 1 .. N)
          /\ IsField(Fields[class[n]][f], i[n].fields[f], i)
      BY <2>1, <2>2, <2>3
    <3>2. PICK v, w : v = i[n].fields[f] /\ w = doc[n][f]
      OBVIOUS
    <3>3. w = AsJson(v) /\ IsValue(v, n + 1 .. N)
      BY <3>1, <3>2
    <3>4. /\ w.form = IF v.form = "pairs" THEN "lists" ELSE v.form
          /\ w.kids = v.kids /\ IsValue(w, n + 1 .. N)
      BY <3>3, ValueAsJson
    <3>5. ToSet(w.kids) \subseteq n + 1 .. N
      BY <3>4, KidsAreNodes
    <3> QED
      BY <3>1, <3>2, <3>4, <3>5
  <2> QED
    BY <2>1, <2>2, <2>3, <2>4
<1>5. IsDoc(doc, N)
  <2>1. ASSUME NEW n \in 1 .. N PROVE KidsOf(doc[n]) \subseteq n + 1 .. N
    <3> SUFFICES ASSUME NEW f \in DOMAIN doc[n] PROVE ToSet(doc[n][f].kids) \subseteq n + 1 .. N
      BY DEF KidsOf
    <3> QED
      BY <1>4
  <2> QED
    BY <1>1, <1>3, <2>1 DEF IsDoc
<1>6. ASSUME NEW n \in 1 .. N PROVE IsDumpAt(doc, class, n)
  <2>1. class[n] \in Classes
    <3>1. IsNodeAt(i, n, N)
      BY NodesOfIR DEF IsModels
    <3> QED
      BY <1>1, <3>1 DEF IsNodeAt
  <2>2. ASSUME NEW f \in DOMAIN doc[n]
        PROVE  /\ doc[n][f].form \in Forms
               /\ doc[n][f].form \in JsonForms(Fields[class[n]][f])
               /\ IsFiniteSet(ToSet(doc[n][f].kids))
               /\ Fields[class[n]][f].shape = "atom" => ToSet(doc[n][f].kids) = {}
               /\ IsUnion(Fields[class[n]][f]) =>
                    \A k \in ToSet(doc[n][f].kids) : class[k] \in ToSet(Fields[class[n]][f].of)
    <3>1. PICK v, w, type : v = i[n].fields[f] /\ w = doc[n][f] /\ type = Fields[class[n]][f]
      OBVIOUS
    <3>2. /\ w.form = IF v.form = "pairs" THEN "lists" ELSE v.form
          /\ w.kids = v.kids
          /\ IsValue(w, n + 1 .. N) /\ IsField(type, v, i)
          /\ ToSet(w.kids) \subseteq n + 1 .. N
      BY <1>4, <3>1
    <3>3. w.form \in Forms
      BY <3>2 DEF IsValue
    <3>4. IsFiniteSet(ToSet(w.kids))
      <4>1. n + 1 \in Int /\ N \in Int
        BY <1>1
      <4>2. IsFiniteSet(n + 1 .. N)
        BY <4>1, FS_Interval
      <4> QED
        BY <3>2, <4>2, FS_Subset
    <3>5. f \in DOMAIN Fields[class[n]]
      BY <1>4
    <3>6. /\ type.shape \in {"any", "atom", "one", "optional", "many", "pairs"}
          /\ type.shape = "atom" => ("pairs" \in type.of <=> "lists" \in type.of)
      BY <2>1, <3>1, <3>5, ShapesOfFields
    <3>7. w.form \in JsonForms(type)
      <4>1. CASE type.shape = "any"
        BY <3>3, <4>1 DEF JsonForms
      <4>2. CASE type.shape = "atom"
        BY <3>2, <3>6, <4>2 DEF JsonForms, IsField
      <4>3. CASE type.shape = "pairs"
        BY <3>2, <4>3 DEF JsonForms, IsField, FormsOf
      <4>4. CASE type.shape \in {"one", "optional", "many"}
        BY <3>2, <4>4 DEF JsonForms, IsField, FormsOf
      <4> QED
        BY <3>6, <4>1, <4>2, <4>3, <4>4
    <3>8. type.shape = "atom" => ToSet(w.kids) = {}
      BY <3>2, KidsAreNodes DEF IsField
    <3>9. ASSUME IsUnion(type), NEW k \in ToSet(w.kids) PROVE class[k] \in ToSet(type.of)
      <4>1. i[k].class \in ToSet(type.of)
        BY <3>2, <3>9 DEF IsField, IsUnion
      <4>2. k \in 1 .. N
        BY <1>1, <3>2
      <4> QED
        BY <4>1, <4>2
    <3> QED
      BY <3>1, <3>3, <3>4, <3>7, <3>8, <3>9
  <2> QED
    BY <1>4, <2>1, <2>2 DEF IsDumpAt
<1>7. IsDump(doc, class, N)
  BY <1>5, <1>6 DEF IsDump
<1>8. IsDocTree(doc, N)
  <2>1. ASSUME NEW m, NEW g, NEW k
        PROVE  StandsIn(doc, m, g, k) <=>
                 m \in DOMAIN i /\ g \in DOMAIN i[m].fields /\ k \in ToSet(i[m].fields[g].kids)
    <3>1. DOMAIN doc = DOMAIN i
      BY <1>1, <1>3
    <3>2. ASSUME m \in 1 .. N
          PROVE  /\ DOMAIN doc[m] = DOMAIN i[m].fields
                 /\ g \in DOMAIN doc[m] => doc[m][g].kids = i[m].fields[g].kids
      BY <1>4, <3>2
    <3> QED
      BY <1>1, <3>1, <3>2 DEF StandsIn
  <2>2. ASSUME NEW k \in 1 .. N, k # 1
        PROVE  \E n, f : StandsIn(doc, n, f, k) /\ \A m, g : StandsIn(doc, m, g, k) => m = n /\ g = f
    <3>1. PICK n \in DOMAIN i : \E f \in DOMAIN i[n].fields :
            /\ k \in ToSet(i[n].fields[f].kids)
            /\ \A m \in DOMAIN i : \A g \in DOMAIN i[m].fields :
                 k \in ToSet(i[m].fields[g].kids) => m = n /\ g = f
      BY <1>1, <2>2 DEF IsIR, IsTree
    <3>2. PICK f \in DOMAIN i[n].fields :
            /\ k \in ToSet(i[n].fields[f].kids)
            /\ \A m \in DOMAIN i : \A g \in DOMAIN i[m].fields :
                 k \in ToSet(i[m].fields[g].kids) => m = n /\ g = f
      BY <3>1
    <3>3. StandsIn(doc, n, f, k)
      BY <2>1, <3>2
    <3>4. ASSUME NEW m, NEW g, StandsIn(doc, m, g, k) PROVE m = n /\ g = f
      BY <2>1, <3>2, <3>4
    <3> QED
      BY <3>3, <3>4
  <2> QED
    BY <1>5, <2>2 DEF IsDocTree
<1>9. ASSUME NEW n \in 1 .. N PROVE WrittenAt(doc, i, class, n, N)
  <2>1. ASSUME NEW f \in DOMAIN doc[n] PROVE doc[n][f].form # "pairs"
    <3>1. doc[n][f].form = IF i[n].fields[f].form = "pairs" THEN "lists" ELSE i[n].fields[f].form
      BY <1>4
    <3> QED
      BY <3>1
  <2>2. \A f \in DOMAIN doc[n] : doc[n][f].kids = i[n].fields[f].kids /\ IsValue(doc[n][f], n + 1 .. N)
    BY <1>4
  <2>3. /\ doc[n] = [f \in DOMAIN i[n].fields |-> AsJson(i[n].fields[f])]
        /\ doc[n] = [f \in DOMAIN doc[n] |-> doc[n][f]]
        /\ DOMAIN doc[n] = DOMAIN i[n].fields
        /\ DOMAIN doc[n] = DOMAIN Fields[class[n]]
    BY <1>4
  <2> QED
    BY <2>1, <2>2, <2>3 DEF WrittenAt
<1> QED
  BY <1>7, <1>8, <1>9

-----------------------------------------------------------------------------
(* What is read back.                                                      *)

\* What is read at node n.
ReadAt(j, doc, c, n) ==
  /\ j[n] = [class |-> c[n], fields |-> j[n].fields]
  /\ j[n].class = c[n]
  /\ j[n].fields = [f \in DOMAIN j[n].fields |-> j[n].fields[f]]
  /\ DOMAIN j[n].fields = DOMAIN doc[n]
  /\ \A f \in DOMAIN doc[n] :
       j[n].fields[f] = IF c[n] = Dict THEN doc[n][f] ELSE FieldRead(doc[n][f])

\* What was written and is read back is an IR, and is written as it was.
LEMMA ReadBack ==
  ASSUME NEW i, NEW N, IsModels(i, N), 1 \in 1 .. N, i[1].class = "QueryIR",
         NEW doc, doc = ModelDumpJson(i),
         NEW class, class = [n \in 1 .. N |-> i[n].class],
         NEW c, c = ClassesRead(doc, "QueryIR"),
         NEW j, j = ModelValidateJson(doc, "QueryIR")
  PROVE  /\ IsIR(j) /\ Len(j) = N
         /\ \A n \in 1 .. N : ReadAt(j, doc, c, n)
         /\ \A n, f, k : StandsIn(doc, n, f, k) => IsReadAs(c, class, n, f, k)
         /\ ModelDumpJson(j) = doc
<1>1. /\ IsDump(doc, class, N) /\ IsDocTree(doc, N) /\ IsDoc(doc, N)
      /\ \A n \in 1 .. N : WrittenAt(doc, i, class, n, N)
  BY DumpIsDump DEF IsDump
<1>2. /\ N \in Nat /\ DOMAIN doc = 1 .. N
      /\ doc = [n \in 1 .. N |-> doc[n]]
  <2>1. N \in Nat /\ DOMAIN doc = 1 .. N
    BY <1>1 DEF IsDoc
  <2> QED
    BY <2>1 DEF ModelDumpJson
<1>3. class[1] = "QueryIR"
  OBVIOUS
<1>4. PICK R : R = Readings(doc)
  OBVIOUS
<1>5. c = ClassesRead(doc, class[1])
  BY <1>3
<1>6. /\ \A k \in 1 .. N : FitsAt(c, class, R, k)
      /\ \A n, f, k : StandsIn(doc, n, f, k) => IsReadAs(c, class, n, f, k)
  BY <1>1, <1>4, <1>5, ClassesFit
<1>7. j = [n \in 1 .. N |-> [class |-> c[n], fields |-> FieldsRead(c[n], doc[n])]]
  BY <1>2 DEF ModelValidateJson
<1>8. ASSUME NEW n \in 1 .. N PROVE ReadAt(j, doc, c, n)
  <2>1. j[n] = [class |-> c[n], fields |-> FieldsRead(c[n], doc[n])]
    BY <1>7
  <2>2. PICK C, fields, read : C = c[n] /\ fields = doc[n] /\ read = FieldsRead(C, fields)
    OBVIOUS
  <2>3. j[n] = [class |-> C, fields |-> read] /\ j[n].class = C /\ j[n].fields = read
    BY <2>1, <2>2
  <2>4. fields = [f \in DOMAIN fields |-> fields[f]]
    BY <1>1, <2>2 DEF WrittenAt
  <2>5. CASE C = Dict
    <3>1. read = fields
      BY <2>2, <2>5 DEF FieldsRead
    <3> QED
      BY <2>2, <2>3, <2>4, <2>5, <3>1 DEF ReadAt
  <2>6. CASE C # Dict
    <3>1. DOMAIN Fields[C] = DOMAIN fields
      <4>1. Fits(C, class[n])
        BY <1>6, <2>2, <2>6 DEF FitsAt
      <4>2. DOMAIN fields = DOMAIN Fields[class[n]]
        BY <1>1, <2>2 DEF WrittenAt
      <4> QED
        BY <4>1, <4>2 DEF Fits
    <3>2. read = [f \in DOMAIN Fields[C] |->
                    IF f \notin DOMAIN fields THEN Fields[C][f].default
                    ELSE IF fields[f].form = "lists" THEN [fields[f] EXCEPT !.form = "pairs"]
                    ELSE fields[f]]
      BY <2>2, <2>6 DEF FieldsRead
    <3>3. DOMAIN read = DOMAIN fields /\ read = [f \in DOMAIN read |-> read[f]]
      BY <3>1, <3>2
    <3>4. \A f \in DOMAIN fields : read[f] = FieldRead(fields[f])
      BY <3>1, <3>2 DEF FieldRead
    <3> QED
      BY <2>2, <2>3, <2>6, <3>3, <3>4 DEF ReadAt
  <2> QED
    BY <2>5, <2>6
<1>9. ASSUME NEW n \in 1 .. N, NEW f \in DOMAIN doc[n]
      PROVE  /\ f \in DOMAIN j[n].fields
             /\ j[n].fields[f].kids = doc[n][f].kids
             /\ IsValue(j[n].fields[f], n + 1 .. N)
             /\ AsJson(j[n].fields[f]) = doc[n][f]
             /\ j[n].fields[f].form = IF c[n] # Dict /\ doc[n][f].form = "lists" THEN "pairs"
                                      ELSE doc[n][f].form
  <2>1. PICK v, w : v = doc[n][f] /\ w = j[n].fields[f]
    OBVIOUS
  <2>2. f \in DOMAIN j[n].fields /\ w = IF c[n] = Dict THEN v ELSE FieldRead(v)
    BY <1>8, <2>1 DEF ReadAt
  <2>3. IsValue(v, n + 1 .. N) /\ v.form # "pairs"
    BY <1>1, <2>1 DEF WrittenAt
  <2>4. /\ FieldRead(v).form = IF v.form = "lists" THEN "pairs" ELSE v.form
        /\ FieldRead(v).kids = v.kids
        /\ IsValue(FieldRead(v), n + 1 .. N)
        /\ AsJson(FieldRead(v)) = v /\ AsJson(v) = v
    BY <2>3, ValueRead
  <2>5. CASE c[n] = Dict
    BY <2>1, <2>2, <2>3, <2>4, <2>5
  <2>6. CASE c[n] # Dict
    BY <2>1, <2>2, <2>4, <2>6
  <2> QED
    BY <2>5, <2>6
<1>10. ModelDumpJson(j) = doc
  <2>1. DOMAIN j = 1 .. N
    BY <1>7
  <2>2. ASSUME NEW n \in 1 .. N
        PROVE  [f \in DOMAIN j[n].fields |-> AsJson(j[n].fields[f])] = doc[n]
    <3>1. PICK fields, read : fields = doc[n] /\ read = j[n].fields
      OBVIOUS
    <3>2. fields = [f \in DOMAIN fields |-> fields[f]] /\ DOMAIN read = DOMAIN fields
      BY <1>1, <1>8, <3>1 DEF WrittenAt, ReadAt
    <3>3. \A f \in DOMAIN fields : AsJson(read[f]) = fields[f]
      BY <1>9, <3>1
    <3> QED
      BY <3>1, <3>2, <3>3
  <2>3. ModelDumpJson(j) = [n \in 1 .. N |-> [f \in DOMAIN j[n].fields |-> AsJson(j[n].fields[f])]]
    BY <2>1 DEF ModelDumpJson
  <2> QED
    BY <1>2, <2>2, <2>3
<1>11. IsTree(j)
  <2>1. DOMAIN j = 1 .. N
    BY <1>7
  <2>2. ASSUME NEW m \in 1 .. N, NEW g, NEW k
        PROVE  g \in DOMAIN j[m].fields /\ k \in ToSet(j[m].fields[g].kids) <=> StandsIn(doc, m, g, k)
    <3>1. DOMAIN j[m].fields = DOMAIN doc[m]
      BY <1>8 DEF ReadAt
    <3>2. ASSUME g \in DOMAIN doc[m] PROVE j[m].fields[g].kids = doc[m][g].kids
      BY <1>9, <3>2
    <3> QED
      BY <1>2, <3>1, <3>2 DEF StandsIn
  <2>3. ASSUME NEW k \in 1 .. N, k # 1
        PROVE  \E n \in 1 .. N : \E f \in DOMAIN j[n].fields :
                 /\ k \in ToSet(j[n].fields[f].kids)
                 /\ \A m \in 1 .. N : \A g \in DOMAIN j[m].fields :
                      k \in ToSet(j[m].fields[g].kids) => m = n /\ g = f
    <3>1. PICK n, f : StandsIn(doc, n, f, k) /\ \A m, g : StandsIn(doc, m, g, k) => m = n /\ g = f
      BY <1>1, <2>3 DEF IsDocTree
    <3>2. n \in 1 .. N
      BY <1>1, <3>1, StandsBehind
    <3>3. f \in DOMAIN j[n].fields /\ k \in ToSet(j[n].fields[f].kids)
      BY <2>2, <3>1, <3>2
    <3>4. ASSUME NEW m \in 1 .. N, NEW g \in DOMAIN j[m].fields, k \in ToSet(j[m].fields[g].kids)
          PROVE  m = n /\ g = f
      <4>1. StandsIn(doc, m, g, k)
        BY <2>2, <3>4
      <4> QED
        BY <3>1, <4>1
    <3> QED
      BY <3>2, <3>3, <3>4
  <2>4. DOMAIN j \ {1} = {k \in 1 .. N : k # 1}
    BY <2>1
  <2>5. ASSUME NEW k \in DOMAIN j \ {1}
        PROVE  \E n \in DOMAIN j : \E f \in DOMAIN j[n].fields :
                 /\ k \in ToSet(j[n].fields[f].kids)
                 /\ \A m \in DOMAIN j : \A g \in DOMAIN j[m].fields :
                      k \in ToSet(j[m].fields[g].kids) => m = n /\ g = f
    <3>1. k \in 1 .. N /\ k # 1
      BY <2>4
    <3>2. PICK D : D = DOMAIN j
      OBVIOUS
    <3>3. D = 1 .. N
      BY <2>1, <3>2
    <3>4. \E n \in D : \E f \in DOMAIN j[n].fields :
            /\ k \in ToSet(j[n].fields[f].kids)
            /\ \A m \in D : \A g \in DOMAIN j[m].fields :
                 k \in ToSet(j[m].fields[g].kids) => m = n /\ g = f
      BY <2>3, <3>1, <3>3
    <3> QED
      BY <3>2, <3>4
  <2> QED
    BY <2>5 DEF IsTree
<1>12. ASSUME NEW n \in 1 .. N PROVE IsNodeAt(j, n, N)
  <2>1. ReadAt(j, doc, c, n)
    BY <1>8
  <2>2. PICK C, read : C = c[n] /\ read = j[n].fields
    OBVIOUS
  <2>3. \A f \in DOMAIN read : IsValue(read[f], n + 1 .. N)
    BY <1>9, <2>1, <2>2 DEF ReadAt
  <2>4. C = Dict \/ (C \in Classes /\ C \in DOMAIN R[n] /\ Fits(C, class[n]))
    BY <1>6, <2>2 DEF FitsAt
  <2>5. ASSUME C # Dict
        PROVE  /\ C \in Classes
               /\ DOMAIN read = DOMAIN Fields[C]
               /\ \A f \in DOMAIN read : IsField(Fields[C][f], read[f], j)
    <3>1. C \in Classes /\ C \in DOMAIN R[n] /\ Fits(C, class[n])
      BY <2>4, <2>5
    <3>2. /\ DOMAIN read = DOMAIN doc[n] /\ DOMAIN doc[n] = DOMAIN Fields[class[n]]
          /\ DOMAIN doc[n] = DOMAIN Fields[C] /\ class[n] \in Classes
      <4>1. DOMAIN read = DOMAIN doc[n]
        BY <2>1, <2>2 DEF ReadAt
      <4>2. DOMAIN doc[n] = DOMAIN Fields[class[n]] /\ class[n] \in Classes
        BY <1>1 DEF IsDump, IsDumpAt
      <4> QED
        BY <3>1, <4>1, <4>2 DEF Fits
    <3>3. Takes(C, doc[n], R)
      <4>1. R[n] = Reading(doc[n], R)
        BY <1>1, <1>4, ReadingsDef
      <4> QED
        BY <3>1, <4>1 DEF Reading
    <3>4. ASSUME NEW f \in DOMAIN read PROVE IsField(Fields[C][f], read[f], j)
      <4>1. f \in DOMAIN doc[n] /\ f \in DOMAIN Fields[C] /\ f \in DOMAIN Fields[class[n]]
        BY <3>2, <3>4
      <4>2. PICK v, w, t, d : v = doc[n][f] /\ w = read[f] /\ t = Fields[C][f] /\ d = Fields[class[n]][f]
        OBVIOUS
      <4>3. /\ w.kids = v.kids
            /\ w.form = IF v.form = "lists" THEN "pairs" ELSE v.form
            /\ IsValue(w, n + 1 .. N) /\ IsValue(v, n + 1 .. N)
            /\ v.form # "pairs"
        <5>1. /\ w.kids = v.kids /\ IsValue(w, n + 1 .. N)
              /\ w.form = IF v.form = "lists" THEN "pairs" ELSE v.form
          BY <1>9, <2>2, <2>5, <4>1, <4>2
        <5>2. IsValue(v, n + 1 .. N) /\ v.form # "pairs"
          BY <1>1, <4>1, <4>2 DEF WrittenAt
        <5> QED
          BY <5>1, <5>2
      <4>4. Accepts(t, v, R)
        BY <3>3, <4>1, <4>2 DEF Takes
      <4>5. /\ t.shape \in {"any", "atom", "one", "optional", "many", "pairs"}
            /\ t.shape = "atom" => ("pairs" \in t.of <=> "lists" \in t.of)
        BY <3>1, <4>1, <4>2, ShapesOfFields
      <4>6. w.form \in CASE t.shape = "any" -> Forms
                         [] t.shape = "atom" -> t.of
                         [] t.shape = "pairs" -> {"pairs", "empty"}
                         [] OTHER -> FormsOf(t.shape)
        <5>1. CASE t.shape = "any"
          BY <4>3, <5>1 DEF IsValue
        <5>2. CASE t.shape = "atom"
          BY <4>3, <4>4, <4>5, <5>2 DEF Accepts
        <5>3. CASE t.shape = "pairs"
          BY <4>3, <4>4, <5>3 DEF Accepts, FormsOf
        <5>4. CASE t.shape \in {"one", "optional", "many"}
          <6>1. v.form \in FormsOf(t.shape) /\ "lists" \notin FormsOf(t.shape)
            BY <4>4, <5>4 DEF Accepts, FormsOf
          <6> QED
            BY <4>3, <5>4, <6>1
        <5> QED
          BY <4>5, <5>1, <5>2, <5>3, <5>4
      <4>7. t.shape = "atom" => w.kids = << >>
        <5> SUFFICES ASSUME t.shape = "atom" PROVE w.kids = << >>
          OBVIOUS
        <5>1. d.shape = "atom"
          <6>1. d.shape # "any" /\ ~ IsUnion(d)
            BY <3>1, <3>2, <4>1, <4>2 DEF Fits, IsUnion
          <6> QED
            BY <6>1 DEF IsUnion
        <5>2. IsField(d, i[n].fields[f], i)
          <6>1. IsNodeAt(i, n, N) /\ i[n].class # Dict /\ i[n].class = class[n]
            BY NodesOfIR DEF IsModels
          <6>2. f \in DOMAIN i[n].fields
            BY <1>1, <4>1 DEF WrittenAt
          <6> QED
            BY <4>2, <6>1, <6>2 DEF IsNodeAt
        <5>3. i[n].fields[f].kids = << >>
          BY <5>1, <5>2 DEF IsField
        <5>4. v.kids = i[n].fields[f].kids
          BY <1>1, <4>1, <4>2 DEF WrittenAt
        <5> QED
          BY <4>3, <5>3, <5>4
      <4>8. ASSUME t.shape # "any", NEW k \in ToSet(w.kids) PROVE j[k].class \in ToSet(t.of)
        <5>1. StandsIn(doc, n, f, k)
          BY <1>2, <4>1, <4>2, <4>3, <4>8 DEF StandsIn
        <5>2. k \in 1 .. N /\ IsReadAs(c, class, n, f, k)
          BY <1>1, <1>6, <5>1, StandsBehind
        <5>3. c[k] # Dict
          <6>1. d.shape # "any"
            BY <3>1, <3>2, <4>1, <4>2, <4>8 DEF Fits
          <6> QED
            BY <2>2, <2>5, <4>2, <5>2, <6>1 DEF IsReadAs
        <5>4. j[k].class = c[k]
          BY <1>8, <5>2 DEF ReadAt
        <5> QED
          BY <2>2, <4>2, <5>2, <5>3, <5>4 DEF IsReadAs
      <4> QED
        BY <4>2, <4>6, <4>7, <4>8 DEF IsField
    <3> QED
      BY <3>1, <3>2, <3>4
  <2>6. /\ j[n] = [class |-> C, fields |-> read] /\ j[n].class = C
        /\ read = [f \in DOMAIN read |-> read[f]]
    BY <2>1, <2>2 DEF ReadAt
  <2> QED
    BY <2>2, <2>3, <2>4, <2>5, <2>6 DEF IsNodeAt
<1>13. IsIR(j) /\ Len(j) = N
  <2>1. j = [n \in 1 .. N |-> j[n]]
    BY <1>7
  <2> QED
    BY <1>2, <1>11, <1>12, <2>1, NodesMakeIR
<1> QED
  BY <1>6, <1>8, <1>10, <1>13

\* The round trip, for every IR of models: what is read back is an IR, and is written
\* as what it was read from (model_validate_json of model_dump_json).
THEOREM RoundTrip ==
  ASSUME NEW i, NEW N, IsModels(i, N), 1 \in 1 .. N, i[1].class = "QueryIR",
         NEW j, j = ModelValidateJson(ModelDumpJson(i), "QueryIR")
  PROVE  IsIR(j) /\ ModelDumpJson(j) = ModelDumpJson(i)
<1>1. PICK doc, class, c : /\ doc = ModelDumpJson(i) /\ class = [n \in 1 .. N |-> i[n].class]
                           /\ c = ClassesRead(doc, "QueryIR")
  OBVIOUS
<1> QED
  BY <1>1, ReadBack

-----------------------------------------------------------------------------
(* What the builder makes, and enrich().                                   *)

\* The tables of the classes enrich() touches.
LEMMA EnrichedClasses ==
  /\ "QueryIR" \in Classes /\ "Pipeline" \in Classes /\ "TabularSchema" \in Classes
  /\ Fields["QueryIR"] = OtherFields["QueryIR"]
  /\ Fields["Pipeline"] = OtherFields["Pipeline"]
  /\ Fields["TabularSchema"] = OtherFields["TabularSchema"]
<1>1. \A C \in {"QueryIR", "Pipeline", "TabularSchema"} : C \in DOMAIN OtherFields
  BY DEF OtherFields
<1>2. \A C \in {"QueryIR", "Pipeline", "TabularSchema"} : C \notin ExprClasses
  BY DEF ExprClasses, ExprFields
<1>3. \A C \in {"QueryIR", "Pipeline", "TabularSchema"} : C \notin OperatorClasses
  BY DEF OperatorClasses, OperatorFields
<1> QED
  BY <1>1, <1>2, <1>3 DEF Classes, Fields

\* And their fields.
LEMMA EnrichedFields ==
  /\ DOMAIN OtherFields["QueryIR"] = {"raw_text", "structural_hash", "let_bindings", "main_pipeline",
                                       "diagnostics", "schema_attached", "parse_warnings"}
  /\ OtherFields["QueryIR"]["main_pipeline"] = APipeline
  /\ OtherFields["QueryIR"]["schema_attached"] = FalseByDefault
  /\ DOMAIN OtherFields["Pipeline"] = {"source", "operators", "result_schema"}
  /\ OtherFields["Pipeline"]["source"] = One(Sources)
  /\ OtherFields["Pipeline"]["operators"] = Many(Operators)
  /\ OtherFields["Pipeline"]["result_schema"] = Optional(<<"TabularSchema">>)
  /\ DOMAIN OtherFields["TabularSchema"] = {"columns"}
  /\ OtherFields["TabularSchema"]["columns"] = OrElse(Map, NoMap)
BY DEF OtherFields

\* What the builder makes, spelt out: models, the first a QueryIR with its pipeline.
LEMMA BuiltIsModels ==
  ASSUME NEW i, IsBuilt(i), NEW N, N = Len(i), NEW main, main = MainPipeline(i)
  PROVE  /\ IsModels(i, N) /\ 1 \in 1 .. N /\ i[1].class = "QueryIR"
         /\ main \in 2 .. N /\ main \in 1 .. N /\ main # 1 /\ i[main].class = "Pipeline"
         /\ "main_pipeline" \in DOMAIN i[1].fields
         /\ ToSet(i[1].fields["main_pipeline"].kids) = {main}
         /\ i[1].fields["main_pipeline"].form = "one"
         /\ "result_schema" \in DOMAIN i[main].fields
         /\ i[main].fields["result_schema"] = Null
         /\ "schema_attached" \in DOMAIN i[1].fields
         /\ i[1].fields["schema_attached"].kids = << >>
<1>1. IsIR(i) /\ 1 \in DOMAIN i /\ i[1].class = "QueryIR"
  BY DEF IsBuilt
<1>2. N \in Nat /\ DOMAIN i = 1 .. N /\ \A n \in 1 .. N : IsNodeAt(i, n, N)
  BY <1>1, NodesOfIR
<1>3. \A n \in 1 .. N : i[n].class # Dict
  BY <1>2 DEF IsBuilt
<1>4. IsModels(i, N)
  BY <1>1, <1>3 DEF IsModels
<1>5. PICK fields : fields = i[1].fields
  OBVIOUS
<1>6. /\ DOMAIN fields = {"raw_text", "structural_hash", "let_bindings", "main_pipeline",
                           "diagnostics", "schema_attached", "parse_warnings"}
      /\ Fields["QueryIR"]["main_pipeline"] = APipeline
      /\ Fields["QueryIR"]["schema_attached"] = FalseByDefault
      /\ \A f \in DOMAIN fields : /\ IsField(Fields["QueryIR"][f], fields[f], i)
                                  /\ IsValue(fields[f], 2 .. N)
  <2>1. IsNodeAt(i, 1, N) /\ i[1].class # Dict /\ 1 + 1 = 2
    BY <1>1, <1>2, <1>3
  <2>2. /\ DOMAIN fields = DOMAIN Fields["QueryIR"]
        /\ \A f \in DOMAIN fields : /\ IsField(Fields["QueryIR"][f], fields[f], i)
                                    /\ IsValue(fields[f], 2 .. N)
    BY <1>1, <1>5, <2>1 DEF IsNodeAt
  <2> QED
    BY <2>2, EnrichedClasses, EnrichedFields
<1>7. PICK v : v = fields["main_pipeline"]
  OBVIOUS
<1>8. IsField(APipeline, v, i) /\ IsValue(v, 2 .. N)
  BY <1>6, <1>7
<1>9. APipeline.shape = "one" /\ APipeline.of = <<"Pipeline">>
  BY DEF APipeline, One, Type
<1>10. v.form = "one"
  BY <1>8, <1>9 DEF IsField, FormsOf
<1>11. v.kids \in Seq(2 .. N) /\ Len(v.kids) = 1
  BY <1>8, <1>10 DEF IsValue
<1>12. main = v.kids[1]
  BY <1>5, <1>7 DEF MainPipeline
<1>13. ToSet(v.kids) = {main} /\ main \in 2 .. N
  <2>1. DOMAIN v.kids = {1}
    BY <1>11
  <2> QED
    BY <1>11, <1>12, <2>1 DEF ToSet
<1>14. i[main].class = "Pipeline"
  <2>1. i[main].class \in ToSet(<<"Pipeline">>)
    BY <1>8, <1>9, <1>13 DEF IsField
  <2> QED
    BY <2>1 DEF ToSet
<1>15. main \in 1 .. N /\ main # 1
  BY <1>13
<1>16. i[main].fields["result_schema"] = Null
  BY <1>2, <1>14, <1>15 DEF IsBuilt
<1>17. "result_schema" \in DOMAIN i[main].fields
  <2>1. IsNodeAt(i, main, N) /\ i[main].class # Dict
    BY <1>2, <1>3, <1>15
  <2>2. DOMAIN i[main].fields = DOMAIN Fields["Pipeline"]
    BY <1>14, <2>1 DEF IsNodeAt
  <2> QED
    BY <2>2, EnrichedClasses, EnrichedFields
<1>18. fields["schema_attached"].kids = << >>
  <2>1. IsField(FalseByDefault, fields["schema_attached"], i)
    BY <1>6
  <2>2. FalseByDefault.shape = "atom"
    BY DEF FalseByDefault, OrElse, Atom, Type
  <2> QED
    BY <2>1, <2>2 DEF IsField
<1> QED
  BY <1>1, <1>2, <1>4, <1>5, <1>6, <1>7, <1>10, <1>13, <1>14, <1>15, <1>16, <1>17, <1>18

\* What attaching a schema leaves at each node.
TheSchema(columns) == [class |-> "TabularSchema", fields |-> [columns |-> columns]]
SchemaColumns == {NoMap, Value("map", "types", << >>)}
AttachedAt(e, i, p, N, n) ==
  /\ e[n] = [class |-> i[n].class, fields |-> e[n].fields]
  /\ e[n].class = i[n].class
  /\ e[n].fields = [f \in DOMAIN e[n].fields |-> e[n].fields[f]]
  /\ DOMAIN e[n].fields = DOMAIN i[n].fields
  /\ \A f \in DOMAIN i[n].fields :
       e[n].fields[f] = IF n = p /\ f = "result_schema" THEN Value("one", "", <<N + 1>>)
                        ELSE i[n].fields[f]

\* The columns hold no nodes.
LEMMA ColumnsHoldNothing ==
  ASSUME NEW columns \in SchemaColumns
  PROVE  columns.kids = << >> /\ columns.form # "lists"
<1>1. PICK kept : kept = Value("map", "types", << >>)
  OBVIOUS
<1>2. kept.kids = << >> /\ kept.form = "map"
  BY <1>1 DEF Value
<1>3. NoMap.kids = << >> /\ NoMap.form = "nomap"
  BY DEF NoMap, Value
<1>4. columns = NoMap \/ columns = kept
  BY <1>1 DEF SchemaColumns
<1> QED
  BY <1>2, <1>3, <1>4

\* WithSchema, one node at a time.
LEMMA WithSchemaDef ==
  ASSUME NEW i, NEW N, IsModels(i, N), NEW p \in 1 .. N, "result_schema" \in DOMAIN i[p].fields,
         NEW columns, NEW e, e = WithSchema(i, p, columns)
  PROVE  /\ e = [n \in 1 .. N + 1 |-> e[n]] /\ DOMAIN e = 1 .. N + 1 /\ Len(e) = N + 1
         /\ \A n \in 1 .. N : AttachedAt(e, i, p, N, n)
         /\ e[N + 1] = TheSchema(columns)
<1>2. N = Len(i) /\ N \in Nat /\ DOMAIN i = 1 .. N /\ i = [n \in 1 .. N |-> i[n]]
      /\ \A n \in 1 .. N : IsNodeAt(i, n, N)
  BY NodesOfIR DEF IsModels
<1> DEFINE schema == Value("one", "", <<N + 1>>)
           b == [i EXCEPT ![p].fields["result_schema"] = schema]
<1>3. e = Append(b, TheSchema(columns))
  BY <1>2 DEF WithSchema, TheSchema
<1>4. ASSUME NEW n \in 1 .. N PROVE AttachedAt(b, i, p, N, n)
  <2>1. IsNodeAt(i, n, N)
    BY <1>2
  <2>2. PICK C, fields : C = i[n].class /\ fields = i[n].fields
    OBVIOUS
  <2>3. i[n] = [class |-> C, fields |-> fields] /\ fields = [f \in DOMAIN fields |-> fields[f]]
    BY <2>1, <2>2 DEF IsNodeAt
  <2>4. b[n] = [class |-> C, fields |->
                 IF n = p THEN [fields EXCEPT !["result_schema"] = schema] ELSE fields]
    <3> HIDE DEF schema
    <3>1. b[n] = IF n = p
                 THEN [i[p] EXCEPT !.fields = [i[p].fields EXCEPT !["result_schema"] = schema]]
                 ELSE i[n]
      BY <1>2
    <3> HIDE DEF b
    <3>2. CASE n = p
      BY <2>2, <2>3, <3>1, <3>2
    <3>3. CASE n # p
      BY <2>3, <3>1, <3>3
    <3> QED
      BY <3>2, <3>3
  <2> HIDE DEF b, schema
  <2>5. PICK new : new = b[n].fields
    OBVIOUS
  <2>6. b[n] = [class |-> C, fields |-> new] /\ b[n].class = C
    BY <2>4, <2>5
  <2>7. new = IF n = p THEN [fields EXCEPT !["result_schema"] = schema] ELSE fields
    BY <2>4, <2>5
  <2>8. /\ DOMAIN new = DOMAIN fields /\ new = [f \in DOMAIN new |-> new[f]]
        /\ \A f \in DOMAIN fields : new[f] = IF n = p /\ f = "result_schema" THEN schema
                                             ELSE fields[f]
    <3>1. CASE n = p
      BY <2>2, <2>3, <2>7, <3>1
    <3>2. CASE n # p
      BY <2>3, <2>7, <3>2
    <3> QED
      BY <3>1, <3>2
  <2> QED
    BY <2>2, <2>5, <2>6, <2>8 DEF AttachedAt, schema
<1>5. b = [n \in 1 .. N |-> b[n]]
  BY <1>2
<1> HIDE DEF b
<1>6. PICK last, S : last = TheSchema(columns) /\ S = {b[n] : n \in 1 .. N} \cup {last}
  OBVIOUS
<1>7. b \in Seq(S) /\ Len(b) = N /\ last \in S
  <2>1. \A n \in 1 .. N : b[n] \in S
    BY <1>6
  <2>2. N \in Nat
    BY <1>2
  <2> QED
    BY <1>5, <1>6, <2>1, <2>2, SequenceType
<1>8. /\ e \in Seq(S) /\ Len(e) = N + 1 /\ e[N + 1] = last
      /\ \A n \in 1 .. N : e[n] = b[n]
  BY <1>3, <1>6, <1>7, AppendProperties
<1>9. e = [n \in 1 .. N + 1 |-> e[n]] /\ DOMAIN e = 1 .. N + 1
  BY <1>8
<1>10. ASSUME NEW n \in 1 .. N PROVE AttachedAt(e, i, p, N, n)
  <2>1. AttachedAt(b, i, p, N, n) /\ e[n] = b[n]
    BY <1>4, <1>8
  <2> QED
    BY <2>1 DEF AttachedAt
<1> QED
  BY <1>6, <1>8, <1>9, <1>10

\* Values enrich() fills in.
LEMMA SingleSet ==
  ASSUME NEW k
  PROVE  ToSet(<<k>>) = {k}
<1>1. DOMAIN <<k>> = {1}
  OBVIOUS
<1> QED
  BY <1>1 DEF ToSet

\* A node of its own is a value.
LEMMA OneValue ==
  ASSUME NEW nodes, NEW k \in nodes
  PROVE  IsValue(Value("one", "", <<k>>), nodes)
<1>1. PICK v : v = Value("one", "", <<k>>)
  OBVIOUS
<1>2. v = [form |-> "one", data |-> "", kids |-> <<k>>]
  BY <1>1 DEF Value
<1>3. /\ v.form = "one" /\ v.data = "" /\ v.kids = <<k>>
      /\ v = [form |-> v.form, data |-> v.data, kids |-> v.kids]
  BY <1>2
<1>4. <<k>> \in Seq(nodes) /\ Len(<<k>>) = 1
  OBVIOUS
<1>5. "one" \in Forms /\ "one" \in Holding /\ "one" \notin {"null", "empty", "nomap"}
  BY DEF Forms, Holding
<1>6. IsValue(v, nodes)
  BY <1>3, <1>4, <1>5 DEF IsValue, Value
<1> QED
  BY <1>1, <1>6

\* Data without nodes is a value.
LEMMA PlainValue ==
  ASSUME NEW nodes, NEW form \in {"bool", "map", "str"}, NEW data
  PROVE  IsValue(Value(form, data, << >>), nodes)
<1>1. PICK v : v = Value(form, data, << >>)
  OBVIOUS
<1>2. v = [form |-> form, data |-> data, kids |-> << >>]
  BY <1>1 DEF Value
<1>3. /\ v.form = form /\ v.data = data /\ v.kids = << >>
      /\ v = [form |-> v.form, data |-> v.data, kids |-> v.kids]
  BY <1>2
<1>4. << >> \in Seq(nodes)
  OBVIOUS
<1>5. form \in Forms /\ form # "one" /\ form \notin {"null", "empty", "nomap"}
  BY DEF Forms
<1>6. IsValue(v, nodes)
  BY <1>3, <1>4, <1>5 DEF IsValue, Value
<1> QED
  BY <1>1, <1>6

\* Node k stands in field f of node n of an IR.
HoldsIn(i, n, f, k) == n \in DOMAIN i /\ f \in DOMAIN i[n].fields /\ k \in ToSet(i[n].fields[f].kids)

\* Parents come before children.
LEMMA HoldsBehind ==
  ASSUME NEW i, IsIR(i), NEW N, N = Len(i), NEW n, NEW f, NEW k, HoldsIn(i, n, f, k)
  PROVE  n \in 1 .. N /\ k \in 1 .. N /\ k \in n + 1 .. N /\ n < k /\ k # 1
<1>1. N \in Nat /\ DOMAIN i = 1 .. N /\ n \in 1 .. N /\ IsNodeAt(i, n, N)
  BY NodesOfIR DEF HoldsIn
<1>2. PICK v : v = i[n].fields[f]
  OBVIOUS
<1>3. IsValue(v, n + 1 .. N) /\ k \in ToSet(v.kids)
  BY <1>1, <1>2 DEF HoldsIn, IsNodeAt
<1>4. k \in n + 1 .. N
  BY <1>3, KidsAreNodes
<1> QED
  BY <1>1, <1>4

\* What enrich() keeps of an IR: its nodes, their classes, and what holds nodes or tuples.
KeptAt(i, e, n) ==
  /\ e[n].class = i[n].class
  /\ DOMAIN e[n].fields = DOMAIN i[n].fields
  /\ \A f \in DOMAIN i[n].fields :
       i[n].fields[f].kids # << >> \/ i[n].fields[f].form = "pairs" =>
         e[n].fields[f] = i[n].fields[f]
Grown(i, e) == DOMAIN i \subseteq DOMAIN e /\ \A n \in DOMAIN i : KeptAt(i, e, n)

\* That adds one place, where the schema stands.
LEMMA HeldWithSchema ==
  ASSUME NEW i, NEW N, IsModels(i, N), NEW main \in 1 .. N, "result_schema" \in DOMAIN i[main].fields,
         i[main].fields["result_schema"] = Null,
         NEW columns \in SchemaColumns, NEW e, e = WithSchema(i, main, columns)
  PROVE  \A n, f, k : HoldsIn(e, n, f, k) <=>
           HoldsIn(i, n, f, k) \/ (n = main /\ f = "result_schema" /\ k = N + 1)
<1>1. /\ DOMAIN e = 1 .. N + 1 /\ e[N + 1] = TheSchema(columns)
      /\ \A n \in 1 .. N : AttachedAt(e, i, main, N, n)
  BY WithSchemaDef
<1>3. N \in Nat /\ DOMAIN i = 1 .. N
  BY NodesOfIR DEF IsModels
<1>4. ASSUME NEW n, NEW f, NEW k
      PROVE  HoldsIn(e, n, f, k) <=>
               HoldsIn(i, n, f, k) \/ (n = main /\ f = "result_schema" /\ k = N + 1)
  <2>1. CASE n \in 1 .. N
    <3>1. DOMAIN e[n].fields = DOMAIN i[n].fields
      BY <1>1, <2>1 DEF AttachedAt
    <3>2. CASE f \in DOMAIN i[n].fields
      <4>1. PICK v, w : v = i[n].fields[f] /\ w = e[n].fields[f]
        OBVIOUS
      <4>2. w = IF n = main /\ f = "result_schema" THEN Value("one", "", <<N + 1>>)
                ELSE v
        <5>1. AttachedAt(e, i, main, N, n)
          BY <1>1, <2>1
        <5> QED
          BY <3>2, <4>1, <5>1 DEF AttachedAt
      <4>3. HoldsIn(e, n, f, k) <=> k \in ToSet(w.kids)
        BY <1>1, <1>3, <2>1, <3>1, <3>2, <4>1 DEF HoldsIn
      <4>4. HoldsIn(i, n, f, k) <=> k \in ToSet(v.kids)
        BY <1>3, <2>1, <3>2, <4>1 DEF HoldsIn
      <4>6. CASE n = main /\ f = "result_schema"
        <5>0. w = Value("one", "", <<N + 1>>) /\ v = Null
          BY <4>1, <4>2, <4>6
        <5>1. w.kids = <<N + 1>> /\ v.kids = << >>
          BY <5>0 DEF Null, Value
        <5>2. ToSet(w.kids) = {N + 1} /\ ToSet(v.kids) = {}
          BY <5>1, SingleSet DEF ToSet
        <5> QED
          BY <4>3, <4>4, <4>6, <5>2
      <4>7. CASE ~ (n = main /\ f = "result_schema")
        <5>1. w = v
          BY <4>2, <4>7
        <5> QED
          BY <4>3, <4>4, <4>7, <5>1
      <4> QED
        BY <4>6, <4>7
    <3>3. CASE f \notin DOMAIN i[n].fields
      BY <1>1, <1>3, <2>1, <3>1, <3>3 DEF HoldsIn
    <3> QED
      BY <3>2, <3>3
  <2>2. CASE n = N + 1
    <3>1. /\ DOMAIN e[n].fields = {"columns"}
          /\ e[n].fields["columns"].kids = << >>
      BY <1>1, <2>2, ColumnsHoldNothing DEF TheSchema
    <3>2. ToSet(e[n].fields["columns"].kids) = {}
      BY <3>1 DEF ToSet
    <3>3. ~ HoldsIn(e, n, f, k)
      BY <3>1, <3>2 DEF HoldsIn
    <3>4. n \notin 1 .. N
      BY <1>3, <2>2
    <3> QED
      BY <1>3, <2>2, <3>3, <3>4 DEF HoldsIn
  <2>3. CASE n \notin 1 .. N /\ n # N + 1
    <3>1. n \notin 1 .. N + 1
      BY <1>3, <2>3
    <3> QED
      BY <1>1, <1>3, <2>3, <3>1 DEF HoldsIn
  <2> QED
    BY <2>1, <2>2, <2>3
<1> QED
  BY <1>4

\* IsTree in terms of places.
LEMMA TreeByHolders ==
  ASSUME NEW i
  PROVE  IsTree(i) <=> \A k \in DOMAIN i \ {1} :
           \E n, f : HoldsIn(i, n, f, k) /\ \A m, g : HoldsIn(i, m, g, k) => m = n /\ g = f
<1>1. ASSUME IsTree(i), NEW k \in DOMAIN i \ {1}
      PROVE  \E n, f : HoldsIn(i, n, f, k) /\ \A m, g : HoldsIn(i, m, g, k) => m = n /\ g = f
  <2>1. PICK n \in DOMAIN i : \E f \in DOMAIN i[n].fields :
          /\ k \in ToSet(i[n].fields[f].kids)
          /\ \A m \in DOMAIN i : \A g \in DOMAIN i[m].fields :
               k \in ToSet(i[m].fields[g].kids) => m = n /\ g = f
    BY <1>1 DEF IsTree
  <2> QED
    BY <2>1 DEF HoldsIn
<1>2. ASSUME \A k \in DOMAIN i \ {1} :
               \E n, f : HoldsIn(i, n, f, k) /\ \A m, g : HoldsIn(i, m, g, k) => m = n /\ g = f
      PROVE  IsTree(i)
  <2>1. ASSUME NEW k \in DOMAIN i \ {1}
        PROVE  \E n \in DOMAIN i : \E f \in DOMAIN i[n].fields :
                 /\ k \in ToSet(i[n].fields[f].kids)
                 /\ \A m \in DOMAIN i : \A g \in DOMAIN i[m].fields :
                      k \in ToSet(i[m].fields[g].kids) => m = n /\ g = f
    <3>1. PICK n, f : HoldsIn(i, n, f, k) /\ \A m, g : HoldsIn(i, m, g, k) => m = n /\ g = f
      BY <1>2
    <3> QED
      BY <3>1 DEF HoldsIn
  <2> QED
    BY <2>1 DEF IsTree
<1> QED
  BY <1>1, <1>2

\* Whether a value is one of its field's type depends on the classes of its nodes only.
LEMMA FieldOfClasses ==
  ASSUME NEW type, NEW v, NEW i, NEW j, IsField(type, v, i),
         \A k \in ToSet(v.kids) : j[k].class = i[k].class
  PROVE  IsField(type, v, j)
BY DEF IsField

\* An IR of models with a schema is one again.
LEMMA WithSchemaIsModels ==
  ASSUME NEW i, NEW N, IsModels(i, N), NEW main \in 1 .. N, i[main].class = "Pipeline",
         i[main].fields["result_schema"] = Null,
         NEW columns \in SchemaColumns, NEW e, e = WithSchema(i, main, columns)
  PROVE  IsModels(e, N + 1) /\ Grown(i, e)
<1>0. "result_schema" \in DOMAIN i[main].fields
  <2>1. IsNodeAt(i, main, N) /\ i[main].class # Dict
    BY NodesOfIR DEF IsModels
  <2> QED
    BY <2>1, EnrichedClasses, EnrichedFields DEF IsNodeAt
<1>1. /\ e = [n \in 1 .. N + 1 |-> e[n]] /\ DOMAIN e = 1 .. N + 1 /\ Len(e) = N + 1
      /\ \A n \in 1 .. N : AttachedAt(e, i, main, N, n)
      /\ e[N + 1] = TheSchema(columns)
  BY <1>0, WithSchemaDef
<1>3. N \in Nat /\ DOMAIN i = 1 .. N /\ IsIR(i) /\ \A n \in 1 .. N : IsNodeAt(i, n, N)
  BY NodesOfIR DEF IsModels
<1>4. \A n, f, k : HoldsIn(e, n, f, k) <=>
        HoldsIn(i, n, f, k) \/ (n = main /\ f = "result_schema" /\ k = N + 1)
  BY <1>0, HeldWithSchema
<1>5. \A n \in 1 .. N + 1 : n \in 1 .. N \/ n = N + 1
  BY <1>3
<1>6. \A n \in 1 .. N : n \in 1 .. N + 1 /\ n # N + 1 /\ n + 1 .. N \subseteq n + 1 .. N + 1
                        /\ N + 1 \in n + 1 .. N + 1
  BY <1>3
<1>7. IsTree(e)
  <2>1. ASSUME NEW k \in DOMAIN e \ {1}
        PROVE  \E n, f : HoldsIn(e, n, f, k) /\ \A m, g : HoldsIn(e, m, g, k) => m = n /\ g = f
    <3>1. CASE k \in 1 .. N
      <4>1. k \in DOMAIN i \ {1} /\ k # N + 1
        BY <1>3, <1>6, <3>1
      <4>2. PICK n, f : HoldsIn(i, n, f, k) /\ \A m, g : HoldsIn(i, m, g, k) => m = n /\ g = f
        BY <1>3, <4>1, TreeByHolders DEF IsIR
      <4> QED
        BY <1>4, <4>1, <4>2
    <3>2. CASE k = N + 1
      <4>1. \A m, g : ~ HoldsIn(i, m, g, k)
        <5> SUFFICES ASSUME NEW m, NEW g, HoldsIn(i, m, g, k) PROVE FALSE
          OBVIOUS
        <5>1. k \in 1 .. N
          BY <1>3, HoldsBehind
        <5> QED
          BY <1>6, <3>2, <5>1
      <4> QED
        BY <1>4, <3>2, <4>1
    <3> QED
      BY <1>1, <1>5, <3>1, <3>2
  <2> QED
    BY <2>1, TreeByHolders
<1>8. \A n \in 1 .. N : e[n].class = i[n].class
  BY <1>1 DEF AttachedAt
<1>9. e[N + 1].class = "TabularSchema"
  BY <1>1 DEF TheSchema
<1>10. ASSUME NEW n \in 1 .. N PROVE IsNodeAt(e, n, N + 1) /\ e[n].class # Dict
  <2>1. IsNodeAt(i, n, N) /\ AttachedAt(e, i, main, N, n)
    BY <1>1, <1>3
  <2>2. PICK C, fields, new : C = i[n].class /\ fields = i[n].fields /\ new = e[n].fields
    OBVIOUS
  <2>3. C # Dict /\ C \in Classes /\ e[n].class = C /\ DOMAIN fields = DOMAIN Fields[C] /\ DOMAIN new = DOMAIN fields
    BY <2>1, <2>2 DEF IsNodeAt, AttachedAt, IsModels
  <2>4. ASSUME NEW f \in DOMAIN fields
        PROVE  IsValue(new[f], n + 1 .. N + 1) /\ IsField(Fields[C][f], new[f], e)
    <3>1. PICK v, w : v = fields[f] /\ w = new[f]
      OBVIOUS
    <3>2. w = IF n = main /\ f = "result_schema" THEN Value("one", "", <<N + 1>>)
              ELSE v
      BY <2>1, <2>2, <2>4, <3>1 DEF AttachedAt
    <3>3. IsValue(v, n + 1 .. N) /\ IsField(Fields[C][f], v, i)
      BY <2>1, <2>2, <2>3, <2>4, <3>1 DEF IsNodeAt
    <3>5. CASE n = main /\ f = "result_schema"
      <4>1. /\ w.form = "one" /\ w.data = "" /\ w.kids = <<N + 1>>
            /\ w = [form |-> w.form, data |-> w.data, kids |-> w.kids]
        BY <3>2, <3>5 DEF Value
      <4>2. IsValue(w, n + 1 .. N + 1)
        <5>1. N + 1 \in n + 1 .. N + 1
          BY <1>6
        <5>2. w = Value("one", "", <<N + 1>>)
          BY <3>2, <3>5
        <5> QED
          BY <5>1, <5>2, OneValue
      <4>3. Fields[C][f] = Optional(<<"TabularSchema">>)
        BY <2>2, <3>5, EnrichedClasses, EnrichedFields
      <4>4. PICK type : type = Fields[C][f]
        OBVIOUS
      <4>5. type.shape = "optional" /\ type.of = <<"TabularSchema">>
        BY <4>3, <4>4 DEF Optional, Type
      <4>6. ToSet(w.kids) = {N + 1} /\ ToSet(type.of) = {"TabularSchema"}
        BY <4>1, <4>5, SingleSet
      <4>7. IsField(type, w, e)
        BY <1>9, <4>1, <4>5, <4>6 DEF IsField, FormsOf
      <4> QED
        BY <3>1, <4>2, <4>4, <4>7
    <3>6. CASE ~ (n = main /\ f = "result_schema")
      <4>1. w = v
        BY <3>2, <3>6
      <4>2. \A k \in ToSet(v.kids) : e[k].class = i[k].class
        <5>1. ToSet(v.kids) \subseteq n + 1 .. N
          BY <3>3, KidsAreNodes
        <5>2. n + 1 .. N \subseteq 1 .. N
          BY <1>3
        <5> QED
          BY <1>8, <5>1, <5>2
      <4>3. IsField(Fields[C][f], v, e)
        BY <3>3, <4>2, FieldOfClasses
      <4>4. IsValue(v, n + 1 .. N + 1)
        <5>1. v.kids \in Seq(n + 1 .. N + 1)
          <6>1. v.kids \in Seq(n + 1 .. N)
            BY <3>3 DEF IsValue
          <6>2. n + 1 .. N \subseteq n + 1 .. N + 1
            BY <1>6
          <6> QED
            BY <6>1, <6>2, SeqMonotonic
        <5> QED
          BY <3>3, <5>1 DEF IsValue
      <4> QED
        BY <3>1, <4>1, <4>3, <4>4
    <3> QED
      BY <3>5, <3>6
  <2>5. e[n] = [class |-> C, fields |-> new] /\ new = [f \in DOMAIN new |-> new[f]]
    BY <2>1, <2>2 DEF AttachedAt
  <2> QED
    BY <2>2, <2>3, <2>4, <2>5 DEF IsNodeAt
<1>11. IsNodeAt(e, N + 1, N + 1) /\ e[N + 1].class # Dict
  <2>1. PICK n : n = N + 1
    OBVIOUS
  <2>2. PICK fields, v : fields = e[n].fields /\ v = fields["columns"]
    OBVIOUS
  <2>3. /\ e[n] = [class |-> "TabularSchema", fields |-> fields] /\ e[n].class = "TabularSchema"
        /\ DOMAIN fields = {"columns"}
        /\ fields = [f \in DOMAIN fields |-> fields[f]]
        /\ v = columns
    BY <1>1, <2>1, <2>2 DEF TheSchema
  <2>4. v.form \in {"map", "nomap"} /\ v.kids = << >> /\ IsValue(v, n + 1 .. N + 1)
    <3>1. PICK nodes : nodes = n + 1 .. N + 1
      OBVIOUS
    <3>2. CASE v = Value("map", "types", << >>)
      BY <3>1, <3>2, PlainValue DEF Value
    <3>3. CASE v = NoMap
      <4>1. v = [form |-> "nomap", data |-> "", kids |-> << >>]
        BY <3>3 DEF NoMap, Value
      <4>2. v.form = "nomap" /\ v.data = "" /\ v.kids = << >> /\ v = Value(v.form, v.data, v.kids)
        BY <4>1 DEF Value
      <4>3. << >> \in Seq(nodes)
        OBVIOUS
      <4>4. IsValue(v, nodes)
        BY <4>2, <4>3 DEF IsValue, Forms, Holding
      <4> QED
        BY <3>1, <4>2, <4>4
    <3> QED
      BY <2>3, <3>2, <3>3 DEF SchemaColumns
  <2>6. PICK type : type = Fields["TabularSchema"]["columns"]
    OBVIOUS
  <2>7. type.shape = "atom" /\ type.of = {"map", "nomap"}
    <3>1. type = OrElse(Map, NoMap)
      BY <2>6, EnrichedClasses, EnrichedFields
    <3> QED
      BY <3>1 DEF OrElse, Map, Atom, Type
  <2>8. ToSet(v.kids) = {}
    BY <2>4 DEF ToSet
  <2>9. IsField(type, v, e)
    BY <2>4, <2>7, <2>8 DEF IsField
  <2>10. DOMAIN fields = DOMAIN Fields["TabularSchema"] /\ "TabularSchema" \in Classes
    BY <2>3, EnrichedClasses, EnrichedFields
  <2>11. "TabularSchema" # Dict
    BY DEF Dict
  <2> QED
    BY <2>1, <2>2, <2>3, <2>4, <2>6, <2>9, <2>10, <2>11 DEF IsNodeAt
<1>12. IsIR(e)
  <2>1. \A n \in 1 .. N + 1 : IsNodeAt(e, n, N + 1)
    BY <1>5, <1>10, <1>11
  <2>2. N + 1 \in Nat
    BY <1>3
  <2> QED
    BY <1>1, <1>7, <2>1, <2>2, NodesMakeIR
<1>13. Grown(i, e)
  <2>1. DOMAIN i \subseteq DOMAIN e
    BY <1>1, <1>3, <1>6
  <2>2. Null.kids = << >> /\ Null.form # "pairs"
    BY DEF Null, Value
  <2>3. ASSUME NEW n \in DOMAIN i PROVE KeptAt(i, e, n)
    <3>1. AttachedAt(e, i, main, N, n)
      BY <1>1, <1>3
    <3> QED
      BY <2>2, <3>1 DEF KeptAt, AttachedAt
  <2> QED
    BY <2>1, <2>3 DEF Grown
<1> QED
  BY <1>1, <1>5, <1>10, <1>11, <1>12, <1>13 DEF IsModels

\* What holds the same nodes is a tree as well.
LEMMA TreesAlike ==
  ASSUME NEW i, NEW e, IsTree(i), DOMAIN e = DOMAIN i,
         \A n, f, k : HoldsIn(e, n, f, k) <=> HoldsIn(i, n, f, k)
  PROVE  IsTree(e)
<1>1. ASSUME NEW k \in DOMAIN e \ {1}
      PROVE  \E n, f : HoldsIn(e, n, f, k) /\ \A m, g : HoldsIn(e, m, g, k) => m = n /\ g = f
  <2>1. PICK n, f : HoldsIn(i, n, f, k) /\ \A m, g : HoldsIn(i, m, g, k) => m = n /\ g = f
    BY <1>1, TreeByHolders
  <2>2. HoldsIn(e, n, f, k) /\ \A m, g : HoldsIn(e, m, g, k) => m = n /\ g = f
    BY <2>1
  <2> QED
    BY <2>2
<1> QED
  BY <1>1, TreeByHolders

\* Primitive data in place of some, as its field is declared.
ReplacedAt(e, i, n) ==
  /\ e[n] = [class |-> i[n].class, fields |-> e[n].fields]
  /\ e[n].class = i[n].class
  /\ e[n].fields = [f \in DOMAIN e[n].fields |-> e[n].fields[f]]
  /\ DOMAIN e[n].fields = DOMAIN i[n].fields
  /\ \A f \in DOMAIN i[n].fields :
       \/ e[n].fields[f] = i[n].fields[f]
       \/ \E form \in {"str", "bool"} : \E data :
            /\ e[n].fields[f] = Value(form, data, << >>)
            /\ Fields[i[n].class][f].shape = "atom"
            /\ form \in Fields[i[n].class][f].of /\ "pairs" \notin Fields[i[n].class][f].of

\* It leaves an IR of models one.
LEMMA ReplacedIsModels ==
  ASSUME NEW i, NEW N, IsModels(i, N), NEW e, e = [n \in 1 .. N |-> e[n]],
         \A n \in 1 .. N : ReplacedAt(e, i, n)
  PROVE  IsModels(e, N) /\ Grown(i, e)
<1>1. /\ N \in Nat /\ DOMAIN i = 1 .. N /\ IsIR(i) /\ N = Len(i) /\ DOMAIN e = 1 .. N
      /\ \A n \in 1 .. N : IsNodeAt(i, n, N) /\ i[n].class # Dict
  BY NodesOfIR DEF IsModels
<1>2. \A n \in 1 .. N : e[n].class = i[n].class
  BY DEF ReplacedAt
<1>3. ASSUME NEW n \in 1 .. N, NEW f \in DOMAIN i[n].fields
      PROVE  LET v == i[n].fields[f]
                 w == e[n].fields[f]
             IN /\ w = v \/ (v.kids = << >> /\ w.kids = << >> /\ v.form # "pairs")
                /\ IsValue(w, n + 1 .. N) /\ IsField(Fields[i[n].class][f], w, e)
  <2>1. PICK C, type, v, w, nodes : /\ C = i[n].class /\ type = Fields[C][f] /\ v = i[n].fields[f]
                                    /\ w = e[n].fields[f] /\ nodes = n + 1 .. N
    OBVIOUS
  <2>2. IsValue(v, nodes) /\ IsField(type, v, i)
    BY <1>1, <2>1 DEF IsNodeAt
  <2>3. \/ w = v
        \/ \E form \in {"str", "bool"} : \E data :
             w = Value(form, data, << >>) /\ type.shape = "atom" /\ form \in type.of /\ "pairs" \notin type.of
    <3>1. ReplacedAt(e, i, n)
      OBVIOUS
    <3> QED
      BY <2>1, <3>1 DEF ReplacedAt
  <2>4. CASE w = v
    <3>1. \A k \in ToSet(v.kids) : e[k].class = i[k].class
      <4>1. ToSet(v.kids) \subseteq n + 1 .. N
        BY <2>1, <2>2, KidsAreNodes
      <4>2. n + 1 .. N \subseteq 1 .. N
        BY <1>1
      <4> QED
        BY <1>2, <4>1, <4>2
    <3>2. IsField(type, v, e)
      BY <2>2, <3>1, FieldOfClasses
    <3> QED
      BY <2>1, <2>2, <2>4, <3>2
  <2>5. ASSUME NEW form \in {"str", "bool"}, NEW data, w = Value(form, data, << >>),
               type.shape = "atom", form \in type.of, "pairs" \notin type.of
        PROVE  v.kids = << >> /\ w.kids = << >> /\ v.form # "pairs" /\ IsValue(w, nodes) /\ IsField(type, w, e)
    <3>1. v.kids = << >> /\ v.form \in type.of
      BY <2>2, <2>5 DEF IsField
    <3>2. IsValue(w, nodes)
      BY <2>5, PlainValue
    <3>3. w.form = form /\ w.kids = << >>
      BY <2>5 DEF Value
    <3>4. ToSet(w.kids) = {}
      BY <3>3 DEF ToSet
    <3>5. IsField(type, w, e)
      BY <2>5, <3>3, <3>4 DEF IsField
    <3> QED
      BY <2>5, <3>1, <3>2, <3>3, <3>5
  <2> QED
    BY <2>1, <2>3, <2>4, <2>5
<1>4. ASSUME NEW n, NEW f, NEW k PROVE HoldsIn(e, n, f, k) <=> HoldsIn(i, n, f, k)
  <2>1. CASE n \in 1 .. N /\ f \in DOMAIN i[n].fields
    <3>1. PICK v, w : v = i[n].fields[f] /\ w = e[n].fields[f]
      OBVIOUS
    <3>2. w = v \/ (v.kids = << >> /\ w.kids = << >>)
      BY <1>3, <2>1, <3>1
    <3>3. ToSet(v.kids) = ToSet(w.kids)
      BY <3>2
    <3>4. DOMAIN e[n].fields = DOMAIN i[n].fields
      BY <2>1 DEF ReplacedAt
    <3> QED
      BY <1>1, <2>1, <3>1, <3>3, <3>4 DEF HoldsIn
  <2>2. CASE ~ (n \in 1 .. N /\ f \in DOMAIN i[n].fields)
    <3>1. n \in 1 .. N => DOMAIN e[n].fields = DOMAIN i[n].fields
      BY DEF ReplacedAt
    <3> QED
      BY <1>1, <2>2, <3>1 DEF HoldsIn
  <2> QED
    BY <2>1, <2>2
<1>5. IsTree(e)
  <2>1. IsTree(i) /\ DOMAIN e = DOMAIN i
    BY <1>1 DEF IsIR
  <2> QED
    BY <1>4, <2>1, TreesAlike
<1>6. ASSUME NEW n \in 1 .. N PROVE IsNodeAt(e, n, N)
  <2>1. IsNodeAt(i, n, N) /\ i[n].class # Dict /\ ReplacedAt(e, i, n)
    BY <1>1
  <2>2. PICK C, fields, new : C = i[n].class /\ fields = i[n].fields /\ new = e[n].fields
    OBVIOUS
  <2>3. /\ C # Dict /\ C \in Classes /\ DOMAIN fields = DOMAIN Fields[C] /\ DOMAIN new = DOMAIN fields
        /\ e[n].class = C /\ e[n] = [class |-> C, fields |-> new] /\ new = [f \in DOMAIN new |-> new[f]]
    BY <2>1, <2>2 DEF IsNodeAt, ReplacedAt
  <2>4. ASSUME NEW f \in DOMAIN fields PROVE IsValue(new[f], n + 1 .. N) /\ IsField(Fields[C][f], new[f], e)
    BY <1>3, <2>2
  <2> QED
    BY <2>2, <2>3, <2>4 DEF IsNodeAt
<1>7. IsIR(e) /\ Len(e) = N
  BY <1>1, <1>5, <1>6, NodesMakeIR
<1>8. Grown(i, e)
  <2>1. ASSUME NEW n \in DOMAIN i PROVE KeptAt(i, e, n)
    <3>1. ReplacedAt(e, i, n) /\ n \in 1 .. N
      BY <1>1
    <3>2. PICK fields, new : fields = i[n].fields /\ new = e[n].fields
      OBVIOUS
    <3>3. ASSUME NEW f \in DOMAIN fields, fields[f].kids # << >> \/ fields[f].form = "pairs"
          PROVE  new[f] = fields[f]
      BY <1>3, <3>1, <3>2, <3>3
    <3> QED
      BY <3>1, <3>2, <3>3 DEF KeptAt, ReplacedAt
  <2> QED
    BY <1>1, <2>1 DEF Grown
<1> QED
  BY <1>1, <1>2, <1>7, <1>8 DEF IsModels

\* And leaves no list for a tuple.
Fresh(i) == \A n \in DOMAIN i : \A f \in DOMAIN i[n].fields : i[n].fields[f].form # "lists"

LEMMA ReplacedIsFresh ==
  ASSUME NEW i, NEW N, IsModels(i, N), Fresh(i), NEW e, e = [n \in 1 .. N |-> e[n]],
         \A n \in 1 .. N : ReplacedAt(e, i, n)
  PROVE  Fresh(e)
<1>1. DOMAIN i = 1 .. N /\ DOMAIN e = 1 .. N
  BY NodesOfIR DEF IsModels
<1>2. ASSUME NEW n \in 1 .. N, NEW f \in DOMAIN e[n].fields PROVE e[n].fields[f].form # "lists"
  <2>1. ReplacedAt(e, i, n)
    OBVIOUS
  <2>2. f \in DOMAIN i[n].fields
    BY <2>1 DEF ReplacedAt
  <2>3. i[n].fields[f].form # "lists"
    BY <1>1, <2>2 DEF Fresh
  <2>4. PICK w : w = e[n].fields[f]
    OBVIOUS
  <2>5. w = i[n].fields[f] \/ \E form \in {"str", "bool"} : \E data : w = Value(form, data, << >>)
    BY <2>1, <2>2, <2>4 DEF ReplacedAt
  <2>6. ASSUME NEW form \in {"str", "bool"}, NEW data, w = Value(form, data, << >>)
        PROVE  w.form # "lists"
    BY <2>6 DEF Value
  <2> QED
    BY <2>3, <2>4, <2>5, <2>6
<1> QED
  BY <1>1, <1>2 DEF Fresh

\* The tables of the expressions enrich() fills in.
LEMMA FilledFields ==
  /\ \A C \in ExprClasses : /\ C \in Classes /\ "result_type" \in DOMAIN Fields[C]
                             /\ Fields[C]["result_type"].shape = "atom"
                             /\ Fields[C]["result_type"].of = {"str"}
  /\ "table" \in DOMAIN Fields["ColumnRef"]
  /\ Fields["ColumnRef"]["table"].shape = "atom"
  /\ Fields["ColumnRef"]["table"].of = {"str", "null"}
  /\ {"ColumnRef", "LiteralExpr", "BinOp", "SetMembership", "Between", "And", "Or", "Not"}
       \subseteq ExprClasses
<1>1. /\ DOMAIN ExprBase = {"result_type", "result_type_inner", "nullable", "canonical_form"}
      /\ ExprBase["result_type"] = OrElse(Str, Text("unknown"))
  BY DEF ExprBase
<1>2. ASSUME NEW C \in ExprClasses
      PROVE  /\ C \in Classes
             /\ Fields[C] = [f \in DOMAIN ExprFields[C] \cup DOMAIN ExprBase |->
                               IF f \in DOMAIN ExprBase THEN ExprBase[f] ELSE ExprFields[C][f]]
  <2>1. C \in ExprClasses /\ C \in Classes
    BY DEF Classes
  <2>2. C \notin OperatorClasses
    BY DEF ExprClasses, ExprFields, OperatorClasses, OperatorFields
  <2> QED
    BY <2>1, <2>2 DEF Fields
<1>3. OrElse(Str, Text("unknown")).shape = "atom" /\ OrElse(Str, Text("unknown")).of = {"str"}
  BY DEF OrElse, Str, Atom, Type
<1>4. ASSUME NEW C \in ExprClasses
      PROVE  /\ C \in Classes /\ "result_type" \in DOMAIN Fields[C]
             /\ Fields[C]["result_type"] = OrElse(Str, Text("unknown"))
  <2>1. PICK E : E = ExprFields[C]
    OBVIOUS
  <2>2. C \in Classes /\ Fields[C] = [f \in DOMAIN E \cup DOMAIN ExprBase |->
                                       IF f \in DOMAIN ExprBase THEN ExprBase[f] ELSE E[f]]
    BY <1>2, <2>1
  <2> QED
    BY <1>1, <2>2
<1>5. {"ColumnRef", "LiteralExpr", "BinOp", "SetMembership", "Between", "And", "Or", "Not"}
       \subseteq ExprClasses
  BY DEF ExprClasses, ExprFields
<1>6. "table" \in DOMAIN ExprFields["ColumnRef"] /\ ExprFields["ColumnRef"]["table"] = OptionalStr
  BY DEF ExprFields
<1>7. OptionalStr.shape = "atom" /\ OptionalStr.of = {"str", "null"}
  BY DEF OptionalStr, OrElse, Atom, Type
<1>8. "table" \in DOMAIN Fields["ColumnRef"] /\ Fields["ColumnRef"]["table"] = OptionalStr
  <2>1. PICK E : E = ExprFields["ColumnRef"]
    OBVIOUS
  <2>2. Fields["ColumnRef"] = [f \in DOMAIN E \cup DOMAIN ExprBase |->
                                 IF f \in DOMAIN ExprBase THEN ExprBase[f] ELSE E[f]]
    BY <1>2, <1>5, <2>1
  <2> QED
    BY <1>1, <1>6, <2>1, <2>2
<1> QED
  BY <1>3, <1>4, <1>5, <1>7, <1>8

\* What filling in does to the fields of an expression.
ReplacedIn(C, fields, new) ==
  /\ DOMAIN new = DOMAIN fields /\ new = [f \in DOMAIN new |-> new[f]]
  /\ \A f \in DOMAIN fields :
       \/ new[f] = fields[f]
       \/ \E form \in {"str", "bool"} : \E data :
            /\ new[f] = Value(form, data, << >>)
            /\ Fields[C][f].shape = "atom"
            /\ form \in Fields[C][f].of /\ "pairs" \notin Fields[C][f].of

LEMMA TypedReplaces ==
  ASSUME NEW C \in ExprClasses, NEW fields, fields = [f \in DOMAIN fields |-> fields[f]],
         DOMAIN fields = DOMAIN Fields[C], NEW s
  PROVE  ReplacedIn(C, fields, Typed(fields, Text(s)))
<1>1. PICK new, type : new = Typed(fields, type) /\ type = Text(s)
  OBVIOUS
<1>2. type = Value("str", s, << >>)
  BY <1>1 DEF Text
<1>3. new = fields \/ new = [fields EXCEPT !["result_type"] = type]
  BY <1>1 DEF Typed
<1>4. /\ "result_type" \in DOMAIN fields /\ Fields[C]["result_type"].shape = "atom"
      /\ Fields[C]["result_type"].of = {"str"}
  BY FilledFields
<1>5. /\ DOMAIN new = DOMAIN fields /\ new = [f \in DOMAIN new |-> new[f]]
      /\ \A f \in DOMAIN fields : new[f] = fields[f] \/ (f = "result_type" /\ new[f] = type)
  BY <1>3, <1>4
<1>6. ASSUME NEW f \in DOMAIN fields, f = "result_type", new[f] = type
      PROVE  \E form \in {"str", "bool"} : \E data :
               /\ new[f] = Value(form, data, << >>)
               /\ Fields[C][f].shape = "atom"
               /\ form \in Fields[C][f].of /\ "pairs" \notin Fields[C][f].of
  BY <1>2, <1>4, <1>6
<1> QED
  BY <1>1, <1>5, <1>6 DEF ReplacedIn

LEMMA ReplacedTwice ==
  ASSUME NEW C, NEW fields, NEW mid, NEW new, ReplacedIn(C, fields, mid), ReplacedIn(C, mid, new)
  PROVE  ReplacedIn(C, fields, new)
BY DEF ReplacedIn

LEMMA ColumnReplaces ==
  ASSUME NEW fields, fields = [f \in DOMAIN fields |-> fields[f]],
         DOMAIN fields = DOMAIN Fields["ColumnRef"], NEW owner \in Owners
  PROVE  ReplacedIn("ColumnRef", fields, FilledColumn(fields, owner))
<1>1. /\ "ColumnRef" \in ExprClasses /\ "table" \in DOMAIN fields
      /\ Fields["ColumnRef"]["table"].shape = "atom"
      /\ Fields["ColumnRef"]["table"].of = {"str", "null"}
  BY FilledFields
<1>2. PICK type : owner.type = Text(type)
  BY DEF Owners, Nobody, Unknown
<1>3. owner = Nobody \/ \E t : owner.table = Text(t)
  BY DEF Owners
<1>4. PICK mid : /\ mid = fields \/ (owner # Nobody /\ mid = [fields EXCEPT !["table"] = owner.table])
                 /\ FilledColumn(fields, owner) = Typed(mid, owner.type)
  BY DEF FilledColumn
<1>5. ReplacedIn("ColumnRef", fields, mid)
  <2>1. CASE mid = fields
    BY <2>1 DEF ReplacedIn
  <2>2. CASE owner # Nobody /\ mid = [fields EXCEPT !["table"] = owner.table]
    <3>1. PICK t : owner.table = Text(t)
      BY <1>3, <2>2
    <3>2. PICK table : table = owner.table /\ table = Value("str", t, << >>)
      BY <3>1 DEF Text
    <3>3. /\ DOMAIN mid = DOMAIN fields /\ mid = [f \in DOMAIN mid |-> mid[f]]
          /\ \A f \in DOMAIN fields : mid[f] = fields[f] \/ (f = "table" /\ mid[f] = table)
      BY <1>1, <2>2, <3>2
    <3>4. ASSUME NEW f \in DOMAIN fields, f = "table", mid[f] = table
          PROVE  \E form \in {"str", "bool"} : \E data :
                   /\ mid[f] = Value(form, data, << >>)
                   /\ Fields["ColumnRef"][f].shape = "atom"
                   /\ form \in Fields["ColumnRef"][f].of /\ "pairs" \notin Fields["ColumnRef"][f].of
      BY <1>1, <3>2, <3>4
    <3> QED
      BY <3>3, <3>4 DEF ReplacedIn
  <2> QED
    BY <1>4, <2>1, <2>2
<1>6. mid = [f \in DOMAIN mid |-> mid[f]] /\ DOMAIN mid = DOMAIN Fields["ColumnRef"]
  BY <1>5 DEF ReplacedIn
<1>7. ReplacedIn("ColumnRef", mid, Typed(mid, owner.type))
  BY <1>1, <1>2, <1>6, TypedReplaces
<1> QED
  BY <1>4, <1>5, <1>7, ReplacedTwice

LEMMA ExprReplaces ==
  ASSUME NEW C, NEW fields, fields = [f \in DOMAIN fields |-> fields[f]],
         DOMAIN fields = DOMAIN Fields[C]
  PROVE  ReplacedIn(C, fields, FilledExpr(C, fields))
<1>1. CASE C = "LiteralExpr" /\ fields["literal_kind"].data \in KustoTypes
  <2>1. PICK s : s = fields["literal_kind"].data
    OBVIOUS
  <2>2. FilledExpr(C, fields) = Typed(fields, Text(s))
    BY <1>1, <2>1 DEF FilledExpr
  <2> QED
    BY <1>1, <2>2, FilledFields, TypedReplaces
<1>2. CASE C \in {"BinOp", "SetMembership", "Between", "And", "Or", "Not"}
  <2>1. FilledExpr(C, fields) = Typed(fields, Text("bool"))
    BY <1>2 DEF FilledExpr
  <2> QED
    BY <1>2, <2>1, FilledFields, TypedReplaces
<1>3. CASE /\ ~ (C = "LiteralExpr" /\ fields["literal_kind"].data \in KustoTypes)
           /\ C \notin {"BinOp", "SetMembership", "Between", "And", "Or", "Not"}
  <2>1. FilledExpr(C, fields) = fields
    BY <1>3 DEF FilledExpr
  <2> QED
    BY <2>1 DEF ReplacedIn
<1> QED
  BY <1>1, <1>2, <1>3

\* Filling in replaces primitive data.
LEMMA FilledReplaces ==
  ASSUME NEW i, NEW N, IsModels(i, N), NEW p, NEW owner,
         \A n \in DOMAIN owner : i[n].class = "ColumnRef" /\ owner[n] \in Owners,
         NEW e, e = Filled(i, p, owner)
  PROVE  e = [n \in 1 .. N |-> e[n]] /\ \A n \in 1 .. N : ReplacedAt(e, i, n)
<1>1. DOMAIN i = 1 .. N /\ \A n \in 1 .. N : IsNodeAt(i, n, N) /\ i[n].class # Dict
  BY NodesOfIR DEF IsModels
<1>2. PICK inside : inside = FilledFrom(i, p)
  OBVIOUS
<1>3. e = [n \in 1 .. N |->
             [class |-> i[n].class,
              fields |-> IF n \in DOMAIN owner THEN FilledColumn(i[n].fields, owner[n])
                         ELSE IF n \in inside THEN FilledExpr(i[n].class, i[n].fields)
                         ELSE i[n].fields]]
  BY <1>1, <1>2 DEF Filled
<1>4. ASSUME NEW n \in 1 .. N PROVE ReplacedAt(e, i, n)
  <2>1. IsNodeAt(i, n, N) /\ i[n].class # Dict
    BY <1>1
  <2>2. PICK C, fields, new : C = i[n].class /\ fields = i[n].fields /\ new = e[n].fields
    OBVIOUS
  <2>3. fields = [f \in DOMAIN fields |-> fields[f]] /\ DOMAIN fields = DOMAIN Fields[C]
    BY <2>1, <2>2 DEF IsNodeAt
  <2>4. PICK made : made = IF n \in DOMAIN owner THEN FilledColumn(fields, owner[n])
                           ELSE IF n \in inside THEN FilledExpr(C, fields) ELSE fields
    OBVIOUS
  <2>5. e[n] = [class |-> C, fields |-> made]
    BY <1>3, <2>2, <2>4
  <2>6. e[n].class = C /\ new = made /\ e[n] = [class |-> C, fields |-> new]
    BY <2>2, <2>5
  <2>7. ReplacedIn(C, fields, made)
    <3>1. CASE n \in DOMAIN owner
      <4>1. C = "ColumnRef" /\ owner[n] \in Owners
        BY <2>2, <3>1
      <4>2. ReplacedIn("ColumnRef", fields, FilledColumn(fields, owner[n]))
        BY <2>3, <4>1, ColumnReplaces
      <4> QED
        BY <2>4, <3>1, <4>1, <4>2
    <3>2. CASE n \notin DOMAIN owner /\ n \in inside
      <4>1. ReplacedIn(C, fields, FilledExpr(C, fields))
        BY <2>3, ExprReplaces
      <4> QED
        BY <2>4, <3>2, <4>1
    <3>3. CASE n \notin DOMAIN owner /\ n \notin inside
      BY <2>3, <2>4, <3>3 DEF ReplacedIn
    <3> QED
      BY <3>1, <3>2, <3>3
  <2> QED
    BY <2>2, <2>6, <2>7 DEF ReplacedAt, ReplacedIn
<1>5. e = [n \in 1 .. N |-> e[n]]
  BY <1>3
<1> QED
  BY <1>4, <1>5

\* And so does the flag.
Flagged(i) == [i EXCEPT ![1].fields["schema_attached"] = Bool("true")]

LEMMA FlagReplaces ==
  ASSUME NEW i, NEW N, IsModels(i, N), 1 \in 1 .. N, i[1].class = "QueryIR",
         NEW e, e = Flagged(i)
  PROVE  e = [n \in 1 .. N |-> e[n]] /\ \A n \in 1 .. N : ReplacedAt(e, i, n)
<1>1. /\ DOMAIN i = 1 .. N /\ i = [n \in 1 .. N |-> i[n]]
      /\ \A n \in 1 .. N : IsNodeAt(i, n, N) /\ i[n].class # Dict
  BY NodesOfIR DEF IsModels
<1>2. PICK flag : flag = Bool("true")
  OBVIOUS
<1>3. flag = Value("bool", "true", << >>)
  BY <1>2 DEF Bool
<1>4. /\ "schema_attached" \in DOMAIN i[1].fields
      /\ Fields["QueryIR"]["schema_attached"].shape = "atom"
      /\ Fields["QueryIR"]["schema_attached"].of = {"bool"}
  <2>1. FalseByDefault.shape = "atom" /\ FalseByDefault.of = {"bool"}
    BY DEF FalseByDefault, OrElse, Atom, Type
  <2>2. IsNodeAt(i, 1, N) /\ i[1].class # Dict
    BY <1>1
  <2>3. DOMAIN i[1].fields = DOMAIN Fields["QueryIR"]
    BY <2>2 DEF IsNodeAt
  <2> QED
    BY <2>1, <2>3, EnrichedClasses, EnrichedFields
<1>5. e = [i EXCEPT ![1].fields["schema_attached"] = flag]
  BY <1>2 DEF Flagged
<1>6. ASSUME NEW n \in 1 .. N PROVE ReplacedAt(e, i, n)
  <2>1. IsNodeAt(i, n, N)
    BY <1>1
  <2>2. PICK C, fields, new : C = i[n].class /\ fields = i[n].fields /\ new = e[n].fields
    OBVIOUS
  <2>3. i[n] = [class |-> C, fields |-> fields] /\ fields = [f \in DOMAIN fields |-> fields[f]]
    BY <2>1, <2>2 DEF IsNodeAt
  <2>4. CASE n = 1
    <3>1. e[n] = [class |-> C, fields |-> [fields EXCEPT !["schema_attached"] = flag]]
      BY <1>1, <1>5, <2>2, <2>3, <2>4
    <3>2. e[n].class = C /\ new = [fields EXCEPT !["schema_attached"] = flag]
      BY <2>2, <3>1
    <3>3. /\ DOMAIN new = DOMAIN fields /\ new = [f \in DOMAIN new |-> new[f]]
          /\ \A f \in DOMAIN fields : new[f] = fields[f] \/ (f = "schema_attached" /\ new[f] = flag)
      BY <2>3, <3>2
    <3>4. ReplacedIn(C, fields, new)
      <4>1. ASSUME NEW f \in DOMAIN fields, f = "schema_attached", new[f] = flag
            PROVE  \E form \in {"str", "bool"} : \E data :
                     /\ new[f] = Value(form, data, << >>)
                     /\ Fields[C][f].shape = "atom"
                     /\ form \in Fields[C][f].of /\ "pairs" \notin Fields[C][f].of
        BY <1>3, <1>4, <2>2, <2>4, <4>1
      <4> QED
        BY <3>3, <4>1 DEF ReplacedIn
    <3>5. e[n] = [class |-> C, fields |-> new]
      BY <3>1, <3>2
    <3> QED
      BY <2>2, <3>2, <3>4, <3>5 DEF ReplacedAt, ReplacedIn
  <2>5. CASE n # 1
    <3>1. e[n] = i[n]
      BY <1>1, <1>5, <2>5
    <3> QED
      BY <2>2, <2>3, <3>1 DEF ReplacedAt
  <2> QED
    BY <2>4, <2>5
<1>7. e = [n \in 1 .. N |-> e[n]]
  BY <1>1, <1>5
<1> QED
  BY <1>6, <1>7

\* What verify_query has in its hands between building and writing.
IsEnriched(i, e) ==
  Grown(i, e) /\ Fresh(e) /\ \E N : IsModels(e, N) /\ 1 \in 1 .. N /\ e[1].class = "QueryIR"

LEMMA GrownTwice ==
  ASSUME NEW i, NEW j, NEW e, Grown(i, j), Grown(j, e)
  PROVE  Grown(i, e)
<1>1. ASSUME NEW n \in DOMAIN i PROVE KeptAt(i, e, n)
  <2>1. KeptAt(i, j, n) /\ KeptAt(j, e, n)
    BY DEF Grown
  <2> QED
    BY <2>1 DEF KeptAt
<1> QED
  BY <1>1 DEF Grown

\* What was built is.
LEMMA BuiltIsEnriched ==
  ASSUME NEW i, IsBuilt(i)
  PROVE  IsEnriched(i, i)
<1>1. PICK N : N = Len(i)
  OBVIOUS
<1>2. IsModels(i, N) /\ 1 \in 1 .. N /\ i[1].class = "QueryIR"
  BY <1>1, BuiltIsModels
<1>3. Grown(i, i)
  BY DEF Grown, KeptAt
<1>4. Fresh(i)
  BY DEF Fresh, IsBuilt
<1> QED
  BY <1>2, <1>3, <1>4 DEF IsEnriched

\* A pipeline that was walked.
LEMMA WalkedIsEnriched ==
  ASSUME NEW i, NEW j, IsEnriched(i, j), NEW p \in DOMAIN j, j[p].class = "Pipeline",
         ~HasSchema(j, p), NEW owner,
         \A n \in DOMAIN owner : j[n].class = "ColumnRef" /\ owner[n] \in Owners,
         NEW columns \in SchemaColumns, NEW e, e = WithSchema(Filled(j, p, owner), p, columns)
  PROVE  IsEnriched(i, e)
<1>1. PICK N : IsModels(j, N) /\ 1 \in 1 .. N /\ j[1].class = "QueryIR"
  BY DEF IsEnriched
<1>2. PICK k : k = Filled(j, p, owner)
  OBVIOUS
<1>3. k = [n \in 1 .. N |-> k[n]] /\ \A n \in 1 .. N : ReplacedAt(k, j, n)
  BY <1>1, <1>2, FilledReplaces
<1>4. IsModels(k, N) /\ Grown(j, k)
  BY <1>1, <1>3, ReplacedIsModels
<1>5. Fresh(k)
  BY <1>1, <1>3, ReplacedIsFresh DEF IsEnriched
<1>6. p \in 1 .. N /\ k[p].class = "Pipeline" /\ k[p].fields["result_schema"] = Null
  <2>1. p \in 1 .. N /\ IsNodeAt(j, p, N) /\ j[p].class # Dict
    BY <1>1, NodesOfIR DEF IsModels
  <2>2. /\ "result_schema" \in DOMAIN j[p].fields
        /\ Fields["Pipeline"]["result_schema"] = Optional(<<"TabularSchema">>)
    BY <2>1, EnrichedClasses, EnrichedFields DEF IsNodeAt
  <2>3. Optional(<<"TabularSchema">>).shape # "atom"
    BY DEF Optional, Type
  <2>4. ReplacedAt(k, j, p)
    BY <1>3, <2>1
  <2>5. k[p].class = "Pipeline"
    BY <2>4 DEF ReplacedAt
  <2>6. k[p].fields["result_schema"] = j[p].fields["result_schema"]
    BY <2>2, <2>3, <2>4 DEF ReplacedAt
  <2> QED
    BY <2>1, <2>5, <2>6 DEF HasSchema
<1>7. e = WithSchema(k, p, columns)
  BY <1>2
<1>8. IsModels(e, N + 1) /\ Grown(k, e)
  BY <1>4, <1>6, <1>7, WithSchemaIsModels
<1>9. Grown(i, e)
  <2>1. Grown(i, k)
    BY <1>4, GrownTwice DEF IsEnriched
  <2> QED
    BY <1>8, <2>1, GrownTwice
<1>10. 1 \in 1 .. N + 1 /\ e[1].class = "QueryIR"
  <2>1. N \in Nat /\ DOMAIN j = 1 .. N /\ DOMAIN k = 1 .. N
    BY <1>1, <1>4, NodesOfIR DEF IsModels
  <2>2. KeptAt(j, k, 1) /\ KeptAt(k, e, 1)
    BY <1>1, <1>4, <1>8, <2>1 DEF Grown
  <2> QED
    BY <1>1, <2>1, <2>2 DEF KeptAt
<1>11. Fresh(e)
  <2>1. /\ N \in Nat /\ DOMAIN k = 1 .. N /\ DOMAIN e = 1 .. N + 1
        /\ \A n \in 1 .. N : AttachedAt(e, k, p, N, n)
        /\ e[N + 1] = TheSchema(columns)
    <3>1. IsNodeAt(k, p, N) /\ k[p].class # Dict
      BY <1>4, <1>6, NodesOfIR DEF IsModels
    <3>2. "result_schema" \in DOMAIN k[p].fields
      BY <1>6, <3>1, EnrichedClasses, EnrichedFields DEF IsNodeAt
    <3> QED
      BY <1>4, <1>6, <1>7, <3>2, WithSchemaDef, NodesOfIR DEF IsModels
  <2>2. ASSUME NEW n \in 1 .. N, NEW f \in DOMAIN e[n].fields PROVE e[n].fields[f].form # "lists"
    <3>1. AttachedAt(e, k, p, N, n)
      BY <2>1
    <3>2. f \in DOMAIN k[n].fields
      BY <3>1 DEF AttachedAt
    <3>3. k[n].fields[f].form # "lists"
      BY <1>5, <2>1, <3>2 DEF Fresh
    <3>4. PICK w, attached : w = e[n].fields[f] /\ attached = Value("one", "", <<N + 1>>)
      OBVIOUS
    <3>5. w = k[n].fields[f] \/ w = attached
      BY <3>1, <3>2, <3>4 DEF AttachedAt
    <3>6. attached.form = "one"
      BY <3>4 DEF Value
    <3> QED
      BY <3>3, <3>4, <3>5, <3>6
  <2>3. ASSUME NEW f \in DOMAIN e[N + 1].fields PROVE e[N + 1].fields[f].form # "lists"
    <3>1. e[N + 1].fields[f] = columns
      BY <2>1 DEF TheSchema
    <3> QED
      BY <3>1, ColumnsHoldNothing
  <2>4. \A n \in 1 .. N + 1 : n \in 1 .. N \/ n = N + 1
    BY <2>1
  <2> QED
    BY <2>1, <2>2, <2>3, <2>4 DEF Fresh
<1> QED
  BY <1>8, <1>9, <1>10, <1>11 DEF IsEnriched

\* What was flagged.
LEMMA FlaggedIsEnriched ==
  ASSUME NEW i, NEW j, IsEnriched(i, j), NEW e, e = Flagged(j)
  PROVE  IsEnriched(i, e)
<1>1. PICK N : IsModels(j, N) /\ 1 \in 1 .. N /\ j[1].class = "QueryIR"
  BY DEF IsEnriched
<1>2. e = [n \in 1 .. N |-> e[n]] /\ \A n \in 1 .. N : ReplacedAt(e, j, n)
  BY <1>1, FlagReplaces
<1>3. IsModels(e, N) /\ Grown(j, e)
  BY <1>1, <1>2, ReplacedIsModels
<1>4. Fresh(e)
  BY <1>1, <1>2, ReplacedIsFresh DEF IsEnriched
<1>5. Grown(i, e)
  BY <1>3, GrownTwice DEF IsEnriched
<1>6. e[1].class = "QueryIR"
  BY <1>1, <1>2 DEF ReplacedAt
<1> QED
  BY <1>1, <1>3, <1>4, <1>5, <1>6 DEF IsEnriched

-----------------------------------------------------------------------------
(* Traversal.                                                              *)

\* A set that has the start, and what a step leads to, has all that is reached.
LEMMA ReachInduction ==
  ASSUME NEW i, NEW N \in Nat, N = Len(i), NEW from \in 1 .. N, NEW inside, Onward(N, inside),
         NEW T, from \in T, \A n \in T \cap (1 .. N) : inside[n] \subseteq T
  PROVE  Reach(i, from, inside) \subseteq T
<1>1. PICK D : D = Reach(i, from, inside)
  OBVIOUS
<1>2. /\ D \subseteq 1 .. N
      /\ \A x : x \in D <=> x = from \/ \E n \in D : x \in inside[n]
  BY <1>1, Reached
<1> DEFINE rank == [x \in D |-> x]
<1>3. rank \in [D -> Nat]
  BY <1>2
<1>4. ASSUME NEW x \in D, \A y \in D : rank[y] < rank[x] => y \in T PROVE x \in T
  <2>1. CASE x = from
    BY <2>1
  <2>2. CASE x # from
    <3>1. PICK n \in D : x \in inside[n]
      BY <1>2, <2>2
    <3>2. n \in 1 .. N /\ x \in n + 1 .. N
      BY <1>2, <3>1 DEF Onward
    <3>3. n \in T
      BY <1>4, <3>2
    <3> QED
      BY <3>1, <3>2, <3>3
  <2> QED
    BY <2>1, <2>2
<1> HIDE DEF rank
<1>5. D \subseteq T
  BY <1>3, <1>4, InductionByRank
<1> QED
  BY <1>1, <1>5

\* What a node holds comes behind it.
LEMMA HeldIsOnward ==
  ASSUME NEW i, IsIR(i), NEW N, N = Len(i), NEW n \in 1 .. N
  PROVE  /\ Kids(i, n) \subseteq n + 1 .. N
         /\ \A forms : Held(i, n, forms) \subseteq n + 1 .. N
         /\ \A x : x \in Kids(i, n) <=> \E f : HoldsIn(i, n, f, x)
         /\ \A forms : \A x : x \in Held(i, n, forms) <=>
              \E f : HoldsIn(i, n, f, x) /\ i[n].fields[f].form \in forms
<1>1. n \in DOMAIN i
  BY NodesOfIR
<1>2. \A x : x \in Kids(i, n) <=> \E f : HoldsIn(i, n, f, x)
  BY <1>1 DEF Kids, KidsOf, HoldsIn
<1>3. \A forms : \A x : x \in Held(i, n, forms) <=>
        \E f : HoldsIn(i, n, f, x) /\ i[n].fields[f].form \in forms
  BY <1>1 DEF Held, HoldsIn
<1>4. \A f, x : HoldsIn(i, n, f, x) => x \in n + 1 .. N
  BY HoldsBehind
<1> QED
  BY <1>2, <1>3, <1>4

\* A node stands in one place,
LEMMA HolderIsUnique ==
  ASSUME NEW i, IsIR(i), NEW n, NEW f, NEW x, HoldsIn(i, n, f, x)
  PROVE  \A m, g : HoldsIn(i, m, g, x) => m = n /\ g = f
<1>1. PICK N : N = Len(i)
  OBVIOUS
<1>2. x \in DOMAIN i \ {1}
  <2>1. x \in 1 .. N /\ x # 1
    BY <1>1, HoldsBehind
  <2> QED
    BY <1>1, <2>1, NodesOfIR
<1>3. PICK p, h : \A m, g : HoldsIn(i, m, g, x) => m = p /\ g = h
  BY <1>2, TreeByHolders DEF IsIR
<1> QED
  BY <1>3

\* and each but the first in some place,
LEMMA HolderExists ==
  ASSUME NEW i, IsIR(i), NEW N, N = Len(i), NEW x \in 1 .. N, x # 1
  PROVE  \E n, f : HoldsIn(i, n, f, x)
<1>1. x \in DOMAIN i \ {1}
  BY NodesOfIR
<1> QED
  BY <1>1, TreeByHolders DEF IsIR

\* A value that holds a node is of a form that does.
LEMMA HoldersForm ==
  ASSUME NEW i, IsIR(i), NEW n, NEW f, NEW x, HoldsIn(i, n, f, x)
  PROVE  i[n].fields[f].form \in {"one", "list", "pairs", "lists"}
<1>1. PICK N : N = Len(i)
  OBVIOUS
<1>2. n \in 1 .. N
  BY <1>1, HoldsBehind
<1>3. PICK v : v = i[n].fields[f]
  OBVIOUS
<1>4. IsValue(v, n + 1 .. N) /\ x \in ToSet(v.kids)
  <2>1. IsNodeAt(i, n, N)
    BY <1>1, <1>2, NodesOfIR
  <2> QED
    BY <1>3, <2>1 DEF IsNodeAt, HoldsIn
<1>5. v.kids # << >>
  BY <1>4, KidsAreNodes
<1> QED
  BY <1>3, <1>4, <1>5 DEF IsValue, Holding

\* What walk() reaches, step by step.
LEMMA WalkStep ==
  ASSUME NEW i, IsIR(i), NEW N, N = Len(i), NEW from \in 1 .. N
  PROVE  /\ Walk(i, from) \subseteq 1 .. N /\ from \in Walk(i, from)
         /\ \A n, f, x : HoldsIn(i, n, f, x) =>
              (x \in Walk(i, from) <=>
                 x = from \/ (/\ n \in Walk(i, from)
                              /\ i[n].fields[f].form \in {"one", "list"} /\ i[x].class # Dict))
<1>1. N \in Nat /\ DOMAIN i = 1 .. N
  BY NodesOfIR
<1>2. PICK inside : inside = [n \in 1 .. N |-> Models(i, Held(i, n, {"one", "list"}))]
  OBVIOUS
<1>3. Walk(i, from) = Reach(i, from, inside)
  BY <1>1, <1>2 DEF Walk
<1>4. ASSUME NEW n \in 1 .. N, NEW x
      PROVE  x \in inside[n] <=>
               (\E f : HoldsIn(i, n, f, x) /\ i[n].fields[f].form \in {"one", "list"})
               /\ i[x].class # Dict
  BY <1>2, HeldIsOnward DEF Models
<1>5. Onward(N, inside)
  <2>1. ASSUME NEW n \in 1 .. N PROVE inside[n] \subseteq n + 1 .. N
    BY <1>2, HeldIsOnward DEF Models
  <2> QED
    BY <2>1 DEF Onward
<1>6. PICK W : W = Walk(i, from)
  OBVIOUS
<1>7. /\ W \subseteq 1 .. N
      /\ \A x : x \in W <=> x = from \/ \E n \in W : x \in inside[n]
  BY <1>1, <1>3, <1>5, <1>6, Reached
<1>8. ASSUME NEW n, NEW f, NEW x, HoldsIn(i, n, f, x)
      PROVE  x \in W <=> x = from \/ (/\ n \in W
                                      /\ i[n].fields[f].form \in {"one", "list"} /\ i[x].class # Dict)
  <2>1. \A m, g : HoldsIn(i, m, g, x) => m = n /\ g = f
    BY <1>8, HolderIsUnique
  <2>2. ASSUME NEW m \in 1 .. N, x \in inside[m]
        PROVE  m = n /\ i[n].fields[f].form \in {"one", "list"} /\ i[x].class # Dict
    BY <1>4, <2>1, <2>2
  <2>3. ASSUME n \in W, i[n].fields[f].form \in {"one", "list"}, i[x].class # Dict
        PROVE  x \in inside[n]
    BY <1>4, <1>7, <1>8, <2>3
  <2> QED
    BY <1>7, <2>2, <2>3
<1> QED
  BY <1>6, <1>7, <1>8

\* It goes by places.
LEMMA WalkHeld ==
  ASSUME NEW i, IsIR(i), NEW N, N = Len(i), NEW from \in 1 .. N, NEW x \in Walk(i, from), x # from
  PROVE  \E n, f : HoldsIn(i, n, f, x)
<1>1. x \in 1 .. N
  BY WalkStep
<1>2. CASE x # 1
  BY <1>1, <1>2, HolderExists
<1>3. CASE x = 1
  <2>1. N \in Nat /\ DOMAIN i = 1 .. N
    BY NodesOfIR
  <2>2. PICK inside : inside = [n \in 1 .. N |-> Models(i, Held(i, n, {"one", "list"}))]
    OBVIOUS
  <2>3. Walk(i, from) = Reach(i, from, inside)
    BY <2>1, <2>2 DEF Walk
  <2>4. ASSUME NEW n \in 1 .. N PROVE inside[n] \subseteq n + 1 .. N
    BY <2>2, HeldIsOnward DEF Models
  <2>5. Onward(N, inside)
    BY <2>4 DEF Onward
  <2>6. PICK n \in Walk(i, from) : n \in 1 .. N /\ x \in inside[n]
    <3>1. PICK W : W = Walk(i, from)
      OBVIOUS
    <3>2. /\ W \subseteq 1 .. N
          /\ \A y : y \in W <=> y = from \/ \E n \in W : y \in inside[n]
      BY <2>1, <2>3, <2>5, <3>1, Reached
    <3> QED
      BY <3>1, <3>2
  <2> QED
    BY <1>3, <2>1, <2>4, <2>6
<1> QED
  BY <1>2, <1>3

\* What is under some nodes, step by step.
LEMMA UnderStep ==
  ASSUME NEW i, IsIR(i), NEW N, N = Len(i), NEW tops, tops \subseteq 1 .. N
  PROVE  /\ Under(i, tops) \subseteq 1 .. N /\ tops \subseteq Under(i, tops)
         /\ \A x \in Under(i, tops) : x \in tops \/ \E n, f : HoldsIn(i, n, f, x)
         /\ \A n, f, x : HoldsIn(i, n, f, x) =>
              (x \in Under(i, tops) <=> x \in tops \/ n \in Under(i, tops))
<1>1. N \in Nat /\ DOMAIN i = 1 .. N
  BY NodesOfIR
<1>2. PICK inside : inside = [n \in 1 .. N |-> Kids(i, n)]
  OBVIOUS
<1>3. PICK U : U = Under(i, tops)
  OBVIOUS
<1>4. U = UNION {Reach(i, t, inside) : t \in tops}
  BY <1>1, <1>2, <1>3 DEF Under
<1>5. ASSUME NEW n \in 1 .. N, NEW x PROVE x \in inside[n] <=> \E f : HoldsIn(i, n, f, x)
  BY <1>2, HeldIsOnward
<1>6. Onward(N, inside)
  <2>1. ASSUME NEW n \in 1 .. N PROVE inside[n] \subseteq n + 1 .. N
    BY <1>2, HeldIsOnward
  <2> QED
    BY <2>1 DEF Onward
<1>7. ASSUME NEW t \in tops
      PROVE  /\ Reach(i, t, inside) \subseteq 1 .. N
             /\ \A x : x \in Reach(i, t, inside) <=> x = t \/ \E n \in Reach(i, t, inside) : x \in inside[n]
  <2>1. t \in 1 .. N
    OBVIOUS
  <2> QED
    BY <1>1, <1>6, <2>1, Reached
<1>8. U \subseteq 1 .. N /\ tops \subseteq U
  BY <1>4, <1>7
<1>9. ASSUME NEW x PROVE x \in U <=> x \in tops \/ \E n \in U : x \in inside[n]
  <2>1. ASSUME x \in U PROVE x \in tops \/ \E n \in U : x \in inside[n]
    BY <1>4, <1>7, <2>1
  <2>2. ASSUME NEW n \in U, x \in inside[n] PROVE x \in U
    BY <1>4, <1>7, <2>2
  <2> QED
    BY <1>8, <2>1, <2>2
<1>10. ASSUME NEW x \in U PROVE x \in tops \/ \E n, f : HoldsIn(i, n, f, x)
  BY <1>5, <1>8, <1>9
<1>11. ASSUME NEW n, NEW f, NEW x, HoldsIn(i, n, f, x)
       PROVE  x \in U <=> x \in tops \/ n \in U
  <2>1. \A m, g : HoldsIn(i, m, g, x) => m = n /\ g = f
    BY <1>11, HolderIsUnique
  <2> QED
    BY <1>5, <1>8, <1>9, <1>11, <2>1
<1> QED
  BY <1>3, <1>8, <1>10, <1>11

\* The nodes in branches of a case(), from parent to child.
LEMMA InPairsStep ==
  ASSUME NEW i, IsIR(i), NEW N, N = Len(i)
  PROVE  /\ 1 \notin InPairs(i)
         /\ \A n, f, x : HoldsIn(i, n, f, x) =>
              (x \in InPairs(i) <=> n \in InPairs(i) \/ i[n].fields[f].form \in {"pairs", "lists"})
<1>1. N \in Nat /\ DOMAIN i = 1 .. N
  BY NodesOfIR
<1>2. PICK tops : tops = UNION {Held(i, n, {"pairs", "lists"}) : n \in DOMAIN i}
  OBVIOUS
<1>3. PICK U : U = InPairs(i)
  OBVIOUS
<1>4. U = Under(i, tops)
  BY <1>2, <1>3 DEF InPairs
<1>5. ASSUME NEW x PROVE x \in tops <=> \E n, f : HoldsIn(i, n, f, x) /\ i[n].fields[f].form \in {"pairs", "lists"}
  <2>1. x \in tops <=> \E n \in 1 .. N : x \in Held(i, n, {"pairs", "lists"})
    BY <1>1, <1>2
  <2>2. \A n, f : HoldsIn(i, n, f, x) => n \in 1 .. N
    BY <1>1 DEF HoldsIn
  <2> QED
    BY <2>1, <2>2, HeldIsOnward
<1>6. \A n, f, x : HoldsIn(i, n, f, x) => x \in 1 .. N /\ x # 1
  BY HoldsBehind
<1>7. tops \subseteq 1 .. N
  BY <1>5, <1>6
<1>8. /\ \A x \in U : x \in tops \/ \E n, f : HoldsIn(i, n, f, x)
      /\ \A n, f, x : HoldsIn(i, n, f, x) => (x \in U <=> x \in tops \/ n \in U)
  BY <1>4, <1>7, UnderStep
<1>9. 1 \notin U
  BY <1>5, <1>6, <1>8
<1>10. ASSUME NEW n, NEW f, NEW x, HoldsIn(i, n, f, x)
       PROVE  x \in U <=> n \in U \/ i[n].fields[f].form \in {"pairs", "lists"}
  <2>1. \A m, g : HoldsIn(i, m, g, x) => m = n /\ g = f
    BY <1>10, HolderIsUnique
  <2> QED
    BY <1>5, <1>8, <1>10, <2>1
<1> QED
  BY <1>3, <1>9, <1>10

\* The nodes behind a field of type Any, from parent to child.
LEMMA BehindAnyStep ==
  ASSUME NEW i, IsIR(i), NEW N, N = Len(i)
  PROVE  /\ 1 \notin BehindAny(i) /\ BehindAny(i) \subseteq 1 .. N
         /\ \A n, f, x : HoldsIn(i, n, f, x) =>
              (x \in BehindAny(i) <=>
                 n \in BehindAny(i) \/ i[n].class \in {"MaterializeExpr", "ToScalarExpr"})
<1>1. N \in Nat /\ DOMAIN i = 1 .. N
  BY NodesOfIR
<1>2. PICK anys : anys = {n \in DOMAIN i : i[n].class \in {"MaterializeExpr", "ToScalarExpr"}}
  OBVIOUS
<1>3. PICK tops : tops = UNION {Kids(i, n) : n \in anys}
  OBVIOUS
<1>4. PICK U : U = BehindAny(i)
  OBVIOUS
<1>5. U = Under(i, tops)
  BY <1>2, <1>3, <1>4 DEF BehindAny
<1>6. ASSUME NEW x PROVE x \in tops <=> \E n, f : HoldsIn(i, n, f, x) /\ i[n].class \in {"MaterializeExpr", "ToScalarExpr"}
  <2>1. x \in tops <=> \E n \in anys : x \in Kids(i, n)
    BY <1>3
  <2>2. \A n, f : HoldsIn(i, n, f, x) => n \in 1 .. N
    BY <1>1 DEF HoldsIn
  <2> QED
    BY <1>1, <1>2, <2>1, <2>2, HeldIsOnward
<1>7. \A n, f, x : HoldsIn(i, n, f, x) => x \in 1 .. N /\ x # 1
  BY HoldsBehind
<1>8. tops \subseteq 1 .. N
  BY <1>6, <1>7
<1>9. /\ U \subseteq 1 .. N
      /\ \A x \in U : x \in tops \/ \E n, f : HoldsIn(i, n, f, x)
      /\ \A n, f, x : HoldsIn(i, n, f, x) => (x \in U <=> x \in tops \/ n \in U)
  BY <1>5, <1>8, UnderStep
<1>10. 1 \notin U
  BY <1>6, <1>7, <1>9
<1>11. ASSUME NEW n, NEW f, NEW x, HoldsIn(i, n, f, x)
       PROVE  x \in U <=> n \in U \/ i[n].class \in {"MaterializeExpr", "ToScalarExpr"}
  <2>1. \A m, g : HoldsIn(i, m, g, x) => m = n /\ g = f
    BY <1>11, HolderIsUnique
  <2> QED
    BY <1>6, <1>9, <1>11, <2>1
<1> QED
  BY <1>4, <1>9, <1>10, <1>11

\* Every node has what its holder has passed down, or the other way round.
LEMMA InductionDown ==
  ASSUME NEW i, IsIR(i), NEW N, N = Len(i), NEW T, 1 \in T,
         \A n, f, x : HoldsIn(i, n, f, x) /\ n \in T => x \in T
  PROVE  1 .. N \subseteq T
<1> DEFINE rank == [x \in 1 .. N |-> x]
<1>1. N \in Nat /\ rank \in [1 .. N -> Nat]
  BY NodesOfIR
<1>2. ASSUME NEW x \in 1 .. N, \A y \in 1 .. N : rank[y] < rank[x] => y \in T PROVE x \in T
  <2>1. CASE x # 1
    <3>1. PICK n, f : HoldsIn(i, n, f, x)
      BY <2>1, HolderExists
    <3>2. n \in 1 .. N /\ n < x
      BY <3>1, HoldsBehind
    <3>3. n \in T
      BY <1>2, <3>2
    <3> QED
      BY <3>1, <3>3
  <2> QED
    BY <2>1
<1> HIDE DEF rank
<1>3. PICK D : D = 1 .. N
  OBVIOUS
<1>4. rank \in [D -> Nat] /\ \A x \in D : (\A y \in D : rank[y] < rank[x] => y \in T) => x \in T
  BY <1>1, <1>2, <1>3
<1>5. D \subseteq T
  BY <1>4, InductionByRank
<1> QED
  BY <1>3, <1>5

\* walk() reaches every node but those in pairs.
LEMMA WalkOfModels ==
  ASSUME NEW i, NEW N, IsModels(i, N), 1 \in 1 .. N
  PROVE  Walk(i, 1) = DOMAIN i \ InPairs(i)
<1>1. IsIR(i) /\ N = Len(i) /\ DOMAIN i = 1 .. N /\ \A n \in 1 .. N : i[n].class # Dict
  BY NodesOfIR DEF IsModels
<1>2. PICK W, P : W = Walk(i, 1) /\ P = InPairs(i)
  OBVIOUS
<1>3. /\ W \subseteq 1 .. N /\ 1 \in W
      /\ \A n, f, x : HoldsIn(i, n, f, x) =>
           (x \in W <=> x = 1 \/ (/\ n \in W
                                  /\ i[n].fields[f].form \in {"one", "list"} /\ i[x].class # Dict))
  BY <1>1, <1>2, WalkStep
<1>4. /\ 1 \notin P
      /\ \A n, f, x : HoldsIn(i, n, f, x) =>
           (x \in P <=> n \in P \/ i[n].fields[f].form \in {"pairs", "lists"})
  BY <1>1, <1>2, InPairsStep
<1> DEFINE T == {x \in 1 .. N : x \in W <=> x \notin P}
<1>5. 1 \in T
  BY <1>3, <1>4
<1>6. ASSUME NEW n, NEW f, NEW x, HoldsIn(i, n, f, x), n \in T PROVE x \in T
  <2>1. x \in 1 .. N /\ x # 1 /\ i[x].class # Dict
    BY <1>1, <1>6, HoldsBehind
  <2>2. i[n].fields[f].form \in {"one", "list", "pairs", "lists"}
    BY <1>1, <1>6, HoldersForm
  <2>3. x \in W <=> n \in W /\ i[n].fields[f].form \in {"one", "list"}
    BY <1>3, <1>6, <2>1
  <2>4. x \in P <=> n \in P \/ i[n].fields[f].form \in {"pairs", "lists"}
    BY <1>4, <1>6
  <2>5. n \in W <=> n \notin P
    BY <1>6
  <2> QED
    BY <2>1, <2>2, <2>3, <2>4, <2>5
<1>7. 1 .. N \subseteq T
  BY <1>1, <1>5, <1>6, InductionDown
<1> QED
  BY <1>1, <1>2, <1>3, <1>7

\* verify_corpus reaches what is under a node, but for those in pairs.
LEMMA UnderIsWalked ==
  ASSUME NEW i, NEW N, IsModels(i, N), NEW from \in 1 .. N
  PROVE  Under(i, {from}) \ InPairs(i) \subseteq VerifyWalk(i, from)
<1>1. IsIR(i) /\ N = Len(i) /\ N \in Nat /\ DOMAIN i = 1 .. N /\ \A n \in 1 .. N : i[n].class # Dict
  BY NodesOfIR DEF IsModels
<1>2. PICK W, P, U : W = Walk(i, from) /\ P = InPairs(i) /\ U = Under(i, {from})
  OBVIOUS
<1>3. /\ from \in W
      /\ \A n, f, x : HoldsIn(i, n, f, x) =>
           (x \in W <=> x = from \/ (/\ n \in W
                                     /\ i[n].fields[f].form \in {"one", "list"} /\ i[x].class # Dict))
  BY <1>1, <1>2, WalkStep
<1>4. \A n, f, x : HoldsIn(i, n, f, x) =>
        (x \in P <=> n \in P \/ i[n].fields[f].form \in {"pairs", "lists"})
  BY <1>1, <1>2, InPairsStep
<1>5. /\ U \subseteq 1 .. N
      /\ \A x \in U : x \in {from} \/ \E n, f : HoldsIn(i, n, f, x)
      /\ \A n, f, x : HoldsIn(i, n, f, x) => (x \in U <=> x \in {from} \/ n \in U)
  <2>1. {from} \subseteq 1 .. N
    OBVIOUS
  <2> QED
    BY <1>1, <1>2, <2>1, UnderStep
<1> DEFINE T == {x \in 1 .. N : x \in U /\ x \notin P => x \in W}
           rank == [x \in 1 .. N |-> x]
<1>6. 1 \in T
  <2>1. ASSUME 1 \in U PROVE 1 = from
    <3>1. \A n, f : ~ HoldsIn(i, n, f, 1)
      BY <1>1, HoldsBehind
    <3> QED
      BY <1>5, <2>1, <3>1
  <2>2. 1 \in 1 .. N
    BY <1>1
  <2> QED
    BY <1>3, <2>1, <2>2
<1>7. ASSUME NEW n, NEW f, NEW x, HoldsIn(i, n, f, x), n \in T PROVE x \in T
  <2>1. x \in 1 .. N /\ i[x].class # Dict
    BY <1>1, <1>7, HoldsBehind
  <2>2. i[n].fields[f].form \in {"one", "list", "pairs", "lists"}
    BY <1>1, <1>7, HoldersForm
  <2>3. x \in W <=> x = from \/ (n \in W /\ i[n].fields[f].form \in {"one", "list"})
    BY <1>3, <1>7, <2>1
  <2>4. x \in P <=> n \in P \/ i[n].fields[f].form \in {"pairs", "lists"}
    BY <1>4, <1>7
  <2>5. x \in U <=> x = from \/ n \in U
    BY <1>5, <1>7
  <2>6. n \in U /\ n \notin P => n \in W
    BY <1>7
  <2> QED
    BY <2>1, <2>2, <2>3, <2>4, <2>5, <2>6
<1> HIDE DEF T
<1>8. 1 .. N \subseteq T
  BY <1>1, <1>6, <1>7, InductionDown
<1>9. VerifyWalk(i, from) = W
  BY <1>2 DEF VerifyWalk, Walk
<1> QED
  BY <1>2, <1>5, <1>8, <1>9 DEF T

\* Fields of type Any, and no others of the two classes that have one, hold nodes.
LEMMA AnyFields ==
  ASSUME NEW i, NEW N, IsModels(i, N), NEW n, NEW f, NEW x, HoldsIn(i, n, f, x)
  PROVE  /\ i[n].class \in Classes /\ f \in DOMAIN Fields[i[n].class]
         /\ Fields[i[n].class][f].shape # "atom"
         /\ IsField(Fields[i[n].class][f], i[n].fields[f], i)
         /\ Fields[i[n].class][f].shape = "any" <=> i[n].class \in {"MaterializeExpr", "ToScalarExpr"}
<1>1. IsIR(i) /\ N = Len(i) /\ n \in 1 .. N /\ i[n].class # Dict
  BY HoldsBehind DEF IsModels
<1>2. PICK C, v : C = i[n].class /\ v = i[n].fields[f]
  OBVIOUS
<1>3. C \in Classes /\ f \in DOMAIN Fields[C] /\ IsField(Fields[C][f], v, i) /\ IsValue(v, n + 1 .. N)
  <2>1. IsNodeAt(i, n, N)
    BY <1>1, NodesOfIR
  <2> QED
    BY <1>1, <1>2, <2>1 DEF IsNodeAt, HoldsIn
<1>4. Fields[C][f].shape # "atom"
  <2>1. v.kids # << >>
    BY <1>2, <1>3, KidsAreNodes DEF HoldsIn
  <2> QED
    BY <1>3, <2>1 DEF IsField
<1>5. ASSUME C \in {"MaterializeExpr", "ToScalarExpr"} PROVE Fields[C][f].shape = "any"
  <2>1. C \in ExprClasses
    BY <1>5 DEF ExprClasses, ExprFields
  <2>2. /\ DOMAIN Fields[C] = DOMAIN ExprFields[C] \cup DOMAIN ExprBase
        /\ f \in DOMAIN ExprBase => Fields[C][f] = ExprBase[f]
    <3>1. Fields[C] = [g \in DOMAIN ExprFields[C] \cup DOMAIN ExprBase |->
                         IF g \in DOMAIN ExprBase THEN ExprBase[g] ELSE ExprFields[C][g]]
      <4>1. C \notin OperatorClasses
        BY <1>5 DEF OperatorClasses, OperatorFields
      <4> QED
        BY <1>3, <2>1, <4>1 DEF Fields
    <3> QED
      BY <1>3, <3>1
  <2>3. DOMAIN ExprFields[C] = {"pipeline"}
    BY <1>5 DEF ExprFields
  <2>4. \A g \in DOMAIN ExprBase : ExprBase[g].shape = "atom"
    BY DEF ExprBase, OrElse, Str, OptionalStr, TrueByDefault, Atom, Type
  <2>5. f = "pipeline"
    BY <1>3, <1>4, <2>2, <2>3, <2>4
  <2> QED
    BY <1>3, <1>5, <2>5, ShapesOfFields
<1>6. ASSUME Fields[C][f].shape = "any" PROVE C \in {"MaterializeExpr", "ToScalarExpr"}
  BY <1>3, <1>6, ShapesOfFields
<1> QED
  BY <1>2, <1>3, <1>4, <1>5, <1>6

\* Read back, what was behind a field of type Any is dicts, and nothing else.
LEMMA DictsRead ==
  ASSUME NEW i, NEW N, IsModels(i, N), 1 \in 1 .. N, i[1].class = "QueryIR",
         NEW doc, doc = ModelDumpJson(i), NEW c, c = ClassesRead(doc, "QueryIR")
  PROVE  \A x \in 1 .. N : c[x] = Dict <=> x \in BehindAny(i)
<1>1. IsIR(i) /\ N = Len(i) /\ N \in Nat /\ DOMAIN i = 1 .. N
  BY NodesOfIR DEF IsModels
<1>2. PICK class : class = [n \in 1 .. N |-> i[n].class]
  OBVIOUS
<1>3. \A n, f, k : StandsIn(doc, n, f, k) => IsReadAs(c, class, n, f, k)
  BY <1>2, ReadBack
<1>4. IsDocTree(doc, N) /\ IsDoc(doc, N) /\ \A n \in 1 .. N : WrittenAt(doc, i, class, n, N)
  BY <1>2, DumpIsDump DEF IsDump
<1>5. PICK B : B = BehindAny(i)
  OBVIOUS
<1>6. /\ 1 \notin B
      /\ \A n, f, x : HoldsIn(i, n, f, x) =>
           (x \in B <=> n \in B \/ i[n].class \in {"MaterializeExpr", "ToScalarExpr"})
  BY <1>1, <1>5, BehindAnyStep
<1> DEFINE T == {x \in 1 .. N : c[x] = Dict <=> x \in B}
<1>7. 1 \in T
  <2>1. c[1] = "QueryIR"
    BY <1>4, ClassesReadDef
  <2>2. "QueryIR" # Dict
    BY DEF Dict
  <2> QED
    BY <1>6, <2>1, <2>2
<1>8. ASSUME NEW n, NEW f, NEW x, HoldsIn(i, n, f, x), n \in T PROVE x \in T
  <2>1. x \in 1 .. N /\ n \in 1 .. N
    BY <1>1, <1>8, HoldsBehind
  <2>2. StandsIn(doc, n, f, x)
    <3>1. WrittenAt(doc, i, class, n, N) /\ DOMAIN doc = 1 .. N
      BY <1>4, <2>1 DEF IsDoc
    <3> QED
      BY <1>8, <2>1, <3>1 DEF StandsIn, HoldsIn, WrittenAt
  <2>3. c[x] = Dict <=> c[n] = Dict \/ Fields[class[n]][f].shape = "any"
    BY <1>3, <2>2 DEF IsReadAs
  <2>4. Fields[class[n]][f].shape = "any" <=> i[n].class \in {"MaterializeExpr", "ToScalarExpr"}
    <3>1. class[n] = i[n].class
      BY <1>2, <2>1
    <3> QED
      BY <1>8, <3>1, AnyFields
  <2>5. c[n] = Dict <=> n \in B
    BY <1>8
  <2>6. x \in B <=> n \in B \/ i[n].class \in {"MaterializeExpr", "ToScalarExpr"}
    BY <1>6, <1>8
  <2> QED
    BY <2>1, <2>3, <2>4, <2>5, <2>6
<1>9. 1 .. N \subseteq T
  BY <1>1, <1>7, <1>8, InductionDown
<1> QED
  BY <1>5, <1>9

\* walk() over what was read back.
LEMMA WalkOfRead ==
  ASSUME NEW i, NEW N, IsModels(i, N), 1 \in 1 .. N, i[1].class = "QueryIR",
         \A n \in 1 .. N : \A f \in DOMAIN i[n].fields : i[n].fields[f].form # "lists",
         NEW j, j = ModelValidateJson(ModelDumpJson(i), "QueryIR")
  PROVE  Walk(j, 1) = Walk(i, 1) \ BehindAny(i)
<1>1. IsIR(i) /\ N = Len(i) /\ N \in Nat /\ DOMAIN i = 1 .. N /\ \A n \in 1 .. N : i[n].class # Dict
  BY NodesOfIR DEF IsModels
<1>2. PICK doc : doc = ModelDumpJson(i)
  OBVIOUS
<1>3. PICK c : c = ClassesRead(doc, "QueryIR")
  OBVIOUS
<1>4. PICK class : class = [n \in 1 .. N |-> i[n].class]
  OBVIOUS
<1>5. IsIR(j) /\ Len(j) = N /\ \A n \in 1 .. N : ReadAt(j, doc, c, n)
  BY <1>2, <1>3, <1>4, ReadBack
<1>6. \A x \in 1 .. N : c[x] = Dict <=> x \in BehindAny(i)
  BY <1>2, <1>3, DictsRead
<1>7. IsDoc(doc, N) /\ \A n \in 1 .. N : WrittenAt(doc, i, class, n, N)
  BY <1>2, <1>4, DumpIsDump DEF IsDump
<1>8. PICK W, V, B : W = Walk(i, 1) /\ V = Walk(j, 1) /\ B = BehindAny(i)
  OBVIOUS
<1>9. /\ W \subseteq 1 .. N /\ 1 \in W
      /\ \A n, f, x : HoldsIn(i, n, f, x) =>
           (x \in W <=> x = 1 \/ (/\ n \in W
                                  /\ i[n].fields[f].form \in {"one", "list"} /\ i[x].class # Dict))
  BY <1>1, <1>8, WalkStep
<1>10. /\ V \subseteq 1 .. N /\ 1 \in V
       /\ \A n, f, x : HoldsIn(j, n, f, x) =>
            (x \in V <=> x = 1 \/ (/\ n \in V
                                   /\ j[n].fields[f].form \in {"one", "list"} /\ j[x].class # Dict))
  BY <1>5, <1>8, WalkStep
<1>11. /\ 1 \notin B
       /\ \A n, f, x : HoldsIn(i, n, f, x) => (n \in B => x \in B)
  BY <1>1, <1>8, BehindAnyStep
<1> DEFINE T == {x \in 1 .. N : x \in V <=> x \in W /\ x \notin B}
<1>12. 1 \in T
  BY <1>9, <1>10, <1>11
<1>13. ASSUME NEW n, NEW f, NEW x, HoldsIn(i, n, f, x), n \in T PROVE x \in T
  <2>1. x \in 1 .. N /\ n \in 1 .. N /\ x # 1
    BY <1>1, <1>13, HoldsBehind
  <2>2. ReadAt(j, doc, c, n) /\ ReadAt(j, doc, c, x) /\ WrittenAt(doc, i, class, n, N)
    BY <1>5, <1>7, <2>1
  <2>3. f \in DOMAIN doc[n] /\ f \in DOMAIN i[n].fields /\ f \in DOMAIN j[n].fields
    BY <1>13, <2>2 DEF HoldsIn, WrittenAt, ReadAt
  <2>4. PICK v, w, u : v = i[n].fields[f] /\ w = doc[n][f] /\ u = j[n].fields[f]
    OBVIOUS
  <2>5. IsValue(v, n + 1 .. N) /\ w = AsJson(v) /\ IsValue(w, n + 1 .. N)
    <3>1. IsNodeAt(i, n, N)
      BY <1>1, <2>1, NodesOfIR
    <3>2. IsValue(v, n + 1 .. N)
      BY <2>3, <2>4, <3>1 DEF IsNodeAt
    <3>3. w = AsJson(v) /\ IsValue(w, n + 1 .. N)
      BY <2>2, <2>3, <2>4 DEF WrittenAt
    <3> QED
      BY <3>2, <3>3
  <2>6. u = w \/ u = FieldRead(w)
    BY <2>2, <2>3, <2>4 DEF ReadAt
  <2>7. /\ w.form = (IF v.form = "pairs" THEN "lists" ELSE v.form) /\ w.kids = v.kids
        /\ FieldRead(w).form = (IF w.form = "lists" THEN "pairs" ELSE w.form)
        /\ FieldRead(w).kids = w.kids
    BY <2>5, ValueAsJson, ValueRead
  <2>8. u.form \in {"one", "list"} <=> v.form \in {"one", "list"}
    BY <2>6, <2>7
  <2>9. HoldsIn(j, n, f, x)
    <3>1. n \in DOMAIN j
      BY <1>5, <2>1, NodesOfIR
    <3>2. x \in ToSet(u.kids)
      BY <1>13, <2>4, <2>6, <2>7 DEF HoldsIn
    <3> QED
      BY <2>3, <2>4, <3>1, <3>2 DEF HoldsIn
  <2>10. j[x].class # Dict <=> x \notin B
    <3>1. j[x].class = c[x]
      BY <2>2 DEF ReadAt
    <3> QED
      BY <1>6, <1>8, <2>1, <3>1
  <2>11. x \in V <=> n \in V /\ v.form \in {"one", "list"} /\ x \notin B
    BY <1>10, <2>1, <2>4, <2>8, <2>9, <2>10
  <2>12. x \in W <=> n \in W /\ v.form \in {"one", "list"}
    BY <1>1, <1>9, <1>13, <2>1, <2>4
  <2>13. n \in B => x \in B
    BY <1>11, <1>13
  <2>14. n \in V <=> n \in W /\ n \notin B
    BY <1>13
  <2> QED
    BY <2>1, <2>11, <2>12, <2>13, <2>14
<1> HIDE DEF T
<1>14. 1 .. N \subseteq T
  BY <1>1, <1>12, <1>13, InductionDown
<1> QED
  BY <1>8, <1>9, <1>10, <1>14 DEF T

\* Where mine_corpus goes on, verify_corpus does, too.
LEMMA MinedIsHeld ==
  ASSUME NEW i, NEW N, IsModels(i, N), NEW n, NEW f, NEW x, HoldsIn(i, n, f, x),
         f \in MineAttributes(i[n].class) \/ f = "source"
  PROVE  i[n].fields[f].form \in {"one", "list"}
<1>1. PICK C, type, v : C = i[n].class /\ type = Fields[C][f] /\ v = i[n].fields[f]
  OBVIOUS
<1>2. C \in Classes /\ f \in DOMAIN Fields[C] /\ type.shape # "atom" /\ IsField(type, v, i)
  BY <1>1, AnyFields
<1>3. f # "pipeline" /\ f # "branches"
  <2>1. \A D : MineAttributes(D) \in {{"operators"}, {"expr"}, OpAttributes, ExprAttributes, {}}
    BY DEF MineAttributes
  <2>2. \A A \in {{"operators"}, {"expr"}, OpAttributes, ExprAttributes, {}} :
          "pipeline" \notin A /\ "branches" \notin A
    BY DEF OpAttributes, ExprAttributes
  <2> QED
    BY <2>1, <2>2
<1>4. type.shape \in {"one", "optional", "many"}
  BY <1>1, <1>2, <1>3, ShapesOfFields
<1>5. v.form \in {"one", "null", "list", "empty"}
  BY <1>2, <1>4 DEF IsField, FormsOf
<1>6. v.form \in {"one", "list", "pairs", "lists"}
  BY <1>1, HoldersForm DEF IsModels
<1> QED
  BY <1>1, <1>5, <1>6

\* What mine_corpus visits verify_corpus visits, too.
LEMMA MinedIsWalked ==
  ASSUME NEW i, IsBuilt(i)
  PROVE  MineWalk(i) \subseteq VerifyWalk(i, MainPipeline(i))
<1>1. PICK N, main : N = Len(i) /\ main = MainPipeline(i)
  OBVIOUS
<1>2. IsModels(i, N) /\ main \in 1 .. N
  BY <1>1, BuiltIsModels
<1>3. IsIR(i) /\ N \in Nat /\ DOMAIN i = 1 .. N /\ \A n \in 1 .. N : i[n].class # Dict
  BY <1>1, <1>2, NodesOfIR DEF IsModels
<1>4. PICK W : W = VerifyWalk(i, main)
  OBVIOUS
<1>5. W = Walk(i, main)
  BY <1>4 DEF VerifyWalk, Walk
<1>6. /\ W \subseteq 1 .. N /\ main \in W
      /\ \A n, f, x : HoldsIn(i, n, f, x) =>
           (x \in W <=> x = main \/ (/\ n \in W
                                     /\ i[n].fields[f].form \in {"one", "list"} /\ i[x].class # Dict))
  BY <1>1, <1>2, <1>3, <1>5, WalkStep
<1>7. ASSUME NEW n \in W, NEW f, NEW x, HoldsIn(i, n, f, x),
             f \in MineAttributes(i[n].class) \/ f = "source"
      PROVE  x \in W
  <2>1. i[n].fields[f].form \in {"one", "list"}
    BY <1>2, <1>7, MinedIsHeld
  <2>2. i[x].class # Dict
    BY <1>1, <1>3, <1>7, HoldsBehind
  <2> QED
    BY <1>6, <1>7, <2>1, <2>2
<1>8. PICK inside : inside = [n \in DOMAIN i |-> KidsIn(i, n, MineAttributes(i[n].class))]
  OBVIOUS
<1>9. ASSUME NEW n \in 1 .. N, NEW x \in inside[n]
      PROVE  \E f \in MineAttributes(i[n].class) : HoldsIn(i, n, f, x)
  BY <1>3, <1>8 DEF HoldsIn, KidsIn
<1>10. Onward(N, inside)
  <2>1. ASSUME NEW n \in 1 .. N, NEW x \in inside[n] PROVE x \in n + 1 .. N
    BY <1>1, <1>3, <1>9, HoldsBehind
  <2> QED
    BY <2>1 DEF Onward
<1>11. \A n \in W \cap (1 .. N) : inside[n] \subseteq W
  BY <1>7, <1>9
<1>12. Reach(i, main, inside) \subseteq W
  BY <1>1, <1>2, <1>3, <1>6, <1>10, <1>11, ReachInduction
<1>13. ASSUME NEW n \in W, i[n].class = "Pipeline" PROVE i[n].fields["source"].kids[1] \in W
  <2>1. n \in 1 .. N
    BY <1>6
  <2>2. IsNodeAt(i, n, N) /\ i[n].class # Dict
    BY <1>1, <1>3, <2>1, NodesOfIR
  <2>3. PICK v : v = i[n].fields["source"]
    OBVIOUS
  <2>4. "source" \in DOMAIN i[n].fields /\ IsField(One(Sources), v, i) /\ IsValue(v, n + 1 .. N)
    <3>1. "source" \in DOMAIN Fields["Pipeline"] /\ Fields["Pipeline"]["source"] = One(Sources)
      BY EnrichedClasses, EnrichedFields
    <3> QED
      BY <1>13, <2>2, <2>3, <3>1 DEF IsNodeAt
  <2>5. v.form = "one"
    <3>1. One(Sources).shape = "one"
      BY DEF One, Type
    <3> QED
      BY <2>4, <3>1 DEF IsField, FormsOf
  <2>6. v.kids[1] \in ToSet(v.kids)
    <3>1. v.kids \in Seq(n + 1 .. N) /\ Len(v.kids) = 1
      BY <2>4, <2>5 DEF IsValue
    <3>2. 1 \in DOMAIN v.kids
      BY <3>1
    <3> QED
      BY <3>2 DEF ToSet
  <2>7. HoldsIn(i, n, "source", v.kids[1])
    BY <1>3, <2>1, <2>3, <2>4, <2>6 DEF HoldsIn
  <2> QED
    BY <1>7, <2>3, <2>7
<1>14. MineWalk(i) = Reach(i, main, inside) \cup
                       {i[n].fields["source"].kids[1] :
                          n \in {n \in Reach(i, main, inside) : i[n].class = "Pipeline"}}
  BY <1>1, <1>8 DEF MineWalk
<1> QED
  BY <1>1, <1>4, <1>12, <1>13, <1>14

-----------------------------------------------------------------------------
(* The round trip of what was enriched.                                    *)

\* Where nodes stand they still stand.
LEMMA HeldInEnriched ==
  ASSUME NEW i, NEW e, Grown(i, e), NEW n, NEW f, NEW k, HoldsIn(i, n, f, k)
  PROVE  HoldsIn(e, n, f, k) /\ e[n].class = i[n].class
<1>1. KeptAt(i, e, n) /\ n \in DOMAIN e
  BY DEF Grown, HoldsIn
<1>2. i[n].fields[f].kids # << >>
  BY DEF HoldsIn, ToSet
<1> QED
  BY <1>1, <1>2 DEF KeptAt, HoldsIn

\* Enriching leaves nodes behind fields of type Any.
LEMMA BehindAnyEnriched ==
  ASSUME NEW i, IsBuilt(i), NEW e, IsEnriched(i, e)
  PROVE  BehindAny(i) \subseteq BehindAny(e)
<1>1. PICK N : N = Len(i)
  OBVIOUS
<1>2. IsIR(i) /\ IsIR(e) /\ Grown(i, e)
  BY DEF IsBuilt, IsModels, IsEnriched
<1>4. PICK B, E : B = BehindAny(i) /\ E = BehindAny(e)
  OBVIOUS
<1>5. /\ 1 \notin B /\ B \subseteq 1 .. N
      /\ \A n, f, x : HoldsIn(i, n, f, x) =>
           (x \in B <=> n \in B \/ i[n].class \in {"MaterializeExpr", "ToScalarExpr"})
  BY <1>1, <1>2, <1>4, BehindAnyStep
<1>6. \A n, f, x : HoldsIn(e, n, f, x) =>
        (x \in E <=> n \in E \/ e[n].class \in {"MaterializeExpr", "ToScalarExpr"})
  BY <1>2, <1>4, BehindAnyStep
<1> DEFINE T == {x \in 1 .. N : x \in B => x \in E}
<1>7. 1 \in T
  BY <1>1, <1>5, BuiltIsModels
<1>8. ASSUME NEW n, NEW f, NEW x, HoldsIn(i, n, f, x), n \in T PROVE x \in T
  <2>1. x \in 1 .. N /\ n \in 1 .. N
    BY <1>1, <1>2, <1>8, HoldsBehind
  <2>2. HoldsIn(e, n, f, x) /\ e[n].class = i[n].class
    BY <1>2, <1>8, HeldInEnriched
  <2>4. x \in B <=> n \in B \/ i[n].class \in {"MaterializeExpr", "ToScalarExpr"}
    BY <1>5, <1>8
  <2>5. x \in E <=> n \in E \/ i[n].class \in {"MaterializeExpr", "ToScalarExpr"}
    BY <1>6, <2>2
  <2> QED
    BY <1>8, <2>1, <2>4, <2>5
<1>9. 1 .. N \subseteq T
  BY <1>1, <1>2, <1>7, <1>8, InductionDown
<1> QED
  BY <1>4, <1>5, <1>9

\* Tuples behind a field of type Any come back as lists.
LEMMA PairsBehindAnyDiffer ==
  ASSUME NEW i, IsBuilt(i), NEW e, IsEnriched(i, e),
         NEW j, j = ModelValidateJson(ModelDumpJson(e), "QueryIR"),
         NEW n \in BehindAny(i), HasPairs(i, n)
  PROVE  Differs(e, j)
<1>1. PICK M : IsModels(e, M) /\ 1 \in 1 .. M /\ e[1].class = "QueryIR"
  BY DEF IsEnriched
<1>2. /\ KeptAt(i, e, n) /\ n \in 1 .. M /\ n # 1 /\ n \in BehindAny(e)
  <2>1. n \in DOMAIN i /\ n # 1
    <3>1. IsIR(i)
      BY DEF IsBuilt
    <3>2. PICK N : N = Len(i)
      OBVIOUS
    <3>3. n \in 1 .. N /\ n # 1
      BY <3>1, <3>2, BehindAnyStep
    <3> QED
      BY <3>1, <3>2, <3>3, NodesOfIR
  <2>2. DOMAIN e = 1 .. M
    BY <1>1, NodesOfIR DEF IsModels
  <2> QED
    BY <2>1, <2>2, BehindAnyEnriched DEF IsEnriched, Grown
<1>3. PICK doc : doc = ModelDumpJson(e)
  OBVIOUS
<1>4. PICK c : c = ClassesRead(doc, "QueryIR")
  OBVIOUS
<1>5. PICK class : class = [m \in 1 .. M |-> e[m].class]
  OBVIOUS
<1>6. ReadAt(j, doc, c, n)
  BY <1>1, <1>2, <1>3, <1>4, <1>5, ReadBack
<1>7. WrittenAt(doc, e, class, n, M)
  BY <1>1, <1>2, <1>3, <1>5, DumpIsDump
<1>8. c[n] = Dict
  BY <1>1, <1>2, <1>3, <1>4, DictsRead
<1>9. PICK f \in DOMAIN i[n].fields : i[n].fields[f].form = "pairs"
  BY DEF HasPairs
<1>10. e[n].fields[f] = i[n].fields[f] /\ f \in DOMAIN e[n].fields
  BY <1>2, <1>9 DEF KeptAt
<1>11. j[n].fields[f] = doc[n][f] /\ doc[n][f].form # "pairs"
  <2>1. f \in DOMAIN doc[n]
    BY <1>7, <1>10 DEF WrittenAt
  <2> QED
    BY <1>6, <1>7, <1>8, <2>1 DEF ReadAt, WrittenAt
<1>12. e[n].fields # j[n].fields
  BY <1>9, <1>10, <1>11
<1>13. n \in DOMAIN e /\ n \in DOMAIN j
  <2>1. DOMAIN e = 1 .. M
    BY <1>1, NodesOfIR DEF IsModels
  <2>2. DOMAIN j = 1 .. M
    BY <1>1, <1>3, <1>4, <1>5, ReadBack, NodesOfIR
  <2> QED
    BY <1>2, <2>1, <2>2
<1>14. ModelDump(e)[n] = e[n].fields /\ ModelDump(j)[n] = j[n].fields
  BY <1>13 DEF ModelDump
<1> QED
  BY <1>12, <1>14 DEF Differs

\* More nodes have more gaps.
LEMMA GapsOfMore ==
  ASSUME NEW i, NEW S, NEW T, S \subseteq T
  PROVE  Gaps(i, S) \subseteq Gaps(i, T)
BY DEF Gaps

-----------------------------------------------------------------------------
(* The invariant of the two scripts.                                       *)

Categories == {"builder_exception", "binder_exception", "roundtrip_mismatch",
               "bare_operator", "unknown_expr", "unknown_source"}

\* What is found in a query, and what is read back of it; the verdicts there can be.
Found(i) == {GapCategory(i[n].class) : n \in Gaps(i, VerifyWalk(i, MainPipeline(i)))}
Reread(e) == ModelValidateJson(ModelDumpJson(e), "QueryIR")
Verdict(i, found) ==
  \/ found = {"builder_exception"}
  \/ found = Found(i) \cup {"binder_exception"}
  \/ found = Found(i) \cup {"roundtrip_mismatch"}
  \/ found = Found(i) /\ \E e : IsEnriched(i, e) /\ ~Differs(e, Reread(e))

TypeInv ==
  /\ corpus \in Corpora /\ at \in Nat /\ at > 0
  /\ pc \in {"build", "search", "enrich", "dump", "reload", "file", "mine", "done"}
  /\ categories \in SUBSET Categories
  /\ passed \in Seq(Nat) /\ failures \in Seq([id : Nat, categories : SUBSET Categories])

\* What verify_query has in its hands depends on how far it is.
PhaseInv ==
  /\ pc \in {"search", "enrich", "dump", "reload", "file"} => at \in DOMAIN corpus
  /\ pc \in {"build", "mine", "done"} => ir = Nothing
  /\ pc # "file" => reloaded = Nothing
  /\ pc = "search" => ir = corpus[at].built
  /\ pc \in {"enrich", "dump", "reload"} =>
       IsEnriched(corpus[at].built, ir) /\ categories = Found(corpus[at].built)
  /\ pc = "reload" => json = ModelDumpJson(ir)
  /\ pc = "file" =>
       /\ Verdict(corpus[at].built, categories)
       /\ \/ ir = Nothing /\ reloaded = Nothing
          \/ /\ IsEnriched(corpus[at].built, ir)
             /\ \/ reloaded = Nothing
                \/ json = ModelDumpJson(ir) /\ reloaded = ModelValidateJson(json, "QueryIR")

\* Each query that was filed has a verdict of its own.
Filed == IF pc \in {"mine", "done"} THEN DOMAIN corpus ELSE 1 .. at - 1
IsFiled(q) ==
  \/ q \in ToSet(passed)
  \/ \E k \in DOMAIN failures : /\ failures[k].id = q
                             /\ Verdict(corpus[q].built, failures[k].categories)
VerdictInv ==
  /\ \A p \in ToSet(passed) : p \in DOMAIN corpus /\ Verdict(corpus[p].built, {})
  /\ \A q \in Filed : IsFiled(q)

MinedInv ==
  \A g \in mined : \E q \in DOMAIN corpus :
    \E n \in Gaps(corpus[q].bare, MineWalk(corpus[q].bare)) : g = <<q, n>>

IInv == TypeInv /\ PhaseInv /\ VerdictInv /\ MinedInv

\* A corpus is a sequence of what the builder makes.
LEMMA CorpusFacts ==
  ASSUME TypeInv
  PROVE  /\ Len(corpus) \in Nat /\ DOMAIN corpus = 1 .. Len(corpus)
         /\ \A q \in DOMAIN corpus : /\ IsBuilt(corpus[q].built) /\ IsBuilt(corpus[q].bare)
                                   /\ SameText(corpus[q].built, corpus[q].bare)
<1>1. /\ IsSequence(corpus)
      /\ \A q \in DOMAIN corpus : /\ IsBuilt(corpus[q].built) /\ IsBuilt(corpus[q].bare)
                                /\ SameText(corpus[q].built, corpus[q].bare)
  BY CorporaAssumption DEF TypeInv
<1> QED
  BY <1>1 DEF IsSequence

\* What is found is a gap.
LEMMA FoundIsCategories ==
  ASSUME NEW i
  PROVE  Found(i) \subseteq {"bare_operator", "unknown_expr", "unknown_source"}
BY DEF Found, Gaps, GapCategory

\* What Append does to a list and to the set of its members.
LEMMA SetOfAppended ==
  ASSUME NEW S, NEW s \in Seq(S), NEW x \in S
  PROVE  /\ Append(s, x) \in Seq(S)
         /\ ToSet(Append(s, x)) = ToSet(s) \cup {x}
         /\ DOMAIN s \subseteq DOMAIN Append(s, x)
         /\ \A k \in DOMAIN s : Append(s, x)[k] = s[k]
         /\ \E k \in DOMAIN Append(s, x) : Append(s, x)[k] = x
<1>1. PICK t, N : t = Append(s, x) /\ N = Len(s)
  OBVIOUS
<1>2. /\ t \in Seq(S) /\ N \in Nat /\ DOMAIN s = 1 .. N /\ DOMAIN t = 1 .. N + 1
      /\ \A k \in 1 .. N : t[k] = s[k]
      /\ t[N + 1] = x
  BY <1>1, AppendProperties, LenProperties
<1>3. /\ N + 1 \in 1 .. N + 1 /\ 1 .. N \subseteq 1 .. N + 1
      /\ \A k \in 1 .. N + 1 : k \in 1 .. N \/ k = N + 1
  BY <1>2
<1>4. ToSet(t) = ToSet(s) \cup {x}
  BY <1>2, <1>3 DEF ToSet
<1> QED
  BY <1>1, <1>2, <1>3, <1>4

\* Nothing is filed in the beginning.
LEMMA InitHolds ==
  Init => IInv
<1> SUFFICES ASSUME Init PROVE IInv
  OBVIOUS
<1> USE DEF Init
<1>1. TypeInv
  <2>1. << >> \in Seq(Nat) /\ << >> \in Seq([id : Nat, categories : SUBSET Categories])
    OBVIOUS
  <2> QED
    BY <2>1 DEF TypeInv
<1>2. PhaseInv
  BY DEF PhaseInv
<1>3. VerdictInv
  <2>1. ToSet(passed) = {}
    BY DEF ToSet
  <2>2. Filed = {}
    BY DEF Filed
  <2> QED
    BY <2>1, <2>2 DEF VerdictInv
<1>4. MinedInv
  BY DEF MinedInv
<1> QED
  BY <1>1, <1>2, <1>3, <1>4 DEF IInv

\* The verdicts and the gaps stay as they are while a query is verified.
LEMMA VerdictsStay ==
  ASSUME VerdictInv, UNCHANGED <<corpus, verdicts>>, Filed' \subseteq Filed
  PROVE  VerdictInv'
BY DEF VerdictInv, IsFiled, verdicts

LEMMA GapsStay ==
  ASSUME MinedInv, UNCHANGED <<corpus, mined>>
  PROVE  MinedInv'
BY DEF MinedInv

\* verify_query, step by step.
LEMMA BuildHolds ==
  ASSUME IInv, Build
  PROVE  IInv'
<1> USE DEF IInv, Build, InVerify, Rest, verdicts, mining
<1>1. TypeInv'
  BY DEF TypeInv
<1>2. PhaseInv'
  <2>1. at \in DOMAIN corpus
    BY CorpusFacts DEF TypeInv
  <2> QED
    BY <2>1 DEF PhaseInv
<1>3. VerdictInv'
  <2>1. Filed' = Filed
    BY DEF Filed
  <2> QED
    BY <2>1, VerdictsStay
<1>4. MinedInv'
  BY GapsStay
<1> QED
  BY <1>1, <1>2, <1>3, <1>4

LEMMA BuildRaisesHolds ==
  ASSUME IInv, BuildRaises
  PROVE  IInv'
<1> USE DEF IInv, BuildRaises, InVerify, Rest, verdicts, mining
<1>1. TypeInv'
  BY DEF TypeInv, Categories
<1>2. PhaseInv'
  <2>1. at \in DOMAIN corpus
    BY CorpusFacts DEF TypeInv
  <2>2. Verdict(corpus[at].built, {"builder_exception"})
    BY DEF Verdict
  <2>3. ir = Nothing /\ reloaded = Nothing
    BY DEF PhaseInv
  <2> QED
    BY <2>1, <2>2, <2>3 DEF PhaseInv
<1>3. VerdictInv'
  <2>1. Filed' = Filed
    BY DEF Filed
  <2> QED
    BY <2>1, VerdictsStay
<1>4. MinedInv'
  BY GapsStay
<1> QED
  BY <1>1, <1>2, <1>3, <1>4

LEMMA SearchHolds ==
  ASSUME IInv, Search
  PROVE  IInv'
<1> USE DEF IInv, Search, Rest, verdicts, mining
<1>0. PICK i : i = corpus[at].built
  OBVIOUS
<1>1. ir = i /\ reloaded = Nothing /\ at \in DOMAIN corpus
  BY <1>0 DEF PhaseInv
<1>2. categories' = Found(i)
  BY <1>1 DEF Found
<1>3. IsEnriched(i, i)
  BY <1>0, <1>1, CorpusFacts, BuiltIsEnriched
<1>4. TypeInv'
  BY <1>2, FoundIsCategories DEF TypeInv, Categories
<1>5. PhaseInv'
  <2>1. /\ pc' = "enrich" /\ at' \in DOMAIN corpus' /\ reloaded' = Nothing
        /\ IsEnriched(corpus'[at'].built, ir') /\ categories' = Found(corpus'[at'].built)
    BY <1>0, <1>1, <1>2, <1>3
  <2> QED
    BY <2>1 DEF PhaseInv
<1>6. VerdictInv'
  <2>1. Filed' = Filed
    BY DEF Filed
  <2> QED
    BY <2>1, VerdictsStay
<1>7. MinedInv'
  BY GapsStay
<1> QED
  BY <1>4, <1>5, <1>6, <1>7

\* What the enricher has in its hands.
LEMMA InEnrich ==
  ASSUME IInv, pc \in {"enrich", "dump", "reload"}
  PROVE  /\ at \in DOMAIN corpus /\ reloaded = Nothing
         /\ IsEnriched(corpus[at].built, ir) /\ categories = Found(corpus[at].built)
BY DEF IInv, PhaseInv

LEMMA WalkPipelineHolds ==
  ASSUME IInv, WalkPipeline
  PROVE  IInv'
<1>0. /\ pc = "enrich" /\ pc' = pc /\ corpus' = corpus /\ at' = at /\ reloaded' = reloaded
      /\ categories' = categories /\ passed' = passed /\ failures' = failures /\ mined' = mined
  BY DEF WalkPipeline, Rest, verdicts, mining
<1>1. PICK i, j : i = corpus[at].built /\ j = ir
  OBVIOUS
<1>2. at \in DOMAIN corpus /\ reloaded = Nothing /\ IsEnriched(i, j) /\ categories = Found(i)
  BY <1>0, <1>1, InEnrich
<1>3. PICK p \in PipelinesFrom(j, MainPipeline(j)) :
        /\ ~HasSchema(j, p)
        /\ \E owner \in [ColumnsFrom(j, p) -> Owners],
              columns \in {NoMap, Value("map", "types", << >>)} :
             ir' = WithSchema(Filled(j, p, owner), p, columns)
  BY <1>1 DEF WalkPipeline
<1>4. PICK owner \in [ColumnsFrom(j, p) -> Owners],
           columns \in {NoMap, Value("map", "types", << >>)} :
        ir' = WithSchema(Filled(j, p, owner), p, columns)
  BY <1>3
<1>5. p \in DOMAIN j /\ j[p].class = "Pipeline" /\ columns \in SchemaColumns
  BY DEF PipelinesFrom, SchemaColumns
<1>6. \A n \in DOMAIN owner : j[n].class = "ColumnRef" /\ owner[n] \in Owners
  BY DEF ColumnsFrom
<1>7. PICK e : e = ir'
  OBVIOUS
<1>8. IsEnriched(i, e)
  BY <1>2, <1>3, <1>4, <1>5, <1>6, <1>7, WalkedIsEnriched
<1>9. TypeInv'
  BY <1>0 DEF IInv, TypeInv
<1>10. PhaseInv'
  BY <1>0, <1>1, <1>2, <1>7, <1>8 DEF PhaseInv
<1>11. VerdictInv'
  <2>1. Filed' = Filed
    BY <1>0 DEF Filed
  <2> QED
    BY <1>0, <2>1, VerdictsStay DEF IInv, verdicts
<1>12. MinedInv'
  BY <1>0, GapsStay DEF IInv
<1> QED
  BY <1>9, <1>10, <1>11, <1>12 DEF IInv

LEMMA EnrichHolds ==
  ASSUME IInv, Enrich
  PROVE  IInv'
<1> USE DEF IInv, Enrich, Rest, verdicts, mining
<1>1. TypeInv'
  BY DEF TypeInv
<1>2. PhaseInv'
  <2>1. PICK i, j, e : i = corpus[at].built /\ j = ir /\ e = ir'
    OBVIOUS
  <2>2. at \in DOMAIN corpus /\ reloaded = Nothing /\ IsEnriched(i, j) /\ categories = Found(i)
    BY <2>1, InEnrich
  <2>3. e = Flagged(j)
    BY <2>1 DEF Flagged
  <2>4. IsEnriched(i, e)
    BY <2>2, <2>3, FlaggedIsEnriched
  <2> QED
    BY <2>1, <2>2, <2>4 DEF PhaseInv
<1>3. VerdictInv'
  <2>1. Filed' = Filed
    BY DEF Filed
  <2> QED
    BY <2>1, VerdictsStay
<1>4. MinedInv'
  BY GapsStay
<1> QED
  BY <1>1, <1>2, <1>3, <1>4

LEMMA EnrichRaisesHolds ==
  ASSUME IInv, EnrichRaises
  PROVE  IInv'
<1> USE DEF IInv, EnrichRaises, Rest, verdicts, mining
<1>1. TypeInv'
  BY DEF TypeInv, Categories
<1>2. PhaseInv'
  <2>1. Verdict(corpus[at].built, categories')
    BY InEnrich DEF Verdict
  <2> QED
    BY <2>1, InEnrich DEF PhaseInv
<1>3. VerdictInv'
  <2>1. Filed' = Filed
    BY DEF Filed
  <2> QED
    BY <2>1, VerdictsStay
<1>4. MinedInv'
  BY GapsStay
<1> QED
  BY <1>1, <1>2, <1>3, <1>4

LEMMA DumpHolds ==
  ASSUME IInv, Dump
  PROVE  IInv'
<1> USE DEF IInv, Dump, Rest, verdicts, mining
<1>1. TypeInv'
  BY DEF TypeInv
<1>2. PhaseInv'
  BY InEnrich DEF PhaseInv
<1>3. VerdictInv'
  <2>1. Filed' = Filed
    BY DEF Filed
  <2> QED
    BY <2>1, VerdictsStay
<1>4. MinedInv'
  BY GapsStay
<1> QED
  BY <1>1, <1>2, <1>3, <1>4

LEMMA ReloadHolds ==
  ASSUME IInv, Reload
  PROVE  IInv'
<1> USE DEF IInv, Reload, Rest, verdicts, mining
<1>1. TypeInv'
  BY DEF TypeInv, Categories
<1>2. PhaseInv'
  <2>1. PICK i, e : i = corpus[at].built /\ e = ir
    OBVIOUS
  <2>2. at \in DOMAIN corpus /\ IsEnriched(i, e) /\ categories = Found(i)
    BY <2>1, InEnrich
  <2>3. json = ModelDumpJson(e)
    BY <2>1 DEF PhaseInv
  <2>4. reloaded' = Reread(e)
    BY <2>3 DEF Reread
  <2>5. Verdict(i, categories')
    <3>1. CASE Differs(e, Reread(e))
      BY <2>1, <2>2, <2>4, <3>1 DEF Verdict
    <3>2. CASE ~Differs(e, Reread(e))
      BY <2>1, <2>2, <2>4, <3>2 DEF Verdict
    <3> QED
      BY <3>1, <3>2
  <2> QED
    BY <2>1, <2>2, <2>3, <2>5 DEF PhaseInv
<1>3. VerdictInv'
  <2>1. Filed' = Filed
    BY DEF Filed
  <2> QED
    BY <2>1, VerdictsStay
<1>4. MinedInv'
  BY GapsStay
<1> QED
  BY <1>1, <1>2, <1>3, <1>4

LEMMA RoundTripRaisesHolds ==
  ASSUME IInv, RoundTripRaises
  PROVE  IInv'
<1> USE DEF IInv, RoundTripRaises, Rest, verdicts, mining
<1>1. TypeInv'
  BY DEF TypeInv, Categories
<1>2. PhaseInv'
  <2>1. Verdict(corpus[at].built, categories')
    BY InEnrich DEF Verdict
  <2> QED
    BY <2>1, InEnrich DEF PhaseInv
<1>3. VerdictInv'
  <2>1. Filed' = Filed
    BY DEF Filed
  <2> QED
    BY <2>1, VerdictsStay
<1>4. MinedInv'
  BY GapsStay
<1> QED
  BY <1>1, <1>2, <1>3, <1>4

\* The two lists of verify_corpus after a verdict is filed.
LEMMA FilePassed ==
  ASSUME IInv, File, categories = {}
  PROVE  /\ passed' \in Seq(Nat) /\ failures' = failures
         /\ ToSet(passed') = ToSet(passed) \cup {at}
<1>1. passed' = Append(passed, at) /\ failures' = failures
  BY DEF File
<1>2. at \in Nat /\ passed \in Seq(Nat)
  BY DEF IInv, TypeInv
<1> QED
  BY <1>1, <1>2, SetOfAppended

\* A failure is filed with its categories.
LEMMA FileFailed ==
  ASSUME IInv, File, categories # {}
  PROVE  /\ failures' \in Seq([id : Nat, categories : SUBSET Categories]) /\ passed' = passed
         /\ \A k \in DOMAIN failures : k \in DOMAIN failures' /\ failures'[k] = failures[k]
         /\ \E k \in DOMAIN failures' :
              failures'[k].id = at /\ failures'[k].categories = categories
<1>1. PICK failure : failure = [id |-> at, categories |-> categories]
  OBVIOUS
<1>2. failures' = Append(failures, failure) /\ passed' = passed
  BY <1>1 DEF File
<1>3. PICK F : F = [id : Nat, categories : SUBSET Categories]
  OBVIOUS
<1>4. at \in Nat /\ categories \in SUBSET Categories /\ failures \in Seq(F)
  BY <1>3 DEF IInv, TypeInv
<1>5. failure \in F /\ failure.id = at /\ failure.categories = categories
  BY <1>1, <1>3, <1>4
<1>6. PICK more : more = Append(failures, failure)
  OBVIOUS
<1>7. /\ more \in Seq(F) /\ DOMAIN failures \subseteq DOMAIN more
      /\ \A k \in DOMAIN failures : more[k] = failures[k]
      /\ \E k \in DOMAIN more : more[k] = failure
  BY <1>4, <1>5, <1>6, SetOfAppended
<1>8. failures' = more
  BY <1>2, <1>6
<1> QED
  BY <1>2, <1>3, <1>5, <1>7, <1>8

\* File: a list gets the verdict of the query that was at hand.
LEMMA FileHolds ==
  ASSUME IInv, File
  PROVE  IInv'
<1>0. /\ at \in DOMAIN corpus /\ Verdict(corpus[at].built, categories) /\ at \in Nat /\ at > 0
      /\ TypeInv /\ VerdictInv /\ MinedInv /\ pc = "file"
  BY DEF IInv, PhaseInv, TypeInv, File
<1>1. /\ corpus' = corpus /\ at' = at + 1 /\ pc' = "build" /\ mined' = mined
      /\ ir' = Nothing /\ reloaded' = Nothing /\ categories' = {}
  BY DEF File, mining
<1>2. TypeInv'
  <2>1. passed' \in Seq(Nat) /\ failures' \in Seq([id : Nat, categories : SUBSET Categories])
    <3>1. CASE categories = {}
      BY <1>0, <3>1, FilePassed DEF TypeInv
    <3>2. CASE categories # {}
      BY <1>0, <3>2, FileFailed DEF TypeInv
    <3> QED
      BY <3>1, <3>2
  <2>2. at + 1 \in Nat /\ at + 1 > 0
    BY <1>0
  <2> QED
    BY <1>0, <1>1, <2>1, <2>2 DEF TypeInv
<1>3. PhaseInv'
  BY <1>1 DEF PhaseInv
<1>4. VerdictInv'
  <2>1. \A q \in Filed' : q \in Filed \/ q = at
    BY <1>0, <1>1 DEF Filed
  <2>2. CASE categories = {}
    <3>1. failures' = failures /\ ToSet(passed') = ToSet(passed) \cup {at}
      BY <2>2, FilePassed
    <3>2. Verdict(corpus[at].built, {})
      BY <1>0, <2>2
    <3> QED
      BY <1>0, <1>1, <2>1, <3>1, <3>2 DEF VerdictInv, IsFiled
  <2>3. CASE categories # {}
    <3>1. /\ passed' = passed
          /\ \A k \in DOMAIN failures : k \in DOMAIN failures' /\ failures'[k] = failures[k]
      BY <2>3, FileFailed
    <3>2. ASSUME NEW q \in Filed PROVE IsFiled(q)'
      <4>1. IsFiled(q)
        BY <1>0 DEF VerdictInv
      <4> QED
        BY <1>1, <3>1, <4>1 DEF IsFiled
    <3>3. PICK k \in DOMAIN failures' :
            failures'[k].id = at /\ failures'[k].categories = categories
      BY <2>3, FileFailed
    <3>4. ASSUME NEW q, q = at PROVE IsFiled(q)'
      BY <1>0, <1>1, <3>3, <3>4 DEF IsFiled
    <3>5. \A q \in Filed' : IsFiled(q)'
      BY <2>1, <3>2, <3>4
    <3>6. \A p \in ToSet(passed') : p \in DOMAIN corpus' /\ Verdict(corpus'[p].built, {})
      BY <1>0, <1>1, <3>1 DEF VerdictInv
    <3> QED
      BY <3>5, <3>6 DEF VerdictInv
  <2> QED
    BY <2>2, <2>3
<1>5. MinedInv'
  BY <1>0, <1>1, GapsStay
<1> QED
  BY <1>2, <1>3, <1>4, <1>5 DEF IInv

\* When all are filed mine_corpus begins, and leaves the verdicts alone.
LEMMA VerifyEndsHolds ==
  ASSUME IInv, VerifyEnds
  PROVE  IInv'
<1> USE DEF IInv, VerifyEnds, query, verdicts, mining
<1>1. TypeInv'
  BY DEF TypeInv
<1>2. PhaseInv'
  BY DEF PhaseInv
<1>3. VerdictInv'
  <2>1. DOMAIN corpus \subseteq 1 .. at - 1
    BY CorpusFacts DEF TypeInv
  <2>2. Filed' \subseteq Filed
    BY <2>1 DEF Filed
  <2> QED
    BY <2>2, VerdictsStay
<1>4. MinedInv'
  BY GapsStay
<1> QED
  BY <1>1, <1>2, <1>3, <1>4

\* mine_corpus counts gaps of the query it is at.
LEMMA MineHolds ==
  ASSUME IInv, Mine
  PROVE  IInv'
<1> USE DEF IInv, Mine, query, verdicts
<1>1. TypeInv'
  BY DEF TypeInv
<1>2. PhaseInv'
  BY DEF PhaseInv
<1>3. VerdictInv'
  <2>1. Filed' = Filed
    BY DEF Filed
  <2> QED
    BY <2>1, VerdictsStay
<1>4. MinedInv'
  <2>1. at \in DOMAIN corpus
    BY CorpusFacts DEF TypeInv
  <2> QED
    BY <2>1 DEF MinedInv
<1> QED
  BY <1>1, <1>2, <1>3, <1>4

LEMMA MineBuildRaisesHolds ==
  ASSUME IInv, MineBuildRaises
  PROVE  IInv'
<1> USE DEF IInv, MineBuildRaises, query, verdicts
<1>1. TypeInv'
  BY DEF TypeInv
<1>2. PhaseInv'
  BY DEF PhaseInv
<1>3. VerdictInv'
  <2>1. Filed' = Filed
    BY DEF Filed
  <2> QED
    BY <2>1, VerdictsStay
<1>4. MinedInv'
  BY GapsStay
<1> QED
  BY <1>1, <1>2, <1>3, <1>4

LEMMA MineSkipsHolds ==
  ASSUME IInv, MineSkips
  PROVE  IInv'
<1> USE DEF IInv, MineSkips, query, verdicts, mining
<1>1. TypeInv'
  BY DEF TypeInv
<1>2. PhaseInv'
  BY DEF PhaseInv
<1>3. VerdictInv'
  <2>1. Filed' = Filed
    BY DEF Filed
  <2> QED
    BY <2>1, VerdictsStay
<1>4. MinedInv'
  BY GapsStay
<1> QED
  BY <1>1, <1>2, <1>3, <1>4

LEMMA MineEndsHolds ==
  ASSUME IInv, MineEnds
  PROVE  IInv'
<1> USE DEF IInv, MineEnds, query, verdicts
<1>1. TypeInv'
  BY DEF TypeInv
<1>2. PhaseInv'
  BY DEF PhaseInv
<1>3. VerdictInv'
  <2>1. Filed' = Filed
    BY DEF Filed
  <2> QED
    BY <2>1, VerdictsStay
<1>4. MinedInv'
  BY GapsStay
<1> QED
  BY <1>1, <1>2, <1>3, <1>4

LEMMA StutterHolds ==
  ASSUME IInv, UNCHANGED vars
  PROVE  IInv'
BY DEF IInv, vars, TypeInv, PhaseInv, VerdictInv, IsFiled, Filed, MinedInv

\* Whatever the corpora: what verify_query has in its hands fits how far it is, each query
\* that was filed has its verdict, and each gap that was mined is a gap of its query.
THEOREM Invariance == Spec => []IInv
<1>1. IInv /\ [Next]_vars => IInv'
  BY BuildHolds, BuildRaisesHolds, SearchHolds, WalkPipelineHolds, EnrichHolds,
     EnrichRaisesHolds, DumpHolds, ReloadHolds, RoundTripRaisesHolds, FileHolds,
     VerifyEndsHolds, MineHolds, MineBuildRaisesHolds, MineSkipsHolds, MineEndsHolds,
     StutterHolds DEF Next
<1> QED
  BY <1>1, InitHolds, PTL DEF Spec

-----------------------------------------------------------------------------
(* What it says.                                                           *)

\* What was read back is an enriched IR, written and read.
LEMMA WhatWasReloaded ==
  ASSUME IInv, WasReloaded
  PROVE  /\ at \in DOMAIN corpus /\ IsEnriched(corpus[at].built, ir)
         /\ json = ModelDumpJson(ir) /\ reloaded = ModelValidateJson(json, "QueryIR")
<1>1. pc \in {"build", "search", "enrich", "dump", "reload", "file", "mine", "done"}
  BY DEF IInv, TypeInv
<1>2. pc = "file"
  BY <1>1 DEF IInv, PhaseInv, WasReloaded
<1> QED
  BY <1>2 DEF IInv, PhaseInv, WasReloaded

\* An IR in verify_query's hands is what was built or what enrich() made of it.
LEMMA WhatIsInHand ==
  ASSUME IInv, ir # Nothing
  PROVE  \E N : IsModels(ir, N) /\ 1 \in 1 .. N
<1>1. pc \in {"build", "search", "enrich", "dump", "reload", "file", "mine", "done"}
  BY DEF IInv, TypeInv
<1>2. pc \in {"search", "enrich", "dump", "reload", "file"}
  BY <1>1 DEF IInv, PhaseInv
<1>3. at \in DOMAIN corpus
  BY <1>2 DEF IInv, PhaseInv
<1>4. PICK i : i = corpus[at].built
  OBVIOUS
<1>5. IsBuilt(i)
  BY <1>3, <1>4, CorpusFacts DEF IInv
<1>6. ir = i \/ IsEnriched(i, ir)
  BY <1>2, <1>4 DEF IInv, PhaseInv
<1>7. IsEnriched(i, ir)
  BY <1>5, <1>6, BuiltIsEnriched
<1> QED
  BY <1>7 DEF IsEnriched

\* DataSurvives in every state of the invariant: what was read back is an enriched IR,
\* and ReadBack speaks of it.
LEMMA ReloadedSurvives ==
  ASSUME IInv
  PROVE  DataSurvives
<1> SUFFICES ASSUME WasReloaded PROVE IsIR(reloaded) /\ ModelDumpJson(reloaded) = json
  BY DEF DataSurvives
<1>1. PICK i, e, doc, j : /\ i = corpus[at].built /\ e = ir /\ doc = json /\ j = reloaded
  OBVIOUS
<1>2. IsEnriched(i, e) /\ doc = ModelDumpJson(e) /\ j = ModelValidateJson(doc, "QueryIR")
  BY <1>1, WhatWasReloaded
<1>3. PICK N : IsModels(e, N) /\ 1 \in 1 .. N /\ e[1].class = "QueryIR"
  BY <1>2 DEF IsEnriched
<1>4. IsIR(j) /\ ModelDumpJson(j) = doc
  BY <1>2, <1>3, RoundTrip
<1> QED
  BY <1>1, <1>4

\* For every corpus, in every run of the scripts: no data is lost on the way through JSON,
\* whatever classes reading chose (model_validate_json of model_dump_json).
THEOREM DataSurvivesAlways == Spec => []DataSurvives
BY Invariance, ReloadedSurvives, PTL

\* WalkReaches in every state of the invariant.
LEMMA WalksReach ==
  ASSUME IInv
  PROVE  WalkReaches
<1>1. ASSUME ir # Nothing PROVE DOMAIN ir \ InPairs(ir) \subseteq Walk(ir, 1)
  <2>1. PICK i : i = ir
    OBVIOUS
  <2>2. PICK N : IsModels(i, N) /\ 1 \in 1 .. N
    BY <1>1, <2>1, WhatIsInHand
  <2>3. Walk(i, 1) = DOMAIN i \ InPairs(i)
    BY <2>2, WalkOfModels
  <2> QED
    BY <2>1, <2>3
<1>2. ASSUME WasReloaded PROVE Walk(ir, 1) \ BehindAny(ir) \subseteq Walk(reloaded, 1)
  <2>1. PICK i, e, j : i = corpus[at].built /\ e = ir /\ j = reloaded
    OBVIOUS
  <2>2. IsEnriched(i, e) /\ j = ModelValidateJson(ModelDumpJson(e), "QueryIR")
    BY <1>2, <2>1, WhatWasReloaded
  <2>3. PICK N : IsModels(e, N) /\ 1 \in 1 .. N /\ e[1].class = "QueryIR"
    BY <2>2 DEF IsEnriched
  <2>4. \A n \in 1 .. N : \A f \in DOMAIN e[n].fields : e[n].fields[f].form # "lists"
    <3>1. DOMAIN e = 1 .. N
      BY <2>3, NodesOfIR DEF IsModels
    <3> QED
      BY <2>2, <3>1 DEF IsEnriched, Fresh
  <2>5. Walk(j, 1) = Walk(e, 1) \ BehindAny(e)
    BY <2>2, <2>3, <2>4, WalkOfRead
  <2> QED
    BY <2>1, <2>5
<1> QED
  BY <1>1, <1>2 DEF WalkReaches

\* For every corpus, in every run: walk() misses no node but those in pairs and, after
\* reading back, loses none but those behind a field of type Any.
THEOREM WalkReachesAlways == Spec => []WalkReaches
BY Invariance, WalksReach, PTL

\* A verdict without a category is of a query in which verify_corpus found no gap and
\* which came back as it was.
LEMMA CleanVerdict ==
  ASSUME NEW i, Verdict(i, {})
  PROVE  /\ Gaps(i, VerifyWalk(i, MainPipeline(i))) = {}
         /\ \E e : IsEnriched(i, e) /\ ~Differs(e, Reread(e))
<1>1. Found(i) = {} /\ \E e : IsEnriched(i, e) /\ ~Differs(e, Reread(e))
  BY DEF Verdict
<1>2. PICK S : S = Gaps(i, VerifyWalk(i, MainPipeline(i)))
  OBVIOUS
<1>3. Found(i) = {GapCategory(i[n].class) : n \in S}
  BY <1>2 DEF Found
<1>4. S = {}
  BY <1>1, <1>3
<1> QED
  BY <1>1, <1>2, <1>4

\* PassedMeansClean in every state of the invariant: a verdict without categories had
\* neither a gap nor a difference, and pairs behind a field of type Any make a difference.
LEMMA CleanIfPassed ==
  ASSUME IInv
  PROVE  PassedMeansClean
<1> SUFFICES ASSUME NEW p \in ToSet(passed), NEW i, i = corpus[p].built,
                    NEW main, main = Under(i, {MainPipeline(i)})
             PROVE  /\ Gaps(i, main \ InPairs(i)) = {}
                    /\ \A n \in BehindAny(i) \cap main : ~HasPairs(i, n)
  BY DEF PassedMeansClean
<1>1. p \in DOMAIN corpus /\ Verdict(i, {})
  BY DEF IInv, VerdictInv
<1>2. IsBuilt(i)
  BY <1>1, CorpusFacts DEF IInv
<1>3. /\ Gaps(i, VerifyWalk(i, MainPipeline(i))) = {}
      /\ \E e : IsEnriched(i, e) /\ ~Differs(e, Reread(e))
  BY <1>1, CleanVerdict
<1>4. PICK N, from : N = Len(i) /\ from = MainPipeline(i)
  OBVIOUS
<1>5. IsModels(i, N) /\ from \in 1 .. N
  BY <1>2, <1>4, BuiltIsModels
<1>6. main \ InPairs(i) \subseteq VerifyWalk(i, from)
  BY <1>4, <1>5, UnderIsWalked
<1>7. Gaps(i, main \ InPairs(i)) = {}
  BY <1>3, <1>4, <1>6, GapsOfMore
<1>8. ASSUME NEW n \in BehindAny(i), HasPairs(i, n) PROVE FALSE
  <2>1. PICK e : IsEnriched(i, e) /\ ~Differs(e, Reread(e))
    BY <1>3
  <2>2. PICK j : j = ModelValidateJson(ModelDumpJson(e), "QueryIR")
    OBVIOUS
  <2>3. Differs(e, j)
    BY <1>2, <1>8, <2>1, <2>2, PairsBehindAnyDiffer
  <2> QED
    BY <2>1, <2>2, <2>3 DEF Reread
<1> QED
  BY <1>7, <1>8

\* For every corpus, in every run: a query verify_corpus let pass has no gap in its main
\* pipeline outside a case(), and no case() behind a field of type Any.
THEOREM PassedMeansCleanAlways == Spec => []PassedMeansClean
BY Invariance, CleanIfPassed, PTL

\* Columns and diagnostics hold nothing.
LEMMA LeavesHoldNothing ==
  ASSUME NEW i, NEW N, IsModels(i, N), NEW n, NEW f, NEW x, HoldsIn(i, n, f, x)
  PROVE  i[n].class \notin {"ColumnRef", "Diagnostic"}
<1>1. /\ DOMAIN ExprFields["ColumnRef"] = {"name", "table"}
      /\ \A g \in {"name", "table"} : ExprFields["ColumnRef"][g].shape = "atom"
  BY DEF ExprFields, OrElse, Str, OptionalStr, Atom, Type
<1>2. \A g \in DOMAIN ExprBase : ExprBase[g].shape = "atom"
  BY DEF ExprBase, OrElse, Str, OptionalStr, TrueByDefault, Atom, Type
<1>3. "ColumnRef" \in ExprClasses /\ "ColumnRef" \in Classes
  BY DEF Classes, ExprClasses, ExprFields
<1>4. "ColumnRef" \notin OperatorClasses
  BY DEF OperatorClasses, OperatorFields
<1>5. PICK E : E = ExprFields["ColumnRef"]
  OBVIOUS
<1>6. Fields["ColumnRef"] = [g \in DOMAIN E \cup DOMAIN ExprBase |->
                               IF g \in DOMAIN ExprBase THEN ExprBase[g] ELSE E[g]]
  BY <1>3, <1>4, <1>5 DEF Fields
<1>7. \A g \in DOMAIN Fields["ColumnRef"] : Fields["ColumnRef"][g].shape = "atom"
  BY <1>1, <1>2, <1>5, <1>6
<1>8. \A g \in DOMAIN Fields["Diagnostic"] : Fields["Diagnostic"][g].shape = "atom"
  <2>1. /\ DOMAIN OtherFields["Diagnostic"] = {"message", "severity", "code", "category"}
        /\ \A g \in {"message", "severity", "code", "category"} :
             OtherFields["Diagnostic"][g].shape = "atom"
    BY DEF OtherFields, OrElse, Str, OptionalStr, Atom, Type
  <2>2. "Diagnostic" \in DOMAIN OtherFields
    BY DEF OtherFields
  <2>3. "Diagnostic" \notin ExprClasses /\ "Diagnostic" \notin OperatorClasses
    BY DEF ExprClasses, ExprFields, OperatorClasses, OperatorFields
  <2>4. Fields["Diagnostic"] = OtherFields["Diagnostic"]
    BY <2>2, <2>3 DEF Classes, Fields
  <2> QED
    BY <2>1, <2>4
<1>9. CASE i[n].class = "ColumnRef"
  BY <1>7, <1>9, AnyFields
<1>10. CASE i[n].class = "Diagnostic"
  BY <1>8, <1>10, AnyFields
<1> QED
  BY <1>9, <1>10

\* A query holds diagnostics as such.
LEMMA DiagnosticsHeld ==
  ASSUME NEW i, IsBuilt(i), NEW x, HoldsIn(i, 1, "diagnostics", x)
  PROVE  i[x].class = "Diagnostic"
<1>1. PICK N : N = Len(i)
  OBVIOUS
<1>2. IsModels(i, N) /\ i[1].class = "QueryIR"
  BY <1>1, BuiltIsModels
<1>3. OtherFields["QueryIR"]["diagnostics"].of = <<"Diagnostic">>
  BY DEF OtherFields, OrElse, Many, Type
<1>4. Fields["QueryIR"]["diagnostics"].of = <<"Diagnostic">>
  BY <1>3, EnrichedClasses
<1>5. /\ IsField(Fields["QueryIR"]["diagnostics"], i[1].fields["diagnostics"], i)
      /\ Fields["QueryIR"]["diagnostics"].shape \notin {"atom", "any"}
  BY <1>2, AnyFields
<1>6. x \in ToSet(i[1].fields["diagnostics"].kids)
  BY DEF HoldsIn
<1>7. i[x].class \in ToSet(<<"Diagnostic">>)
  BY <1>4, <1>5, <1>6 DEF IsField
<1> QED
  BY <1>7, SingleSet

\* Of one text: a node of the one that is reached without schemas is reached with them.
LEMMA SameWalk ==
  ASSUME NEW i, NEW b, IsBuilt(i), IsBuilt(b), SameText(i, b),
         NEW x \in Parts(i), x \in VerifyWalk(b, MainPipeline(b))
  PROVE  x \in VerifyWalk(i, MainPipeline(i))
<1>1. PICK N, M, main, P : N = Len(i) /\ M = Len(b) /\ main = MainPipeline(i) /\ P = Parts(i)
  OBVIOUS
<1>2. /\ IsModels(i, N) /\ IsIR(i) /\ DOMAIN i = 1 .. N /\ main \in 1 .. N /\ 1 \in 1 .. N
      /\ i[1].class = "QueryIR" /\ \A n \in 1 .. N : IsNodeAt(i, n, N) /\ i[n].class # Dict
  BY <1>1, BuiltIsModels, NodesOfIR DEF IsModels
<1>3. /\ IsModels(b, M) /\ IsIR(b) /\ DOMAIN b = 1 .. M /\ MainPipeline(b) \in 1 .. M
      /\ 1 \in 1 .. M /\ \A n \in 1 .. M : IsNodeAt(b, n, M) /\ b[n].class # Dict
  BY <1>1, BuiltIsModels, NodesOfIR DEF IsModels
<1>4. \A n \in P :
        \/ /\ b[n].class = i[n].class
           /\ \A f \in DOMAIN i[n].fields :
                \/ n = 1 /\ f = "diagnostics"
                \/ /\ b[n].fields[f].kids = i[n].fields[f].kids
                   /\ i[n].fields[f].kids # << >> => b[n].fields[f].form = i[n].fields[f].form
        \/ /\ i[n].class = "ColumnRef" /\ b[n].class = "PathExpr"
           /\ KidsOf(b[n].fields) \cap P = {}
  BY <1>1 DEF SameText
<1>5. /\ P \subseteq 1 .. N /\ P \subseteq 1 .. M /\ 1 \in P
      /\ \A n \in P : i[n].class # "Diagnostic"
      /\ \A n \in (1 .. M) \ P : b[n].class \in {"ColumnRef", "Diagnostic"}
  BY <1>1, <1>2, <1>3 DEF SameText, Parts
<1>6. MainPipeline(b) = main
  <2>1. "main_pipeline" \in DOMAIN i[1].fields
    BY <1>1, BuiltIsModels
  <2>2. b[1].fields["main_pipeline"].kids = i[1].fields["main_pipeline"].kids
    BY <1>2, <1>4, <1>5, <2>1
  <2> QED
    BY <1>1, <2>2 DEF MainPipeline
<1>7. PICK V, W : V = Walk(i, main) /\ W = Walk(b, main)
  OBVIOUS
<1>8. V = VerifyWalk(i, MainPipeline(i)) /\ W = VerifyWalk(b, MainPipeline(b))
  BY <1>1, <1>6, <1>7 DEF VerifyWalk, Walk
<1>9. /\ main \in V
      /\ \A n, f, y : HoldsIn(i, n, f, y) =>
           (y \in V <=> y = main \/ (/\ n \in V
                                     /\ i[n].fields[f].form \in {"one", "list"} /\ i[y].class # Dict))
  BY <1>1, <1>2, <1>7, WalkStep
<1>10. \A n, f, y : HoldsIn(b, n, f, y) =>
         (y \in W <=> y = main \/ (/\ n \in W
                                   /\ b[n].fields[f].form \in {"one", "list"} /\ b[y].class # Dict))
  BY <1>1, <1>3, <1>6, <1>7, WalkStep
<1> DEFINE T == {y \in 1 .. M : y \in P /\ y \in W => y \in V}
<1>11. 1 \in T
  <2>1. ASSUME 1 \in W PROVE 1 = main
    <3>1. \A n, f : ~ HoldsIn(b, n, f, 1)
      BY <1>1, <1>3, HoldsBehind
    <3> QED
      BY <1>1, <1>3, <1>6, <1>7, <2>1, <3>1, WalkHeld
  <2> QED
    BY <1>3, <1>9, <2>1
<1>12. ASSUME NEW n, NEW f, NEW y, HoldsIn(b, n, f, y), n \in T PROVE y \in T
  <2>1. y \in 1 .. M /\ n \in 1 .. M
    BY <1>1, <1>3, <1>12, HoldsBehind
  <2>2. ASSUME y \in P, y \in W, y # main PROVE y \in V
    <3>1. n \in W /\ b[n].fields[f].form \in {"one", "list"}
      BY <1>10, <1>12, <2>2
    <3>2. n \in P
      BY <1>3, <1>5, <1>12, <2>1, LeavesHoldNothing
    <3>3. y \in KidsOf(b[n].fields)
      BY <1>12 DEF HoldsIn, KidsOf
    <3>4. ~ (n = 1 /\ f = "diagnostics")
      <4>1. ASSUME n = 1, f = "diagnostics" PROVE FALSE
        <5>1. b[y].class = "Diagnostic"
          BY <1>12, <4>1, DiagnosticsHeld
        <5>2. b[y].class = i[y].class \/ b[y].class = "PathExpr"
          BY <1>4, <2>2
        <5> QED
          BY <1>5, <2>2, <5>1, <5>2
      <4> QED
        BY <4>1
    <3>5. /\ b[n].class = i[n].class
          /\ \A g \in DOMAIN i[n].fields :
               \/ n = 1 /\ g = "diagnostics"
               \/ /\ b[n].fields[g].kids = i[n].fields[g].kids
                  /\ i[n].fields[g].kids # << >> => b[n].fields[g].form = i[n].fields[g].form
      BY <1>4, <2>2, <3>2, <3>3
    <3>6. DOMAIN i[n].fields = DOMAIN b[n].fields
      BY <1>2, <1>3, <1>5, <2>1, <3>2, <3>5 DEF IsNodeAt
    <3>7. f \in DOMAIN i[n].fields /\ y \in ToSet(i[n].fields[f].kids)
      BY <1>12, <3>4, <3>5, <3>6 DEF HoldsIn
    <3>8. HoldsIn(i, n, f, y) /\ i[n].fields[f].form \in {"one", "list"}
      <4>1. i[n].fields[f].kids # << >>
        BY <3>7 DEF ToSet
      <4> QED
        BY <1>2, <1>5, <3>1, <3>2, <3>4, <3>5, <3>7, <4>1 DEF HoldsIn
    <3>9. n \in V
      BY <1>12, <3>1, <3>2
    <3> QED
      BY <1>2, <1>5, <1>9, <2>2, <3>8, <3>9
  <2> QED
    BY <1>9, <2>1, <2>2
<1>13. 1 .. M \subseteq T
  <2> HIDE DEF T
  <2> QED
    BY <1>1, <1>3, <1>11, <1>12, InductionDown
<1> QED
  BY <1>1, <1>5, <1>8, <1>13

\* A gap mine_corpus counts is a category verify_corpus found.
LEMMA MinedIsFound ==
  ASSUME NEW i, NEW b, IsBuilt(i), IsBuilt(b), SameText(i, b), NEW n \in Gaps(b, MineWalk(b))
  PROVE  /\ n \in Gaps(i, VerifyWalk(i, MainPipeline(i)))
         /\ b[n].class = i[n].class /\ GapCategory(i[n].class) \in Found(i)
<1>1. n \in VerifyWalk(b, MainPipeline(b)) /\ b[n].class \in {"Operator", "UnknownExpr", "UnknownSource"}
  BY MinedIsWalked DEF Gaps
<1>2. n \in DOMAIN b
  <2>1. PICK M, main : M = Len(b) /\ main = MainPipeline(b)
    OBVIOUS
  <2>2. IsIR(b) /\ main \in 1 .. M /\ DOMAIN b = 1 .. M
    BY <2>1, BuiltIsModels, NodesOfIR DEF IsBuilt
  <2>3. VerifyWalk(b, main) = Walk(b, main)
    BY DEF VerifyWalk, Walk
  <2>4. Walk(b, main) \subseteq 1 .. M
    BY <2>1, <2>2, WalkStep
  <2> QED
    BY <1>1, <2>1, <2>2, <2>3, <2>4
<1>3. n \in Parts(i) /\ b[n].class = i[n].class
  BY <1>1, <1>2 DEF SameText
<1>4. n \in Gaps(i, VerifyWalk(i, MainPipeline(i)))
  BY <1>1, <1>3, SameWalk DEF Gaps
<1> QED
  BY <1>3, <1>4 DEF Found

\* MinedIsVerified in every state of the invariant.
LEMMA VerifiedIfMined ==
  ASSUME IInv
  PROVE  MinedIsVerified
<1> SUFFICES ASSUME pc = "done", NEW g \in mined
             PROVE  \/ FailureIn(g[1], GapCategory(ClassOf(g)))
                    \/ FailureIn(g[1], "builder_exception")
  BY DEF MinedIsVerified
<1>1. PICK q \in DOMAIN corpus :
        \E n \in Gaps(corpus[q].bare, MineWalk(corpus[q].bare)) : g = <<q, n>>
  BY DEF IInv, MinedInv
<1>2. PICK i, b : i = corpus[q].built /\ b = corpus[q].bare
  OBVIOUS
<1>3. PICK n \in Gaps(b, MineWalk(b)) : g = <<q, n>>
  BY <1>1, <1>2
<1>4. g[1] = q /\ ClassOf(g) = b[n].class
  BY <1>2, <1>3 DEF ClassOf
<1>5. IsBuilt(i) /\ IsBuilt(b) /\ SameText(i, b)
  BY <1>2, CorpusFacts DEF IInv
<1>6. PICK category : category = GapCategory(b[n].class)
  OBVIOUS
<1>7. n \in Gaps(i, VerifyWalk(i, MainPipeline(i))) /\ category \in Found(i)
  BY <1>3, <1>5, <1>6, MinedIsFound
<1>8. IsFiled(q)
  BY DEF IInv, VerdictInv, Filed
<1>9. q \notin ToSet(passed)
  <2>1. ASSUME q \in ToSet(passed) PROVE FALSE
    <3>1. Verdict(i, {})
      BY <1>2, <2>1 DEF IInv, VerdictInv
    <3> QED
      BY <1>7, <3>1, CleanVerdict
  <2> QED
    BY <2>1
<1>10. PICK k \in DOMAIN failures : failures[k].id = q /\ Verdict(i, failures[k].categories)
  BY <1>2, <1>8, <1>9 DEF IsFiled
<1>11. "builder_exception" \in failures[k].categories \/ category \in failures[k].categories
  BY <1>7, <1>10 DEF Verdict
<1>12. FailureIn(q, "builder_exception") \/ FailureIn(q, category)
  BY <1>10, <1>11 DEF FailureIn
<1> QED
  BY <1>4, <1>6, <1>12

\* For every corpus, when both scripts are through: each gap mine_corpus counted is among
\* the failures of verify_corpus, unless that could not build the query.
THEOREM MinedIsVerifiedAlways == Spec => []MinedIsVerified
BY Invariance, VerifiedIfMined, PTL

-----------------------------------------------------------------------------
(* The view for language models.                                           *)

Collapsed == {"BinOp", "SetMembership", "Between"}

\* The tables of the classes whose polarity is said in their operator.
LEMMA CollapsedFields ==
  /\ \A C \in Collapsed : /\ C \in Classes /\ "polarity" \in DOMAIN Fields[C]
                          /\ Fields[C]["polarity"] = Str
  /\ "op" \in DOMAIN Fields["BinOp"]
  /\ \A C \in {"SetMembership", "Between"} : "op" \notin DOMAIN Fields[C]
<1>1. /\ Collapsed \subseteq ExprClasses
      /\ \A C \in Collapsed : "polarity" \in DOMAIN ExprFields[C] /\ ExprFields[C]["polarity"] = Str
      /\ "op" \in DOMAIN ExprFields["BinOp"]
      /\ \A C \in {"SetMembership", "Between"} : "op" \notin DOMAIN ExprFields[C]
  BY DEF Collapsed, ExprClasses, ExprFields
<1>2. DOMAIN ExprBase = {"result_type", "result_type_inner", "nullable", "canonical_form"}
  BY DEF ExprBase
<1>3. ASSUME NEW C \in Collapsed
      PROVE  /\ C \in Classes
             /\ Fields[C] = [f \in DOMAIN ExprFields[C] \cup DOMAIN ExprBase |->
                               IF f \in DOMAIN ExprBase THEN ExprBase[f] ELSE ExprFields[C][f]]
  <2>1. C \in ExprClasses /\ C \in Classes
    BY <1>1 DEF Classes
  <2>2. C \notin OperatorClasses
    BY DEF Collapsed, OperatorClasses, OperatorFields
  <2> QED
    BY <2>1, <2>2 DEF Fields
<1>4. "BinOp" \in Collapsed /\ \A C \in {"SetMembership", "Between"} : C \in Collapsed
  BY DEF Collapsed
<1>5. ASSUME NEW C \in Collapsed
      PROVE  /\ C \in Classes /\ "polarity" \in DOMAIN Fields[C] /\ Fields[C]["polarity"] = Str
             /\ "op" \in DOMAIN Fields[C] <=> "op" \in DOMAIN ExprFields[C]
  <2>1. PICK E : E = ExprFields[C]
    OBVIOUS
  <2>2. "polarity" \in DOMAIN E /\ E["polarity"] = Str
    BY <1>1, <2>1
  <2>3. C \in Classes /\ Fields[C] = [f \in DOMAIN E \cup DOMAIN ExprBase |->
                                       IF f \in DOMAIN ExprBase THEN ExprBase[f] ELSE E[f]]
    BY <1>3, <2>1
  <2> QED
    BY <1>2, <2>1, <2>2, <2>3
<1> QED
  BY <1>1, <1>4, <1>5

\* Under which name a field is rendered.
LEMMA NamesOfFields ==
  ASSUME NEW C \in Classes, NEW f \in DOMAIN Fields[C]
  PROVE  /\ Renamed(C, f) # "kind"
         /\ \A g \in DOMAIN Fields[C] : Renamed(C, g) = Renamed(C, f) => g = f
         /\ C \in Collapsed \cup {"ColumnRef", "LiteralExpr"} => Renamed(C, f) = f
<1>1. DOMAIN FieldRenames = {"RenderOp", "JoinOp", "LookupOp"}
  BY DEF FieldRenames
<1>2. C \in Collapsed \cup {"ColumnRef", "LiteralExpr"} => Renamed(C, f) = f
  BY <1>1 DEF Renamed, Collapsed
<1> QED
  BY <1>2, ViewAssumption

\* Render, one field at a time.
LEMMA RenderDef ==
  ASSUME NEW C \in Classes, NEW F, DOMAIN F = DOMAIN Fields[C],
         NEW out, out = Render(C, F), NEW S, S = Rendered(C, F)
  PROVE  /\ S \subseteq DOMAIN Fields[C]
         /\ "kind" \in DOMAIN out /\ out["kind"] = Text(C)
         /\ \A f \in S : out[Renamed(C, f)] = AsJson(F[f])
         /\ \A f \in DOMAIN Fields[C] : Renamed(C, f) \in DOMAIN out <=> f \in S
<1>1. S \subseteq DOMAIN Fields[C]
  BY DEF Rendered
<1>2. PICK named : named = {Renamed(C, f) : f \in S}
  OBVIOUS
<1> DEFINE fieldOf(k) == CHOOSE f \in S : Renamed(C, f) = k
<1>3. out = [k \in {"kind"} \cup named |->
               IF k \in named THEN AsJson(F[fieldOf(k)]) ELSE Text(C)]
  BY <1>2 DEF Render
<1>4. "kind" \notin named
  BY <1>1, <1>2, NamesOfFields
<1>5. ASSUME NEW f \in S PROVE out[Renamed(C, f)] = AsJson(F[f])
  <2>1. PICK k : k = Renamed(C, f)
    OBVIOUS
  <2>2. PICK g : g = fieldOf(k)
    OBVIOUS
  <2>3. g \in S /\ Renamed(C, g) = k
    BY <2>1, <2>2
  <2> HIDE DEF fieldOf
  <2>4. g = f
    BY <1>1, <2>1, <2>3, NamesOfFields
  <2>5. k \in named
    BY <1>2, <2>1
  <2> QED
    BY <1>3, <2>1, <2>2, <2>4, <2>5
<1>6. ASSUME NEW f \in DOMAIN Fields[C] PROVE Renamed(C, f) \in DOMAIN out <=> f \in S
  <2>1. Renamed(C, f) \in DOMAIN out <=> Renamed(C, f) \in named
    BY <1>3, NamesOfFields
  <2>2. Renamed(C, f) \in named <=> f \in S
    BY <1>1, <1>2, NamesOfFields
  <2> QED
    BY <2>1, <2>2
<1> QED
  BY <1>1, <1>3, <1>4, <1>5, <1>6

\* Two documents agree on a key.
Agree(v, w, k) == (k \in DOMAIN v <=> k \in DOMAIN w) /\ (k \in DOMAIN v => v[k] = w[k])

\* Only the canonical form can be dropped, and only of names and literals.
LEMMA DropDef ==
  ASSUME NEW C, NEW out, NEW d, d = DropRedundantCanonicalForm(C, out)
  PROVE  /\ \A k : k # "canonical_form" => Agree(d, out, k)
         /\ C \notin {"ColumnRef", "LiteralExpr"} => d = out
<1>1. d = out \/ d = Without(out, "canonical_form")
  BY DEF DropRedundantCanonicalForm
<1>2. C \notin {"ColumnRef", "LiteralExpr"} => d = out
  BY DEF DropRedundantCanonicalForm
<1>3. ASSUME NEW k, k # "canonical_form" PROVE Agree(d, out, k)
  BY <1>1, <1>3 DEF Agree, Without
<1> QED
  BY <1>2, <1>3

\* Only the polarity is dropped, and the operator put in its place.
LEMMA CollapseDef ==
  ASSUME NEW C, NEW d, NEW w, w = CollapsePolarityIntoOp(C, d)
  PROVE  /\ C \notin Collapsed => w = d
         /\ C = "BinOp" => \A k : k # "polarity" => Agree(w, d, k)
         /\ C \in {"SetMembership", "Between"} =>
              \A k : k \notin {"polarity", "op"} => Agree(w, d, k)
         /\ C = "SetMembership" =>
              w["op"] = Text(IF d["polarity"].data = "exclusion" THEN "!in" ELSE "in")
         /\ C = "Between" =>
              w["op"] = Text(IF d["polarity"].data = "exclusion" THEN "!between" ELSE "between")
<1>1. C \notin Collapsed => w = d
  BY DEF Collapsed, CollapsePolarityIntoOp
<1>2. ASSUME C = "BinOp", NEW k, k # "polarity" PROVE Agree(w, d, k)
  <2>1. w = Without(d, "polarity")
    BY <1>2 DEF CollapsePolarityIntoOp
  <2> QED
    BY <1>2, <2>1 DEF Agree, Without
<1>3. ASSUME C \in {"SetMembership", "Between"}
      PROVE  \E op : w = WithOp(d, op)
  BY <1>3 DEF CollapsePolarityIntoOp
<1>4. ASSUME C \in {"SetMembership", "Between"}, NEW k, k \notin {"polarity", "op"}
      PROVE  Agree(w, d, k)
  <2>1. PICK op : w = WithOp(d, op)
    BY <1>3, <1>4
  <2> QED
    BY <1>4, <2>1 DEF Agree, WithOp
<1>5. ASSUME NEW op PROVE WithOp(d, op)["op"] = Text(op)
  BY DEF WithOp
<1>6. C = "SetMembership" =>
        w["op"] = Text(IF d["polarity"].data = "exclusion" THEN "!in" ELSE "in")
  BY <1>5 DEF CollapsePolarityIntoOp
<1>7. C = "Between" =>
        w["op"] = Text(IF d["polarity"].data = "exclusion" THEN "!between" ELSE "between")
  BY <1>5 DEF CollapsePolarityIntoOp
<1> QED
  BY <1>1, <1>2, <1>4, <1>6, <1>7

\* What the view of a node shows.
InView(C, f) ==
  /\ f # "schema_attached"
  /\ f = "canonical_form" => C \notin {"ColumnRef", "LiteralExpr"}
  /\ f = "polarity" => C \notin Collapsed
Shows(w, C, F) ==
  /\ w["kind"] = Text(C)
  /\ \A f \in DOMAIN Fields[C] : InView(C, f) =>
       /\ Renamed(C, f) \in DOMAIN w <=> f \in Rendered(C, F)
       /\ f \in Rendered(C, F) => w[Renamed(C, f)] = AsJson(F[f])
  /\ C = "SetMembership" =>
       w["op"] = Text(IF F["polarity"].data = "exclusion" THEN "!in" ELSE "in")
  /\ C = "Between" =>
       w["op"] = Text(IF F["polarity"].data = "exclusion" THEN "!between" ELSE "between")

\* A polarity is rendered: it has no default.
LEMMA PolarityIsRendered ==
  ASSUME NEW C \in Collapsed, NEW F, DOMAIN F = DOMAIN Fields[C], NEW nodes, NEW i,
         IsValue(F["polarity"], nodes), IsField(Fields[C]["polarity"], F["polarity"], i)
  PROVE  /\ "polarity" \in Rendered(C, F)
         /\ F["polarity"] = Text(F["polarity"].data) /\ AsJson(F["polarity"]) = F["polarity"]
<1>1. "polarity" \in DOMAIN F /\ Fields[C]["polarity"] = Str
  BY CollapsedFields
<1>2. PICK v : v = F["polarity"]
  OBVIOUS
<1>3. Str.shape = "atom" /\ Str.of = {"str"} /\ Str.default.form = "missing"
  BY DEF Str, Atom, Type, Missing, Value
<1>4. v.form = "str" /\ v.kids = << >>
  BY <1>1, <1>2, <1>3 DEF IsField
<1>5. v = Text(v.data)
  BY <1>2, <1>4 DEF IsValue, Text
<1>6. v # Str.default
  BY <1>3, <1>4
<1>7. "polarity" \in Rendered(C, F)
  BY <1>1, <1>2, <1>4, <1>6 DEF Rendered, OmitFields
<1>8. AsJson(v) = v
  BY <1>4 DEF AsJson
<1> QED
  BY <1>2, <1>5, <1>7, <1>8

\* The view shows this of every node.
LEMMA ViewShows ==
  ASSUME NEW C \in Classes, NEW F, DOMAIN F = DOMAIN Fields[C], NEW nodes, NEW i,
         \A f \in DOMAIN F : IsValue(F[f], nodes) /\ IsField(Fields[C][f], F[f], i),
         NEW w, w = Convert(C, F)
  PROVE  Shows(w, C, F)
<1>1. PICK out, S : out = Render(C, F) /\ S = Rendered(C, F)
  OBVIOUS
<1>2. PICK d : d = DropRedundantCanonicalForm(C, out)
  OBVIOUS
<1>3. w = CollapsePolarityIntoOp(C, d)
  BY <1>1, <1>2, TablesAssumption DEF Convert
<1>4. /\ S \subseteq DOMAIN Fields[C]
      /\ "kind" \in DOMAIN out /\ out["kind"] = Text(C)
      /\ \A f \in S : out[Renamed(C, f)] = AsJson(F[f])
      /\ \A f \in DOMAIN Fields[C] : Renamed(C, f) \in DOMAIN out <=> f \in S
  BY <1>1, RenderDef
<1>5. /\ \A k : k # "canonical_form" => Agree(d, out, k)
      /\ C \notin {"ColumnRef", "LiteralExpr"} => d = out
  BY <1>2, DropDef
<1>6. /\ C \notin Collapsed => w = d
      /\ C = "BinOp" => \A k : k # "polarity" => Agree(w, d, k)
      /\ C \in {"SetMembership", "Between"} =>
           \A k : k \notin {"polarity", "op"} => Agree(w, d, k)
  BY <1>3, CollapseDef
<1>7. C \notin Collapsed \/ C = "BinOp" \/ C \in {"SetMembership", "Between"}
  BY DEF Collapsed
<1>8. w["kind"] = Text(C)
  <2>1. "kind" \in DOMAIN d /\ d["kind"] = Text(C)
    BY <1>4, <1>5 DEF Agree
  <2>2. Agree(w, d, "kind")
    BY <1>6, <1>7 DEF Agree
  <2> QED
    BY <2>1, <2>2 DEF Agree
<1>9. ASSUME NEW f \in DOMAIN Fields[C], InView(C, f)
      PROVE  /\ Renamed(C, f) \in DOMAIN w <=> f \in S
             /\ f \in S => w[Renamed(C, f)] = AsJson(F[f])
  <2>1. PICK k : k = Renamed(C, f)
    OBVIOUS
  <2>2. C \in Collapsed \cup {"ColumnRef", "LiteralExpr"} => k = f
    BY <2>1, NamesOfFields
  <2>3. Agree(d, out, k)
    <3>1. CASE C \in {"ColumnRef", "LiteralExpr"}
      BY <1>5, <1>9, <2>2, <3>1 DEF InView
    <3>2. CASE C \notin {"ColumnRef", "LiteralExpr"}
      BY <1>5, <3>2 DEF Agree
    <3> QED
      BY <3>1, <3>2
  <2>4. Agree(w, d, k)
    <3>1. CASE C \notin Collapsed
      BY <1>6, <3>1 DEF Agree
    <3>2. CASE C = "BinOp"
      BY <1>6, <1>9, <2>2, <3>2 DEF InView, Collapsed
    <3>3. CASE C \in {"SetMembership", "Between"}
      <4>1. k = f /\ f # "polarity"
        BY <1>9, <2>2, <3>3 DEF InView, Collapsed
      <4>2. f # "op"
        BY <3>3, CollapsedFields
      <4> QED
        BY <1>6, <3>3, <4>1, <4>2
    <3> QED
      BY <1>7, <3>1, <3>2, <3>3
  <2> QED
    BY <1>4, <2>1, <2>3, <2>4 DEF Agree
<1>10. C \in Collapsed => d["polarity"] = F["polarity"]
  <2> SUFFICES ASSUME C \in Collapsed PROVE d["polarity"] = F["polarity"]
    OBVIOUS
  <2>1. "polarity" \in DOMAIN F
    BY CollapsedFields
  <2>2. "polarity" \in S /\ AsJson(F["polarity"]) = F["polarity"]
    BY <1>1, <2>1, PolarityIsRendered
  <2>3. Renamed(C, "polarity") = "polarity"
    BY <2>1, NamesOfFields
  <2>4. d = out
    BY <1>5 DEF Collapsed
  <2> QED
    BY <1>4, <2>2, <2>3, <2>4
<1>11. /\ C = "SetMembership" =>
            w["op"] = Text(IF F["polarity"].data = "exclusion" THEN "!in" ELSE "in")
       /\ C = "Between" =>
            w["op"] = Text(IF F["polarity"].data = "exclusion" THEN "!between" ELSE "between")
  BY <1>3, <1>10, CollapseDef DEF Collapsed
<1> QED
  BY <1>1, <1>8, <1>9, <1>11 DEF Shows

\* Values that are written alike are the same, where there are no lists for tuples.
LEMMA SameValue ==
  ASSUME NEW nodes, NEW v, IsValue(v, nodes), v.form # "lists",
         NEW w, IsValue(w, nodes), w.form # "lists", AsJson(v) = AsJson(w)
  PROVE  v = w
<1>1. PICK a, b : a = AsJson(v) /\ b = AsJson(w)
  OBVIOUS
<1>2. /\ a.form = IF v.form = "pairs" THEN "lists" ELSE v.form
      /\ a.kids = v.kids /\ a.data = v.data
      /\ b.form = IF w.form = "pairs" THEN "lists" ELSE w.form
      /\ b.kids = w.kids /\ b.data = w.data
  BY <1>1, ValueAsJson
<1>3. v.form = w.form /\ v.kids = w.kids /\ v.data = w.data
  BY <1>1, <1>2
<1>4. v = Value(v.form, v.data, v.kids) /\ w = Value(w.form, w.data, w.kids)
  BY DEF IsValue
<1> QED
  BY <1>3, <1>4

\* A value that is not rendered can have been but one.
IsLeftOut(v, type) == v = type.default \/ v.form \in {"empty", "nomap"}

\* Empty lists and dicts have no data.
LEMMA EmptyIsOne ==
  ASSUME NEW nodes, NEW v, IsValue(v, nodes), v.form \in {"empty", "nomap"}
  PROVE  v = Value(v.form, "", << >>)
<1>1. v.kids = << >> /\ v.data = "" /\ v = Value(v.form, v.data, v.kids)
  BY DEF IsValue, Holding
<1> QED
  BY <1>1

\* Two values of one field that are both left out are the same.
LEMMA SameLeftOut ==
  ASSUME NEW C \in Classes, NEW f \in DOMAIN Fields[C], NEW type, type = Fields[C][f],
         type.shape # "any", NEW nodes, NEW i, NEW j,
         NEW v, IsValue(v, nodes), IsField(type, v, i), IsLeftOut(v, type),
         NEW w, IsValue(w, nodes), IsField(type, w, j), IsLeftOut(w, type)
  PROVE  v = w
<1>1. type.shape \in {"atom", "one", "optional", "many", "pairs"}
  BY ShapesOfFields
<1>2. CASE type.shape \in {"one", "optional"}
  <2>1. v.form \in {"one", "null"} /\ w.form \in {"one", "null"}
    BY <1>2 DEF IsField, FormsOf
  <2> QED
    BY <2>1 DEF IsLeftOut
<1>3. CASE type.shape \in {"atom", "many", "pairs"}
  <2>1. PICK leftOut : leftOut = {"empty", "nomap"} \cap
                                   IF type.shape = "atom" THEN type.of ELSE {"empty"}
    OBVIOUS
  <2>2. /\ leftOut # {"empty", "nomap"} /\ leftOut \subseteq {"empty", "nomap"}
        /\ \A form \in leftOut : type.default \in {Missing, Value(form, "", << >>)}
    BY <1>3, <2>1, ViewAssumption
  <2>3. /\ v.form \in {"empty", "nomap"} => v.form \in leftOut
        /\ w.form \in {"empty", "nomap"} => w.form \in leftOut
    BY <1>3, <2>1 DEF IsField, FormsOf
  <2>4. v # Missing /\ w # Missing
    <3>1. v.form \in Forms /\ w.form \in Forms
      BY DEF IsValue
    <3>2. "missing" \notin Forms /\ Missing.form = "missing"
      BY DEF Forms, Missing, Value
    <3> QED
      BY <3>1, <3>2
  <2>5. /\ v.form \in {"empty", "nomap"} => v = Value(v.form, "", << >>)
        /\ w.form \in {"empty", "nomap"} => w = Value(w.form, "", << >>)
    BY EmptyIsOne
  <2>6. CASE v.form \in {"empty", "nomap"} /\ w.form \in {"empty", "nomap"}
    <3>1. v.form = w.form
      BY <2>2, <2>3, <2>6
    <3> QED
      BY <2>5, <2>6, <3>1
  <2>7. CASE v.form \in {"empty", "nomap"} /\ w = type.default
    BY <2>2, <2>3, <2>4, <2>5, <2>7
  <2>8. CASE w.form \in {"empty", "nomap"} /\ v = type.default
    BY <2>2, <2>3, <2>4, <2>5, <2>8
  <2> QED
    BY <2>6, <2>7, <2>8 DEF IsLeftOut
<1> QED
  BY <1>1, <1>2, <1>3

\* What the builder makes of one node, as far as the view depends on it.
IsViewed(C, F, nodes, i) ==
  /\ C \in Classes /\ DOMAIN F = DOMAIN Fields[C]
  /\ \A f \in DOMAIN F : /\ IsValue(F[f], nodes) /\ IsField(Fields[C][f], F[f], i)
                         /\ F[f].form # "lists"
                         /\ Fields[C][f].shape = "any" => F[f].form = "one"
  /\ C = "BinOp" => F["polarity"].data = Polarity(F["op"].data \in NegatedOps)
  /\ C \in {"SetMembership", "Between"} =>
       \E negated \in BOOLEAN : F["polarity"].data = Polarity(negated)

\* The builder makes such nodes.
LEMMA BuiltIsViewed ==
  ASSUME NEW i, IsBuilt(i), NEW N, N = Len(i), NEW n \in 1 .. N
  PROVE  IsViewed(i[n].class, i[n].fields, n + 1 .. N, i)
<1>1. IsIR(i) /\ DOMAIN i = 1 .. N /\ IsNodeAt(i, n, N)
  BY NodesOfIR DEF IsBuilt
<1>2. PICK C, F : C = i[n].class /\ F = i[n].fields
  OBVIOUS
<1>3. /\ C # Dict /\ \A f \in DOMAIN F : F[f].form # "lists"
      /\ C \in {"MaterializeExpr", "ToScalarExpr"} => F["pipeline"].form = "one"
      /\ C = "BinOp" => F["polarity"].data = Polarity(F["op"].data \in NegatedOps)
      /\ C \in {"SetMembership", "Between"} =>
           \E negated \in BOOLEAN : F["polarity"].data = Polarity(negated)
  <2>1. n \in DOMAIN i
    BY <1>1
  <2> QED
    BY <1>2, <2>1 DEF IsBuilt
<1>4. /\ C \in Classes /\ DOMAIN F = DOMAIN Fields[C]
      /\ \A f \in DOMAIN F : IsValue(F[f], n + 1 .. N) /\ IsField(Fields[C][f], F[f], i)
  BY <1>1, <1>2, <1>3 DEF IsNodeAt
<1>5. \A f \in DOMAIN F : Fields[C][f].shape = "any" => F[f].form = "one"
  BY <1>3, <1>4, ShapesOfFields
<1> QED
  BY <1>2, <1>3, <1>4, <1>5 DEF IsViewed

\* A field the view shows is the same in two nodes with one view.
LEMMA ShownIsSame ==
  ASSUME NEW C, NEW F, NEW G, NEW nodes, NEW i, NEW j,
         IsViewed(C, F, nodes, i), IsViewed(C, G, nodes, j),
         NEW w, Shows(w, C, F), Shows(w, C, G), NEW f \in DOMAIN F, InView(C, f)
  PROVE  F[f] = G[f]
<1>1. C \in Classes /\ f \in DOMAIN Fields[C] /\ DOMAIN F = DOMAIN Fields[C] /\ DOMAIN G = DOMAIN Fields[C]
  BY DEF IsViewed
<1>2. f \in Rendered(C, F) <=> f \in Rendered(C, G)
  BY <1>1 DEF Shows
<1>3. PICK v, u, type : v = F[f] /\ u = G[f] /\ type = Fields[C][f]
  OBVIOUS
<1>4. /\ IsValue(v, nodes) /\ IsField(type, v, i) /\ v.form # "lists"
      /\ IsValue(u, nodes) /\ IsField(type, u, j) /\ u.form # "lists"
      /\ type.shape = "any" => v.form = "one" /\ u.form = "one"
  BY <1>1, <1>3 DEF IsViewed
<1>5. CASE f \in Rendered(C, F)
  <2>1. AsJson(v) = AsJson(u)
    BY <1>1, <1>2, <1>3, <1>5 DEF Shows
  <2> QED
    BY <1>3, <1>4, <2>1, SameValue
<1>6. CASE f \notin Rendered(C, F)
  <2>1. f \in DOMAIN F \ OmitFields /\ f \in DOMAIN G \ OmitFields
    BY <1>1 DEF InView, OmitFields
  <2>2. IsLeftOut(v, type) /\ IsLeftOut(u, type)
    BY <1>2, <1>3, <1>6, <2>1 DEF Rendered, IsLeftOut
  <2>3. CASE type.shape = "any"
    BY <1>3, <1>4, <2>2, <2>3 DEF IsLeftOut
  <2>4. CASE type.shape # "any"
    BY <1>1, <1>3, <1>4, <2>2, <2>4, SameLeftOut
  <2> QED
    BY <2>3, <2>4
<1> QED
  BY <1>5, <1>6

\* And so is the polarity, which the operator tells.
LEMMA PolarityIsSame ==
  ASSUME NEW C \in Collapsed, NEW F, NEW G, NEW nodes, NEW i, NEW j,
         IsViewed(C, F, nodes, i), IsViewed(C, G, nodes, j),
         NEW w, Shows(w, C, F), Shows(w, C, G)
  PROVE  F["polarity"] = G["polarity"]
<1>1. "polarity" \in DOMAIN F /\ "polarity" \in DOMAIN G
  BY CollapsedFields DEF IsViewed
<1>2. F["polarity"] = Text(F["polarity"].data) /\ G["polarity"] = Text(G["polarity"].data)
  BY <1>1, PolarityIsRendered DEF IsViewed
<1>3. F["polarity"].data = G["polarity"].data
  <2>1. CASE C = "BinOp"
    <3>1. "op" \in DOMAIN F /\ InView(C, "op")
      BY <2>1, CollapsedFields DEF IsViewed, InView
    <3>2. F["op"] = G["op"]
      BY <3>1, ShownIsSame
    <3> QED
      BY <2>1, <3>2 DEF IsViewed
  <2>2. CASE C \in {"SetMembership", "Between"}
    <3>1. PICK p, q : p = F["polarity"].data /\ q = G["polarity"].data
      OBVIOUS
    <3>2. p \in {"exclusion", "inclusion"} /\ q \in {"exclusion", "inclusion"}
      BY <2>2, <3>1 DEF IsViewed, Polarity
    <3>3. \A a, b : Text(a) = Text(b) => a = b
      <4>1. \A a : Text(a).data = a
        BY DEF Text, Value
      <4> QED
        BY <4>1
    <3>4. p = "exclusion" <=> q = "exclusion"
      <4>1. CASE C = "SetMembership"
        <5>1. (IF p = "exclusion" THEN "!in" ELSE "in") = (IF q = "exclusion" THEN "!in" ELSE "in")
          BY <3>1, <3>3, <4>1 DEF Shows
        <5> QED
          BY <5>1
      <4>2. CASE C = "Between"
        <5>1. (IF p = "exclusion" THEN "!between" ELSE "between")
                = (IF q = "exclusion" THEN "!between" ELSE "between")
          BY <3>1, <3>3, <4>2 DEF Shows
        <5> QED
          BY <5>1
      <4> QED
        BY <2>2, <4>1, <4>2
    <3> QED
      BY <3>1, <3>2, <3>4
  <2> QED
    BY <2>1, <2>2 DEF Collapsed
<1> QED
  BY <1>2, <1>3

\* Two nodes with one view differ in nothing the view is to tell.
LEMMA OneView ==
  ASSUME NEW i, IsBuilt(i), NEW j, IsBuilt(j), NEW N, N = Len(i), N = Len(j), NEW n \in 1 .. N,
         Convert(i[n].class, i[n].fields) = Convert(j[n].class, j[n].fields)
  PROVE  ~Differ(i, j, n)
<1>1. PICK C, D, F, G, w : /\ C = i[n].class /\ F = i[n].fields
                           /\ D = j[n].class /\ G = j[n].fields /\ w = Convert(C, F)
  OBVIOUS
<1>2. PICK nodes : nodes = n + 1 .. N
  OBVIOUS
<1>3. IsViewed(C, F, nodes, i) /\ IsViewed(D, G, nodes, j) /\ w = Convert(D, G)
  BY <1>1, <1>2, BuiltIsViewed
<1>4. Shows(w, C, F) /\ Shows(w, D, G)
  BY <1>1, <1>3, ViewShows DEF IsViewed
<1>5. C = D
  <2>1. Text(C) = Text(D)
    BY <1>4 DEF Shows
  <2>2. Text(C).data = C /\ Text(D).data = D
    BY DEF Text, Value
  <2> QED
    BY <2>1, <2>2
<1>6. ASSUME NEW f \in DOMAIN F, f # "schema_attached",
             f = "canonical_form" => C \notin {"ColumnRef", "LiteralExpr"}
      PROVE  F[f] = G[f]
  <2>1. CASE f = "polarity" /\ C \in Collapsed
    BY <1>3, <1>4, <1>5, <2>1, PolarityIsSame
  <2>2. CASE ~(f = "polarity" /\ C \in Collapsed)
    <3>1. InView(C, f)
      BY <1>6, <2>2 DEF InView
    <3> QED
      BY <1>3, <1>4, <1>5, <3>1, ShownIsSame
  <2> QED
    BY <2>1, <2>2
<1> QED
  BY <1>1, <1>5, <1>6 DEF Differ

\* ViewTellsApart in every state of the invariant.
LEMMA ViewsTell ==
  ASSUME IInv
  PROVE  ViewTellsApart
<1> SUFFICES ASSUME pc = "search", NEW q \in DOMAIN corpus, NEW j, j = corpus[q].built, NEW i, i = ir,
                    DOMAIN j = DOMAIN i, NEW n \in DOMAIN i, Differ(i, j, n)
             PROVE  ToLlmDict(i) # ToLlmDict(j)
  BY DEF ViewTellsApart
<1>1. at \in DOMAIN corpus /\ i = corpus[at].built
  BY DEF IInv, PhaseInv
<1>2. IsBuilt(i) /\ IsBuilt(j)
  BY <1>1, CorpusFacts DEF IInv
<1>3. PICK N, M : N = Len(i) /\ M = Len(j)
  OBVIOUS
<1>4. N \in Nat /\ M \in Nat /\ DOMAIN i = 1 .. N /\ DOMAIN j = 1 .. M
  BY <1>2, <1>3, NodesOfIR DEF IsBuilt
<1>5. N = M
  BY <1>4
<1>6. Convert(i[n].class, i[n].fields) # Convert(j[n].class, j[n].fields)
  BY <1>2, <1>3, <1>4, <1>5, OneView
<1>7. /\ ToLlmDict(i)[n] = Convert(i[n].class, i[n].fields)
      /\ ToLlmDict(j)[n] = Convert(j[n].class, j[n].fields)
  BY DEF ToLlmDict
<1> QED
  BY <1>6, <1>7

\* For every corpus, in every run: IRs that differ in a class or a field have different views,
\* but for what to_llm_dict leaves out on purpose.
THEOREM ViewTellsApartAlways == Spec => []ViewTellsApart
BY Invariance, ViewsTell, PTL

=============================================================================
