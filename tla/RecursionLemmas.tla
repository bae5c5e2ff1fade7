---------------------------- MODULE RecursionLemmas ----------------------------
(***************************************************************************)
(* Facts about recursive functions and about joining sequences that the    *)
(* proofs of the components share.  They are stated of sets and functions, *)
(* never of operators, so that the provers can use them.                   *)
(***************************************************************************)
EXTENDS SequencesExt, SequenceTheorems, WellFoundedInduction, TLAPS

-----------------------------------------------------------------------------
(* Induction.                                                              *)

\* A set of numbers that has 0 and the successor of each member has them all.
LEMMA InductionOverNat ==
  ASSUME NEW T, 0 \in T, \A n \in Nat : n \in T => n + 1 \in T
  PROVE  Nat \subseteq T
<1> SUFFICES ASSUME Nat \ T # {} PROVE FALSE
  OBVIOUS
<1> DEFINE Missing == Nat \ T
<1>1. PICK n \in Missing : \A m \in Missing : ~ (<<m, n>> \in OpToRel(<, Nat))
  <2>1. Missing \subseteq Nat /\ Missing # {}
    OBVIOUS
  <2> QED
    BY <2>1, NatLessThanWellFounded, WFMin
<1>2. n \in Nat /\ n # 0
  OBVIOUS
<1>3. n - 1 \in Nat /\ n - 1 < n
  BY <1>2
<1>4. n - 1 \in T
  BY <1>1, <1>3 DEF OpToRel
<1> QED
  BY <1>3, <1>4

\* A property of the members of D that each has when all of lower rank have it
\* holds of them all.
LEMMA InductionByRank ==
  ASSUME NEW D, NEW rank \in [D -> Nat], NEW T,
         \A x \in D : (\A y \in D : rank[y] < rank[x] => y \in T) => x \in T
  PROVE  D \subseteq T
<1> DEFINE U == {k \in Nat : \A x \in D : rank[x] < k => x \in T}
<1>1. 0 \in U
  OBVIOUS
<1>2. ASSUME NEW k \in Nat, k \in U PROVE k + 1 \in U
  <2> SUFFICES ASSUME NEW x \in D, rank[x] < k + 1 PROVE x \in T
    OBVIOUS
  <2>1. ASSUME NEW y \in D, rank[y] < rank[x] PROVE y \in T
    <3>1. rank[x] \in Nat /\ rank[y] \in Nat
      OBVIOUS
    <3>2. rank[y] < k
      BY <2>1, <3>1
    <3> QED
      BY <3>2, <1>2
  <2> QED
    BY <2>1
<1> HIDE DEF U
<1>3. Nat \subseteq U
  BY <1>1, <1>2, InductionOverNat
<1> SUFFICES ASSUME NEW x \in D PROVE x \in T
  OBVIOUS
<1>4. rank[x] + 1 \in U /\ rank[x] < rank[x] + 1
  BY <1>3
<1> QED
  BY <1>4 DEF U

\* F is the right-hand side of a recursive definition of a function from D to S
\* whose value at x looks only at the values at members of lower rank.
IsRecursion(F, D, S, N, rank) ==
  /\ S # {} /\ N \in Nat /\ rank \in [D -> 0 .. N]
  /\ F \in [[D -> S] -> [D -> S]]
  /\ \A f, g \in [D -> S] : \A x \in D :
       (\A y \in D : rank[y] < rank[x] => f[y] = g[y]) => F[f][x] = F[g][x]

\* Such a definition has a function.
LEMMA RecursionByRank ==
  ASSUME NEW D, NEW S, NEW N, NEW rank, NEW F, IsRecursion(F, D, S, N, rank)
  PROVE  \E f \in [D -> S] : f = F[f]
<1> USE DEF IsRecursion
<1> DEFINE U == {k \in Nat : \E f \in [D -> S] :
                   \A x \in D : rank[x] < k => f[x] = F[f][x]}
<1>1. 0 \in U
  <2>1. PICK s : s \in S
    OBVIOUS
  <2>2. [x \in D |-> s] \in [D -> S] /\ \A x \in D : ~ (rank[x] < 0)
    BY <2>1
  <2> QED
    BY <2>2
<1>2. ASSUME NEW k \in Nat, k \in U PROVE k + 1 \in U
  <2>1. PICK f \in [D -> S] : \A x \in D : rank[x] < k => f[x] = F[f][x]
    BY <1>2
  <2>2. F[f] \in [D -> S]
    OBVIOUS
  <2>3. ASSUME NEW x \in D, rank[x] < k + 1 PROVE F[f][x] = F[F[f]][x]
    <3>1. ASSUME NEW y \in D, rank[y] < rank[x] PROVE f[y] = F[f][y]
      <4>1. rank[x] \in Nat /\ rank[y] \in Nat
        OBVIOUS
      <4>2. rank[y] < k
        BY <4>1, <3>1, <2>3
      <4> QED
        BY <4>2, <2>1
    <3> QED
      BY <3>1, <2>2
  <2> QED
    BY <2>2, <2>3
<1> HIDE DEF U
<1>3. N + 1 \in U
  BY <1>1, <1>2, InductionOverNat
<1>4. PICK f \in [D -> S] : \A x \in D : rank[x] < N + 1 => f[x] = F[f][x]
  BY <1>3 DEF U
<1>5. \A x \in D : f[x] = F[f][x]
  <2> TAKE x \in D
  <2>1. rank[x] \in 0 .. N
    OBVIOUS
  <2>2. rank[x] < N + 1
    BY <2>1
  <2> QED
    BY <2>2, <1>4
<1>6. F[f] \in [D -> S]
  OBVIOUS
<1> QED
  BY <1>5, <1>6

-----------------------------------------------------------------------------
(* Sequences given element by element.                                     *)

LEMMA SequenceType ==
  ASSUME NEW S, NEW n \in Nat, NEW s, s = [k \in 1 .. n |-> s[k]],
         \A k \in 1 .. n : s[k] \in S
  PROVE  s \in Seq(S) /\ Len(s) = n /\ DOMAIN s = 1 .. n
<1>1. s \in [1 .. n -> S]
  OBVIOUS
<1> QED
  BY <1>1

\* t is s, which has n elements, and behind it x.
IsLonger(t, s, x, n) ==
  /\ Len(s) = n /\ t = [k \in 1 .. n + 1 |-> t[k]]
  /\ \A k \in 1 .. n : t[k] = s[k]
  /\ t[n + 1] = x

LEMMA SequenceAppend ==
  ASSUME NEW S, NEW s \in Seq(S), NEW x \in S, NEW n \in Nat, NEW t, IsLonger(t, s, x, n)
  PROVE  t = Append(s, x)
<1> USE DEF IsLonger
<1> DEFINE u == Append(s, x)
<1>1. /\ u \in Seq(S) /\ Len(u) = Len(s) + 1
      /\ \A k \in 1 .. Len(s) : u[k] = s[k]
      /\ u[Len(s) + 1] = x
  OBVIOUS
<1> HIDE DEF u
<1>2. u = [k \in 1 .. Len(s) + 1 |-> u[k]]
  BY <1>1
<1>3. \A k \in 1 .. Len(s) + 1 : k = Len(s) + 1 \/ k \in 1 .. Len(s)
  OBVIOUS
<1>4. \A k \in 1 .. Len(s) + 1 : t[k] = u[k]
  BY <1>1, <1>3
<1>5. t = u
  BY <1>2, <1>4
<1> QED
  BY <1>5 DEF u

LEMMA SequenceReplaceLast ==
  ASSUME NEW S, NEW u \in Seq(S), NEW x \in S, NEW y \in S, NEW n, n = Len(u) + 1
  PROVE  ReplaceAt(Append(u, x), n, y) = Append(u, y)
<1>1. PICK s : s = Append(u, x)
  OBVIOUS
<1>2. /\ Len(u) \in Nat /\ n \in Nat /\ n \in 1 .. n /\ s \in [1 .. n -> S]
      /\ \A k \in 1 .. n - 1 : s[k] = u[k]
  <2>1. Len(u) \in Nat
    BY LenProperties
  <2>2. n \in Nat /\ n \in 1 .. n /\ n - 1 = Len(u)
    BY <2>1
  <2>3. s \in Seq(S) /\ Len(s) = n /\ \A k \in 1 .. Len(u) : s[k] = u[k]
    BY <1>1, AppendProperties
  <2>4. s \in [1 .. n -> S]
    BY <2>3, LenProperties
  <2> QED
    BY <2>1, <2>2, <2>3, <2>4
<1> DEFINE v == [s EXCEPT ![n] = y]
           w == Append(u, y)
<1>3. /\ v = [k \in 1 .. n |-> v[k]]
      /\ \A k \in 1 .. n : v[k] = (IF k = n THEN y ELSE s[k]) /\ v[k] \in S
  BY <1>2
<1>4. v \in Seq(S) /\ Len(v) = n
  <2> HIDE DEF v
  <2> QED
    BY <1>2, <1>3, SequenceType
<1>5. w \in Seq(S) /\ Len(w) = n /\ w[n] = y /\ \A k \in 1 .. n - 1 : w[k] = u[k]
  BY <1>2, AppendProperties
<1> HIDE DEF v, w
<1>6. \A k \in 1 .. n : k = n \/ (k # n /\ k \in 1 .. n - 1)
  BY <1>2
<1>7. \A k \in 1 .. n : v[k] = w[k]
  BY <1>2, <1>3, <1>5, <1>6
<1>8. v = w
  BY <1>4, <1>5, <1>7, SeqEqual
<1> QED
  BY <1>1, <1>8 DEF v, w, ReplaceAt

-----------------------------------------------------------------------------
(* FlattenSeq.                                                             *)

Joined(seqs) ==
  CHOOSE f : f = [k \in 1 .. Len(seqs) |-> IF k = 1 THEN seqs[k] ELSE f[k - 1] \o seqs[k]]

LEMMA JoinedDef ==
  ASSUME NEW S, NEW seqs \in Seq(Seq(S))
  PROVE  /\ Joined(seqs) \in [1 .. Len(seqs) -> Seq(S)]
         /\ \A k \in 1 .. Len(seqs) :
              Joined(seqs)[k] = IF k = 1 THEN seqs[k] ELSE Joined(seqs)[k - 1] \o seqs[k]
<1> DEFINE N == Len(seqs)
           Q == Seq(S)
           D == 1 .. N
           body(f) == [k \in D |-> IF k = 1 THEN seqs[k] ELSE f[k - 1] \o seqs[k]]
           F == [f \in [D -> Q] |-> body(f)]
           rank == [k \in D |-> k]
<1>1. N \in Nat /\ rank \in [D -> 0 .. N] /\ Q # {}
  <2>1. << >> \in Q
    OBVIOUS
  <2> QED
    BY <2>1
<1>2. ASSUME NEW f \in [D -> Q] PROVE body(f) \in [D -> Q]
  <2>1. ASSUME NEW k \in D
        PROVE (IF k = 1 THEN seqs[k] ELSE f[k - 1] \o seqs[k]) \in Q
    <3>1. seqs[k] \in Q
      OBVIOUS
    <3>2. k # 1 => k - 1 \in D
      OBVIOUS
    <3>3. k # 1 => f[k - 1] \in Q
      BY <3>2
    <3> QED
      BY <3>1, <3>3
  <2> QED
    BY <2>1
<1> HIDE DEF body
<1>3. F \in [[D -> Q] -> [D -> Q]]
  BY <1>2
<1> USE DEF body
<1>4. ASSUME NEW f \in [D -> Q], NEW g \in [D -> Q], NEW k \in D,
             \A m \in D : rank[m] < rank[k] => f[m] = g[m]
      PROVE  F[f][k] = F[g][k]
  <2>1. k # 1 => k - 1 \in D /\ rank[k - 1] < rank[k]
    OBVIOUS
  <2>2. k # 1 => f[k - 1] = g[k - 1]
    BY <2>1, <1>4
  <2>3. F[f][k] = body(f)[k] /\ F[g][k] = body(g)[k]
    OBVIOUS
  <2> QED
    BY <2>2, <2>3
<1> HIDE DEF F, rank, body, D, N, Q
<1>5. PICK f \in [D -> Q] : f = F[f]
  <2>1. IsRecursion(F, D, Q, N, rank)
    BY <1>1, <1>3, <1>4 DEF IsRecursion
  <2> QED
    BY <2>1, RecursionByRank
<1>6. f = body(f)
  BY <1>5 DEF F
<1> USE DEF body, D, N, Q
<1>7. Joined(seqs) = body(Joined(seqs))
  BY <1>6 DEF Joined
<1> DEFINE g == Joined(seqs)
           T == {k \in Nat : k \in D => g[k] = f[k]}
<1> HIDE DEF g
<1>8. 0 \in T
  OBVIOUS
<1>9. ASSUME NEW k \in Nat, k \in T PROVE k + 1 \in T
  <2> SUFFICES ASSUME k + 1 \in D PROVE g[k + 1] = f[k + 1]
    OBVIOUS
  <2>1. k + 1 # 1 => k \in D /\ g[k] = f[k]
    BY <1>9
  <2>2. g[k + 1] = body(g)[k + 1]
    BY <1>7 DEF g
  <2>3. f[k + 1] = body(f)[k + 1]
    BY <1>6
  <2>4. (k + 1) - 1 = k
    OBVIOUS
  <2> QED
    BY <2>1, <2>2, <2>3, <2>4
<1> HIDE DEF T
<1>10. \A k \in D : g[k] = f[k]
  <2>1. Nat \subseteq T
    BY <1>8, <1>9, InductionOverNat
  <2>2. \A k \in D : k \in T
    BY <2>1
  <2> QED
    BY <2>2 DEF T
<1>11. g = f
  BY <1>6, <1>7, <1>10 DEF g
<1>12. \A k \in D : f[k] = body(f)[k]
  BY <1>6
<1> QED
  BY <1>11, <1>12 DEF g

LEMMA FlattenIsJoined ==
  ASSUME NEW seqs, Len(seqs) # 0
  PROVE  FlattenSeq(seqs) = Joined(seqs)[Len(seqs)]
BY DEF FlattenSeq, Joined
LEMMA FlattenEmpty == FlattenSeq(<< >>) = << >>
BY DEF FlattenSeq

\* Joining sequences over S gives a sequence over S.
LEMMA FlattenType ==
  ASSUME NEW S, NEW seqs \in Seq(Seq(S))
  PROVE  FlattenSeq(seqs) \in Seq(S)
<1>1. CASE Len(seqs) = 0
  <2>1. seqs = << >> /\ << >> \in Seq(S)
    BY <1>1
  <2> QED
    BY <2>1, FlattenEmpty
<1>2. CASE Len(seqs) # 0
  <2>1. Len(seqs) \in 1 .. Len(seqs)
    BY <1>2
  <2> QED
    BY <1>2, <2>1, JoinedDef, FlattenIsJoined
<1> QED
  BY <1>1, <1>2

\* One more sequence is joined on behind.
LEMMA FlattenAppend ==
  ASSUME NEW S, NEW seqs \in Seq(Seq(S)), NEW x \in Seq(S)
  PROVE  FlattenSeq(Append(seqs, x)) = FlattenSeq(seqs) \o x
<1> DEFINE N == Len(seqs)
           more == Append(seqs, x)
<1>1. /\ N \in Nat
      /\ more \in Seq(Seq(S))
      /\ Len(more) = N + 1
      /\ more[N + 1] = x
      /\ \A k \in 1 .. N : more[k] = seqs[k]
  OBVIOUS
<1> HIDE DEF more
<1>2. \A k \in 1 .. N + 1 :
        Joined(more)[k] = IF k = 1 THEN more[k] ELSE Joined(more)[k - 1] \o more[k]
  BY <1>1, JoinedDef
<1>3. \A k \in 1 .. N :
        Joined(seqs)[k] = IF k = 1 THEN seqs[k] ELSE Joined(seqs)[k - 1] \o seqs[k]
  BY JoinedDef
<1> DEFINE T == {k \in Nat : k \in 1 .. N => Joined(more)[k] = Joined(seqs)[k]}
<1>4. 0 \in T
  OBVIOUS
<1>5. ASSUME NEW k \in Nat, k \in T PROVE k + 1 \in T
  <2> SUFFICES ASSUME k + 1 \in 1 .. N
               PROVE  Joined(more)[k + 1] = Joined(seqs)[k + 1]
    OBVIOUS
  <2>1. k + 1 # 1 => Joined(more)[k] = Joined(seqs)[k]
    BY <1>1, <1>5
  <2>2. (k + 1) - 1 = k /\ k + 1 \in 1 .. N + 1
    BY <1>1
  <2>3. more[k + 1] = seqs[k + 1]
    BY <1>1
  <2>4. Joined(more)[k + 1]
          = IF k + 1 = 1 THEN more[k + 1] ELSE Joined(more)[k] \o more[k + 1]
    BY <1>2, <2>2
  <2>5. Joined(seqs)[k + 1]
          = IF k + 1 = 1 THEN seqs[k + 1] ELSE Joined(seqs)[k] \o seqs[k + 1]
    BY <1>3, <2>2
  <2> QED
    BY <2>1, <2>3, <2>4, <2>5
<1>6. Nat \subseteq T
  <2> HIDE DEF T
  <2> QED
    BY <1>4, <1>5, InductionOverNat
<1>7. FlattenSeq(more) = Joined(more)[N + 1]
  BY <1>1, FlattenIsJoined
<1>8. CASE N = 0
  <2>1. seqs = << >> /\ 1 \in 1 .. N + 1
    BY <1>8
  <2>2. FlattenSeq(more) = x
    BY <1>1, <1>2, <1>7, <1>8, <2>1
  <2>3. << >> \o x = x
    OBVIOUS
  <2> QED
    BY <2>1, <2>2, <2>3, FlattenEmpty DEF more
<1>9. CASE N # 0
  <2>1. N \in 1 .. N /\ N \in Nat /\ N + 1 # 1 /\ (N + 1) - 1 = N /\ N + 1 \in 1 .. N + 1
    BY <1>1, <1>9
  <2>2. Joined(more)[N] = Joined(seqs)[N]
    BY <1>6, <2>1
  <2>3. FlattenSeq(seqs) = Joined(seqs)[N]
    BY <1>9, FlattenIsJoined
  <2>4. Joined(more)[N + 1] = Joined(more)[N] \o more[N + 1]
    BY <1>2, <2>1
  <2> QED
    BY <1>1, <1>7, <2>2, <2>3, <2>4 DEF more
<1> QED
  BY <1>8, <1>9

LEMMA FlattenTwo ==
  ASSUME NEW S, NEW x \in Seq(S), NEW y \in Seq(S)
  PROVE  /\ FlattenSeq(<<x>>) = x
         /\ FlattenSeq(<<x, y>>) = x \o y
<1>1. /\ << >> \in Seq(Seq(S)) /\ <<x>> \in Seq(Seq(S))
      /\ <<x>> = Append(<< >>, x) /\ <<x, y>> = Append(<<x>>, y)
      /\ << >> \o x = x
  OBVIOUS
<1>2. FlattenSeq(<<x>>) = x
  BY <1>1, FlattenAppend, FlattenEmpty
<1> QED
  BY <1>1, <1>2, FlattenAppend

Singles(s) == [k \in 1 .. Len(s) |-> <<s[k]>>]

\* Cutting a sequence into single elements and joining them gives it back.
LEMMA FlattenSingles ==
  ASSUME NEW S, NEW s \in Seq(S)
  PROVE  Singles(s) \in Seq(Seq(S)) /\ FlattenSeq(Singles(s)) = s
<1> DEFINE T == {k \in Nat : \A t \in Seq(S) :
                   Len(t) = k => Singles(t) \in Seq(Seq(S)) /\ FlattenSeq(Singles(t)) = t}
<1>1. 0 \in T
  <2> SUFFICES ASSUME NEW t \in Seq(S), Len(t) = 0
               PROVE  Singles(t) \in Seq(Seq(S)) /\ FlattenSeq(Singles(t)) = t
    OBVIOUS
  <2>1. t = << >> /\ << >> \in Seq(Seq(S))
    OBVIOUS
  <2>2. Singles(t) = << >>
    BY <2>1 DEF Singles
  <2> QED
    BY <2>1, <2>2, FlattenEmpty
<1>2. ASSUME NEW k \in Nat, k \in T PROVE k + 1 \in T
  <2> SUFFICES ASSUME NEW t \in Seq(S), Len(t) = k + 1
               PROVE  Singles(t) \in Seq(Seq(S)) /\ FlattenSeq(Singles(t)) = t
    OBVIOUS
  <2> DEFINE u == SubSeq(t, 1, k)
             x == t[k + 1]
  <2>1. u \in Seq(S) /\ Len(u) = k /\ x \in S /\ t = Append(u, x) /\ t = u \o <<x>>
        /\ \A n \in 1 .. k : u[n] = t[n]
    OBVIOUS
  <2> HIDE DEF u, x
  <2>2. Singles(u) \in Seq(Seq(S)) /\ FlattenSeq(Singles(u)) = u
    BY <1>2, <2>1
  <2>3. Singles(t) = Append(Singles(u), <<x>>)
    <3> DEFINE v == Append(Singles(u), <<x>>)
    <3>1. Len(Singles(u)) = k /\ \A n \in 1 .. k : Singles(u)[n] = <<t[n]>>
      BY <2>1, <2>2 DEF Singles
    <3>2. /\ v \in Seq(Seq(S)) /\ Len(v) = k + 1 /\ v[k + 1] = <<x>>
          /\ \A n \in 1 .. k : v[n] = Singles(u)[n]
      BY <2>1, <2>2, <3>1
    <3> HIDE DEF v
    <3>3. v = [n \in 1 .. k + 1 |-> v[n]]
      BY <3>2
    <3>4. x = t[k + 1]
      BY DEF x
    <3>5. \A n \in 1 .. k + 1 : v[n] = <<t[n]>>
      BY <3>1, <3>2, <3>4
    <3> QED
      BY <3>3, <3>5 DEF Singles, v
  <2>4. <<x>> \in Seq(S)
    BY <2>1
  <2>5. FlattenSeq(Singles(t)) = FlattenSeq(Singles(u)) \o <<x>>
    BY <2>2, <2>3, <2>4, FlattenAppend
  <2>6. Singles(t) \in Seq(Seq(S))
    BY <2>2, <2>3, <2>4
  <2> QED
    BY <2>1, <2>2, <2>5, <2>6
<1> HIDE DEF T
<1>3. Len(s) \in T
  <2>1. Nat \subseteq T
    BY <1>1, <1>2, InductionOverNat
  <2> QED
    BY <2>1
<1> QED
  BY <1>3 DEF T
=============================================================================
