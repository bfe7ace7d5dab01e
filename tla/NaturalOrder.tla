---------------------------- MODULE NaturalOrder ----------------------------
(* Sets of naturals have a least element: what the queue and the composer rely  *)
(* on when they pick the first pending turn or the first row.  And what follows *)
(* from it: induction up to a number, and values defined one after the other.   *)
EXTENDS Integers, SequencesExt, Subsequences, WellFoundedInduction, FiniteSetTheorems, SequenceTheorems, TLAPS

\* The naturals are well founded, so a set of them that is not empty has a least element.
LEMMA LeastElement ==
  ASSUME NEW T \in SUBSET Nat, T # {}
  PROVE  \E x \in T : \A y \in T : x <= y
  <1> DEFINE R == {ss \in Nat \X Nat : ss[1] < ss[2]}
  <1>1. IsWellFoundedOn(R, Nat)
    BY NatLessThanWellFounded, Zenon DEF OpToRel
  <1>2. \E x \in T : \A y \in T : ~(<<y, x>> \in R)
    <2> HIDE DEF R
    <2> QED BY <1>1, WFMin
  <1>3. PICK x \in T : \A y \in T : ~(<<y, x>> \in R)
    BY <1>2
  <1>4. \A y \in T : ~(y < x)
    BY <1>3
  <1> QED BY <1>4

\* Induction up to n, on a set.
LEMMA InductionUpTo ==
  ASSUME NEW n \in Nat, NEW T, 0 \in T, \A i \in 1..n : i - 1 \in T => i \in T
  PROVE  0..n \subseteq T
  <1> DEFINE Out == {i \in 0..n : i \notin T}
  <1>1. ASSUME Out # {} PROVE FALSE
    <2> Out \in SUBSET Nat
      OBVIOUS
    <2>1. PICK x \in Out : \A y \in Out : x <= y
      <3> HIDE DEF Out
      <3> QED BY <1>1, LeastElement
    <2>2. x \in 1..n /\ x - 1 \in 0..n /\ ~(x <= x - 1)
      BY <2>1
    <2>3. x - 1 \in T
      BY <2>1, <2>2
    <2> QED BY <2>1, <2>2, <2>3
  <1> QED BY <1>1

\* The values of f up to n start with b, and each comes from the one before it by g.
Iterates(f, n, b, g) == f[0] = b /\ \A i \in 1..n : f[i] = g[<<i, f[i - 1]>>]

\* What is defined from 0 up to n, each value from the one before it, exists.
LEMMA IterationExists ==
  ASSUME NEW n \in Nat, NEW M, NEW b \in M, NEW g \in [(1..n) \X M -> M]
  PROVE  \E f \in [0..n -> M] : Iterates(f, n, b, g)
  <1> DEFINE Good(k, f) == Iterates(f, k, b, g)
             T == {k \in 0..n : \E f \in [0..k -> M] : Good(k, f)}
  <1>1. 0 \in T
    <2> DEFINE f == [i \in 0..0 |-> b]
    <2>1. f \in [0..0 -> M] /\ f[0] = b /\ 1..0 = {}
      OBVIOUS
    <2>2. Good(0, f)
      BY <2>1 DEF Iterates
    <2> HIDE DEF Good, f
    <2> QED BY <2>1, <2>2
  <1>2. ASSUME NEW k \in 1..n, k - 1 \in T PROVE k \in T
    <2>1. PICK f \in [0..(k - 1) -> M] : Good(k - 1, f)
      BY <1>2
    <2> DEFINE h == [i \in 0..k |-> IF i < k THEN f[i] ELSE g[<<k, f[k - 1]>>]]
    <2>2. \A i \in 0..k : h[i] \in M
      <3> SUFFICES ASSUME NEW i \in 0..k PROVE h[i] \in M
        OBVIOUS
      <3>1. CASE i < k
        BY <3>1
      <3>2. CASE i = k
        <4>1. k - 1 \in 0..(k - 1) /\ <<k, f[k - 1]>> \in (1..n) \X M
          OBVIOUS
        <4> QED BY <3>2, <4>1
      <3> QED BY <3>1, <3>2
    <2>3. Good(k, h)
      <3>1. h[0] = b
        BY <2>1 DEF Iterates
      <3>2. ASSUME NEW i \in 1..k PROVE h[i] = g[<<i, h[i - 1]>>]
        <4>1. h[i - 1] = f[i - 1]
          OBVIOUS
        <4>2. CASE i = k
          <5>1. h[k] = g[<<k, f[k - 1]>>] /\ h[k - 1] = f[k - 1]
            BY <4>1, <4>2
          <5> HIDE DEF h
          <5> QED BY <4>2, <5>1
        <4>3. CASE i < k
          <5>1. i \in 1..(k - 1) /\ h[i] = f[i]
            BY <4>3
          <5> QED BY <2>1, <4>1, <5>1 DEF Iterates
        <4> QED BY <4>2, <4>3
      <3> HIDE DEF h
      <3> QED BY <3>1, <3>2 DEF Iterates
    <2>4. h \in [0..k -> M]
      BY <2>2
    <2> HIDE DEF Good, h
    <2> QED BY <2>3, <2>4
  <1>3. n \in T
    <2> HIDE DEF T
    <2> QED BY <1>1, <1>2, InductionUpTo
  <1> QED BY <1>3

-----------------------------------------------------------------------------
(* The greatest of a few, and ranks *)

\* The greatest and the least of a set, where it has one.
LEMMA MaxIs ==
  ASSUME NEW n \in Nat, NEW q \in SUBSET (0..n), q # {}
  PROVE  Max(q) \in q /\ \A y \in q : y <= Max(q)
  <1> DEFINE T == {n - x : x \in q}
  <1>1. T \in SUBSET Nat /\ T # {}
    <2>1. \A x \in q : n - x \in Nat
      OBVIOUS
    <2> QED BY <2>1
  <1>2. PICK z \in T : \A y \in T : z <= y
    <2> HIDE DEF T
    <2> QED BY <1>1, LeastElement
  <1>3. PICK x \in q : \A y \in q : x >= y
    <2>1. PICK x \in q : z = n - x
      BY <1>2
    <2>2. \A y \in q : n - x <= n - y
      BY <1>2, <2>1
    <2> QED BY <2>2
  <1>4. Max(q) \in q /\ \A y \in q : Max(q) >= y
    BY <1>3 DEF Max
  <1>5. Max(q) \in Int /\ \A y \in q : y \in Int
    <2> HIDE DEF T
    <2>1. \A y \in 0..n : y \in Int
      OBVIOUS
    <2>2. \A y \in q : y \in Int
      BY <2>1
    <2> QED BY <1>4, <2>2, Zenon
  <1> HIDE DEF T
  <1>6. ASSUME NEW y \in q PROVE y <= Max(q)
    <2>1. Max(q) >= y /\ Max(q) \in Int /\ y \in Int
      BY <1>4, <1>5
    <2> QED BY <2>1
  <1> QED BY <1>4, <1>6

LEMMA MaxOfSome ==
  ASSUME NEW n \in Nat, NEW q \in SUBSET (1..n), q # {}
  PROVE  Max(q) \in q
  BY MaxIs

LEMMA MinIs ==
  ASSUME NEW T \in SUBSET Nat, T # {}
  PROVE  Min(T) \in T /\ \A y \in T : Min(T) <= y
  BY LeastElement DEF Min

\* A set with as many elements as it has ranks has one of each rank.
LEMMA Ranks ==
  ASSUME NEW W, IsFiniteSet(W), NEW rank \in [W -> 0..(Cardinality(W) - 1)],
         \A t, u \in W : rank[t] = rank[u] => t = u
  PROVE  \A k \in 0..(Cardinality(W) - 1) : \E t \in W : rank[t] = k
  <1> DEFINE T == 0..(Cardinality(W) - 1)
  <1>1. Cardinality(W) \in Nat
    BY FS_CardinalityType
  <1>2. IsFiniteSet(T) /\ Cardinality(T) = Cardinality(W)
    <2>1. 0 \in Int /\ Cardinality(W) - 1 \in Int
      BY <1>1
    <2>2. IsFiniteSet(T) /\ Cardinality(T) = IF 0 > Cardinality(W) - 1 THEN 0
                                             ELSE Cardinality(W) - 1 - 0 + 1
      BY <2>1, FS_Interval
    <2> HIDE DEF T
    <2> QED BY <1>1, <2>2
  <1> HIDE DEF T
  <1>3. rank \in Injection(W, T)
    BY DEF Injection, IsInjective, T
  <1>4. rank \in Surjection(W, T)
    BY <1>2, <1>3, FS_Injection
  <1> QED BY <1>4 DEF Surjection, T

-----------------------------------------------------------------------------
(* Subsequences *)

\* The first k elements of s that are in K are those of q, in their order: at says where.
Picks(q, at, s, k, K) ==
  /\ at \in [1..Len(q) -> 1..k]
  /\ \A i \in 1..Len(q) : q[i] = s[at[i]] /\ q[i] \in K
  /\ \A i, j \in 1..Len(q) : i < j => at[i] < at[j]
  /\ \A l \in 1..k : s[l] \in K => \E i \in 1..Len(q) : at[i] = l

LEMMA PicksMore ==
  ASSUME NEW S, NEW s \in Seq(S), NEW K, NEW k \in 1..Len(s),
         NEW q \in Seq(S), NEW at, Picks(q, at, s, k - 1, K)
  PROVE  LET r == IF s[k] \in K THEN Append(q, s[k]) ELSE q
         IN  r \in Seq(S) /\ \E to : Picks(r, to, s, k, K)
  <1>1. CASE s[k] \in K
    <2> DEFINE n  == Len(q) + 1
               r  == Append(q, s[k])
               to == [i \in 1..n |-> IF i < n THEN at[i] ELSE k]
    <2>1. r \in Seq(S) /\ Len(r) = n /\ Len(q) \in Nat
      OBVIOUS
    <2>2. \A i \in 1..n : r[i] = IF i < n THEN q[i] ELSE s[k]
      OBVIOUS
    <2>3. \A i \in 1..n : i = n \/ (i \in 1..Len(q) /\ i < n)
      BY <2>1
    <2>4. \A i \in 1..Len(q) : i \in 1..n /\ at[i] \in 1..(k - 1) /\ q[i] = s[at[i]] /\ q[i] \in K
      BY DEF Picks
    <2>5. to[n] = k /\ \A i \in 1..Len(q) : to[i] = at[i]
      BY <2>1
    <2>6. n \in 1..n /\ ~(n < n)
      BY <2>1
    <2> HIDE DEF r, n
    <2>7. \A i \in 1..n : to[i] \in 1..k /\ r[i] = s[to[i]] /\ r[i] \in K
      <3> SUFFICES ASSUME NEW i \in 1..n PROVE to[i] \in 1..k /\ r[i] = s[to[i]] /\ r[i] \in K
        OBVIOUS
      <3>1. CASE i = n
        BY <1>1, <2>2, <2>5, <2>6, <3>1
      <3>2. CASE i \in 1..Len(q) /\ i < n
        <4>1. to[i] = at[i] /\ r[i] = q[i]
          BY <2>2, <2>5, <3>2
        <4>2. \A x \in 1..(k - 1) : x \in 1..k
          OBVIOUS
        <4> QED BY <2>4, <3>2, <4>1, <4>2
      <3> QED BY <2>3, <3>1, <3>2
    <2>8. to \in [1..n -> 1..k]
      BY <2>7
    <2> HIDE DEF to
    <2>9. ASSUME NEW i \in 1..n, NEW j \in 1..n, i < j PROVE to[i] < to[j]
      <3>1. i \in 1..Len(q) /\ to[i] = at[i] /\ at[i] \in 1..(k - 1)
        BY <2>1, <2>3, <2>4, <2>5, <2>9 DEF n
      <3>2. CASE j = n
        BY <2>5, <3>1, <3>2
      <3>3. CASE j \in 1..Len(q)
        BY <2>5, <2>9, <3>1, <3>3 DEF Picks
      <3> QED BY <2>3, <3>2, <3>3
    <2>10. ASSUME NEW l \in 1..k, s[l] \in K PROVE \E i \in 1..n : to[i] = l
      <3>1. CASE l = k
        BY <2>5, <2>6, <3>1
      <3>2. CASE l \in 1..(k - 1)
        <4>1. PICK i \in 1..Len(q) : at[i] = l
          BY <2>10, <3>2 DEF Picks
        <4> QED BY <2>4, <2>5, <4>1
      <3> QED BY <3>1, <3>2
    <2>11. Picks(r, to, s, k, K)
      BY <2>1, <2>7, <2>8, <2>9, <2>10 DEF Picks
    <2> QED BY <1>1, <2>1, <2>11 DEF r
  <1>2. CASE s[k] \notin K
    <2>1. \A l \in 1..k : l = k \/ l \in 1..(k - 1)
      OBVIOUS
    <2>2. at \in [1..Len(q) -> 1..k]
      BY DEF Picks
    <2>3. Picks(q, at, s, k, K)
      BY <1>2, <2>1, <2>2 DEF Picks
    <2> QED BY <1>2, <2>3
  <1> QED BY <1>1, <1>2

LEMMA OnlySteps ==
  ASSUME NEW S, NEW s \in Seq(S), NEW K
  PROVE  \E kept : /\ Only(s, K) = kept[Len(s)] /\ kept[0] = <<>>
                   /\ \A k \in 1..Len(s) :
                        kept[k] = IF s[k] \in K THEN Append(kept[k - 1], s[k]) ELSE kept[k - 1]
  <1> DEFINE E(f) == f = [i \in 0..Len(s) |->
                            IF i = 0 THEN <<>>
                            ELSE IF s[i] \in K THEN Append(f[i - 1], s[i]) ELSE f[i - 1]]
             kept == CHOOSE f : E(f)
             g    == [p \in (1..Len(s)) \X Seq(S) |->
                       IF s[p[1]] \in K THEN Append(p[2], s[p[1]]) ELSE p[2]]
  <1>1. Len(s) \in Nat /\ \A i \in 1..Len(s) : s[i] \in S
    OBVIOUS
  <1>2. g \in [(1..Len(s)) \X Seq(S) -> Seq(S)] /\ <<>> \in Seq(S)
    BY <1>1
  <1>3. PICK f \in [0..Len(s) -> Seq(S)] : Iterates(f, Len(s), <<>>, g)
    <2> HIDE DEF g, E, kept
    <2> QED BY <1>1, <1>2, IterationExists
  <1>4. f[0] = <<>> /\ f = [i \in 0..Len(s) |-> f[i]]
    BY <1>3 DEF Iterates
  <1>5. ASSUME NEW i \in 1..Len(s)
        PROVE  f[i] = IF s[i] \in K THEN Append(f[i - 1], s[i]) ELSE f[i - 1]
    <2>1. i - 1 \in 0..Len(s)
      BY <1>1
    <2>2. <<i, f[i - 1]>> \in (1..Len(s)) \X Seq(S)
      BY <1>3, <2>1
    <2>3. f[i] = g[<<i, f[i - 1]>>]
      BY <1>3 DEF Iterates
    <2> QED BY <2>2, <2>3
  <1>6. E(f)
    <2>1. \A i \in 0..Len(s) : i = 0 \/ i \in 1..Len(s)
      BY <1>1
    <2>2. \A i \in 0..Len(s) : f[i] = IF i = 0 THEN <<>>
                               ELSE IF s[i] \in K THEN Append(f[i - 1], s[i]) ELSE f[i - 1]
      BY <1>4, <1>5, <2>1
    <2> QED BY <1>4, <2>2
  <1>7. E(kept)
    <2> HIDE DEF E
    <2> QED BY <1>6
  <1>8. Only(s, K) = kept[Len(s)]
    BY Zenon DEF Only
  <1> HIDE DEF kept
  <1>9. \A i \in 0..Len(s) : kept[i] = IF i = 0 THEN <<>>
                               ELSE IF s[i] \in K THEN Append(kept[i - 1], s[i]) ELSE kept[i - 1]
    BY <1>7
  <1>10. kept[0] = <<>>
    BY <1>1, <1>9
  <1>11. \A i \in 1..Len(s) :
           kept[i] = IF s[i] \in K THEN Append(kept[i - 1], s[i]) ELSE kept[i - 1]
    BY <1>1, <1>9
  <1> QED BY <1>8, <1>10, <1>11

LEMMA OnlyPicks ==
  ASSUME NEW S, NEW s \in Seq(S), NEW K
  PROVE  Only(s, K) \in Seq(S) /\ \E at : Picks(Only(s, K), at, s, Len(s), K)
  <1>1. PICK kept : /\ Only(s, K) = kept[Len(s)] /\ kept[0] = <<>>
                    /\ \A k \in 1..Len(s) :
                         kept[k] = IF s[k] \in K THEN Append(kept[k - 1], s[k]) ELSE kept[k - 1]
    BY OnlySteps
  <1>2. Len(s) \in Nat
    OBVIOUS
  <1> DEFINE Good(k) == kept[k] \in Seq(S) /\ \E at : Picks(kept[k], at, s, k, K)
             T == {k \in 0..Len(s) : Good(k)}
  <1>3. Good(0)
    <2>1. Picks(<<>>, [i \in 1..0 |-> i], s, 0, K)
      BY DEF Picks
    <2> QED BY <1>1, <2>1
  <1>4. ASSUME NEW k \in 1..Len(s), Good(k - 1) PROVE Good(k)
    <2>1. PICK at : Picks(kept[k - 1], at, s, k - 1, K)
      BY <1>4
    <2>2. kept[k - 1] \in Seq(S)
      BY <1>4
    <2> DEFINE r == IF s[k] \in K THEN Append(kept[k - 1], s[k]) ELSE kept[k - 1]
    <2>3. r \in Seq(S) /\ \E to : Picks(r, to, s, k, K)
      <3> HIDE DEF Good
      <3> QED BY <2>1, <2>2, PicksMore
    <2>4. kept[k] = r
      BY <1>1
    <2> HIDE DEF r
    <2> QED BY <2>3, <2>4
  <1> HIDE DEF Good
  <1>5. 0 \in T /\ \A k \in 1..Len(s) : k - 1 \in T => k \in T
    BY <1>2, <1>3, <1>4
  <1>6. Len(s) \in T
    <2> HIDE DEF T
    <2>1. 0..Len(s) \subseteq T
      BY <1>2, <1>5, InductionUpTo
    <2> QED BY <1>2, <2>1
  <1> QED BY <1>1, <1>6 DEF Good

\* What is in Only(s, K) is what of s is in K; and nothing that was once is twice.
LEMMA OnlyIs ==
  ASSUME NEW S, NEW s \in Seq(S), NEW K
  PROVE  /\ Only(s, K) \in Seq(S)
         /\ \A i \in DOMAIN Only(s, K) :
              Only(s, K)[i] \in K /\ \E j \in DOMAIN s : s[j] = Only(s, K)[i]
         /\ \A j \in DOMAIN s : s[j] \in K => \E i \in DOMAIN Only(s, K) : Only(s, K)[i] = s[j]
         /\ \A i, j \in DOMAIN Only(s, K) : i # j =>
              \E k, l \in DOMAIN s : k # l /\ s[k] = Only(s, K)[i] /\ s[l] = Only(s, K)[j]
  <1> DEFINE q == Only(s, K)
  <1>1. q \in Seq(S) /\ \E at : Picks(q, at, s, Len(s), K)
    BY OnlyPicks
  <1> HIDE DEF q
  <1>2. PICK at : Picks(q, at, s, Len(s), K)
    BY <1>1
  <1>3. DOMAIN q = 1..Len(q) /\ DOMAIN s = 1..Len(s)
    BY <1>1
  <1>4. \A i \in DOMAIN q : at[i] \in DOMAIN s /\ q[i] = s[at[i]] /\ q[i] \in K
    BY <1>2, <1>3 DEF Picks
  <1>5. \A j \in DOMAIN s : s[j] \in K => \E i \in DOMAIN q : q[i] = s[j]
    BY <1>2, <1>3, <1>4 DEF Picks
  <1>6. ASSUME NEW i \in DOMAIN q, NEW j \in DOMAIN q, i # j PROVE at[i] # at[j]
    <2>1. i \in 1..Len(q) /\ j \in 1..Len(q) /\ Len(q) \in Nat /\ (i < j \/ j < i)
      BY <1>1, <1>3, <1>6
    <2>2. at[i] \in 1..Len(s) /\ at[j] \in 1..Len(s)
      BY <1>3, <1>4
    <2> QED BY <1>2, <2>1, <2>2 DEF Picks
  <1> QED BY <1>1, <1>4, <1>5, <1>6 DEF q

-----------------------------------------------------------------------------
\* A function on 1..n is a sequence of length n.
LEMMA SeqOfN ==
  ASSUME NEW S, NEW n \in Nat, NEW f, f = [i \in 1..n |-> f[i]], \A i \in 1..n : f[i] \in S
  PROVE  f \in Seq(S) /\ Len(f) = n /\ DOMAIN f = 1..n
  <1>1. f \in [1..n -> S]
    BY Zenon
  <1> QED BY <1>1

LEMMA SingleRange ==
  ASSUME NEW x
  PROVE  Range(<<x>>) = {x}
  <1>1. DOMAIN <<x>> = {1} /\ <<x>>[1] = x
    OBVIOUS
  <1> QED BY <1>1 DEF Range

\* Sequences one after the other: each element of the whole is one of a part, and the
\* other way round.
LEMMA FlattenSteps ==
  ASSUME NEW S, NEW ss \in Seq(Seq(S)), Len(ss) # 0
  PROVE  \E flat \in [1..Len(ss) -> Seq(S)] :
           /\ FlattenSeq(ss) = flat[Len(ss)] /\ flat[1] = ss[1]
           /\ \A i \in 2..Len(ss) : flat[i] = flat[i - 1] \o ss[i]
  <1> DEFINE n == Len(ss)
             E(f) == f = [i \in 1..n |-> IF i = 1 THEN ss[i] ELSE f[i - 1] \o ss[i]]
             flat == CHOOSE f : E(f)
             g == [p \in (1..(n - 1)) \X Seq(S) |-> p[2] \o ss[p[1] + 1]]
  <1>1. n \in Nat \ {0} /\ n - 1 \in Nat /\ \A i \in 1..n : ss[i] \in Seq(S)
    OBVIOUS
  <1> HIDE DEF n
  <1>2. g \in [(1..(n - 1)) \X Seq(S) -> Seq(S)] /\ ss[1] \in Seq(S)
    <2>1. ASSUME NEW p \in (1..(n - 1)) \X Seq(S) PROVE p[2] \o ss[p[1] + 1] \in Seq(S)
      <3>1. p[1] + 1 \in 1..n /\ p[2] \in Seq(S)
        BY <1>1
      <3>2. ss[p[1] + 1] \in Seq(S)
        BY <1>1, <3>1
      <3> QED BY <3>1, <3>2, ConcatProperties, Zenon
    <2>2. 1 \in 1..n
      BY <1>1
    <2> QED BY <1>1, <2>1, <2>2
  <1>3. PICK h \in [0..(n - 1) -> Seq(S)] : Iterates(h, n - 1, ss[1], g)
    <2> HIDE DEF g, E, flat
    <2> QED BY <1>1, <1>2, IterationExists
  <1> DEFINE f == [i \in 1..n |-> h[i - 1]]
  <1>4. \A i \in 1..n : i - 1 \in 0..(n - 1) /\ (i # 1 => i - 1 \in 1..(n - 1) /\ i - 1 \in 1..n /\ (i - 1) + 1 = i)
    BY <1>1
  <1>5. f \in [1..n -> Seq(S)] /\ f[1] = ss[1]
    <2>1. h[0] = ss[1] /\ 1 \in 1..n /\ 1 - 1 = 0
      BY <1>1, <1>3 DEF Iterates
    <2> QED BY <1>3, <1>4, <2>1
  <1>6. ASSUME NEW i \in 1..n, i # 1 PROVE f[i] = f[i - 1] \o ss[i]
    <2>1. i - 1 \in 1..(n - 1) /\ i - 1 \in 1..n /\ (i - 1) - 1 \in 0..(n - 1) /\ (i - 1) + 1 = i
      BY <1>1, <1>4, <1>6
    <2>2. f[i] = h[i - 1] /\ f[i - 1] = h[(i - 1) - 1]
      BY <2>1
    <2>3. h[i - 1] = g[<<i - 1, h[(i - 1) - 1]>>]
      BY <1>3, <2>1 DEF Iterates
    <2>4. <<i - 1, h[(i - 1) - 1]>> \in (1..(n - 1)) \X Seq(S)
      BY <1>3, <2>1
    <2>5. g[<<i - 1, h[(i - 1) - 1]>>] = h[(i - 1) - 1] \o ss[(i - 1) + 1]
      BY <2>4
    <2> HIDE DEF f, g
    <2> QED BY <2>1, <2>2, <2>3, <2>5
  <1>7. f = [i \in 1..n |-> f[i]]
    OBVIOUS
  <1> HIDE DEF f, g
  <1>8. E(f)
    <2>1. \A i \in 1..n : f[i] = IF i = 1 THEN ss[i] ELSE f[i - 1] \o ss[i]
      BY <1>5, <1>6
    <2> QED BY <1>7, <2>1
  <1>9. E(flat)
    <2> HIDE DEF E
    <2> QED BY <1>8
  <1>10. FlattenSeq(ss) = flat[n]
    <2>1. Len(ss) # 0
      OBVIOUS
    <2> QED BY <2>1, Zenon DEF FlattenSeq, n
  <1> HIDE DEF flat
  <1>11. flat = [i \in 1..n |-> flat[i]]
    BY <1>9
  <1>17. flat[1] = ss[1]
    <2>1. 1 \in 1..n
      BY <1>1
    <2> QED BY <1>9, <2>1
  <1>18. \A i \in 1..n : i # 1 => flat[i] = flat[i - 1] \o ss[i]
    BY <1>9
  <1> DEFINE T == {i \in 0..n : i = 0 \/ flat[i] \in Seq(S)}
  <1>12. ASSUME NEW i \in 1..n, i - 1 \in T PROVE i \in T
    <2>1. i \in 0..n /\ ss[i] \in Seq(S)
      BY <1>1
    <2>2. CASE i = 1
      BY <1>17, <2>1, <2>2
    <2>3. CASE i # 1
      <3>1. i - 1 # 0 /\ flat[i] = flat[i - 1] \o ss[i]
        <4>1. i - 1 # 0
          BY <2>3
        <4>2. flat[i] = flat[i - 1] \o ss[i]
          BY <1>18, <2>3, Zenon
        <4> QED BY <4>1, <4>2
      <3>2. flat[i - 1] \in Seq(S)
        BY <1>12, <3>1
      <3>3. flat[i] \in Seq(S)
        BY <2>1, <3>1, <3>2, ConcatProperties, Zenon
      <3> QED BY <2>1, <3>3
    <2> QED BY <2>2, <2>3
  <1>13. 0..n \subseteq T
    <2>1. 0 \in T
      BY <1>1
    <2> HIDE DEF T
    <2> QED BY <1>1, <1>12, <2>1, InductionUpTo
  <1>14. \A i \in 1..n : flat[i] \in Seq(S)
    <2>1. \A i \in 1..n : i \in 0..n /\ i # 0
      OBVIOUS
    <2> QED BY <1>13, <2>1
  <1>15. flat \in [1..n -> Seq(S)]
    BY <1>11, <1>14
  <1>16. \A i \in 2..n : i \in 1..n /\ i # 1
    BY <1>1
  <1>19. \A i \in 2..n : flat[i] = flat[i - 1] \o ss[i]
    BY <1>16, <1>18, Zenon
  <1> QED BY <1>10, <1>15, <1>17, <1>19, Zenon DEF n

LEMMA FlattenIs ==
  ASSUME NEW S, NEW ss \in Seq(Seq(S))
  PROVE  /\ FlattenSeq(ss) \in Seq(S)
         /\ Range(FlattenSeq(ss)) = UNION {Range(ss[k]) : k \in DOMAIN ss}
  <1> DEFINE n == Len(ss)
  <1>1. n \in Nat /\ DOMAIN ss = 1..n /\ \A k \in 1..n : ss[k] \in Seq(S)
    OBVIOUS
  <1>2. CASE n = 0
    <2>1. ss = <<>> /\ FlattenSeq(ss) = ss /\ DOMAIN ss = {}
      BY <1>2 DEF FlattenSeq
    <2>2. <<>> \in Seq(S)
      OBVIOUS
    <2>3. Range(ss) = {} /\ {Range(ss[k]) : k \in DOMAIN ss} = {}
      BY <2>1 DEF Range
    <2> QED BY <2>1, <2>2, <2>3
  <1>3. CASE n # 0
    <2>1. PICK flat \in [1..n -> Seq(S)] :
           /\ FlattenSeq(ss) = flat[n] /\ flat[1] = ss[1]
           /\ \A i \in 2..n : flat[i] = flat[i - 1] \o ss[i]
      BY <1>3, FlattenSteps
    <2> HIDE DEF n
    <2> DEFINE All(m) == UNION {Range(ss[k]) : k \in 1..m}
               T == {m \in 0..n : m = 0 \/ Range(flat[m]) = All(m)}
    <2>2. ASSUME NEW m \in 1..n, m - 1 \in T PROVE m \in T
      <3>1. m \in 0..n /\ ss[m] \in Seq(S) /\ flat[m] \in Seq(S)
        BY <1>1, <2>1
      <3>2. CASE m = 1
        <4>1. flat[m] = ss[m]
          BY <2>1, <3>2
        <4>2. 1..m = {m}
          BY <3>2
        <4>3. Range(flat[m]) = All(m)
          BY <4>1, <4>2
        <4> QED BY <3>1, <4>3
      <3>3. CASE m # 1
        <4> DEFINE p == m - 1
        <4>1. p \in 1..n /\ p # 0 /\ m \in 2..n /\ p \in T
          BY <1>1, <2>2, <3>3
        <4>2. Range(flat[p]) = All(p) /\ flat[p] \in Seq(S) /\ flat[m] = flat[p] \o ss[m]
          BY <2>1, <4>1
        <4>3. 1..m = 1..p \cup {m}
          BY <4>1
        <4> HIDE DEF p
        <4>4. Range(flat[m]) = Range(flat[p]) \cup Range(ss[m])
          BY <3>1, <4>2, RangeConcatenation
        <4>5. All(m) = All(p) \cup Range(ss[m])
          BY <4>3
        <4>6. Range(flat[m]) = All(m)
          BY <4>2, <4>4, <4>5
        <4> HIDE DEF All
        <4> QED BY <3>1, <4>6
      <3> QED BY <3>2, <3>3
    <2>3. 0..n \subseteq T
      <3>1. 0 \in T
        BY <1>1
      <3> HIDE DEF T
      <3> QED BY <1>1, <2>2, <3>1, InductionUpTo
    <2>4. Range(flat[n]) = All(n)
      <3>1. n \in 0..n
        BY <1>1
      <3> QED BY <1>3, <2>3, <3>1
    <2>5. FlattenSeq(ss) \in Seq(S)
      <3>1. n \in 1..n
        BY <1>1, <1>3
      <3> QED BY <2>1, <3>1
    <2> QED BY <1>1, <2>1, <2>4, <2>5
  <1> QED BY <1>2, <1>3

\* The values of t from b down to a: none at b, else its head and then what it jumps to.
Jumps(t, a, b, head, jump) ==
  \A i \in a..b : t[i] = IF i = b THEN <<>> ELSE head[i] \o t[jump[i]]

\* What is defined from b down to a, each value from one further on, exists.
LEMMA JumpsExist ==
  ASSUME NEW a \in Nat, NEW b \in Nat, a <= b, NEW S,
         NEW jump, \A i \in a..(b - 1) : jump[i] \in (i + 1)..b,
         NEW head, \A i \in a..(b - 1) : head[i] \in Seq(S)
  PROVE  \E t \in [a..b -> Seq(S)] : Jumps(t, a, b, head, jump)
  <1> DEFINE Good(k, t) == \A i \in (b - k)..b : t[i] = IF i = b THEN <<>> ELSE head[i] \o t[jump[i]]
             n == b - a
             T == {k \in 0..n : \E t \in [a..b -> Seq(S)] : Good(k, t)}
  <1>1. 0 \in T
    <2> DEFINE t == [i \in a..b |-> <<>>]
    <2>1. t \in [a..b -> Seq(S)] /\ b \in a..b /\ \A i \in (b - 0)..b : i = b
      OBVIOUS
    <2>2. Good(0, t)
      BY <2>1
    <2> HIDE DEF Good, t
    <2> QED BY <2>1, <2>2
  <1>2. ASSUME NEW k \in 1..n, k - 1 \in T PROVE k \in T
    <2>1. PICK t \in [a..b -> Seq(S)] : Good(k - 1, t)
      BY <1>2
    <2> DEFINE at == b - k
               v == head[at] \o t[jump[at]]
               w == [i \in a..b |-> IF i = at THEN v ELSE t[i]]
    <2>2. at \in a..(b - 1) /\ at \in a..b /\ at # b /\ jump[at] \in (at + 1)..b /\ jump[at] \in a..b
      OBVIOUS
    <2>3. v \in Seq(S)
      <3>1. t[jump[at]] \in Seq(S) /\ head[at] \in Seq(S)
        BY <2>2
      <3> HIDE DEF at
      <3> QED BY <3>1, ConcatProperties, Zenon
    <2>4. w \in [a..b -> Seq(S)]
      BY <2>3
    <2>5. ASSUME NEW i \in (b - k)..b PROVE w[i] = IF i = b THEN <<>> ELSE head[i] \o w[jump[i]]
      <3>0. i \in a..b
        BY <2>2
      <3>1. CASE i = at
        <4> HIDE DEF at, v
        <4>0. jump[at] # at
          BY <2>2
        <4>1. w[jump[at]] = t[jump[at]] /\ w[at] = v
          BY <2>2, <4>0
        <4> HIDE DEF w
        <4> USE DEF v
        <4> QED BY <2>2, <3>1, <4>1
      <3>2. CASE i # at
        <4>1. i \in (b - (k - 1))..b /\ w[i] = t[i]
          BY <2>2, <3>0, <3>2
        <4>2. ASSUME i # b PROVE jump[i] \in a..b /\ jump[i] # at
          <5>1. i \in a..(b - 1) /\ at < i
            BY <2>2, <2>5, <3>0, <3>2, <4>2
          <5>2. jump[i] \in (i + 1)..b
            BY <5>1
          <5>3. at \in a..b
            BY <2>2
          <5> HIDE DEF at
          <5>4. \A y \in (i + 1)..b : y \in a..b /\ y # at
            BY <5>1, <5>3
          <5> QED BY <5>2, <5>4
        <4>3. i # b => w[jump[i]] = t[jump[i]]
          BY <4>2
        <4>4. t[i] = IF i = b THEN <<>> ELSE head[i] \o t[jump[i]]
          BY <2>1, <4>1
        <4> HIDE DEF w, at, Good
        <4> QED BY <4>1, <4>3, <4>4
      <3> QED BY <3>1, <3>2
    <2>6. Good(k, w)
      <3> HIDE DEF w
      <3> QED BY <2>5
    <2>7. k \in 0..n
      OBVIOUS
    <2> HIDE DEF w, Good
    <2> QED BY <2>4, <2>6, <2>7
  <1>3. n \in T
    <2>1. n \in Nat /\ n \in 0..n
      OBVIOUS
    <2> HIDE DEF T
    <2> QED BY <1>1, <1>2, <2>1, InductionUpTo
  <1>4. PICK t \in [a..b -> Seq(S)] : Good(n, t)
    BY <1>3
  <1>5. b - n = a
    OBVIOUS
  <1> QED BY <1>4, <1>5 DEF Jumps

=============================================================================
