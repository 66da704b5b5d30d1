-------------------------- MODULE SyncClientProofs --------------------------
(***************************************************************************)
(* For any folders, any number of clients and any network: the variables   *)
(* of Sync have their types, and a client is never asked for what is not   *)
(* its own, so that neither block_request nor a sender loop panics.        *)
(***************************************************************************)
EXTENDS SyncProofs, FiniteSetTheorems, WellFoundedInduction

-----------------------------------------------------------------------------
(***************************************************************************)
(* Numbers and sequences.                                                  *)
(***************************************************************************)

\* A set of natural numbers has a least element: the induction principle of
\* this module, since it is about sets and not about operators.
LEMMA LeastNat ==
    ASSUME NEW S \in SUBSET Nat, S # {}
    PROVE  Min(S) \in S /\ \A n \in S : Min(S) <= n
<1>1. \E m \in S : \A n \in S : ~(<<n, m>> \in OpToRel(<, Nat))
  BY NatLessThanWellFounded, WFMin
<1>2. PICK m \in S : \A n \in S : ~(<<n, m>> \in OpToRel(<, Nat))
  BY <1>1
<1>3. \A n \in S : ~(n < m)
  BY <1>2 DEF OpToRel
<1>4. \A n \in S : m <= n
  BY <1>3
<1> QED
  BY <1>4 DEF Min

\* The k-th element of a finite set of numbers is the one above k - 1 others:
\* the number of smaller elements is injective, hence takes every value.
LEMMA SortedRank ==
    ASSUME NEW S \in SUBSET Nat, IsFiniteSet(S)
    PROVE  /\ Cardinality(S) \in Nat
           /\ Sorted(S) \in [1 .. Cardinality(S) -> S]
           /\ \A k \in 1 .. Cardinality(S) :
                Cardinality({j \in S : j < Sorted(S)[k]}) = k - 1
<1> DEFINE n == Cardinality(S)
           Below(i) == {j \in S : j < i}
           rank == [i \in S |-> Cardinality(Below(i))]
<1>1. n \in Nat
  BY FS_CardinalityType
<1>2. \A i \in S : IsFiniteSet(Below(i)) /\ Below(i) \subseteq S
  BY FS_Subset
<1>3. ASSUME NEW i \in S
      PROVE  Cardinality(Below(i)) \in 0 .. n - 1
  <2>1. Cardinality(Below(i)) \in Nat
    BY <1>2, FS_CardinalityType
  <2>2. i \notin Below(i) /\ Below(i) \subseteq S
    OBVIOUS
  <2> HIDE DEF Below
  <2>3. Below(i) # S
    BY <2>2
  <2>4. Cardinality(Below(i)) <= n /\ Cardinality(Below(i)) # n
    BY <2>2, <2>3, FS_Subset
  <2> QED
    BY <1>1, <2>1, <2>4
<1>4. ASSUME NEW i \in S, NEW j \in S, i < j
      PROVE  Cardinality(Below(i)) # Cardinality(Below(j))
  <2>1. \A k \in S : k < i => k < j
    <3>1. S \subseteq Nat /\ i \in Nat /\ j \in Nat
      OBVIOUS
    <3> QED
      BY <3>1, <1>4
  <2>1a. Below(i) \subseteq Below(j) /\ i \in Below(j) /\ i \notin Below(i)
    <3>1. ~(i < i)
      OBVIOUS
    <3>2. Below(i) \subseteq Below(j)
      BY <2>1
    <3>3. i \in Below(j)
      BY <1>4
    <3> QED
      BY <3>1, <3>2, <3>3
  <2>2. IsFiniteSet(Below(j))
    BY <1>2
  <2> HIDE DEF Below
  <2>3. Below(i) # Below(j)
    BY <2>1a
  <2> QED
    BY <2>1a, <2>2, <2>3, FS_Subset
<1> HIDE DEF Below
<1>5. rank \in Injection(S, 0 .. n - 1)
  <2>1. rank \in [S -> 0 .. n - 1]
    BY <1>3
  <2>2. ASSUME NEW i \in S, NEW j \in S, rank[i] = rank[j]
        PROVE  i = j
    BY <1>4, <2>2
  <2> HIDE DEF rank
  <2> QED
    BY <2>1, <2>2 DEF Injection, IsInjective
<1>6. IsFiniteSet(0 .. n - 1) /\ Cardinality(0 .. n - 1) = n
  <2> HIDE DEF n
  <2>1. 0 \in Int /\ n - 1 \in Int
    BY <1>1
  <2>2. /\ IsFiniteSet(0 .. n - 1)
        /\ Cardinality(0 .. n - 1) = IF 0 > n - 1 THEN 0 ELSE n - 1 - 0 + 1
    BY <2>1, FS_Interval
  <2> QED
    BY <1>1, <2>2
<1>7. rank \in Surjection(S, 0 .. n - 1)
  BY <1>5, <1>6, FS_Injection
<1>8. ASSUME NEW k \in 1 .. n
      PROVE  \E i \in S : Cardinality(Below(i)) = k - 1
  <2>1. k - 1 \in 0 .. n - 1
    BY <1>1
  <2>2. \E i \in S : rank[i] = k - 1
    BY <1>7, <2>1 DEF Surjection
  <2> QED
    BY <2>2
<1>9. ASSUME NEW k \in 1 .. n
      PROVE  /\ (CHOOSE i \in S : Cardinality({j \in S : j < i}) = k - 1) \in S
             /\ Cardinality({l \in S : l < CHOOSE i \in S : Cardinality({j \in S : j < i}) = k - 1})
                    = k - 1
  BY <1>8 DEF Below
<1>10. Sorted(S) = [k \in 1 .. n |-> CHOOSE i \in S : Cardinality({j \in S : j < i}) = k - 1]
  BY DEF Sorted
<1> HIDE DEF n
<1>11. Sorted(S) \in [1 .. n -> S]
  BY <1>9, <1>10
<1>12. \A k \in 1 .. n : Cardinality({j \in S : j < Sorted(S)[k]}) = k - 1
  BY <1>9, <1>10
<1> QED
  BY <1>1, <1>11, <1>12 DEF n

LEMMA SortedType ==
    ASSUME NEW S \in SUBSET Nat, IsFiniteSet(S)
    PROVE  Sorted(S) \in Seq(S)
<1> DEFINE n == Cardinality(S)
<1>1. n \in Nat /\ Sorted(S) \in [1 .. n -> S]
  BY SortedRank
<1> HIDE DEF n
<1> QED
  BY <1>1

\* A number with more others below it is the greater one.
LEMMA SortedAscends ==
    ASSUME NEW S \in SUBSET Nat, IsFiniteSet(S),
           NEW k \in DOMAIN Sorted(S), NEW l \in DOMAIN Sorted(S), k < l
    PROVE  Sorted(S)[k] < Sorted(S)[l]
<1> DEFINE Below(i) == {j \in S : j < i}
<1>1. /\ Cardinality(S) \in Nat /\ k \in 1 .. Cardinality(S) /\ l \in 1 .. Cardinality(S)
      /\ Sorted(S)[k] \in S /\ Sorted(S)[l] \in S
      /\ Cardinality(Below(Sorted(S)[k])) = k - 1 /\ Cardinality(Below(Sorted(S)[l])) = l - 1
  BY SortedRank
<1>2. PICK x \in Nat, y \in Nat : x = Sorted(S)[k] /\ y = Sorted(S)[l]
  BY <1>1
<1>3. ASSUME y <= x PROVE FALSE
  <2>1. \A j \in S : j \in Nat /\ (j < y => j < x)
    BY <1>3
  <2>2. Below(y) \subseteq Below(x)
    BY <2>1
  <2>3. IsFiniteSet(Below(x))
    BY FS_Subset
  <2> HIDE DEF Below
  <2>4. Cardinality(Below(y)) <= Cardinality(Below(x))
    BY <2>2, <2>3, FS_Subset
  <2>5. k \in Int /\ l \in Int /\ l - 1 <= k - 1
    BY <1>1, <1>2, <2>4
  <2> QED
    BY <2>5
<1> QED
  BY <1>2, <1>3

\* g[i] is what the first i of the sequences make up.
Flattens(g, s, T, n) ==
    /\ g \in [1 .. n -> Seq(T)]
    /\ \A i \in 1 .. n : g[i] = IF i = 1 THEN s[i] ELSE g[i - 1] \o s[i]

\* The function that FlattenSeq defines by recursion exists.
LEMMA FlattenExists ==
    ASSUME NEW T, NEW s \in Seq(Seq(T)), NEW n \in Nat, n <= Len(s)
    PROVE  \E g : Flattens(g, s, T, n)
<1> DEFINE Bad == {m \in 0 .. Len(s) : ~\E g : Flattens(g, s, T, m)}
<1>1. Len(s) \in Nat /\ \A i \in 1 .. Len(s) : s[i] \in Seq(T)
  OBVIOUS
<1>2. ASSUME Bad # {} PROVE FALSE
  <2>1. Bad \in SUBSET Nat
    BY <1>1
  <2>2. PICK m \in Bad : \A k \in Bad : m <= k
    BY <1>2, <2>1, LeastNat
  <2>3. CASE m = 0
    <3>1. Flattens([i \in 1 .. 0 |-> <<>>], s, T, 0)
      BY DEF Flattens
    <3> QED
      BY <2>2, <2>3, <3>1
  <2>4. CASE m > 0
    <3>1. m \in 1 .. Len(s) /\ m - 1 \in 0 .. Len(s) /\ m - 1 \notin Bad
      <4>1. m \in 0 .. Len(s)
        OBVIOUS
      <4>2. m - 1 \in Bad => m <= m - 1
        BY <2>2
      <4> HIDE DEF Bad
      <4> QED
        BY <1>1, <2>4, <4>1, <4>2
    <3>2. PICK g : Flattens(g, s, T, m - 1)
      BY <3>1
    <3> DEFINE h == [i \in 1 .. m |-> IF i < m THEN g[i]
                                      ELSE IF i = 1 THEN s[i] ELSE g[i - 1] \o s[i]]
    <3>3. ASSUME NEW i \in 1 .. m
          PROVE  h[i] \in Seq(T) /\ h[i] = IF i = 1 THEN s[i] ELSE h[i - 1] \o s[i]
      <4>1. CASE i < m
        <5>1. i \in 1 .. m - 1 /\ h[i] = g[i]
          BY <3>1, <4>1
        <5>2. g[i] \in Seq(T) /\ g[i] = IF i = 1 THEN s[i] ELSE g[i - 1] \o s[i]
          BY <3>2, <5>1 DEF Flattens
        <5>3. i # 1 => i - 1 \in 1 .. m /\ i - 1 < m
          BY <3>1, <4>1
        <5> QED
          BY <5>1, <5>2, <5>3
      <4>2. CASE i = m
        <5>1. i # 1 => i - 1 \in 1 .. m - 1 /\ i - 1 \in 1 .. m /\ i - 1 < m
          BY <3>1, <4>2
        <5>2. i # 1 => h[i - 1] = g[i - 1] /\ g[i - 1] \in Seq(T)
          BY <3>2, <5>1 DEF Flattens
        <5>3. s[i] \in Seq(T)
          BY <1>1, <3>1, <4>2
        <5>4. h[i] = IF i = 1 THEN s[i] ELSE g[i - 1] \o s[i]
          BY <3>1, <4>2
        <5>5. i # 1 => g[i - 1] \o s[i] \in Seq(T)
          BY <5>2, <5>3
        <5> HIDE DEF h
        <5> QED
          BY <5>2, <5>3, <5>4, <5>5
      <4> QED
        BY <3>1, <4>1, <4>2
    <3>4. h = [i \in 1 .. m |-> h[i]]
      OBVIOUS
    <3> HIDE DEF h
    <3>5. h \in [1 .. m -> Seq(T)]
      BY <3>3, <3>4
    <3>6. Flattens(h, s, T, m)
      BY <3>3, <3>5 DEF Flattens
    <3> QED
      BY <2>2, <3>6
  <2> QED
    BY <2>1, <2>2, <2>3, <2>4
<1>3. n \in 0 .. Len(s)
  BY <1>1
<1>4. n \notin Bad
  BY <1>2
<1> QED
  BY <1>3, <1>4

\* Flattening sequences over T gives one over T.
LEMMA FlattenType ==
    ASSUME NEW T, NEW s \in Seq(Seq(T))
    PROVE  FlattenSeq(s) \in Seq(T)
<1> DEFINE n == Len(s)
           IsFlat(g) == g = [i \in 1 .. n |-> IF i = 1 THEN s[i] ELSE g[i - 1] \o s[i]]
           f == CHOOSE g : IsFlat(g)
<1>1. n \in Nat
  OBVIOUS
<1>2. CASE n = 0
  <2>1. s = <<>> /\ FlattenSeq(s) = s
    BY <1>2 DEF FlattenSeq
  <2>2. FlattenSeq(s) = <<>>
    BY <2>1
  <2> QED
    BY <2>2
<1>3. CASE n # 0
  <2>1. FlattenSeq(s) = f[n]
    BY <1>3 DEF FlattenSeq
  <2>2. \E g : IsFlat(g)
    <3>0. n <= Len(s)
      BY <1>1
    <3>1. \E g : Flattens(g, s, T, n)
      <4> HIDE DEF n
      <4> QED
        BY <1>1, <3>0, FlattenExists
    <3>2. PICK g : Flattens(g, s, T, n)
      BY <3>1
    <3>3. IsFlat(g)
      BY <3>2 DEF Flattens
    <3> QED
      BY <3>3
  <2>3. IsFlat(f)
    BY <2>2
  <2> HIDE DEF f
  <2>4. \A i \in 1 .. n : f[i] = IF i = 1 THEN s[i] ELSE f[i - 1] \o s[i]
    BY <2>3
  <2> DEFINE Bad == {i \in 1 .. n : f[i] \notin Seq(T)}
  <2>5. ASSUME Bad # {} PROVE FALSE
    <3>1. Bad \in SUBSET Nat
      BY <1>1
    <3>2. PICK i \in Bad : \A k \in Bad : i <= k
      BY <2>5, <3>1, LeastNat
    <3>3. i \in 1 .. n /\ s[i] \in Seq(T) /\ i \in Nat
      BY <1>1
    <3>4. i # 1 => i - 1 \in 1 .. n /\ i - 1 \notin Bad
      BY <1>1, <3>1, <3>2, <3>3
    <3>5. i # 1 => f[i - 1] \in Seq(T)
      BY <3>4
    <3>6. i # 1 => f[i - 1] \o s[i] \in Seq(T)
      BY <3>3, <3>5 DEF Flattens
    <3>7. f[i] = IF i = 1 THEN s[i] ELSE f[i - 1] \o s[i]
      BY <2>4, <3>3
    <3>8. f[i] \in Seq(T)
      <4> HIDE DEF n, Bad
      <4> QED
        BY <3>3, <3>6, <3>7
    <3> QED
      BY <3>2, <3>8
  <2> QED
    BY <1>1, <1>3, <2>1, <2>5
<1> QED
  BY <1>2, <1>3

\* Of one sequence it is that one.
LEMMA FlattenOne ==
    ASSUME NEW T, NEW s \in Seq(Seq(T)), Len(s) = 1
    PROVE  FlattenSeq(s) = s[1]
<1> DEFINE IsFlat(g) == g = [i \in 1 .. Len(s) |-> IF i = 1 THEN s[i] ELSE g[i - 1] \o s[i]]
           f == CHOOSE g : IsFlat(g)
<1>1. FlattenSeq(s) = f[1]
  BY DEF FlattenSeq
<1>2. PICK g : Flattens(g, s, T, Len(s))
  BY FlattenExists
<1>3. IsFlat(g)
  BY <1>2 DEF Flattens
<1>4. IsFlat(f)
  BY <1>3
<1> HIDE DEF f
<1> QED
  BY <1>1, <1>4

-----------------------------------------------------------------------------
(***************************************************************************)
(* What a status reports, and what a client makes of it.                   *)
(***************************************************************************)
OwnRanges(c) == {r \in Nat \X Nat : Allocated(c, r)}

\* The range r is of chunk ids that stand for a chunk of transfer t.
Within(t, r) == t.from <= r[1] /\ r[1] < r[2] /\ r[2] <= t.from + NumChunks(t.block)
RangesOf(t) == {r \in Nat \X Nat : Within(t, r)}

\* The ranges of one transfer are of its chunks, and in order: where one
\* begins, the chunk before is there, so the range before has ended.
LEMMA MissingRangesOrdered ==
    ASSUME NEW t \in Transfers
    PROVE  MissingRanges(t) \in Seq(RangesOf(t)) /\ Ascending(MissingRanges(t))
<1> DEFINE n == NumChunks(t.block)
           M == {i \in 0 .. n - 1 : data[<<t.block, i>>] = None}
           Ends(i) == {j \in i .. n : j \notin M}
           S == {i \in M : i - 1 \notin M}
           starts == Sorted(S)
<1>1. t.block \in Blocks /\ t.from \in Nat
  BY DEF Transfers
<1>2. n \in Nat
  BY <1>1, NumChunksAssumption
<1>0. MissingRanges(t) = [k \in DOMAIN starts |-> <<t.from + starts[k], t.from + Min(Ends(starts[k]))>>]
  BY DEF MissingRanges
<1>0a. \A r : Within(t, r) <=> t.from <= r[1] /\ r[1] < r[2] /\ r[2] <= t.from + n
  BY DEF Within
<1> HIDE DEF n
<1>3. S \in SUBSET Nat /\ S \subseteq 0 .. n - 1
  BY <1>2
<1>4. IsFiniteSet(S)
  <2>1. IsFiniteSet(0 .. n - 1)
    BY <1>2, FS_Interval
  <2> HIDE DEF S
  <2> QED
    BY <1>3, <2>1, FS_Subset
<1>5. ASSUME NEW i \in S
      PROVE  /\ Min(Ends(i)) \in Nat /\ i < Min(Ends(i)) /\ Min(Ends(i)) <= n
             /\ \A j \in i .. n : j \notin M => Min(Ends(i)) <= j
  <2>1. i \in Nat /\ i < n /\ i \in M
    BY <1>2, <1>3
  <2>2. Ends(i) \in SUBSET Nat /\ n \in Ends(i)
    BY <1>2, <2>1
  <2>3. Min(Ends(i)) \in Ends(i) /\ \A j \in Ends(i) : Min(Ends(i)) <= j
    <3>1. Ends(i) # {}
      BY <2>2
    <3> HIDE DEF Ends
    <3> QED
      BY <2>2, <3>1, LeastNat
  <2>4. PICK j : j = Min(Ends(i))
    OBVIOUS
  <2>5. j \in Nat /\ i < j /\ j <= n
    <3>1. j \in i .. n /\ j # i
      BY <2>1, <2>3, <2>4
    <3> HIDE DEF M, Ends, S
    <3> QED
      BY <1>2, <2>1, <3>1
  <2> QED
    BY <2>3, <2>4, <2>5
<1>6. /\ DOMAIN starts = 1 .. Len(starts) /\ Len(starts) \in Nat
      /\ \A k \in DOMAIN starts : starts[k] \in S
      /\ \A k, l \in DOMAIN starts : k < l => starts[k] < starts[l]
  <2> HIDE DEF S
  <2>1. starts \in Seq(S)
    BY <1>3, <1>4, SortedType
  <2>2. \A k, l \in DOMAIN starts : k < l => starts[k] < starts[l]
    BY <1>3, <1>4, SortedAscends
  <2> HIDE DEF starts
  <2> QED
    BY <2>1, <2>2
<1>7. \A i \in S : i \in Nat /\ i - 1 \notin M
  BY <1>3
<1> HIDE DEF starts, Ends, S, M
<1>8. ASSUME NEW k \in DOMAIN starts
      PROVE  <<t.from + starts[k], t.from + Min(Ends(starts[k]))>> \in RangesOf(t)
  <2>1. PICK i \in S, j \in Nat : i = starts[k] /\ j = Min(Ends(starts[k])) /\ i < j /\ j <= n
    BY <1>5, <1>6
  <2>2. PICK r : r = <<t.from + i, t.from + j>>
    OBVIOUS
  <2>3. r \in Nat \X Nat /\ r[1] = t.from + i /\ r[2] = t.from + j
    BY <1>1, <1>7, <2>1, <2>2
  <2>4. Within(t, r)
    BY <1>0a, <1>1, <1>2, <1>7, <2>1, <2>3
  <2> QED
    BY <2>1, <2>2, <2>3, <2>4 DEF RangesOf
<1>9. MissingRanges(t) \in Seq(RangesOf(t)) /\ Len(MissingRanges(t)) = Len(starts)
  BY <1>0, <1>6, <1>8
<1>10. ASSUME NEW k \in 2 .. Len(starts)
       PROVE  t.from + Min(Ends(starts[k - 1])) <= t.from + starts[k]
  <2>1. k \in DOMAIN starts /\ k - 1 \in DOMAIN starts /\ k - 1 < k
    BY <1>6
  <2>2. PICK i \in S, l \in S : i = starts[k - 1] /\ l = starts[k] /\ i < l
    BY <1>6, <2>1
  <2>3. i \in Nat /\ l \in Nat /\ l - 1 \notin M /\ l <= n - 1
    BY <1>2, <1>3, <1>7
  <2>4. l - 1 \in i .. n
    BY <1>2, <2>2, <2>3
  <2>5. Min(Ends(i)) \in Nat /\ Min(Ends(i)) <= l - 1
    BY <1>5, <2>3, <2>4
  <2> QED
    BY <1>1, <2>2, <2>3, <2>5
<1>11. Ascending(MissingRanges(t))
  <2>1. ASSUME NEW k \in 2 .. Len(starts)
        PROVE  MissingRanges(t)[k - 1][2] <= MissingRanges(t)[k][1]
    <3>1. k \in DOMAIN starts /\ k - 1 \in DOMAIN starts
      BY <1>6
    <3> QED
      BY <1>0, <1>10, <3>1
  <2> QED
    BY <1>9, <2>1 DEF Ascending
<1> QED
  BY <1>9, <1>11

\* An allocation has an id for every octet of its block, hence for every chunk.
LEMMA MissingRangesOwn ==
    ASSUME NEW c \in Clients, NEW t \in Transfers, t \in ToSet(alloc[c]),
           t.to = t.from + BlockLen[t.block]
    PROVE  MissingRanges(t) \in Seq(OwnRanges(c))
<1>1. t.block \in Blocks /\ t.from \in Nat
  BY DEF Transfers
<1>2. /\ NumChunks(t.block) \in Nat /\ NumChunks(t.block) <= BlockLen[t.block]
      /\ BlockLen[t.block] \in Nat
  BY <1>1, NumChunksAssumption, BlockLenAssumption
<1>3. ASSUME NEW r \in RangesOf(t) PROVE r \in OwnRanges(c)
  <2>1. r \in Nat \X Nat /\ Within(t, r)
    BY DEF RangesOf
  <2>2. r[1] \in Nat /\ r[2] \in Nat
    BY <2>1
  <2>3. t.from <= r[1] /\ r[1] < r[2] /\ r[2] <= t.to
    BY <1>1, <1>2, <2>1, <2>2 DEF Within
  <2> QED
    BY <2>1, <2>3 DEF OwnRanges, Allocated
<1>4. RangesOf(t) \subseteq OwnRanges(c)
  BY <1>3
<1>5. MissingRanges(t) \in Seq(RangesOf(t))
  BY MissingRangesOrdered
<1> QED
  BY <1>4, <1>5

\* So a status is about ids of the client.
LEMMA MissingOwn ==
    ASSUME IInv, AskedForOwn, NEW c \in Clients
    PROVE  Missing(c) \in Seq(OwnRanges(c))
<1> DEFINE s == [k \in DOMAIN transfers[c] |-> MissingRanges(transfers[c][k])]
<1>1. transfers[c] \in Seq(Transfers) /\ ToSet(transfers[c]) \subseteq ToSet(alloc[c])
  BY DEF IInv, SyncTypes, SyncInv, AllocationsApart
<1>2. ASSUME NEW k \in DOMAIN transfers[c]
      PROVE  MissingRanges(transfers[c][k]) \in Seq(OwnRanges(c))
  <2>1. transfers[c][k] \in Transfers /\ transfers[c][k] \in ToSet(alloc[c])
    <3>1. transfers[c][k] \in ToSet(transfers[c])
      BY DEF ToSet
    <3> QED
      BY <1>1, <3>1
  <2> QED
    BY <2>1, MissingRangesOwn DEF AskedForOwn
<1>3. DOMAIN transfers[c] = 1 .. Len(transfers[c]) /\ Len(transfers[c]) \in Nat
  BY <1>1
<1>4. s \in Seq(Seq(OwnRanges(c)))
  BY <1>2, <1>3
<1>5. FlattenSeq(s) \in Seq(OwnRanges(c))
  <2> HIDE DEF s
  <2> QED
    BY <1>4, FlattenType
<1>6. Missing(c) = <<>> \/ Missing(c) = FlattenSeq(s)
  BY DEF Missing
<1> HIDE DEF s
<1>7. <<>> \in Seq(OwnRanges(c))
  OBVIOUS
<1> QED
  BY <1>5, <1>6, <1>7

LEMMA TruncatedType ==
    ASSUME NEW T, NEW s \in Seq(T)
    PROVE  Truncated(s) \in Seq(T)
<1> DEFINE n == Min({MaxRanges, Len(s)})
<1>1. {MaxRanges, Len(s)} \in SUBSET Nat
  BY BoundsAssumption
<1>2. n \in Nat /\ n <= Len(s)
  <2>1. n \in {MaxRanges, Len(s)} /\ n <= Len(s)
    BY <1>1, LeastNat
  <2> HIDE DEF n
  <2> QED
    BY <1>1, <2>1
<1> HIDE DEF n
<1>3. SubSeq(s, 1, n) \in Seq(T)
  BY <1>2
<1> QED
  BY <1>3 DEF Truncated, n

\* A cursor that moves on stays within what is to do, and does not come back.
LEMMA NextTodoAfter ==
    ASSUME NEW c \in Clients, cursor[c] \in Nat, todo[c] \in Seq(Nat \X Nat),
           \A r \in ToSet(todo[c]) : r[1] < r[2], NextTodo(c) # None
    PROVE  /\ NextTodo(c) \in Nat /\ cursor[c] < NextTodo(c)
           /\ \E r \in ToSet(todo[c]) : r[1] <= NextTodo(c) /\ NextTodo(c) < r[2]
<1> DEFINE after == cursor[c] + 1
           I == {i \in 1 .. Len(todo[c]) : after < todo[c][i][2]}
           k == IF I # {} THEN Min(I) ELSE 0
<1>1. NextTodo(c) = IF k = 0 THEN None
                    ELSE IF todo[c][k][1] < after THEN after ELSE todo[c][k][1]
  BY DEF NextTodo, SelectInSeq
<1>2. I # {}
  <2> HIDE DEF I
  <2> QED
    BY <1>1
<1>2a. I \in SUBSET Nat
  OBVIOUS
<1>3. k \in I
  <2> HIDE DEF I
  <2> QED
    BY <1>2, <1>2a, LeastNat
<1>4. k \in DOMAIN todo[c] /\ k # 0 /\ after < todo[c][k][2] /\ after \in Nat
  <2> HIDE DEF k
  <2> QED
    BY <1>3
<1>5. PICK n \in Nat : n = cursor[c] /\ n < after
  OBVIOUS
<1> HIDE DEF k, I, after
<1>6. PICK r : r = todo[c][k]
  OBVIOUS
<1>7. r \in Nat \X Nat /\ r \in ToSet(todo[c]) /\ r[1] \in Nat /\ r[2] \in Nat /\ r[1] < r[2]
  BY <1>4, <1>6 DEF ToSet
<1>8. PICK id : id = NextTodo(c)
  OBVIOUS
<1>9. id = IF r[1] < after THEN after ELSE r[1]
  BY <1>1, <1>4, <1>6, <1>8
<1>10. id \in Nat /\ n < id /\ r[1] <= id /\ id < r[2]
  <2>1. /\ r[1] \in Nat /\ r[2] \in Nat /\ r[1] < r[2]
        /\ after \in Nat /\ after < r[2] /\ n \in Nat /\ n < after
    BY <1>4, <1>5, <1>6, <1>7, Zenon
  <2>2. CASE r[1] < after
    BY ONLY <1>9, <2>1, <2>2
  <2>3. CASE ~(r[1] < after)
    BY ONLY <1>9, <2>1, <2>3
  <2> QED
    BY <2>2, <2>3
<1> QED
  BY <1>5, <1>7, <1>8, <1>10

LEMMA NextTodoOwn ==
    ASSUME NEW c \in Clients, cursor[c] \in Nat, alloc[c] \in Seq(Transfers),
           todo[c] \in Seq(Nat \X Nat), \A r \in ToSet(todo[c]) : Allocated(c, r)
    PROVE  /\ NextTodo(c) \in Nat \cup {None}
           /\ NextTodo(c) # None => \E e \in ToSet(alloc[c]) : Covers(e, NextTodo(c))
<1> SUFFICES ASSUME NextTodo(c) # None
             PROVE  NextTodo(c) \in Nat /\ \E e \in ToSet(alloc[c]) : Covers(e, NextTodo(c))
  OBVIOUS
<1>1. \A r \in ToSet(todo[c]) : r[1] < r[2]
  BY DEF Allocated
<1>2. PICK id : id = NextTodo(c)
  OBVIOUS
<1>3. id \in Nat /\ \E r \in ToSet(todo[c]) : r[1] <= id /\ id < r[2]
  BY <1>1, <1>2, NextTodoAfter
<1>4. PICK r \in ToSet(todo[c]) : r[1] <= id /\ id < r[2]
  BY <1>3
<1>5. PICK e \in ToSet(alloc[c]) : e.from <= r[1] /\ r[1] < r[2] /\ r[2] <= e.to
  BY DEF Allocated
<1>6. r[1] \in Nat /\ r[2] \in Nat /\ e.from \in Nat /\ e.to \in Nat
  <2>1. r \in Nat \X Nat /\ e \in Transfers
    BY DEF ToSet
  <2> QED
    BY <2>1 DEF Transfers
<1>7. Covers(e, id)
  BY <1>3, <1>4, <1>5, <1>6 DEF Covers
<1> QED
  BY <1>2, <1>3, <1>7

-----------------------------------------------------------------------------
(***************************************************************************)
(* The inductive invariant, and what most steps leave alone.               *)
(***************************************************************************)
Nets == [Clients -> Seq(Messages)]

LEMMA PostType ==
    ASSUME NEW net \in Nets, NEW c \in Clients, NEW m \in Messages
    PROVE  Post(net, c, m) \in Nets
<1>1. Append(net[c], m) \in Seq(Messages)
  BY DEF Nets
<1> QED
  BY <1>1 DEF Nets, Post

LEMMA WithoutType ==
    ASSUME NEW net \in Nets, NEW c \in Clients, NEW i \in DOMAIN net[c]
    PROVE  [net EXCEPT ![c] = Without(@, i)] \in Nets
<1>1. Without(net[c], i) \in Seq(Messages)
  BY WithoutSet DEF Nets
<1> QED
  BY <1>1 DEF Nets

LEMMA TakenType ==
    ASSUME NEW net \in Nets, NEW c \in Clients, NEW i \in DOMAIN net[c],
           NEW n \in Taken(net, c, i)
    PROVE  n \in Nets
<1>1. n = [net EXCEPT ![c] = Without(@, i)] \/ n = net
  BY DEF Taken
<1> QED
  BY <1>1, WithoutType

\* The types that SyncTypes leaves out.
RestTypes ==
    /\ clientUp \in [Clients -> BOOLEAN]
    /\ cursor \in [Clients -> Nat \cup {None}]
    /\ todo \in [Clients -> Seq(Nat \X Nat)]
    /\ loops \in [Clients -> Nat]
    /\ status_tx \in [Clients -> BOOLEAN]
    /\ ticks \in [Clients -> Nat]
    /\ server \in {"up", "poisoned", "dead"}
    /\ up \in Nets
    /\ down \in Nets

\* Nothing is left of a connection that the server has forgotten.
Forgotten ==
    \A c \in Clients \ known :
        requests[c] = {} /\ transfers[c] = <<>> /\ status_tx[c] = FALSE

ClientInv == RestTypes /\ Forgotten /\ AskedForOwn /\ ClientsUp

LEMMA TypesTogether ==
    ASSUME IInv, RestTypes, Forgotten
    PROVE  TypeOK
<1>1. ASSUME NEW x \in Chunks PROVE data[x] \in (Blocks \X Nat) \cup {None}
  <2>1. x \in Blocks \X Nat
    <3>1. PICK b \in Blocks : x \in ChunksOf(b)
      BY DEF Chunks
    <3>2. NumChunks(b) \in Nat
      BY NumChunksAssumption
    <3> QED
      BY <3>1, <3>2 DEF ChunksOf
  <2> QED
    BY <2>1 DEF IInv, SyncInv, DataInPlace
<1>2. data \in [Chunks -> (Blocks \X Nat) \cup {None}]
  <2>1. data = [x \in Chunks |-> data[x]]
    BY DEF IInv, SyncTypes
  <2> QED
    BY <1>1, <2>1
<1> QED
  BY <1>2 DEF IInv, SyncTypes, RestTypes, Forgotten, Nets, TypeOK

LEMMA InitClientInv == Init => ClientInv
<1> SUFFICES ASSUME Init PROVE ClientInv
  OBVIOUS
<1> USE DEF Init
<1>1. RestTypes
  BY DEF RestTypes, Nets
<1>2. Forgotten /\ ClientsUp
  BY DEF Forgotten, ClientsUp
<1>3. AskedForOwn
  BY DEF AskedForOwn, ToSet
<1> QED
  BY <1>1, <1>2, <1>3 DEF ClientInv

\* Allocations are only added, so what was a client's own still is.
LEMMA OwnStep ==
    ASSUME AskedForOwn,
           \A d \in Clients : ToSet(alloc[d]) \subseteq ToSet(alloc'[d]),
           \A d \in Clients : \A e \in ToSet(alloc'[d]) :
                e \in ToSet(alloc[d]) \/ e.to = e.from + BlockLen[e.block],
           \A d \in Clients : requests'[d] \subseteq Tree[Root[d]],
           \A d \in Clients : \A m \in ToSet(down'[d]) : m \in ToSet(down[d]) \/ AsksForOwn(d, m),
           \A d \in Clients : \A r \in ToSet(todo'[d]) : Allocated(d, r),
           \A d \in Clients : cursor'[d] # None => \E e \in ToSet(alloc[d]) : Covers(e, cursor'[d])
    PROVE  AskedForOwn'
<1>1. ASSUME NEW d \in Clients, NEW r, Allocated(d, r)
      PROVE  Allocated(d, r)'
  BY <1>1 DEF Allocated
<1>2. ASSUME NEW d \in Clients, NEW m, AsksForOwn(d, m)
      PROVE  AsksForOwn(d, m)'
  BY <1>1, <1>2 DEF AsksForOwn
<1>3. ASSUME NEW d \in Clients
      PROVE  /\ \A e \in ToSet(alloc'[d]) : e.to = e.from + BlockLen[e.block]
             /\ \A m \in ToSet(down'[d]) : AsksForOwn(d, m)'
             /\ \A r \in ToSet(todo'[d]) : Allocated(d, r)'
             /\ cursor'[d] # None => \E e \in ToSet(alloc'[d]) : Covers(e, cursor'[d])
  BY <1>1, <1>2 DEF AskedForOwn
<1> QED
  BY <1>3 DEF AskedForOwn

LEMMA OwnFrame ==
    ASSUME AskedForOwn, UNCHANGED <<alloc, requests, todo, cursor>>,
           \A d \in Clients : \A m \in ToSet(down'[d]) : m \in ToSet(down[d]) \/ AsksForOwn(d, m)
    PROVE  AskedForOwn'
BY OwnStep DEF AskedForOwn

\* A message that is taken was sent, and what is left is typed.
LEMMA ClientTakesType ==
    ASSUME IInv, RestTypes, NEW c \in Clients, NEW i \in DOMAIN down[c], NEW t,
           ClientTakes(c, i, t)
    PROVE  /\ down' \in Nets
           /\ \A d \in Clients : ToSet(down'[d]) \subseteq ToSet(down[d])
           /\ down[c][i] \in ToSet(down[c]) /\ down[c][i] \in Messages /\ down[c][i].type = t
<1>1. down \in Nets /\ IsNet(down)
  BY DEF RestTypes, IInv, SyncTypes
<1>2. down' \in Taken(down, c, i) /\ down[c][i].type = t
  BY DEF ClientTakes
<1>3. down' \in Nets
  BY <1>1, <1>2, TakenType
<1>4. \A d \in Clients : ToSet(down'[d]) \subseteq ToSet(down[d])
  BY <1>1, <1>2, TakenSet
<1>5. down[c][i] \in ToSet(down[c]) /\ down[c][i] \in Messages
  BY <1>1 DEF ToSet, Nets
<1> QED
  BY <1>2, <1>3, <1>4, <1>5

LEMMA ServerTakesType ==
    ASSUME RestTypes, NEW c \in Clients, NEW i \in DOMAIN up[c], NEW t, ServerTakes(c, i, t)
    PROVE  /\ up' \in Nets
           /\ up[c][i] \in Messages /\ up[c][i].type = t
<1>1. up \in Nets
  BY DEF RestTypes
<1>2. up' \in Taken(up, c, i) /\ up[c][i].type = t
  BY DEF ServerTakes
<1>3. up' \in Nets
  BY <1>1, <1>2, TakenType
<1>4. up[c][i] \in Messages
  BY <1>1 DEF Nets
<1> QED
  BY <1>2, <1>3, <1>4

\* What a message that is posted adds.
LEMMA PostDownType ==
    ASSUME IInv, RestTypes, NEW c \in Clients, NEW m \in Messages, AsksForOwn(c, m)
    PROVE  /\ Post(down, c, m) \in Nets
           /\ \A d \in Clients : \A n \in ToSet(Post(down, c, m)[d]) :
                n \in ToSet(down[d]) \/ AsksForOwn(d, n)
<1>1. down \in Nets /\ IsNet(down)
  BY DEF RestTypes, IInv, SyncTypes
<1>2. Post(down, c, m) \in Nets
  BY <1>1, PostType
<1>3. /\ \A d \in Clients : ToSet(Post(down, c, m)[d]) \subseteq ToSet(down[d]) \cup {m}
      /\ \A d \in Clients \ {c} : Post(down, c, m)[d] = down[d]
  BY <1>1, PostSet
<1> QED
  BY <1>2, <1>3

-----------------------------------------------------------------------------
(***************************************************************************)
(* The steps of a client.                                                  *)
(***************************************************************************)
LEMMA ConnectClient ==
    ASSUME IInv, ClientInv, NEW c \in Clients, connect(c)
    PROVE  ClientInv'
<1> USE DEF ClientInv
<1>1. /\ up' = Post(up, c, RootUpdate(Root[c]))
      /\ UNCHANGED <<clientUp, cursor, todo, loops, alloc, status_tx, ticks, server, down,
                     known, requests, transfers>>
  BY DEF connect, sendVars, serverVars, dbVars, connVars
<1>2. RootUpdate(Root[c]) \in Messages
  BY RootAssumption DEF RootUpdate, Messages
<1>3. up' \in Nets
  BY <1>1, <1>2, PostType DEF RestTypes
<1>4. RestTypes' /\ Forgotten' /\ ClientsUp'
  BY <1>1, <1>3 DEF RestTypes, Forgotten, ClientsUp
<1> QED
  BY <1>1, <1>4, OwnFrame

LEMMA RootResponseClient ==
    ASSUME IInv, ClientInv, NEW c \in Clients, recv_root_update_response(c)
    PROVE  ClientInv'
<1> USE DEF ClientInv
<1>1. PICK i \in DOMAIN down[c] : ClientTakes(c, i, "RootUpdateResponse")
  BY DEF recv_root_update_response
<1>2. UNCHANGED <<clientUp, cursor, todo, loops, alloc, status_tx, ticks, server, up,
                  known, requests, transfers>>
  BY DEF recv_root_update_response, clientVars, sendVars, serverVars, dbVars, connVars
<1>3. down' \in Nets /\ \A d \in Clients : ToSet(down'[d]) \subseteq ToSet(down[d])
  BY <1>1, ClientTakesType
<1>4. RestTypes' /\ Forgotten' /\ ClientsUp'
  BY <1>2, <1>3 DEF RestTypes, Forgotten, ClientsUp
<1> QED
  BY <1>2, <1>3, <1>4, OwnFrame

\* The block that is requested is of the client's folder: blockdb.get finds it.
LEMMA BlockRequestClient ==
    ASSUME IInv, ClientInv, NEW c \in Clients, block_request(c)
    PROVE  ClientInv'
<1> USE DEF ClientInv
<1>1. PICK i \in DOMAIN down[c] :
        /\ ClientTakes(c, i, "BlockRequest")
        /\ IF down[c][i].block \in Tree[Root[c]]
           THEN /\ alloc' = [alloc EXCEPT ![c] = Allocation(c, down[c][i].block)]
                /\ next' = [next EXCEPT ![c] =
                        IF alloc'[c] = alloc[c] THEN @ ELSE @ + BlockLen[down[c][i].block]]
                /\ \E k \in DOMAIN alloc'[c] :
                    /\ alloc'[c][k].block = down[c][i].block
                    /\ up' = Post(up, c, BlockRequestResponse(down[c][i].block,
                                            alloc'[c][k].from, alloc'[c][k].to))
                /\ UNCHANGED clientUp
           ELSE TRUE
  BY DEF block_request
<1>2. UNCHANGED <<cursor, todo, loops, status_tx, ticks, server, known, requests, transfers>>
  BY DEF block_request, serverVars, dbVars, connVars
<1>3. PICK b : b = down[c][i].block
  OBVIOUS
<1>4. /\ down' \in Nets
      /\ \A d \in Clients : ToSet(down'[d]) \subseteq ToSet(down[d])
      /\ down[c][i] \in ToSet(down[c]) /\ down[c][i].type = "BlockRequest"
  BY <1>1, ClientTakesType
<1>5. b \in Tree[Root[c]]
  BY <1>3, <1>4 DEF AskedForOwn, AsksForOwn
<1>6. /\ alloc' = [alloc EXCEPT ![c] = Allocation(c, b)]
      /\ next' = [next EXCEPT ![c] = IF alloc'[c] = alloc[c] THEN @ ELSE @ + BlockLen[b]]
      /\ UNCHANGED clientUp
  BY <1>1, <1>3, <1>5
<1>7. PICK k \in DOMAIN alloc'[c] :
        up' = Post(up, c, BlockRequestResponse(b, alloc'[c][k].from, alloc'[c][k].to))
  BY <1>1, <1>3, <1>5
<1>8. /\ alloc' \in [Clients -> Seq(Transfers)]
      /\ \A d \in Clients : ToSet(alloc[d]) \subseteq ToSet(alloc'[d])
  BY <1>2, <1>5, <1>6, AllocationStep
<1>9. b \in Blocks
  BY <1>5, TreeType, RootAssumption
<1>10. up' \in Nets
  <2>1. alloc'[c][k] \in Transfers
    BY <1>8
  <2>2. PICK e \in Transfers : e = alloc'[c][k]
    BY <2>1
  <2>3. BlockRequestResponse(b, e.from, e.to) \in Messages
    BY <1>9 DEF BlockRequestResponse, Messages, Transfers
  <2> QED
    BY <1>7, <2>2, <2>3, PostType DEF RestTypes
<1>11. \A d \in Clients : \A e \in ToSet(alloc'[d]) :
            e \in ToSet(alloc[d]) \/ e.to = e.from + BlockLen[e.block]
  <2> DEFINE e == [block |-> b, from |-> next[c], to |-> next[c] + BlockLen[b]]
  <2>1. alloc \in [Clients -> Seq(Transfers)]
    BY DEF IInv, SyncTypes
  <2>2. alloc'[c] = alloc[c] \/ alloc'[c] = Append(alloc[c], e)
    BY <1>6, <2>1 DEF Allocation
  <2>3. \A d \in Clients \ {c} : alloc'[d] = alloc[d]
    BY <1>6, <2>1
  <2>4. e.to = e.from + BlockLen[e.block]
    OBVIOUS
  <2> HIDE DEF e
  <2>5. ToSet(Append(alloc[c], e)) = ToSet(alloc[c]) \cup {e}
    BY <2>1, AppendSet
  <2> QED
    BY <2>2, <2>3, <2>4, <2>5
<1>12. AskedForOwn'
  BY <1>2, <1>4, <1>8, <1>11, OwnStep DEF AskedForOwn
<1>13. RestTypes' /\ Forgotten' /\ ClientsUp'
  BY <1>2, <1>4, <1>6, <1>10 DEF RestTypes, Forgotten, ClientsUp
<1> QED
  BY <1>12, <1>13

\* The ranges of a status, whenever it arrives, are of ids that are allocated.
LEMMA StatusClient ==
    ASSUME IInv, ClientInv, NEW c \in Clients, transfer_status(c)
    PROVE  ClientInv'
<1> USE DEF ClientInv
<1>1. PICK i \in DOMAIN down[c] :
        /\ ClientTakes(c, i, "TransferStatus")
        /\ todo' = [todo EXCEPT ![c] = down[c][i].missing_ranges]
        /\ cursor' = [cursor EXCEPT ![c] =
                IF down[c][i].missing_ranges = <<>> THEN None ELSE down[c][i].missing_ranges[1][1]]
        /\ loops' = [loops EXCEPT ![c] =
                IF cursor[c] = None /\ down[c][i].missing_ranges # <<>> THEN @ + 1 ELSE @]
  BY DEF transfer_status
<1>2. UNCHANGED <<clientUp, alloc, status_tx, ticks, server, up, known, requests, transfers>>
  BY DEF transfer_status, serverVars, dbVars, connVars
<1>3. PICK s : s = down[c][i].missing_ranges
  OBVIOUS
<1>4. /\ down' \in Nets
      /\ \A d \in Clients : ToSet(down'[d]) \subseteq ToSet(down[d])
      /\ down[c][i] \in ToSet(down[c]) /\ down[c][i] \in Messages
      /\ down[c][i].type = "TransferStatus"
  BY <1>1, ClientTakesType
<1>5. s \in Seq(Nat \X Nat) /\ \A r \in ToSet(s) : Allocated(c, r)
  <2>1. s \in Seq(Nat \X Nat)
    BY <1>3, <1>4 DEF Messages
  <2> QED
    BY <1>3, <1>4, <2>1 DEF AskedForOwn, AsksForOwn
<1>6. PICK id : id = IF s = <<>> THEN None ELSE s[1][1]
  OBVIOUS
<1>7. id \in Nat \cup {None} /\ (id # None => \E e \in ToSet(alloc[c]) : Covers(e, id))
  <2>1. CASE s = <<>>
    BY <1>6, <2>1
  <2>2. CASE s # <<>>
    <3>1. PICK r \in Nat \X Nat : r = s[1] /\ r \in ToSet(s)
      BY <1>5, <2>2 DEF ToSet
    <3>2. PICK e \in ToSet(alloc[c]) : e.from <= r[1] /\ r[1] < r[2] /\ r[2] <= e.to
      BY <1>5, <3>1 DEF Allocated
    <3>3. e \in Transfers
      BY DEF IInv, SyncTypes, ToSet
    <3>4. e.from \in Nat /\ e.to \in Nat
      BY <3>3 DEF Transfers
    <3>5. r[1] \in Nat /\ r[2] \in Nat
      OBVIOUS
    <3>6. Covers(e, r[1])
      BY <3>2, <3>4, <3>5 DEF Covers
    <3> QED
      BY <1>6, <2>2, <3>1, <3>5, <3>6
  <2> QED
    BY <2>1, <2>2
<1>8. /\ todo' = [todo EXCEPT ![c] = s]
      /\ cursor' = [cursor EXCEPT ![c] = id]
  BY <1>1, <1>3, <1>6
<1>9. /\ todo' \in [Clients -> Seq(Nat \X Nat)]
      /\ cursor' \in [Clients -> Nat \cup {None}]
      /\ loops' \in [Clients -> Nat]
  <2>1. todo' \in [Clients -> Seq(Nat \X Nat)]
    BY <1>5, <1>8 DEF RestTypes
  <2>2. cursor' \in [Clients -> Nat \cup {None}]
    BY <1>7, <1>8 DEF RestTypes
  <2>3. loops \in [Clients -> Nat] /\ (loops' = loops \/ loops' = [loops EXCEPT ![c] = @ + 1])
    BY <1>1 DEF RestTypes
  <2>4. loops' \in [Clients -> Nat]
    <3>1. CASE loops' = loops
      BY <2>3, <3>1
    <3>2. CASE loops' = [loops EXCEPT ![c] = @ + 1]
      <4>1. loops[c] + 1 \in Nat
        BY <2>3
      <4> QED
        BY <2>3, <3>2, <4>1
    <3> QED
      BY <2>3, <3>1, <3>2
  <2> QED
    BY <2>1, <2>2, <2>4
<1>10. RestTypes' /\ Forgotten' /\ ClientsUp'
  BY <1>2, <1>4, <1>9 DEF RestTypes, Forgotten, ClientsUp
<1>11. /\ \A d \in Clients : \A r \in ToSet(todo'[d]) : Allocated(d, r)
       /\ \A d \in Clients : cursor'[d] # None => \E e \in ToSet(alloc[d]) : Covers(e, cursor'[d])
  <2>1. /\ todo'[c] = s /\ cursor'[c] = id
        /\ \A d \in Clients \ {c} : todo'[d] = todo[d] /\ cursor'[d] = cursor[d]
    BY <1>8 DEF RestTypes
  <2> QED
    BY <1>5, <1>7, <2>1 DEF AskedForOwn
<1>12. AskedForOwn'
  BY <1>2, <1>4, <1>11, OwnStep DEF AskedForOwn
<1> QED
  BY <1>10, <1>12

\* The loop finds an allocation for its cursor, and moves it to another.
LEMMA PayloadClient ==
    ASSUME IInv, ClientInv, NEW c \in Clients, send_payload(c)
    PROVE  ClientInv'
<1> USE DEF ClientInv
<1>1. /\ cursor[c] # None
      /\ UNCHANGED <<alloc, todo, loops, status_tx, ticks, server, down, known, requests, transfers>>
  BY DEF send_payload, serverVars, dbVars, connVars
<1>2. /\ cursor[c] \in Nat /\ alloc[c] \in Seq(Transfers) /\ todo[c] \in Seq(Nat \X Nat)
      /\ \A r \in ToSet(todo[c]) : Allocated(c, r)
  BY <1>1 DEF RestTypes, IInv, SyncTypes, AskedForOwn
<1>3. \E k \in DOMAIN alloc[c] : Covers(alloc[c][k], cursor[c])
  BY <1>1 DEF AskedForOwn, ToSet
<1>4. PICK k \in DOMAIN alloc[c] :
        /\ Covers(alloc[c][k], cursor[c])
        /\ up' = Post(up, c, TransferPayload(cursor[c],
                                <<alloc[c][k].block, cursor[c] - alloc[c][k].from>>))
        /\ cursor' = [cursor EXCEPT ![c] = NextTodo(c)]
        /\ UNCHANGED clientUp
  BY <1>3 DEF send_payload
<1>5. /\ NextTodo(c) \in Nat \cup {None}
      /\ NextTodo(c) # None => \E e \in ToSet(alloc[c]) : Covers(e, NextTodo(c))
  BY <1>2, NextTodoOwn
<1>6. up' \in Nets
  <2>1. PICK e \in Transfers : e = alloc[c][k]
    BY <1>2
  <2>2. e.block \in Blocks /\ e.from \in Nat /\ e.to \in Nat
    BY DEF Transfers
  <2>3. cursor[c] - e.from \in Nat
    BY <1>2, <1>4, <2>1, <2>2 DEF Covers
  <2>4. PICK x \in Blocks \X Nat : x = <<e.block, cursor[c] - e.from>>
    BY <2>2, <2>3
  <2>5. TransferPayload(cursor[c], x) \in Messages
    BY <1>2 DEF TransferPayload, Messages
  <2> QED
    BY <1>4, <2>1, <2>4, <2>5, PostType DEF RestTypes
<1>7. /\ cursor' \in [Clients -> Nat \cup {None}]
      /\ cursor'[c] = NextTodo(c)
      /\ \A d \in Clients \ {c} : cursor'[d] = cursor[d]
  BY <1>4, <1>5 DEF RestTypes
<1>8. RestTypes' /\ Forgotten' /\ ClientsUp'
  BY <1>1, <1>4, <1>6, <1>7 DEF RestTypes, Forgotten, ClientsUp
<1>9. \A d \in Clients : cursor'[d] # None => \E e \in ToSet(alloc[d]) : Covers(e, cursor'[d])
  BY <1>5, <1>7 DEF AskedForOwn
<1>10. AskedForOwn'
  BY <1>1, <1>9, OwnStep DEF AskedForOwn
<1> QED
  BY <1>8, <1>10

LEMMA EndLoopClient ==
    ASSUME ClientInv, NEW c \in Clients, end_loop(c)
    PROVE  ClientInv'
<1> USE DEF ClientInv
<1>1. /\ loops[c] > 0 /\ loops' = [loops EXCEPT ![c] = @ - 1]
      /\ UNCHANGED <<clientUp, cursor, todo, alloc, status_tx, ticks, server, up, down,
                     known, requests, transfers>>
  BY DEF end_loop, serverVars, dbVars, connVars
<1>2. loops' \in [Clients -> Nat]
  BY <1>1 DEF RestTypes
<1>3. RestTypes' /\ Forgotten' /\ ClientsUp'
  BY <1>1, <1>2 DEF RestTypes, Forgotten, ClientsUp
<1> QED
  BY <1>1, <1>3, OwnFrame

-----------------------------------------------------------------------------
(***************************************************************************)
(* The steps of the server.                                                *)
(***************************************************************************)

\* Steps that only take a message, or panic.
LEMMA QuietServer ==
    ASSUME IInv, ClientInv, NEW c \in Clients,
           \/ recv_ignored(c) \/ root_update_busy(c) \/ recv_poisoned(c) \/ payload_panics(c)
           \/ encode_underflow(c) \/ status_loop_panics(c)
    PROVE  ClientInv'
<1> USE DEF ClientInv, clientVars, sendVars, serverVars, dbVars, connVars
<1>1. UNCHANGED <<clientUp, cursor, todo, loops, alloc, status_tx, down, known, requests, transfers>>
  BY DEF recv_ignored, root_update_busy, recv_poisoned, payload_panics, encode_underflow,
         status_loop_panics, StatusTurn
<1>2. up' \in Nets
  <2>1. CASE \E i \in DOMAIN up[c] : \E t : ServerTakes(c, i, t)
    BY <2>1, ServerTakesType
  <2>2. CASE up' = up
    BY <2>2 DEF RestTypes
  <2> QED
    BY <2>1, <2>2 DEF recv_ignored, root_update_busy, recv_poisoned, payload_panics,
                      encode_underflow, status_loop_panics, StatusTurn
<1>3. server' \in {"up", "poisoned", "dead"}
  BY DEF recv_ignored, root_update_busy, recv_poisoned, payload_panics, encode_underflow,
         status_loop_panics, RestTypes
<1>4. ticks' \in [Clients -> Nat]
  <2>1. CASE ticks' = ticks
    BY <2>1 DEF RestTypes
  <2>2. CASE StatusTurn(c)
    <3>1. ticks[c] > 0 /\ ticks' = [ticks EXCEPT ![c] = @ - 1]
      BY <2>2 DEF StatusTurn
    <3> QED
      BY <3>1 DEF RestTypes
  <2> QED
    BY <2>1, <2>2 DEF recv_ignored, root_update_busy, recv_poisoned, payload_panics,
                      encode_underflow, status_loop_panics
<1>5. RestTypes' /\ Forgotten' /\ ClientsUp'
  BY <1>1, <1>2, <1>3, <1>4 DEF RestTypes, Forgotten, ClientsUp
<1> QED
  BY <1>1, <1>5, OwnFrame

LEMMA SameServer ==
    ASSUME IInv, ClientInv, NEW c \in Clients, root_update_same(c)
    PROVE  ClientInv'
<1> USE DEF ClientInv, clientVars, sendVars, serverVars, dbVars, connVars
<1>1. /\ down' = Post(down, c, RootUpdateResponse(root))
      /\ UNCHANGED <<clientUp, cursor, todo, loops, alloc, status_tx, ticks, server,
                     known, requests, transfers>>
  BY DEF root_update_same
<1>2. up' \in Nets
  BY ServerTakesType DEF root_update_same
<1>3. RootUpdateResponse(root) \in Messages /\ AsksForOwn(c, RootUpdateResponse(root))
  BY DEF RootUpdateResponse, Messages, AsksForOwn, IInv, SyncTypes
<1>4. /\ down' \in Nets
      /\ \A d \in Clients : \A n \in ToSet(down'[d]) : n \in ToSet(down[d]) \/ AsksForOwn(d, n)
  BY <1>1, <1>3, PostDownType
<1>5. RestTypes' /\ Forgotten' /\ ClientsUp'
  BY <1>1, <1>2, <1>4 DEF RestTypes, Forgotten, ClientsUp
<1> QED
  BY <1>1, <1>4, <1>5, OwnFrame

\* A client that announces its root is asked for it.
LEMMA AcceptServer ==
    ASSUME IInv, ClientInv, NEW c \in Clients, root_update_accept(c)
    PROVE  ClientInv'
<1> USE DEF ClientInv, clientVars, sendVars
<1>1. PICK i \in DOMAIN up[c] :
        /\ ServerTakes(c, i, "RootUpdate")
        /\ known' = known \cup {c}
        /\ requests' = [requests EXCEPT ![c] = {up[c][i].block}]
        /\ transfers' = [transfers EXCEPT ![c] = <<>>]
        /\ status_tx' = [status_tx EXCEPT ![c] = FALSE]
  BY DEF root_update_accept, Entry
<1>2. UNCHANGED <<connected, clientUp, cursor, todo, loops, alloc, ticks, server, down>>
  BY DEF root_update_accept
<1>3. up' \in Nets
  BY <1>1, ServerTakesType
<1>4. up[c][i].block = Root[c]
  BY <1>1, <1>2, ServerTakesStep DEF IsTrue
<1>5. requests \in [Clients -> SUBSET Blocks] /\ transfers \in [Clients -> Seq(Transfers)]
  BY DEF IInv, SyncTypes
<1>6. /\ \A d \in Clients \ {c} : /\ requests'[d] = requests[d] /\ transfers'[d] = transfers[d]
                                  /\ status_tx'[d] = status_tx[d]
      /\ requests'[c] = {Root[c]}
      /\ status_tx' \in [Clients -> BOOLEAN]
  BY <1>1, <1>4, <1>5 DEF RestTypes
<1>7. Root[c] \in Tree[Root[c]]
  BY VisitedClosed, RootAssumption DEF Tree
<1>8. \A d \in Clients : requests'[d] \subseteq Tree[Root[d]]
  BY <1>6, <1>7 DEF AskedForOwn
<1>9. AskedForOwn'
  BY <1>2, <1>8, OwnStep DEF AskedForOwn
<1>10. RestTypes' /\ Forgotten' /\ ClientsUp'
  BY <1>1, <1>2, <1>3, <1>6 DEF RestTypes, Forgotten, ClientsUp
<1> QED
  BY <1>9, <1>10

LEMMA RetryServer ==
    ASSUME IInv, ClientInv, NEW c \in Clients, NEW b \in Blocks, request_retry(c, b)
    PROVE  ClientInv'
<1> USE DEF ClientInv, clientVars, sendVars, serverVars, dbVars, connVars
<1>1. /\ b \in requests[c]
      /\ down' = Post(down, c, BlockRequest(b))
      /\ UNCHANGED <<clientUp, cursor, todo, loops, alloc, status_tx, ticks, server, up,
                     known, requests, transfers>>
  BY DEF request_retry
<1>2. BlockRequest(b) \in Messages /\ AsksForOwn(c, BlockRequest(b))
  BY <1>1 DEF BlockRequest, Messages, AsksForOwn, AskedForOwn
<1>3. /\ down' \in Nets
      /\ \A d \in Clients : \A n \in ToSet(down'[d]) : n \in ToSet(down[d]) \/ AsksForOwn(d, n)
  BY <1>1, <1>2, PostDownType
<1>4. RestTypes' /\ Forgotten' /\ ClientsUp'
  BY <1>1, <1>3 DEF RestTypes, Forgotten, ClientsUp
<1> QED
  BY <1>1, <1>3, <1>4, OwnFrame

LEMMA ResponseServer ==
    ASSUME IInv, ClientInv, NEW c \in Clients, block_request_response(c)
    PROVE  ClientInv'
<1> USE DEF ClientInv, clientVars, sendVars
<1>1. PICK i \in DOMAIN up[c] :
        /\ ServerTakes(c, i, "BlockRequestResponse")
        /\ requests' = [requests EXCEPT ![c] = requests[c] \ {up[c][i].block}]
        /\ transfers' = [transfers EXCEPT ![c] =
                Append(@, [block |-> up[c][i].block, from |-> up[c][i].from, to |-> up[c][i].to])]
  BY DEF block_request_response, Unanswered
<1>2. /\ UNCHANGED <<clientUp, cursor, todo, loops, alloc, server, down, known>>
      /\ c \in known
  BY DEF block_request_response
<1>3. up' \in Nets
  BY <1>1, ServerTakesType
<1>4. requests \in [Clients -> SUBSET Blocks] /\ transfers \in [Clients -> Seq(Transfers)]
  BY DEF IInv, SyncTypes
<1>5. /\ ticks' \in [Clients -> Nat]
      /\ status_tx' \in [Clients -> BOOLEAN]
      /\ \A d \in Clients \ {c} : status_tx'[d] = status_tx[d]
  <2>1. CASE transfers[c] = <<>>
    <3>1. ticks' = [ticks EXCEPT ![c] = @ + 1] /\ status_tx' = [status_tx EXCEPT ![c] = TRUE]
      BY <2>1 DEF block_request_response
    <3> QED
      BY <3>1 DEF RestTypes
  <2>2. CASE transfers[c] # <<>>
    <3>1. UNCHANGED <<ticks, status_tx>>
      BY <2>2 DEF block_request_response
    <3> QED
      BY <3>1 DEF RestTypes
  <2> QED
    BY <2>1, <2>2
<1>6. /\ \A d \in Clients \ {c} : requests'[d] = requests[d] /\ transfers'[d] = transfers[d]
      /\ requests'[c] \subseteq requests[c]
  BY <1>1, <1>4
<1>7. \A d \in Clients : requests'[d] \subseteq Tree[Root[d]]
  BY <1>6 DEF AskedForOwn
<1>8. AskedForOwn'
  BY <1>2, <1>7, OwnStep DEF AskedForOwn
<1>9. RestTypes' /\ Forgotten' /\ ClientsUp'
  BY <1>2, <1>3, <1>5, <1>6 DEF RestTypes, Forgotten, ClientsUp
<1> QED
  BY <1>8, <1>9

\* A status reports ranges of the client's own ids.
LEMMA StatusServer ==
    ASSUME IInv, ClientInv, NEW c \in Clients, send_status(c)
    PROVE  ClientInv'
<1> USE DEF ClientInv, clientVars, sendVars, dbVars
<1>1. /\ ticks[c] > 0 /\ ticks' = [ticks EXCEPT ![c] = @ - 1]
      /\ down' = Post(down, c, TransferStatus(Truncated(Missing(c))))
      /\ UNCHANGED <<clientUp, cursor, todo, loops, alloc, status_tx, server, up,
                     known, requests, transfers>>
  BY DEF send_status, StatusTurn
<1>2. PICK s : s = Truncated(Missing(c))
  OBVIOUS
<1>3. s \in Seq(OwnRanges(c))
  BY <1>2, MissingOwn, TruncatedType
<1>4. s \in Seq(Nat \X Nat) /\ \A r \in ToSet(s) : Allocated(c, r)
  BY <1>3 DEF OwnRanges, ToSet
<1>5. TransferStatus(s) \in Messages /\ AsksForOwn(c, TransferStatus(s))
  BY <1>4 DEF TransferStatus, Messages, AsksForOwn
<1>6. /\ down' \in Nets
      /\ \A d \in Clients : \A n \in ToSet(down'[d]) : n \in ToSet(down[d]) \/ AsksForOwn(d, n)
  BY <1>1, <1>2, <1>5, PostDownType
<1>7. ticks' \in [Clients -> Nat]
  BY <1>1 DEF RestTypes
<1>8. RestTypes' /\ Forgotten' /\ ClientsUp'
  BY <1>1, <1>6, <1>7 DEF RestTypes, Forgotten, ClientsUp
<1> QED
  BY <1>1, <1>6, <1>8, OwnFrame

\* Storing a payload.
LEMMA StoresType ==
    ASSUME RestTypes, NEW c \in Clients, NEW k, NEW x, Stores(c, k, x)
    PROVE  /\ up' \in Nets /\ ticks' \in [Clients -> Nat] /\ c \in known
           /\ UNCHANGED <<clientUp, cursor, todo, loops, alloc, server>>
<1>1. /\ ticks' = [ticks EXCEPT ![c] = @ + 1] /\ c \in known
      /\ UNCHANGED <<clientUp, cursor, todo, loops, alloc, server>>
  BY DEF Stores, clientVars, sendVars
<1>2. up' \in Nets
  BY ServerTakesType DEF Stores
<1> QED
  BY <1>1, <1>2 DEF RestTypes

LEMMA StoreServer ==
    ASSUME IInv, ClientInv, NEW c \in Clients, NEW k, NEW x, store_chunk(c, k, x)
    PROVE  ClientInv'
<1> USE DEF ClientInv
<1>1. Stores(c, k, x) /\ UNCHANGED <<known, requests, transfers, status_tx, down>>
  BY DEF store_chunk
<1>2. /\ up' \in Nets /\ ticks' \in [Clients -> Nat]
      /\ UNCHANGED <<clientUp, cursor, todo, loops, alloc, server>>
  BY <1>1, StoresType
<1>3. RestTypes' /\ Forgotten' /\ ClientsUp'
  BY <1>1, <1>2 DEF RestTypes, Forgotten, ClientsUp
<1> QED
  BY <1>1, <1>2, <1>3, OwnFrame

\* What a block of the client's folder names is in the folder.
LEMMA CompleteBlockServer ==
    ASSUME IInv, ClientInv, NEW c \in Clients, NEW k \in DOMAIN transfers[c], NEW x \in Chunks,
           complete_block(c, k, x)
    PROVE  ClientInv'
<1> USE DEF ClientInv
<1>1. /\ Stores(c, k, x)
      /\ transfers' = [transfers EXCEPT ![c] = Without(@, k)]
      /\ requests' = [requests EXCEPT ![c] = @ \cup (Children[x[1]] \ have)]
      /\ UNCHANGED <<known, status_tx, down>>
  BY DEF complete_block
<1>2. /\ up' \in Nets /\ ticks' \in [Clients -> Nat] /\ c \in known
      /\ UNCHANGED <<clientUp, cursor, todo, loops, alloc, server>>
  BY <1>1, StoresType
<1>3. requests \in [Clients -> SUBSET Blocks] /\ transfers \in [Clients -> Seq(Transfers)]
  BY DEF IInv, SyncTypes
<1>4. x[1] = transfers[c][k].block
  BY <1>1, StoredInPlace
<1>5. x[1] \in Tree[Root[c]]
  <2>1. transfers[c][k] \in ToSet(transfers[c])
    BY DEF ToSet
  <2> QED
    BY <1>4, <2>1 DEF IInv, SyncInv, AllocationsApart
<1>6. Children[x[1]] \subseteq Tree[Root[c]]
  <2>1. Root[c] \in Blocks /\ Tree[Root[c]] \subseteq Blocks
    BY RootAssumption, TreeType
  <2>2. Closed(Tree[Root[c]], Blocks)
    BY <2>1, VisitedClosed DEF Tree
  <2> QED
    BY <1>5, <2>1, <2>2 DEF Closed
<1>7. /\ \A d \in Clients \ {c} : requests'[d] = requests[d] /\ transfers'[d] = transfers[d]
      /\ requests'[c] = requests[c] \cup (Children[x[1]] \ have)
  BY <1>1, <1>3
<1>8. \A d \in Clients : requests'[d] \subseteq Tree[Root[d]]
  BY <1>6, <1>7 DEF AskedForOwn
<1>9. AskedForOwn'
  BY <1>1, <1>2, <1>8, OwnStep DEF AskedForOwn
<1>10. RestTypes' /\ Forgotten' /\ ClientsUp'
  BY <1>1, <1>2, <1>7 DEF RestTypes, Forgotten, ClientsUp
<1> QED
  BY <1>9, <1>10

LEMMA CompleteTreeServer ==
    ASSUME IInv, ClientInv, NEW c \in Clients, NEW k \in DOMAIN transfers[c], NEW x \in Chunks,
           complete_tree(c, k, x)
    PROVE  ClientInv'
<1> USE DEF ClientInv
<1>1. /\ Stores(c, k, x)
      /\ root' = pending_root
      /\ down' = [d \in Clients |->
                    IF d \in known THEN Post(down, d, RootUpdateResponse(root'))[d] ELSE down[d]]
      /\ known' = known \ {c}
      /\ requests' = [requests EXCEPT ![c] = {}]
      /\ transfers' = [transfers EXCEPT ![c] = <<>>]
      /\ status_tx' = [status_tx EXCEPT ![c] = FALSE]
  BY DEF complete_tree, Entry
<1>2. /\ up' \in Nets /\ ticks' \in [Clients -> Nat]
      /\ UNCHANGED <<clientUp, cursor, todo, loops, alloc, server>>
  BY <1>1, StoresType
<1>3. requests \in [Clients -> SUBSET Blocks] /\ transfers \in [Clients -> Seq(Transfers)]
  BY DEF IInv, SyncTypes
<1>4. /\ \A d \in Clients \ {c} : /\ requests'[d] = requests[d] /\ transfers'[d] = transfers[d]
                                  /\ status_tx'[d] = status_tx[d]
      /\ requests'[c] = {} /\ transfers'[c] = <<>> /\ status_tx'[c] = FALSE
      /\ status_tx' \in [Clients -> BOOLEAN]
  BY <1>1, <1>3 DEF RestTypes
<1>5. root' \in Blocks
  BY CompleteTreeStep DEF IInv, SyncTypes
<1>6. PICK p : p = RootUpdateResponse(root')
  OBVIOUS
<1>7. p \in Messages /\ \A d \in Clients : AsksForOwn(d, p)
  BY <1>5, <1>6 DEF RootUpdateResponse, Messages, AsksForOwn
<1>8. \A d \in Clients :
        /\ Post(down, d, p)[d] \in Seq(Messages)
        /\ \A m \in ToSet(Post(down, d, p)[d]) : m \in ToSet(down[d]) \/ AsksForOwn(d, m)
  BY <1>7, PostDownType DEF Nets
<1>9. down \in Nets
  BY DEF RestTypes
<1>10. /\ down' \in Nets
       /\ \A d \in Clients : \A m \in ToSet(down'[d]) : m \in ToSet(down[d]) \/ AsksForOwn(d, m)
  <2>1. \A d \in Clients : down'[d] = Post(down, d, p)[d] \/ down'[d] = down[d]
    BY <1>1, <1>6
  <2>2. \A d \in Clients : down'[d] \in Seq(Messages)
    BY <1>8, <1>9, <2>1 DEF Nets
  <2>3. down' = [d \in Clients |-> down'[d]]
    BY <1>1
  <2> QED
    BY <1>8, <2>1, <2>2, <2>3 DEF Nets
<1>11. \A d \in Clients : requests'[d] \subseteq Tree[Root[d]]
  BY <1>4 DEF AskedForOwn
<1>12. AskedForOwn'
  BY <1>2, <1>10, <1>11, OwnStep DEF AskedForOwn
<1>13. RestTypes' /\ ClientsUp'
  BY <1>2, <1>4, <1>10 DEF RestTypes, ClientsUp
<1>14. Forgotten'
  BY <1>1, <1>4 DEF Forgotten
<1> QED
  BY <1>12, <1>13, <1>14

LEMMA LoseClient ==
    ASSUME IInv, ClientInv, NEW c \in Clients, Lose(c)
    PROVE  ClientInv'
<1> USE DEF ClientInv, clientVars, sendVars, serverVars, dbVars, connVars
<1>1. UNCHANGED <<clientUp, cursor, todo, loops, alloc, status_tx, ticks, server,
                  known, requests, transfers>>
  BY DEF Lose
<1>2. up' \in Nets
  <2>1. up \in Nets
    BY DEF RestTypes
  <2>2. CASE \E i \in DOMAIN up[c] : up' = [up EXCEPT ![c] = Without(@, i)]
    <3>1. PICK i \in DOMAIN up[c] : up' = [up EXCEPT ![c] = Without(@, i)]
      BY <2>2
    <3>2. [up EXCEPT ![c] = Without(@, i)] \in Nets
      BY <2>1, WithoutType
    <3> QED
      BY <3>1, <3>2
  <2>3. CASE up' = up
    BY <2>1, <2>3
  <2> QED
    BY <2>2, <2>3 DEF Lose
<1>3. down' \in Nets /\ \A d \in Clients : ToSet(down'[d]) \subseteq ToSet(down[d])
  <2>1. IsNet(down) /\ down \in Nets
    BY DEF IInv, SyncTypes, RestTypes
  <2>2. CASE \E i \in DOMAIN down[c] : down' = [down EXCEPT ![c] = Without(@, i)]
    <3>1. PICK i \in DOMAIN down[c] : down' = [down EXCEPT ![c] = Without(@, i)]
      BY <2>2
    <3>2. [down EXCEPT ![c] = Without(@, i)] \in Nets
      BY <2>1, WithoutType
    <3>3. \A d \in Clients : ToSet([down EXCEPT ![c] = Without(@, i)][d]) \subseteq ToSet(down[d])
      BY <2>1, WithoutNet
    <3> QED
      BY <3>1, <3>2, <3>3
  <2>3. CASE down' = down
    BY <2>1, <2>3
  <2> QED
    BY <2>2, <2>3 DEF Lose
<1>4. RestTypes' /\ Forgotten' /\ ClientsUp'
  BY <1>1, <1>2, <1>3 DEF RestTypes, Forgotten, ClientsUp
<1> QED
  BY <1>1, <1>3, <1>4, OwnFrame

-----------------------------------------------------------------------------
(***************************************************************************)
(* The theorems.                                                           *)
(***************************************************************************)
LEMMA NextClientInv == IInv /\ ClientInv /\ [Next]_vars => ClientInv'
<1> SUFFICES ASSUME IInv, ClientInv, [Next]_vars PROVE ClientInv'
  OBVIOUS
<1>1. CASE UNCHANGED vars
  <2>1. UNCHANGED <<clientUp, cursor, todo, loops, alloc, status_tx, ticks, server, up, down,
                    known, requests, transfers>>
    BY <1>1 DEF vars, clientVars, sendVars, serverVars, dbVars, connVars
  <2>2. RestTypes' /\ Forgotten' /\ ClientsUp'
    BY <2>1 DEF ClientInv, RestTypes, Forgotten, ClientsUp
  <2> QED
    BY <2>1, <2>2, OwnFrame DEF ClientInv
<1>2. ASSUME NEW c \in Clients, ClientNext(c)
      PROVE  ClientInv'
  BY <1>2, ConnectClient, RootResponseClient, BlockRequestClient, StatusClient, PayloadClient,
     EndLoopClient DEF ClientNext
<1>3. ASSUME NEW c \in Clients, ServerNext(c)
      PROVE  ClientInv'
  <2>1. CASE transfer_payload(c)
    BY <2>1, StoreServer, CompleteBlockServer, CompleteTreeServer DEF transfer_payload
  <2>2. CASE \/ recv_ignored(c) \/ root_update_busy(c) \/ recv_poisoned(c) \/ payload_panics(c)
             \/ encode_underflow(c) \/ status_loop_panics(c)
    BY <2>2, QuietServer
  <2> QED
    BY <1>3, <2>1, <2>2, SameServer, AcceptServer, RetryServer, ResponseServer, StatusServer
       DEF ServerNext
<1>4. ASSUME NEW c \in Clients, Lose(c)
      PROVE  ClientInv'
  BY <1>4, LoseClient
<1> QED
  BY <1>1, <1>2, <1>3, <1>4 DEF Next

\* Both sides and the network only ever hold what their types allow, and
\* nothing is left of a connection that the server has removed.
THEOREM TypesAlways == Spec => []TypeOK
<1>1. IInv /\ ClientInv => TypeOK
  BY TypesTogether DEF ClientInv
<1> QED
  BY <1>1, InitIInv, NextIInv, InitClientInv, NextClientInv, PTL DEF Spec

\* The blocks and the chunk ids that a client is asked for, and those its
\* sender loops work off, are its own, whatever the network delays or repeats.
THEOREM AskedForOwnAlways == Spec => []AskedForOwn
<1>1. ClientInv => AskedForOwn
  BY DEF ClientInv
<1> QED
  BY <1>1, InitIInv, NextIInv, InitClientInv, NextClientInv, PTL DEF Spec

\* So blockdb.get in block_request and the search for the transfer in the
\* sender loop always find something: no client panics.
THEOREM ClientsUpAlways == Spec => []ClientsUp
<1>1. ClientInv => ClientsUp
  BY DEF ClientInv
<1> QED
  BY <1>1, InitIInv, NextIInv, InitClientInv, NextClientInv, PTL DEF Spec
=============================================================================
