---------------------------- MODULE CodecProofs -----------------------------
(***************************************************************************)
(* csync's codec, for any size of datagrams, numbers, files and bitmaps:   *)
(* the index field is large enough and no larger, an index comes out of it *)
(* as it went in, a status is understood the way it was meant, and the     *)
(* bitmap counts its zeroes right.                                         *)
(***************************************************************************)
EXTENDS Codec, BitMap, FiniteSetTheorems, TLAPS, WellFoundedInduction

-----------------------------------------------------------------------------
(***************************************************************************)
(* The bitmap: zeroes() is exact for a bitmap of any size, in a buffer of  *)
(* any content, after any sequence of set and reset.                       *)
(***************************************************************************)

\* What the two invariants say together; ZeroesCount alone does not bound the
\* count, and the count alone is not inductive.
ZeroesInv == TypeOK /\ ZeroesCount

\* The zero bits are finitely many, and at most as many as there are bits.
LEMMA ZeroBits ==
    ASSUME NEW S
    PROVE  /\ IsFiniteSet(Bits \ S)
           /\ Cardinality(Bits \ S) \in 0 .. NumBits
<1>1. IsFiniteSet(Bits) /\ Cardinality(Bits) = NumBits
  BY NumBitsAssumption, FS_Interval DEF Bits
<1>2. Bits \ S \subseteq Bits
  OBVIOUS
<1> QED
  BY <1>1, <1>2, NumBitsAssumption, FS_Subset, FS_CardinalityType

LEMMA InitZeroes == Init => ZeroesInv
<1> SUFFICES ASSUME Init PROVE ZeroesInv
  OBVIOUS
<1>1. zeroes \in 0 .. NumBits
  BY ZeroBits DEF Init
<1> QED
  BY <1>1 DEF Init, ZeroesInv, TypeOK, ZeroesCount

\* Setting a bit removes it from the zero bits, clearing it adds it.
LEMMA SetKeepsCount ==
    ASSUME NEW b \in Bits, NEW new \in BOOLEAN, ZeroesInv, set(b, new)
    PROVE  zeroes' = Cardinality(Bits \ buf')
<1>1. IsFiniteSet(Bits \ buf) /\ IsFiniteSet(Bits \ buf')
  BY ZeroBits
<1>2. CASE (b \in buf) = new
  <2>1. Bits \ buf' = Bits \ buf
    BY <1>2 DEF set
  <2> QED
    BY <1>2, <2>1 DEF set, ZeroesInv, ZeroesCount
<1>3. CASE b \notin buf /\ new
  <2>1. zeroes' = zeroes - 1 /\ buf' = buf \cup {b}
    BY <1>3 DEF set
  <2>2. Bits \ buf' = (Bits \ buf) \ {b}
    BY <2>1
  <2>3. Cardinality((Bits \ buf) \ {b}) = Cardinality(Bits \ buf) - 1
    BY <1>1, <1>3, FS_RemoveElement
  <2> QED
    BY <2>1, <2>2, <2>3 DEF ZeroesInv, ZeroesCount
<1>4. CASE b \in buf /\ ~new
  <2>1. zeroes' = zeroes + 1 /\ buf' = buf \ {b}
    BY <1>4 DEF set
  <2>2. Bits \ buf' = (Bits \ buf) \cup {b}
    BY <2>1
  <2>3. Cardinality((Bits \ buf) \cup {b}) = Cardinality(Bits \ buf) + 1
    BY <1>1, <1>4, FS_AddElement
  <2> QED
    BY <2>1, <2>2, <2>3 DEF ZeroesInv, ZeroesCount
<1> QED
  BY <1>2, <1>3, <1>4

LEMMA NextZeroes == ZeroesInv /\ [Next]_vars => ZeroesInv'
<1> SUFFICES ASSUME ZeroesInv, [Next]_vars PROVE ZeroesInv'
  OBVIOUS
<1>1. ASSUME NEW b \in Bits, NEW new \in BOOLEAN, set(b, new)
      PROVE  ZeroesInv'
  <2>1. zeroes' = Cardinality(Bits \ buf')
    BY <1>1, SetKeepsCount
  <2>2. zeroes' \in 0 .. NumBits
    BY <2>1, ZeroBits
  <2>3. b \in BufBits
    BY <1>1 DEF set, InBuffer
  <2>4. buf' \subseteq BufBits
    BY <1>1, <2>3 DEF set, ZeroesInv, TypeOK
  <2> QED
    BY <2>1, <2>2, <2>4 DEF ZeroesInv, TypeOK, ZeroesCount
<1>2. CASE reset
  <2>1. Bits \ buf' = Bits /\ buf' = {}
    BY <1>2 DEF reset
  <2>2. Cardinality(Bits) = NumBits
    BY NumBitsAssumption, FS_Interval DEF Bits
  <2>3. zeroes' = NumBits
    BY <1>2 DEF reset
  <2> QED
    BY <2>1, <2>2, <2>3, NumBitsAssumption DEF ZeroesInv, TypeOK, ZeroesCount
<1>3. CASE UNCHANGED vars
  BY <1>3 DEF vars, ZeroesInv, TypeOK, ZeroesCount
<1> QED
  BY <1>1, <1>2, <1>3 DEF Next

\* For a bitmap of any size, the count of zero bits that Receiver::poll asks
\* for is exact after any sequence of set and reset, and its decrement never
\* underflows.
THEOREM ZeroesExactAlways == Spec => [](TypeOK /\ ZeroesCount)
<1>1. ZeroesInv => TypeOK /\ ZeroesCount
  BY DEF ZeroesInv
<1> QED
  BY <1>1, InitZeroes, NextZeroes, PTL DEF Spec

-----------------------------------------------------------------------------
(***************************************************************************)
(* Induction and recursion over the natural numbers.                       *)
(***************************************************************************)

\* A set of natural numbers has a least element: the induction principle of
\* this module, since it is about sets and not about operators.
LEMMA LeastNat ==
    ASSUME NEW S \in SUBSET Nat, S # {}
    PROVE  Min(S) \in S /\ \A n \in S : Min(S) <= n
<1>1. \E m \in S : \A n \in S : ~(<<n, m>> \in OpToRel(<, Nat))
  BY NatLessThanWellFounded, WFMin
<1>2. PICK m \in S : \A n \in S : ~(<<n, m>> \in OpToRel(<, Nat))
  BY <1>1
<1>3. \A n \in S : ~(n < m)
  BY <1>2 DEF OpToRel
<1>4. \A n \in S : m <= n
  BY <1>3
<1> QED
  BY <1>4 DEF Min

\* A set that holds 0, and with k - 1 also k, holds every natural number.
LEMMA InductiveSet ==
    ASSUME NEW n \in Nat, NEW S, 0 \in S,
           \A k \in 1 .. n : k - 1 \in S => k \in S
    PROVE  \A k \in 0 .. n : k \in S
<1> DEFINE Bad == {k \in 0 .. n : k \notin S}
<1>1. ASSUME Bad # {} PROVE FALSE
  <2>1. Bad \in SUBSET Nat
    OBVIOUS
  <2>2. PICK k \in Bad : \A j \in Bad : k <= j
    BY <1>1, <2>1, LeastNat
  <2>3. k \in 1 .. n /\ k - 1 \in 0 .. n /\ k \notin S
    BY <2>2
  <2>4. k - 1 \in Bad => k <= k - 1
    BY <2>2
  <2>5. k - 1 \in S
    BY <2>3, <2>4
  <2> QED
    BY <2>3, <2>5
<1> QED
  BY <1>1

\* h takes the first n steps of the recursion that starts with a and goes on
\* with F.
Follows(h, F, a, n) ==
    /\ h \in [0 .. n -> Nat]
    /\ h[0] = a
    /\ \A k \in 1 .. n : h[k] = F[<<k, h[k - 1]>>]

LEMMA PrefixExists ==
    ASSUME NEW F \in [Nat \X Nat -> Nat], NEW a \in Nat, NEW n \in Nat
    PROVE  \E h : Follows(h, F, a, n)
<1> DEFINE Good == {k \in Nat : \E h : Follows(h, F, a, k)}
<1>1. 0 \in Good
  <2>1. Follows([k \in 0 .. 0 |-> a], F, a, 0)
    BY DEF Follows
  <2> QED
    BY <2>1
<1>2. ASSUME NEW m \in 1 .. n, m - 1 \in Good PROVE m \in Good
  <2>1. PICK g : Follows(g, F, a, m - 1)
    BY <1>2
  <2> DEFINE h == [k \in 0 .. m |-> IF k < m THEN g[k] ELSE F[<<m, g[m - 1]>>]]
  <2>2. m \in Nat /\ m > 0 /\ m - 1 \in 0 .. m - 1
    OBVIOUS
  <2>3. g[m - 1] \in Nat /\ F[<<m, g[m - 1]>>] \in Nat
    BY <2>1, <2>2 DEF Follows
  <2>4. \A k \in 0 .. m - 1 : h[k] = g[k] /\ g[k] \in Nat
    BY <2>1, <2>2 DEF Follows
  <2>5. h[m] = F[<<m, g[m - 1]>>] /\ DOMAIN h = 0 .. m /\ h = [k \in 0 .. m |-> h[k]]
    BY <2>2
  <2> HIDE DEF h
  <2>6. h \in [0 .. m -> Nat]
    <3>1. \A k \in 0 .. m : k \in 0 .. m - 1 \/ k = m
      BY <2>2
    <3>2. \A k \in 0 .. m : h[k] \in Nat
      BY <2>3, <2>4, <2>5, <3>1
    <3> QED
      BY <2>5, <3>2
  <2>7. h[0] = a
    BY <2>1, <2>2, <2>4 DEF Follows
  <2>8. ASSUME NEW k \in 1 .. m PROVE h[k] = F[<<k, h[k - 1]>>]
    <3>1. CASE k < m
      <4>1. k \in 0 .. m - 1 /\ k - 1 \in 0 .. m - 1 /\ k \in 1 .. m - 1
        BY <2>2, <3>1
      <4> QED
        BY <2>1, <2>4, <4>1 DEF Follows
    <3>2. CASE k = m
      BY <2>2, <2>4, <2>5, <3>2
    <3> QED
      BY <2>2, <3>1, <3>2
  <2>9. Follows(h, F, a, m)
    BY <2>6, <2>7, <2>8 DEF Follows
  <2> QED
    BY <2>2, <2>9
<1> HIDE DEF Good
<1>3. n \in Good
  BY <1>1, <1>2, InductiveSet
<1> QED
  BY <1>3 DEF Good

LEMMA PrefixUnique ==
    ASSUME NEW F, NEW a, NEW m \in Nat, NEW n \in Nat, m <= n,
           NEW g, Follows(g, F, a, m), NEW h, Follows(h, F, a, n)
    PROVE  \A k \in 0 .. m : g[k] = h[k]
<1> DEFINE Same == {k \in Nat : g[k] = h[k]}
<1>1. 0 \in Same
  BY DEF Follows
<1>2. ASSUME NEW k \in 1 .. m, k - 1 \in Same PROVE k \in Same
  <2>1. k \in Nat /\ k \in 1 .. n /\ g[k - 1] = h[k - 1]
    BY <1>2
  <2> QED
    BY <2>1 DEF Follows
<1> HIDE DEF Same
<1>3. \A k \in 0 .. m : k \in Same
  BY <1>1, <1>2, InductiveSet
<1> QED
  BY <1>3 DEF Same

\* The function that a recursion over the natural numbers defines.
LEMMA RecursionExists ==
    ASSUME NEW F \in [Nat \X Nat -> Nat], NEW a \in Nat
    PROVE  \E h \in [Nat -> Nat] :
              h[0] = a /\ \A k \in Nat \ {0} : h[k] = F[<<k, h[k - 1]>>]
<1> DEFINE G(n) == CHOOSE g : Follows(g, F, a, n)
           h == [n \in Nat |-> G(n)[n]]
<1>1. ASSUME NEW n \in Nat PROVE Follows(G(n), F, a, n)
  BY PrefixExists
<1> HIDE DEF G
<1>2. h \in [Nat -> Nat] /\ h[0] = a
  BY <1>1 DEF Follows
<1>3. ASSUME NEW k \in Nat \ {0} PROVE h[k] = F[<<k, h[k - 1]>>]
  <2>1. k - 1 \in Nat /\ k - 1 <= k /\ k - 1 \in 0 .. k - 1 /\ k \in 1 .. k
    OBVIOUS
  <2>2. Follows(G(k), F, a, k) /\ Follows(G(k - 1), F, a, k - 1)
    BY <1>1, <2>1
  <2>3. \A j \in 0 .. k - 1 : G(k - 1)[j] = G(k)[j]
    BY <2>1, <2>2, PrefixUnique
  <2>4. G(k)[k] = F[<<k, G(k)[k - 1]>>]
    BY <2>1, <2>2 DEF Follows
  <2>5. h[k] = G(k)[k] /\ h[k - 1] = G(k - 1)[k - 1]
    BY <2>1
  <2> QED
    BY <2>1, <2>3, <2>4, <2>5
<1> QED
  BY <1>2, <1>3

-----------------------------------------------------------------------------
(***************************************************************************)
(* Powers and running sums.                                                *)
(***************************************************************************)

\* What the definition of Power says.
LEMMA PowerRecursion ==
    ASSUME NEW base \in Nat
    PROVE  /\ Power(base, 0) = 1
           /\ \A n \in Nat \ {0} : Power(base, n) = base * Power(base, n - 1)
<1> DEFINE F == [x \in Nat \X Nat |-> base * x[2]]
           IsPower(p) == p = [k \in Nat |-> IF k = 0 THEN 1 ELSE base * p[k - 1]]
           p == CHOOSE q : IsPower(q)
<1>1. \E q : IsPower(q)
  <2>1. F \in [Nat \X Nat -> Nat] /\ \A k, n \in Nat : F[<<k, n>>] = base * n
    OBVIOUS
  <2> HIDE DEF F
  <2>2. \E h \in [Nat -> Nat] : h[0] = 1 /\ \A k \in Nat \ {0} : h[k] = F[<<k, h[k - 1]>>]
    <3>1. 1 \in Nat /\ F \in [Nat \X Nat -> Nat]
      BY <2>1
    <3> QED
      BY ONLY <3>1, RecursionExists, Zenon
  <2>3. PICK h \in [Nat -> Nat] : h[0] = 1 /\ \A k \in Nat \ {0} : h[k] = base * h[k - 1]
    <3>1. PICK h \in [Nat -> Nat] :
             h[0] = 1 /\ \A k \in Nat \ {0} : h[k] = F[<<k, h[k - 1]>>]
      BY <2>2
    <3>2. ASSUME NEW k \in Nat \ {0} PROVE h[k] = base * h[k - 1]
      <4>1. k - 1 \in Nat /\ h[k - 1] \in Nat
        OBVIOUS
      <4> QED
        BY <2>1, <3>1, <4>1
    <3> QED
      BY <3>1, <3>2
  <2>4. h = [k \in Nat |-> IF k = 0 THEN 1 ELSE base * h[k - 1]]
    BY <2>3
  <2> QED
    BY <2>4
<1>2. IsPower(p)
  BY <1>1
<1>3. \A n : Power(base, n) = p[n]
  BY DEF Power
<1> HIDE DEF p
<1>4. p[0] = 1 /\ \A n \in Nat \ {0} : p[n] = base * p[n - 1]
  BY <1>2
<1> QED
  BY <1>3, <1>4

LEMMA PowerType ==
    ASSUME NEW base \in Nat, NEW n \in Nat
    PROVE  Power(base, n) \in Nat
<1> DEFINE S == {k \in Nat : Power(base, k) \in Nat}
<1>1. 0 \in S
  BY PowerRecursion
<1>2. ASSUME NEW k \in 1 .. n, k - 1 \in S PROVE k \in S
  <2>1. Power(base, k) = base * Power(base, k - 1)
    BY PowerRecursion
  <2> QED
    BY <1>2, <2>1
<1> HIDE DEF S
<1>3. n \in S
  BY <1>1, <1>2, InductiveSet
<1> QED
  BY <1>3 DEF S

\* A number needs no more digits than it counts.
LEMMA PowerGrows ==
    ASSUME NEW base \in Nat \ {0, 1}, NEW n \in Nat
    PROVE  n < Power(base, n)
<1> DEFINE S == {k \in Nat : k < Power(base, k)}
<1>1. 0 \in S
  BY PowerRecursion
<1>2. ASSUME NEW k \in 1 .. n, k - 1 \in S PROVE k \in S
  <2>1. Power(base, k) = base * Power(base, k - 1)
    BY PowerRecursion
  <2>2. PICK p \in Nat : p = Power(base, k - 1)
    BY PowerType
  <2>3. k - 1 < p /\ base >= 2
    BY <1>2, <2>2
  <2>4. base * p >= 2 * p
    BY <2>3
  <2>5. k < base * p
    BY <2>3, <2>4
  <2> QED
    BY <2>1, <2>2, <2>5
<1> HIDE DEF S
<1>3. n \in S
  BY <1>1, <1>2, InductiveSet
<1> QED
  BY <1>3 DEF S

\* What the definition of Totals says.
LEMMA TotalsRecursion ==
    ASSUME NEW s \in Seq(Nat)
    PROVE  /\ Totals(s)[0] = 0
           /\ \A k \in 1 .. Len(s) : Totals(s)[k] = Totals(s)[k - 1] + s[k]
           /\ \A k \in 0 .. Len(s) : Totals(s)[k] \in Nat
<1> DEFINE N == Len(s)
           F == [x \in Nat \X Nat |-> x[2] + (IF x[1] \in 1 .. N THEN s[x[1]] ELSE 0)]
           IsTotal(t) == t = [k \in 0 .. N |-> IF k = 0 THEN 0 ELSE t[k - 1] + s[k]]
           t == CHOOSE q : IsTotal(q)
<1>1. N \in Nat /\ \A k \in 1 .. N : s[k] \in Nat
  OBVIOUS
<1>2. Totals(s) = t
  BY DEF Totals
<1> HIDE DEF N
<1>3. \E q : IsTotal(q)
  <2>1. /\ F \in [Nat \X Nat -> Nat]
        /\ \A k \in 1 .. N : \A n \in Nat : F[<<k, n>>] = n + s[k]
    <3>1. ASSUME NEW x \in Nat \X Nat
          PROVE  x[2] + (IF x[1] \in 1 .. N THEN s[x[1]] ELSE 0) \in Nat
      BY <1>1
    <3>2. F \in [Nat \X Nat -> Nat]
      BY <3>1
    <3>3. ASSUME NEW k \in 1 .. N, NEW n \in Nat PROVE F[<<k, n>>] = n + s[k]
      <4>1. <<k, n>> \in Nat \X Nat
        BY <1>1
      <4> QED
        BY <4>1
    <3> QED
      BY <3>2, <3>3
  <2> HIDE DEF F
  <2>2. \E h : Follows(h, F, 0, N)
    BY <1>1, <2>1, PrefixExists
  <2>3. PICK h : Follows(h, F, 0, N)
    BY <2>2
  <2>4. ASSUME NEW k \in 1 .. N PROVE h[k] = h[k - 1] + s[k]
    <3>1. k - 1 \in 0 .. N
      BY <1>1
    <3>2. h[k - 1] \in Nat /\ h[k] = F[<<k, h[k - 1]>>]
      BY <2>3, <3>1 DEF Follows
    <3> QED
      BY <2>1, <3>2
  <2>5. h = [k \in 0 .. N |-> IF k = 0 THEN 0 ELSE h[k - 1] + s[k]]
    <3>1. h = [k \in 0 .. N |-> h[k]] /\ h[0] = 0
      BY <2>3 DEF Follows
    <3>2. \A k \in 0 .. N : k # 0 => k \in 1 .. N
      BY <1>1
    <3> QED
      BY <2>4, <3>1, <3>2
  <2> QED
    BY <2>5
<1>4. IsTotal(t)
  BY <1>3
<1> HIDE DEF t
<1>5. t[0] = 0 /\ \A k \in 1 .. N : t[k] = t[k - 1] + s[k]
  BY <1>1, <1>4
<1>6. \A k \in 0 .. N : t[k] \in Nat
  <2> DEFINE S == {k \in Nat : t[k] \in Nat}
  <2>1. 0 \in S
    BY <1>5
  <2>2. ASSUME NEW k \in 1 .. N, k - 1 \in S PROVE k \in S
    BY <1>1, <1>5, <2>2
  <2> HIDE DEF S
  <2>3. \A k \in 0 .. N : k \in S
    BY <1>1, <2>1, <2>2, InductiveSet
  <2> QED
    BY <2>3 DEF S
<1> QED
  BY <1>2, <1>5, <1>6 DEF N

\* One more number leaves the sums so far as they are.
LEMMA TotalsAppend ==
    ASSUME NEW s \in Seq(Nat), NEW x \in Nat
    PROVE  /\ \A k \in 0 .. Len(s) : Totals(Append(s, x))[k] = Totals(s)[k]
           /\ Totals(Append(s, x))[Len(s) + 1] = Totals(s)[Len(s)] + x
<1> DEFINE u == Append(s, x)
           S == {k \in Nat : Totals(u)[k] = Totals(s)[k]}
<1>1. /\ u \in Seq(Nat) /\ Len(u) = Len(s) + 1 /\ Len(s) \in Nat /\ u[Len(s) + 1] = x
      /\ \A k \in 1 .. Len(s) : u[k] = s[k]
  OBVIOUS
<1> HIDE DEF u
<1>2. 0 \in S
  BY <1>1, TotalsRecursion
<1>3. ASSUME NEW k \in 1 .. Len(s), k - 1 \in S PROVE k \in S
  <2>1. k \in 1 .. Len(u) /\ k \in Nat /\ u[k] = s[k]
    BY <1>1
  <2>2. Totals(u)[k] = Totals(u)[k - 1] + u[k]
    BY <1>1, <2>1, TotalsRecursion
  <2>3. Totals(s)[k] = Totals(s)[k - 1] + s[k]
    BY TotalsRecursion
  <2> QED
    BY <1>3, <2>1, <2>2, <2>3
<1> HIDE DEF S
<1>4. \A k \in 0 .. Len(s) : k \in S
  BY <1>1, <1>2, <1>3, InductiveSet
<1>5. Totals(u)[Len(s) + 1] = Totals(u)[Len(s)] + x
  <2>1. Len(s) + 1 \in 1 .. Len(u) /\ (Len(s) + 1) - 1 = Len(s)
    BY <1>1
  <2> QED
    BY <1>1, <2>1, TotalsRecursion
<1>6. Totals(u)[Len(s)] = Totals(s)[Len(s)]
  BY <1>1, <1>4 DEF S
<1> QED
  BY <1>4, <1>5, <1>6 DEF S, u

-----------------------------------------------------------------------------
(***************************************************************************)
(* Division.                                                               *)
(***************************************************************************)
LEMMA DivisionUnique ==
    ASSUME NEW a \in Nat, NEW b \in Nat \ {0}, NEW q \in Nat, NEW r \in Nat,
           a = q * b + r, r < b
    PROVE  a \div b = q /\ a % b = r
OBVIOUS

LEMMA Division ==
    ASSUME NEW a \in Nat, NEW b \in Nat \ {0}
    PROVE  /\ a \div b \in Nat /\ a % b \in Nat
           /\ a % b < b
           /\ a = (a \div b) * b + (a % b)
OBVIOUS

\* Dividing twice is dividing by the product.
LEMMA DivisionTwice ==
    ASSUME NEW i \in Nat, NEW P \in Nat \ {0}, NEW R \in Nat \ {0}
    PROVE  (i \div P) \div R = i \div (P * R)
<1>1. PICK q \in Nat, r \in Nat : q = i \div P /\ i = q * P + r /\ r < P
  BY Division
<1>2. PICK u \in Nat, v \in Nat : u = q \div R /\ q = u * R + v /\ v < R
  BY Division
<1>3. (u * R + v) * P + r = u * (P * R) + (P * v + r)
  OBVIOUS
<1>4. i = u * (P * R) + (P * v + r)
  BY <1>1, <1>2, <1>3
<1>5. P * v + r < P * R
  <2>1. P * (v + 1) <= P * R
    BY <1>2
  <2> QED
    BY <1>1, <2>1
<1>6. P * R \in Nat \ {0} /\ P * v + r \in Nat
  OBVIOUS
<1>7. i \div (P * R) = u
  BY <1>4, <1>5, <1>6, DivisionUnique
<1> QED
  BY <1>1, <1>2, <1>7

-----------------------------------------------------------------------------
(***************************************************************************)
(* The chunk layout.                                                       *)
(***************************************************************************)
LEMMA CountType ==
    ASSUME NEW len \in Nat, NEW size \in Nat \ {0}
    PROVE  ChunkCount(len, size) \in Nat
BY Division DEF ChunkCount

\* The index field of the largest size that the shift can do is large enough
\* for the longest file.
LEMMA LargestHolds ==
    ASSUME NEW len \in 0 .. Power(Radix, U64) - 1
    PROVE  Holds(ChunkCount(len, MTU - (U64 - 1)) + 1, U64 - 1)
<1> USE MTUAssumption, RadixAssumption, U64Assumption
<1>1. PICK P \in Nat : P = Power(Radix, U64 - 1)
  BY PowerType
<1>2. Power(Radix, U64) = Radix * P
  BY <1>1, PowerRecursion
<1>3. PICK c \in Nat : c = MTU - (U64 - 1) /\ c >= 2 * Radix /\ c > 0
  OBVIOUS
<1>4. len \in Nat /\ len < P * Radix
  BY <1>2, PowerType
<1>5. PICK q \in Nat, r \in Nat : q = len \div c /\ len = q * c + r
  BY <1>3, <1>4, Division
<1>6. q * c >= 2 * (q * Radix)
  BY <1>3
<1>7. 2 * (q * Radix) < P * Radix
  BY <1>4, <1>5, <1>6
<1>8. 2 * q < P
  BY <1>7
<1>9. P > 2
  <2>1. U64 - 1 < P /\ U64 - 1 >= 2
    BY <1>1, PowerGrows
  <2> QED
    BY <2>1
<1>10. ChunkCount(len, c) + 1 <= P
  BY <1>5, <1>8, <1>9 DEF ChunkCount
<1> QED
  BY <1>1, <1>3, <1>10 DEF Holds

\* Where the loop stands: one octet less did not do, and when it is done the
\* index field holds every index, that of FIN included.
LayoutInv ==
    /\ length \in 0 .. Power(Radix, U64) - 1
    /\ index_field_size \in 1 .. U64 - 1
    /\ done => Holds(NumChunks + 1, index_field_size)
    /\ index_field_size > 1 =>
          ChunkCount(length, chunk_size + 1) + 1 > Power(Radix, index_field_size - 1)

LEMMA LayoutInitInv == LayoutInit => LayoutInv
BY U64Assumption DEF LayoutInit, LayoutInv

LEMMA TurnInv ==
    ASSUME LayoutInv, Turn
    PROVE  LayoutInv'
<1> USE MTUAssumption, RadixAssumption, U64Assumption
<1> DEFINE n == ChunkCount(length, chunk_size) + 1
<1>1. /\ length \in 0 .. Power(Radix, U64) - 1 /\ length \in Nat
      /\ index_field_size \in 1 .. U64 - 1
      /\ chunk_size \in Nat \ {0}
  <2>1. Power(Radix, U64) \in Nat
    BY PowerType
  <2> QED
    BY <2>1 DEF LayoutInv, chunk_size
<1>2. n \in Nat /\ Power(Radix, index_field_size) \in Nat
  <2>1. index_field_size \in Nat /\ Radix \in Nat
    BY <1>1
  <2>2. Power(Radix, index_field_size) \in Nat
    BY <2>1, PowerType
  <2>3. ChunkCount(length, chunk_size) \in Nat
    BY <1>1, CountType
  <2> QED
    BY <2>2, <2>3
<1>3. num_chunks' = n /\ length' = length
  BY DEF Turn
<1>4. CASE Holds(n, index_field_size)
  <2>1. UNCHANGED <<length, index_field_size>>
    BY <1>3, <1>4 DEF Turn
  <2>2. n = NumChunks + 1 /\ NumChunks' = NumChunks /\ chunk_size' = chunk_size
    BY <2>1 DEF NumChunks, chunk_size
  <2> QED
    BY <1>4, <2>1, <2>2 DEF LayoutInv, Holds
<1>5. CASE ~Holds(n, index_field_size)
  <2>1. done' = FALSE /\ index_field_size' = index_field_size + 1
    BY <1>3, <1>5 DEF Turn
  <2>2. chunk_size' + 1 = chunk_size /\ index_field_size' - 1 = index_field_size
    BY <1>1, <2>1 DEF chunk_size
  <2>3. n > Power(Radix, index_field_size)
    BY <1>2, <1>5 DEF Holds
  <2>4. index_field_size # U64 - 1
    BY <1>1, <1>5, LargestHolds DEF chunk_size
  <2>5. index_field_size' \in 1 .. U64 - 1
    BY <1>1, <2>1, <2>4
  <2> HIDE DEF n
  <2>6. ChunkCount(length', chunk_size' + 1) + 1 > Power(Radix, index_field_size' - 1)
    BY <1>3, <2>2, <2>3 DEF n
  <2> QED
    BY <1>1, <1>3, <2>1, <2>5, <2>6 DEF LayoutInv
<1> QED
  BY <1>4, <1>5

LEMMA LayoutStep ==
    ASSUME LayoutInv, [CodecNext]_<<layoutVars, vars, statusVars>>
    PROVE  LayoutInv'
<1>1. CASE UNCHANGED layoutVars
  BY <1>1 DEF LayoutInv, layoutVars, NumChunks, chunk_size
<1> QED
  BY <1>1, TurnInv DEF CodecNext

LEMMA LayoutInvariant == CodecSpec => []LayoutInv
<1>1. CodecInit => LayoutInv
  BY LayoutInitInv DEF CodecInit
<1> QED
  BY <1>1, LayoutStep, PTL DEF CodecSpec

\* For every length that a u64 holds the loop ends before the shift overflows.
THEOREM ShiftInRangeAlways == CodecSpec => []ShiftInRange
<1>1. LayoutInv => ShiftInRange
  BY U64Assumption DEF LayoutInv, ShiftInRange
<1> QED
  BY <1>1, LayoutInvariant, PTL

\* The loop stops at the first index field that is large enough.
THEOREM IndexFieldMinimalAlways == CodecSpec => []IndexFieldMinimal
<1>1. LayoutInv => IndexFieldMinimal
  BY DEF LayoutInv, IndexFieldMinimal
<1> QED
  BY <1>1, LayoutInvariant, PTL

LEMMA RadixPower ==
    ASSUME NEW k \in Nat
    PROVE  Power(Radix, k) \in Nat \ {0}
<1>1. Power(Radix, k) \in Nat
  BY PowerType, RadixAssumption
<1>2. k < Power(Radix, k)
  BY PowerGrows, RadixAssumption
<1> QED
  BY <1>1, <1>2

\* d are the first n digits of i, each times its weight.
Weighted(d, i, n) ==
    /\ d \in Seq(Nat) /\ Len(d) = n
    /\ \A k \in 1 .. n :
          d[k] = ((i \div Power(Radix, k - 1)) % Radix) * Power(Radix, k - 1)

\* After k - 1 digits what is left is a multiple of the weight; one digit more,
\* and it is one of the next weight.
LEMMA OneDigitMore ==
    ASSUME NEW i \in Nat, NEW n \in Nat, NEW d, Weighted(d, i, n), NEW k \in 1 .. n,
           Totals(d)[k - 1] + (i \div Power(Radix, k - 1)) * Power(Radix, k - 1) = i
    PROVE  Totals(d)[k] + (i \div Power(Radix, k)) * Power(Radix, k) = i
<1>1. k - 1 \in Nat /\ k \in Nat \ {0} /\ Radix \in Nat \ {0}
  BY RadixAssumption
<1>2. PICK P \in Nat \ {0} : P = Power(Radix, k - 1)
  BY <1>1, RadixPower
<1>3. Power(Radix, k) = P * Radix
  <2>1. Power(Radix, k) = Radix * P
    BY <1>1, <1>2, PowerRecursion
  <2> QED
    BY <1>1, <2>1
<1>4. PICK t \in Nat : t = Totals(d)[k - 1] /\ Totals(d)[k] = t + d[k]
  <2>1. d \in Seq(Nat) /\ k \in 1 .. Len(d) /\ k - 1 \in 0 .. Len(d)
    BY DEF Weighted
  <2> QED
    BY <2>1, TotalsRecursion
<1>5. PICK q \in Nat : q = i \div P
  BY Division
<1>6. t + q * P = i
  BY <1>2, <1>4, <1>5
<1>7. PICK u \in Nat, v \in Nat : u = q \div Radix /\ v = q % Radix /\ q = u * Radix + v
  <2>1. /\ q \div Radix \in Nat /\ q % Radix \in Nat
        /\ q = (q \div Radix) * Radix + (q % Radix)
    BY ONLY <1>1, Division, q \in Nat
  <2> QED
    BY <2>1, Zenon
<1>8. d[k] = v * P
  BY <1>2, <1>5, <1>7 DEF Weighted
<1>9. i \div (P * Radix) = u
  <2>1. (i \div P) \div Radix = i \div (P * Radix)
    <3>1. i \in Nat /\ P \in Nat \ {0} /\ Radix \in Nat \ {0}
      BY <1>1, Zenon
    <3> QED
      BY ONLY <3>1, DivisionTwice, Zenon
  <2> QED
    BY <1>5, <1>7, <2>1, Zenon
<1>10. (u * Radix + v) * P = v * P + u * (P * Radix)
  BY <1>1
<1>11. (t + v * P) + u * (P * Radix) = i
  <2>1. PICK x \in Nat : x = v * P
    OBVIOUS
  <2>2. PICK y \in Nat : y = u * (P * Radix)
    BY <1>1
  <2>3. q * P = x + y
    BY <1>7, <1>10, <2>1, <2>2, Zenon
  <2>4. t + (x + y) = i
    BY <1>6, <2>3, Zenon
  <2>5. (t + x) + y = i
    BY <2>4
  <2> QED
    BY <2>1, <2>2, <2>5, Zenon
<1> QED
  BY <1>3, <1>4, <1>8, <1>9, <1>11, Zenon

\* The digits of a number, weighted and summed up, are the number again.
LEMMA DigitsMakeNumber ==
    ASSUME NEW i \in Nat, NEW n \in Nat, i < Power(Radix, n), NEW d, Weighted(d, i, n)
    PROVE  Totals(d)[n] = i
<1> DEFINE S == {k \in Nat : Totals(d)[k] + (i \div Power(Radix, k)) * Power(Radix, k) = i}
<1>1. 0 \in S
  <2>1. Power(Radix, 0) = 1
    BY PowerRecursion, RadixAssumption
  <2>2. Totals(d)[0] = 0
    BY TotalsRecursion DEF Weighted
  <2> QED
    BY <2>1, <2>2
<1>2. ASSUME NEW k \in 1 .. n, k - 1 \in S PROVE k \in S
  <2>1. Totals(d)[k - 1] + (i \div Power(Radix, k - 1)) * Power(Radix, k - 1) = i
    BY <1>2
  <2>2. Totals(d)[k] + (i \div Power(Radix, k)) * Power(Radix, k) = i
    BY <2>1, OneDigitMore
  <2> QED
    BY <2>2
<1> HIDE DEF S
<1>3. \A k \in 0 .. n : k \in S
  BY <1>1, <1>2, InductiveSet
<1>4. Totals(d)[n] + (i \div Power(Radix, n)) * Power(Radix, n) = i
  BY <1>3 DEF S
<1>5. PICK P \in Nat \ {0} : P = Power(Radix, n)
  BY RadixPower
<1>6. i \div P = 0
  BY <1>5
<1>7. PICK t \in Nat : t = Totals(d)[n]
  BY TotalsRecursion DEF Weighted
<1>8. t + 0 * P = i
  BY <1>4, <1>5, <1>6, <1>7
<1> QED
  BY <1>7, <1>8

\* Every index that is sent, FIN included, comes out of the index field.
LEMMA IndexComesOut ==
    ASSUME LayoutInv, done, NEW i \in 0 .. NumChunks
    PROVE  DecodeIndex(IndexField(i)) = i
<1> USE RadixAssumption, U64Assumption
<1> DEFINE n == index_field_size
           w(k) == ((i \div Power(Radix, k - 1)) % Radix) * Power(Radix, k - 1)
           d == [k \in 1 .. n |-> w(k)]
<1>1. n \in 1 .. U64 - 1 /\ n \in Nat /\ \A k \in 1 .. n : k \in 1 .. U64
  BY DEF LayoutInv
<1>2. NumChunks \in Nat
  <2>1. length \in Nat
    BY RadixPower DEF LayoutInv
  <2>2. chunk_size \in Nat \ {0}
    BY MTUAssumption DEF LayoutInv, chunk_size
  <2> QED
    BY <2>1, <2>2, CountType DEF NumChunks
<1>3. Power(Radix, n) \in Nat
  BY <1>1, RadixPower
<1>4. i \in Nat /\ i < Power(Radix, n)
  BY <1>2, <1>3 DEF LayoutInv, Holds
<1>5. ASSUME NEW k \in 1 .. n PROVE w(k) \in Nat
  <2>1. PICK P \in Nat \ {0} : P = Power(Radix, k - 1)
    BY <1>1, RadixPower
  <2>2. PICK q \in Nat : q = i \div P
    BY <1>4, Division
  <2>3. q % Radix \in Nat
    BY Division
  <2>4. (q % Radix) * P \in Nat
    BY <2>3
  <2> QED
    BY <2>1, <2>2, <2>4
<1>6. \A k \in 1 .. n : IndexField(i)[k] * Power(Radix, k - 1) = w(k)
  BY <1>1 DEF IndexField, LittleEndian
<1>7. DOMAIN IndexField(i) = 1 .. n
  BY DEF IndexField
<1>8. DecodeIndex(IndexField(i)) = Totals(d)[n]
  BY <1>6, <1>7 DEF DecodeIndex
<1>9. Weighted(d, i, n)
  <2>1. \A k \in 1 .. n : d[k] = w(k)
    OBVIOUS
  <2>2. d \in Seq(Nat) /\ Len(d) = n
    <3> HIDE DEF w, n
    <3> QED
      BY <1>1, <1>5
  <2> HIDE DEF d
  <2> QED
    BY <2>1, <2>2 DEF Weighted
<1> HIDE DEF d, n
<1> QED
  BY <1>1, <1>4, <1>8, <1>9, DigitsMakeNumber

\* For any length and any datagram, the receiver takes no chunk for another
\* one, or for FIN.
THEOREM IndexSurvivesAlways == CodecSpec => []IndexSurvives
<1>1. LayoutInv => IndexSurvives
  BY IndexComesOut DEF IndexSurvives
<1> QED
  BY <1>1, LayoutInvariant, PTL

-----------------------------------------------------------------------------
(***************************************************************************)
(* The numbers of a status.                                                *)
(***************************************************************************)

\* No run of the bitmap needs more octets than the bitmap as a whole.
LEMMA VarintBounds ==
    ASSUME NEW n \in 0 .. NumBits
    PROVE  VarintLen(n) \in Nat /\ VarintLen(n) <= VarintLen(NumBits)
<1> USE NumBitsAssumption, ChunksAssumption, VarBaseAssumption
<1> DEFINE Enough(m) == {k \in 1 .. NumBits : m < Power(VarBase, k)}
<1>1. NumBits \in Enough(NumBits)
  <2>1. NumBits < Power(VarBase, NumBits)
    BY PowerGrows
  <2> QED
    BY <2>1
<1>2. \A k \in 1 .. NumBits : Power(VarBase, k) \in Nat
  BY PowerType
<1>3. Enough(NumBits) \subseteq Enough(n)
  BY <1>2
<1>4. Enough(n) \in SUBSET Nat /\ Enough(NumBits) \in SUBSET Nat
  OBVIOUS
<1>5. VarintLen(n) = Min(Enough(n)) /\ VarintLen(NumBits) = Min(Enough(NumBits))
  BY DEF VarintLen
<1> HIDE DEF Enough
<1>6. Min(Enough(NumBits)) \in Enough(NumBits)
  BY <1>1, <1>4, LeastNat
<1>7. Min(Enough(n)) \in Enough(n) /\ \A k \in Enough(n) : Min(Enough(n)) <= k
  BY <1>1, <1>3, <1>4, LeastNat
<1> QED
  BY <1>3, <1>4, <1>5, <1>6, <1>7

\* The sums only grow.
LEMMA TotalsMonotone ==
    ASSUME NEW s \in Seq(Nat), NEW j \in 0 .. Len(s), NEW k \in j .. Len(s)
    PROVE  Totals(s)[j] <= Totals(s)[k]
<1> DEFINE n == Len(s) - j
           S == {d \in Nat : Totals(s)[j] <= Totals(s)[j + d]}
<1>1. Len(s) \in Nat /\ n \in Nat /\ j \in Nat
  OBVIOUS
<1>2. 0 \in S
  BY <1>1, TotalsRecursion
<1>3. ASSUME NEW d \in 1 .. n, d - 1 \in S PROVE d \in S
  <2>1. j + d \in 1 .. Len(s) /\ j + (d - 1) = (j + d) - 1 /\ d \in Nat
    BY <1>1
  <2>2. Totals(s)[j + d] = Totals(s)[(j + d) - 1] + s[j + d]
    BY <2>1, TotalsRecursion
  <2>3. s[j + d] \in Nat /\ Totals(s)[j] \in Nat /\ Totals(s)[(j + d) - 1] \in Nat
    BY <2>1, TotalsRecursion
  <2>4. Totals(s)[j] <= Totals(s)[(j + d) - 1]
    BY <1>3, <2>1
  <2> QED
    BY <2>1, <2>2, <2>3, <2>4
<1> HIDE DEF S
<1>4. \A d \in 0 .. n : d \in S
  BY <1>1, <1>2, <1>3, InductiveSet
<1>5. k - j \in 0 .. n /\ j + (k - j) = k
  BY <1>1
<1> QED
  BY <1>4, <1>5 DEF S

\* What lies below the sum of some numbers lies below one of the sums on the
\* way there, and not below the one before.
LEMMA InSomeRun ==
    ASSUME NEW s \in Seq(Nat), NEW n \in 0 .. Len(s), NEW i \in Nat, i < Totals(s)[n]
    PROVE  \E k \in 1 .. n : Totals(s)[k - 1] <= i /\ i < Totals(s)[k]
<1> DEFINE S == {k \in 0 .. n : i < Totals(s)[k]}
<1>1. S \in SUBSET Nat /\ n \in S
  OBVIOUS
<1>2. PICK k \in S : \A m \in S : k <= m
  BY <1>1, LeastNat
<1>3. k \in 0 .. n /\ i < Totals(s)[k] /\ Totals(s)[0] = 0
  BY <1>2, TotalsRecursion
<1>4. k \in 1 .. n /\ k - 1 \in 0 .. n /\ k - 1 \notin S
  BY <1>2, <1>3
<1>5. Totals(s)[k - 1] \in Nat
  BY <1>4, TotalsRecursion
<1> QED
  BY <1>3, <1>4, <1>5

-----------------------------------------------------------------------------
(***************************************************************************)
(* The encoder.  The numbers written so far cut the bitmap, from its first *)
(* bit on, into runs that alternate between ones and zeroes and of which   *)
(* only the first may be empty; bit and count are the run that is being    *)
(* counted.                                                                *)
(***************************************************************************)
Runs == Len(update)
End(k) == Totals(update)[k]

Encoded ==
    /\ End(Runs) <= NumBits
    /\ \A k \in 1 .. Runs : \A i \in End(k - 1) .. End(k) - 1 :
          (i \in buf) <=> (k % 2 = 1)
    /\ \A k \in 2 .. Runs : update[k] > 0

\* The first number always fits, and so does the second: see Ended.
Encoding ==
    /\ End(Runs) + count = bit
    /\ prev_val \in BOOLEAN
    /\ prev_val <=> (Runs % 2 = 0)
    /\ \A i \in End(Runs) .. bit - 1 : (i \in buf) <=> prev_val
    /\ Runs > 0 => count > 0
    /\ Runs = 0 => written = 0
    /\ Runs = 1 => written <= VarintLen(NumBits)

\* The bitmap is written down, or what comes next is a run of the other kind;
\* and a status of a single number is that of a bitmap of ones.
Ended ==
    /\ Runs > 0
    /\ End(Runs) = NumBits \/ (End(Runs) \in buf <=> Runs % 2 = 0)
    /\ Runs = 1 => End(1) = NumBits

StatusTypes ==
    /\ cap \in Capacities
    /\ update \in Seq(Nat) /\ sent \in Seq(Nat)
    /\ bit \in 0 .. NumBits
    /\ count \in Nat /\ written \in Nat /\ cursor \in Nat

LEMMA Parity ==
    ASSUME NEW n \in Nat
    PROVE  /\ n % 2 = 0 <=> (n + 1) % 2 = 1
           /\ n % 2 = 0 <=> ~((n + 1) % 2 = 0)
OBVIOUS

LEMMA EncodingTypes ==
    ASSUME StatusTypes, Encoding
    PROVE  /\ End(Runs) \in Nat /\ Runs \in Nat /\ bit \in Nat
           /\ count \in 0 .. NumBits /\ written \in Nat
<1>1. update \in Seq(Nat) /\ Runs \in Nat /\ Runs \in 0 .. Len(update)
  BY DEF StatusTypes, Runs
<1>2. End(Runs) \in Nat
  BY <1>1, TotalsRecursion DEF End
<1>3. bit \in Nat /\ bit <= NumBits /\ count \in Nat /\ written \in Nat
  BY NumBitsAssumption DEF StatusTypes
<1>4. End(Runs) + count = bit
  BY DEF Encoding
<1> QED
  BY <1>1, <1>2, <1>3, <1>4, NumBitsAssumption

\* One more number is one more run.
LEMMA OneRunMore ==
    ASSUME StatusTypes, Encoded, Encoding, update' = Append(update, count), UNCHANGED buf
    PROVE  /\ update' \in Seq(Nat) /\ Runs' = Runs + 1
           /\ End(Runs)' = bit
           /\ Encoded'
<1>1. /\ update \in Seq(Nat) /\ count \in Nat /\ Runs \in Nat
      /\ update' \in Seq(Nat) /\ Runs' = Runs + 1
      /\ update'[Runs + 1] = count
      /\ \A k \in 1 .. Runs : update'[k] = update[k]
  BY DEF StatusTypes, Runs
<1>2. \A k \in 0 .. Runs : Totals(update')[k] = End(k)
  BY <1>1, TotalsAppend DEF End, Runs
<1>3. Totals(update')[Runs + 1] = bit
  BY <1>1, TotalsAppend DEF Encoding, End, Runs
<1>4. bit \in Nat /\ bit <= NumBits
  BY NumBitsAssumption DEF StatusTypes
<1>5. ASSUME NEW k \in 1 .. Runs + 1,
             NEW i \in Totals(update')[k - 1] .. Totals(update')[k] - 1
      PROVE  (i \in buf) <=> (k % 2 = 1)
  <2>1. CASE k = Runs + 1
    <3>1. k - 1 = Runs /\ i \in End(Runs) .. bit - 1
      BY <1>1, <1>2, <1>3, <1>5, <2>1
    <3>2. (i \in buf) <=> (Runs % 2 = 0)
      BY <3>1 DEF Encoding
    <3>3. (Runs % 2 = 0) <=> (k % 2 = 1)
      BY <1>1, <2>1, Parity
    <3> QED
      BY <3>2, <3>3
  <2>2. CASE k # Runs + 1
    <3>1. k \in 1 .. Runs /\ k - 1 \in 0 .. Runs /\ k \in 0 .. Runs
      BY <1>1, <2>2
    <3> QED
      BY <1>2, <1>5, <3>1 DEF Encoded
  <2> QED
    BY <2>1, <2>2
<1>6. ASSUME NEW k \in 2 .. Runs + 1 PROVE update'[k] > 0
  <2>1. CASE k = Runs + 1
    <3>1. count > 0
      BY <1>1, <1>6, <2>1 DEF Encoding
    <3> QED
      BY <1>1, <2>1, <3>1
  <2>2. CASE k # Runs + 1
    <3>1. k \in 2 .. Runs /\ k \in 1 .. Runs
      BY <1>1, <1>6, <2>2
    <3> QED
      BY <1>1, <3>1 DEF Encoded
  <2> QED
    BY <2>1, <2>2
<1>7. Encoded'
  BY <1>1, <1>3, <1>4, <1>5, <1>6 DEF Encoded, End, Runs
<1> QED
  BY <1>1, <1>3, <1>7 DEF End, Runs

LEMMA CountBitStep ==
    ASSUME StatusTypes, Encoded, Encoding, CountBit
    PROVE  StatusTypes' /\ Encoded' /\ Encoding'
<1>1. /\ bit < NumBits /\ ((bit \in buf) <=> prev_val)
      /\ bit' = bit + 1 /\ count' = count + 1
      /\ UNCHANGED <<buf, zeroes, cap, stage, prev_val, written, update, missing,
                     cursor, sent>>
  BY DEF CountBit, InRun, vars, Encoding
<1>2. StatusTypes'
  BY <1>1, NumBitsAssumption DEF StatusTypes
<1>3. Encoded'
  BY <1>1 DEF Encoded, Runs, End
<1>4. End(Runs) \in Nat /\ bit \in Nat /\ count \in Nat
  BY TotalsRecursion, NumBitsAssumption DEF StatusTypes, Runs, End
<1>5. \A i \in End(Runs) .. bit : (i \in buf) <=> prev_val
  <2>1. \A i \in End(Runs) .. bit : i \in End(Runs) .. bit - 1 \/ i = bit
    BY <1>4
  <2> QED
    BY <1>1, <2>1 DEF Encoding
<1>6. Encoding'
  BY <1>1, <1>4, <1>5 DEF Encoding, Runs, End
<1> QED
  BY <1>2, <1>3, <1>6

LEMMA EndRunStep ==
    ASSUME StatusTypes, Encoded, Encoding, EndRun
    PROVE  StatusTypes' /\ Encoded' /\ Encoding'
<1>1. /\ bit < NumBits /\ ~((bit \in buf) <=> prev_val)
      /\ bit' = bit + 1 /\ count' = 1 /\ prev_val' = (bit \in buf)
      /\ written' = written + VarintLen(count) /\ update' = Append(update, count)
      /\ UNCHANGED <<buf, zeroes, cap, stage, missing, cursor, sent>>
  BY DEF EndRun, InRun, WriteNumber, vars, Encoding
<1>2. /\ update' \in Seq(Nat) /\ Runs' = Runs + 1 /\ Runs \in Nat
      /\ End(Runs)' = bit /\ Encoded'
  BY <1>1, OneRunMore DEF Runs, StatusTypes
<1>3. End(Runs) \in Nat /\ bit \in Nat /\ count \in 0 .. NumBits /\ written \in Nat
  BY EncodingTypes
<1>4. VarintLen(count) \in Nat /\ VarintLen(count) <= VarintLen(NumBits)
  BY <1>3, VarintBounds
<1>5. StatusTypes'
  BY <1>1, <1>2, <1>3, <1>4, NumBitsAssumption DEF StatusTypes
<1>6. prev_val' \in BOOLEAN /\ (prev_val' <=> (Runs' % 2 = 0))
  <2>1. (Runs % 2 = 0) <=> ~(Runs' % 2 = 0)
    BY <1>2, Parity
  <2>2. prev_val \in BOOLEAN /\ (prev_val <=> (Runs % 2 = 0))
    BY DEF Encoding
  <2>3. (bit \in buf) <=> ~prev_val
    BY <1>1, <2>2, Zenon
  <2>4. prev_val' = (bit \in buf)
    BY <1>1
  <2>5. prev_val' \in BOOLEAN
    BY <2>4
  <2>6. prev_val' <=> bit \in buf
    BY <2>4
  <2> QED
    BY <2>1, <2>2, <2>3, <2>5, <2>6
<1>7. \A i \in bit .. bit' - 1 : (i \in buf) <=> prev_val'
  <2>1. \A i \in bit .. bit' - 1 : i = bit
    BY <1>1, <1>3
  <2> QED
    BY <1>1, <2>1
<1>8. (Runs' = 1) => written' <= VarintLen(NumBits)
  BY <1>1, <1>2, <1>4 DEF Encoding
<1>9. Encoding'
  BY <1>1, <1>2, <1>3, <1>6, <1>7, <1>8 DEF Encoding
<1> QED
  BY <1>2, <1>5, <1>9

LEMMA EndBitmapStep ==
    ASSUME StatusTypes, Encoded, Encoding, EndBitmap
    PROVE  StatusTypes' /\ Encoded' /\ Ended'
<1>1. /\ bit = NumBits
      /\ written' = written + VarintLen(count) /\ update' = Append(update, count)
      /\ UNCHANGED <<buf, zeroes, cap, bit, count, missing, cursor, sent>>
  BY DEF EndBitmap, WriteNumber, vars
<1>2. /\ update' \in Seq(Nat) /\ Runs' = Runs + 1 /\ Runs \in Nat
      /\ End(Runs)' = bit /\ Encoded'
  BY <1>1, OneRunMore DEF Runs, StatusTypes
<1>3. End(Runs) \in Nat /\ bit \in Nat /\ count \in 0 .. NumBits /\ written \in Nat
  BY EncodingTypes
<1>4. VarintLen(count) \in Nat
  BY <1>3, VarintBounds
<1>5. StatusTypes'
  BY <1>1, <1>2, <1>3, <1>4 DEF StatusTypes
<1>6. Ended'
  BY <1>1, <1>2 DEF Ended, End
<1> QED
  BY <1>2, <1>5, <1>6

\* A datagram without room has at least two numbers: one range.
LEMMA TruncateStep ==
    ASSUME StatusTypes, Encoded, Encoding, Truncate
    PROVE  StatusTypes' /\ Encoded' /\ Ended'
<1>1. /\ ~(written + VarintLen(count) <= cap)
      /\ UNCHANGED <<buf, zeroes, cap, bit, count, prev_val, written, update, missing,
                     cursor, sent>>
  BY DEF Truncate, Fits, vars
<1>2. StatusTypes' /\ Encoded'
  BY <1>1 DEF StatusTypes, Encoded, Runs, End
<1>3. End(Runs) \in Nat /\ bit \in Nat /\ count \in 0 .. NumBits /\ written \in Nat
  BY EncodingTypes
<1>4. VarintLen(count) \in Nat /\ VarintLen(count) <= VarintLen(NumBits)
  BY <1>3, VarintBounds
<1>5. VarintLen(NumBits) \in Nat /\ cap \in Nat /\ cap >= 2 * VarintLen(NumBits)
  <2>1. NumBits \in 0 .. NumBits
    BY NumBitsAssumption
  <2> QED
    BY <2>1, VarintBounds, CapacitiesAssumption DEF StatusTypes
<1>6. Runs \in Nat /\ Runs # 0 /\ Runs # 1
  BY <1>1, <1>3, <1>4, <1>5 DEF Encoding, StatusTypes, Runs
<1>7. End(Runs) \in buf <=> Runs % 2 = 0
  <2>1. End(Runs) \in End(Runs) .. bit - 1
    BY <1>3, <1>6 DEF Encoding
  <2> QED
    BY <2>1 DEF Encoding
<1>8. Ended
  BY <1>6, <1>7 DEF Ended
<1>9. Ended'
  BY <1>1, <1>8 DEF Ended, Runs, End
<1> QED
  BY <1>2, <1>9

-----------------------------------------------------------------------------
(***************************************************************************)
(* The client.                                                             *)
(***************************************************************************)

\* The chunks that the ranges cover.
Wanted ==
    {i \in Bits : \E k \in DOMAIN missing : missing[k][1] <= i /\ i < missing[k][2]}

\* next_chunk has gone through them up to the cursor.
Sending ==
    /\ missing = Tuples
    /\ ToSet(sent) = {i \in Wanted : i < cursor}
    /\ \A a, b \in DOMAIN sent : a < b => sent[a] < sent[b]

LEMMA Half ==
    ASSUME NEW n \in Nat
    PROVE  /\ n \div 2 \in Nat
           /\ \A k \in Nat : k <= n \div 2 <=> 2 * k <= n
           /\ n % 2 = 0 => n = 2 * (n \div 2)
           /\ n % 2 # 0 => n % 2 = 1 /\ n = 2 * (n \div 2) + 1
OBVIOUS

\* The ranges that parse_status_update makes are runs of zeroes, one after
\* the other and with a one between them.
LEMMA Ranges ==
    ASSUME update \in Seq(Nat), Encoded, missing = Tuples
    PROVE  /\ Runs \in Nat /\ Runs \div 2 \in Nat
           /\ DOMAIN missing = 1 .. Runs \div 2 /\ Len(missing) = Runs \div 2
           /\ \A k \in DOMAIN missing :
                /\ 2 * k - 1 \in 1 .. Runs /\ 2 * k \in 1 .. Runs
                /\ missing[k][1] = End(2 * k - 1) /\ missing[k][2] = End(2 * k)
                /\ missing[k][1] \in Nat /\ missing[k][2] \in Nat
                /\ missing[k][1] < missing[k][2]
                /\ missing[k][2] <= End(Runs)
                /\ \A i \in missing[k][1] .. missing[k][2] - 1 : i \in Bits \ buf
           /\ \A m, k \in DOMAIN missing : m < k => missing[m][2] < missing[k][1]
<1>1. Runs \in Nat /\ \A k \in 1 .. Runs : update[k] \in Nat
  BY DEF Runs
<1>2. PICK K \in Nat : K = Runs \div 2 /\ \A k \in Nat : k <= K <=> 2 * k <= Runs
  <2>1. Runs \div 2 \in Nat /\ \A k \in Nat : k <= Runs \div 2 <=> 2 * k <= Runs
    BY <1>1, Half
  <2> QED
    BY <2>1
<1>3. /\ DOMAIN missing = 1 .. K /\ Len(missing) = K
      /\ \A k \in 1 .. K : missing[k] = <<End(2 * k - 1), End(2 * k)>>
  <2>1. missing = [k \in 1 .. K |-> <<End(2 * k - 1), End(2 * k)>>]
    BY <1>2 DEF Tuples, Scan, End, Runs
  <2> QED
    BY <2>1
<1>4. /\ \A k \in 0 .. Runs : End(k) \in Nat
      /\ \A k \in 1 .. Runs : End(k) = End(k - 1) + update[k]
  BY TotalsRecursion DEF End, Runs
<1>5. \A j, k \in 0 .. Runs : j <= k => End(j) <= End(k)
  BY <1>1, TotalsMonotone DEF End, Runs
<1>6. \A k \in 2 .. Runs : End(k - 1) < End(k)
  <2>1. ASSUME NEW k \in 2 .. Runs PROVE End(k - 1) < End(k)
    <3>1. k \in 1 .. Runs /\ k - 1 \in 0 .. Runs /\ k \in 0 .. Runs
      BY <1>1
    <3>2. update[k] > 0 /\ update[k] \in Nat
      BY <1>1, <3>1 DEF Encoded
    <3> QED
      BY <1>4, <3>1, <3>2
  <2> QED
    BY <2>1
<1>7. ASSUME NEW k \in DOMAIN missing
      PROVE  /\ 2 * k - 1 \in 1 .. Runs /\ 2 * k \in 2 .. Runs /\ 2 * k \in 1 .. Runs
             /\ missing[k][1] = End(2 * k - 1) /\ missing[k][2] = End(2 * k)
             /\ missing[k][1] \in Nat /\ missing[k][2] \in Nat
             /\ missing[k][1] < missing[k][2]
             /\ missing[k][2] <= End(Runs)
  <2>1. k \in Nat /\ k >= 1 /\ 2 * k <= Runs
    <3>1. k \in Nat /\ k >= 1 /\ k <= K
      BY <1>3, <1>7
    <3> QED
      BY <1>2, <3>1
  <2>2. 2 * k - 1 \in 1 .. Runs /\ 2 * k \in 2 .. Runs
    BY <1>1, <2>1
  <2>3. missing[k][1] = End(2 * k - 1) /\ missing[k][2] = End(2 * k)
    BY <1>3
  <2>4. End(2 * k - 1) < End(2 * k)
    BY <1>6, <2>2
  <2>5. 2 * k - 1 \in 0 .. Runs /\ 2 * k \in 0 .. Runs /\ Runs \in 0 .. Runs
    BY <1>1, <2>2
  <2>6. End(2 * k) <= End(Runs)
    BY <1>5, <2>2, <2>5
  <2>7. End(2 * k) \in Nat /\ End(2 * k - 1) \in Nat
    BY <1>4, <2>5
  <2> QED
    BY <2>2, <2>3, <2>4, <2>6, <2>7
<1>8. ASSUME NEW k \in DOMAIN missing, NEW i \in missing[k][1] .. missing[k][2] - 1
      PROVE  i \in Bits \ buf
  <2>1. 2 * k \in 1 .. Runs /\ i \in End(2 * k - 1) .. End(2 * k) - 1
    BY <1>7, <1>8
  <2>2. ~(i \in buf)
    <3>1. (i \in buf) <=> ((2 * k) % 2 = 1)
      BY <2>1 DEF Encoded
    <3>2. k \in Nat
      BY <1>2, <1>3
    <3>3. (2 * k) % 2 = 0
      BY <3>2
    <3> QED
      BY <3>1, <3>3
  <2>3. End(Runs) <= NumBits /\ End(Runs) \in Nat
    BY <1>1, <1>4 DEF Encoded
  <2>4. i \in Bits
    BY <1>7, <1>8, <2>3, NumBitsAssumption DEF Bits
  <2> QED
    BY <2>2, <2>4
<1>9. ASSUME NEW m \in DOMAIN missing, NEW k \in DOMAIN missing, m < k
      PROVE  missing[m][2] < missing[k][1]
  <2>1. m \in Nat /\ k \in Nat /\ m >= 1 /\ m < k
    BY <1>3, <1>9
  <2>2. 2 * k - 1 \in 2 .. Runs /\ (2 * k - 1) - 1 \in 0 .. Runs /\ 2 * k - 1 \in 0 .. Runs
    <3>1. 2 * k - 1 \in 1 .. Runs
      BY <1>7
    <3> QED
      BY <1>1, <2>1, <3>1
  <2>3. 2 * m \in 0 .. Runs /\ 2 * m <= (2 * k - 1) - 1
    BY <1>7, <1>9, <2>1
  <2>4. End(2 * m) <= End((2 * k - 1) - 1)
    BY <1>5, <2>2, <2>3
  <2>5. End((2 * k - 1) - 1) < End(2 * k - 1)
    BY <1>6, <2>2
  <2>6. End(2 * m) \in Nat /\ End(2 * k - 1) \in Nat /\ End((2 * k - 1) - 1) \in Nat
    BY <1>4, <2>2, <2>3
  <2> QED
    BY <1>7, <2>4, <2>5, <2>6
<1> QED
  BY <1>1, <1>2, <1>3, <1>7, <1>8, <1>9

LEMMA WantedAreZeroes ==
    ASSUME update \in Seq(Nat), Encoded, missing = Tuples
    PROVE  Wanted \subseteq Bits \ buf
<1> SUFFICES ASSUME NEW i \in Wanted PROVE i \in Bits \ buf
  OBVIOUS
<1>1. i \in Nat
  BY NumBitsAssumption DEF Wanted, Bits
<1>2. PICK k \in DOMAIN missing : missing[k][1] <= i /\ i < missing[k][2]
  BY DEF Wanted
<1>3. missing[k][1] \in Nat /\ missing[k][2] \in Nat
  BY Ranges
<1>4. i \in missing[k][1] .. missing[k][2] - 1
  BY <1>1, <1>2, <1>3
<1> QED
  BY <1>4, Ranges

LEMMA MaxOfTwo ==
    ASSUME NEW a \in Nat, NEW b \in Nat
    PROVE  Max({a, b}) = IF a >= b THEN a ELSE b
<1>1. ASSUME NEW m \in Nat, m = IF a >= b THEN a ELSE b
      PROVE  m \in {a, b} /\ \A x \in {a, b} : m >= x
  BY <1>1
<1>2. Max({a, b}) \in {a, b} /\ \A x \in {a, b} : Max({a, b}) >= x
  BY <1>1 DEF Max
<1> QED
  BY <1>2

\* next_chunk takes the first wanted chunk from the cursor on.
LEMMA NextWanted ==
    ASSUME update \in Seq(Nat), Encoded, missing = Tuples, cursor \in Nat, Ahead # {},
           NEW chunk, chunk = Max({cursor, missing[Min(Ahead)][1]})
    PROVE  /\ chunk \in Wanted /\ chunk \in Nat /\ chunk >= cursor
           /\ \A i \in Wanted : i >= cursor => i >= chunk
<1> DEFINE k == Min(Ahead)
<1>1. DOMAIN missing \subseteq Nat
  BY Ranges
<1>2. k \in Ahead /\ \A m \in Ahead : k <= m
  <2>1. Ahead \in SUBSET Nat
    BY <1>1 DEF Ahead
  <2> QED
    BY <2>1, LeastNat
<1> HIDE DEF k
<1>3. k \in DOMAIN missing /\ missing[k][2] > cursor
  BY <1>2 DEF Ahead
<1>4. missing[k][1] \in Nat /\ missing[k][2] \in Nat /\ missing[k][1] < missing[k][2]
  BY <1>3, Ranges
<1>5. chunk = IF cursor >= missing[k][1] THEN cursor ELSE missing[k][1]
  BY <1>4, MaxOfTwo DEF k
<1>6. chunk \in Nat /\ chunk >= cursor /\ chunk \in missing[k][1] .. missing[k][2] - 1
  BY <1>3, <1>4, <1>5
<1>7. chunk \in Wanted
  <2>1. chunk \in Bits
    BY <1>3, <1>6, Ranges
  <2>2. missing[k][1] <= chunk /\ chunk < missing[k][2]
    BY <1>4, <1>6
  <2> QED
    BY <1>3, <2>1, <2>2 DEF Wanted
<1>8. ASSUME NEW i \in Wanted, i >= cursor PROVE i >= chunk
  <2>1. PICK m \in DOMAIN missing : missing[m][1] <= i /\ i < missing[m][2]
    BY DEF Wanted
  <2>2. i \in Nat /\ missing[m][1] \in Nat /\ missing[m][2] \in Nat
    BY Ranges, NumBitsAssumption DEF Wanted, Bits
  <2>3. m \in Ahead
    BY <1>8, <2>1, <2>2 DEF Ahead
  <2>4. k <= m /\ k \in Nat /\ m \in Nat
    BY <1>1, <1>2, <1>3, <2>3
  <2>5. k = m \/ missing[k][2] < missing[m][1]
    <3>1. k = m \/ k < m
      BY <2>4
    <3>2. k < m => missing[k][2] < missing[m][1]
      BY <1>3, Ranges
    <3> QED
      BY <3>1, <3>2
  <2>6. missing[k][1] <= missing[m][1]
    BY <1>4, <2>2, <2>5
  <2> QED
    BY <1>4, <1>5, <1>8, <2>1, <2>2, <2>6
<1> QED
  BY <1>6, <1>7, <1>8

LEMMA ParseStep ==
    ASSUME StatusTypes, Encoded, Ended, sent = <<>>, parse_status_update
    PROVE  /\ StatusTypes' /\ Encoded' /\ Ended' /\ Sending'
           /\ stage' \in {"send", "done"}
           /\ stage' = "done" => Ahead' = {}
<1>1. /\ missing' = Tuples /\ cursor' = 0
      /\ stage' = IF missing' = <<>> THEN "done" ELSE "send"
      /\ UNCHANGED <<buf, zeroes, cap, bit, count, prev_val, written, update, sent>>
  BY DEF parse_status_update, vars
<1>2. StatusTypes' /\ Encoded' /\ Ended'
  BY <1>1 DEF StatusTypes, Encoded, Ended, Runs, End
<1>3. missing' = Tuples'
  BY <1>1 DEF Tuples, Scan
<1>4. ToSet(sent') = {} /\ DOMAIN sent' = {}
  BY <1>1 DEF ToSet
<1>5. {i \in Wanted' : i < cursor'} = {}
  <2>1. \A i \in Wanted' : i \in Nat
    BY NumBitsAssumption DEF Wanted, Bits
  <2> QED
    BY <1>1, <2>1
<1>6. Sending'
  BY <1>3, <1>4, <1>5 DEF Sending
<1>7. stage' = "done" => Ahead' = {}
  BY <1>1 DEF Ahead
<1> QED
  BY <1>1, <1>2, <1>6, <1>7

LEMMA NextChunkStep ==
    ASSUME StatusTypes, Encoded, Ended, Sending, next_chunk
    PROVE  StatusTypes' /\ Encoded' /\ Ended' /\ Sending'
<1> DEFINE chunk == Max({cursor, missing[Min(Ahead)][1]})
<1>1. /\ sent' = Append(sent, chunk) /\ cursor' = chunk + 1
      /\ Ahead # {}
      /\ UNCHANGED <<buf, zeroes, cap, stage, bit, count, prev_val, written, update, missing>>
  BY DEF next_chunk, vars
<1>2. /\ chunk \in Wanted /\ chunk \in Nat /\ chunk >= cursor
      /\ \A i \in Wanted : i >= cursor => i >= chunk
  BY <1>1, NextWanted DEF StatusTypes, Sending
<1> HIDE DEF chunk
<1>3. StatusTypes'
  BY <1>1, <1>2 DEF StatusTypes
<1>4. Encoded' /\ Ended' /\ missing' = Tuples' /\ Wanted' = Wanted
  BY <1>1 DEF Encoded, Ended, Runs, End, Tuples, Scan, Sending, Wanted
<1>5. sent \in Seq(Nat) /\ Len(sent) \in Nat /\ cursor \in Nat
  BY DEF StatusTypes
<1>6. /\ DOMAIN sent = 1 .. Len(sent) /\ DOMAIN sent' = 1 .. Len(sent) + 1
      /\ sent'[Len(sent) + 1] = chunk
      /\ \A a \in 1 .. Len(sent) : sent'[a] = sent[a]
  BY <1>1, <1>2, <1>5
<1>7. \A a \in DOMAIN sent : sent[a] \in Nat /\ sent[a] < cursor
  <2>1. ASSUME NEW a \in DOMAIN sent PROVE sent[a] \in Nat /\ sent[a] < cursor
    <3>1. sent[a] \in ToSet(sent)
      BY DEF ToSet
    <3> QED
      BY <1>5, <1>6, <3>1 DEF Sending
  <2> QED
    BY <2>1
<1>8. ToSet(sent') = ToSet(sent) \cup {chunk}
  <2>1. ASSUME NEW x \in ToSet(sent') PROVE x \in ToSet(sent) \cup {chunk}
    <3>1. PICK a \in DOMAIN sent' : x = sent'[a]
      BY DEF ToSet
    <3>2. CASE a = Len(sent) + 1
      BY <1>6, <3>1, <3>2
    <3>3. CASE a # Len(sent) + 1
      <4>1. a \in DOMAIN sent /\ x = sent[a]
        BY <1>5, <1>6, <3>1, <3>3
      <4> QED
        BY <4>1 DEF ToSet
    <3> QED
      BY <3>2, <3>3
  <2>2. ASSUME NEW x \in ToSet(sent) PROVE x \in ToSet(sent')
    <3>1. PICK a \in DOMAIN sent : x = sent[a]
      BY DEF ToSet
    <3>2. a \in DOMAIN sent' /\ x = sent'[a]
      BY <1>5, <1>6, <3>1
    <3> QED
      BY <3>2 DEF ToSet
  <2>3. chunk \in ToSet(sent')
    <3>1. Len(sent) + 1 \in DOMAIN sent'
      BY <1>5, <1>6
    <3> QED
      BY <1>6, <3>1 DEF ToSet
  <2> QED
    BY <2>1, <2>2, <2>3
<1>9. {i \in Wanted : i < chunk + 1} = {i \in Wanted : i < cursor} \cup {chunk}
  <2>1. \A i \in Wanted : i \in Nat
    BY NumBitsAssumption DEF Wanted, Bits
  <2>2. ASSUME NEW i \in Wanted
        PROVE  i < chunk + 1 <=> (i < cursor \/ i = chunk)
    BY <1>2, <1>5, <2>1
  <2> QED
    BY <1>2, <2>2
<1>10. ASSUME NEW a \in DOMAIN sent', NEW b \in DOMAIN sent', a < b
       PROVE  sent'[a] < sent'[b]
  <2>1. a \in DOMAIN sent /\ a \in 1 .. Len(sent) /\ sent'[a] = sent[a]
    BY <1>5, <1>6, <1>10
  <2>2. CASE b = Len(sent) + 1
    <3>1. sent[a] \in Nat /\ sent[a] < cursor /\ sent'[b] = chunk
      BY <1>6, <1>7, <2>1, <2>2
    <3> QED
      BY <1>2, <1>5, <2>1, <3>1
  <2>3. CASE b # Len(sent) + 1
    <3>1. b \in DOMAIN sent /\ sent'[b] = sent[b]
      BY <1>5, <1>6, <2>3
    <3> QED
      BY <1>10, <2>1, <3>1 DEF Sending
  <2> QED
    BY <2>2, <2>3
<1>11. ToSet(sent') = {i \in Wanted' : i < cursor'}
  BY <1>1, <1>4, <1>8, <1>9 DEF Sending
<1>12. Sending'
  BY <1>4, <1>10, <1>11 DEF Sending
<1> QED
  BY <1>3, <1>4, <1>12

-----------------------------------------------------------------------------
(***************************************************************************)
(* The inductive invariant of a status.                                    *)
(***************************************************************************)
StatusInv ==
    /\ StatusTypes
    /\ stage \in {"receive", "encode", "parse", "send", "done"}
    /\ stage # "receive" => HasBitmap /\ Encoded
    /\ stage = "receive" =>
          /\ update = <<>> /\ prev_val = TRUE
          /\ bit = 0 /\ count = 0 /\ written = 0
    /\ stage \in {"receive", "encode", "parse"} => sent = <<>>
    /\ stage = "encode" => Encoding
    /\ stage \in {"parse", "send", "done"} => Ended
    /\ stage \in {"send", "done"} => Sending
    /\ stage = "done" => Ahead = {}

LEMMA StatusInvInit == StatusInit => ZeroesInv /\ StatusInv
<1> SUFFICES ASSUME StatusInit PROVE ZeroesInv /\ StatusInv
  OBVIOUS
<1>1. ZeroesInv
  BY InitZeroes DEF StatusInit
<1>2. StatusInv
  BY NumBitsAssumption DEF StatusInit, StatusInv, StatusTypes
<1> QED
  BY <1>1, <1>2

\* Before the first bit there is no run.
LEMMA StartStep ==
    ASSUME StatusInv, HasBitmap, start_send, UNCHANGED layoutVars
    PROVE  StatusInv'
<1>1. /\ stage = "receive" /\ stage' = "encode"
      /\ UNCHANGED <<buf, zeroes, cap, bit, count, prev_val, written, update, missing,
                     cursor, sent>>
  BY DEF start_send, vars
<1>2. /\ update = <<>> /\ prev_val = TRUE /\ bit = 0 /\ count = 0 /\ written = 0
      /\ sent = <<>> /\ StatusTypes
  BY <1>1 DEF StatusInv
<1>3. Runs = 0 /\ End(0) = 0
  <2>1. update \in Seq(Nat)
    BY <1>2 DEF StatusTypes
  <2> QED
    BY <1>2, <2>1, TotalsRecursion DEF Runs, End
<1>4. Encoded /\ Encoding
  BY <1>2, <1>3, NumBitsAssumption DEF Encoded, Encoding
<1>5. StatusTypes' /\ Encoded' /\ Encoding' /\ HasBitmap'
  BY <1>1, <1>2, <1>4
  DEF StatusTypes, Encoded, Encoding, Runs, End, HasBitmap, layoutVars, NumChunks, chunk_size
<1> QED
  BY <1>1, <1>2, <1>5 DEF StatusInv

LEMMA StatusFrame ==
    ASSUME StatusInv, UNCHANGED statusVars,
           stage # "receive" => UNCHANGED buf,
           HasBitmap => HasBitmap'
    PROVE  StatusInv'
<1>1. UNCHANGED <<cap, stage, bit, count, prev_val, written, update, missing, cursor, sent>>
  BY DEF statusVars
<1>2. StatusTypes'
  BY <1>1 DEF StatusInv, StatusTypes
<1>3. CASE stage = "receive"
  BY <1>1, <1>2, <1>3 DEF StatusInv
<1>4. CASE stage # "receive"
  <2>1. UNCHANGED buf /\ HasBitmap'
    BY <1>4 DEF StatusInv
  <2>2. /\ Encoded' = Encoded /\ Encoding' = Encoding /\ Ended' = Ended
        /\ Sending' = Sending /\ Ahead' = Ahead
    BY <1>1, <2>1
    DEF Encoded, Encoding, Ended, Sending, Ahead, Wanted, Tuples, Scan, Runs, End
  <2> QED
    BY <1>1, <1>2, <1>4, <2>1, <2>2 DEF StatusInv
<1> QED
  BY <1>3, <1>4

LEMMA WorkingStep ==
    ASSUME StatusInv, HasBitmap, Working, UNCHANGED layoutVars
    PROVE  StatusInv' /\ UNCHANGED vars
<1>1. HasBitmap'
  BY DEF HasBitmap, layoutVars, NumChunks, chunk_size
<1>2. UNCHANGED vars
  BY DEF Working, CountBit, EndRun, EndBitmap, Truncate, parse_status_update, next_chunk,
         no_chunk
<1>3. CASE CountBit \/ EndRun
  <2>1. stage = "encode" /\ stage' = "encode" /\ sent' = sent
    BY <1>3 DEF CountBit, EndRun
  <2>2. StatusTypes' /\ Encoded' /\ Encoding'
    BY <1>3, <2>1, CountBitStep, EndRunStep DEF StatusInv
  <2> QED
    BY <1>1, <1>2, <2>1, <2>2 DEF StatusInv
<1>4. CASE EndBitmap \/ Truncate
  <2>1. stage = "encode" /\ stage' = "parse" /\ sent' = sent
    BY <1>4 DEF EndBitmap, Truncate
  <2>2. StatusTypes' /\ Encoded' /\ Ended'
    BY <1>4, <2>1, EndBitmapStep, TruncateStep DEF StatusInv
  <2> QED
    BY <1>1, <1>2, <2>1, <2>2 DEF StatusInv
<1>5. CASE parse_status_update
  <2>1. stage = "parse"
    BY <1>5 DEF parse_status_update
  <2>2. /\ StatusTypes' /\ Encoded' /\ Ended' /\ Sending'
        /\ stage' \in {"send", "done"}
        /\ stage' = "done" => Ahead' = {}
    BY <1>5, <2>1, ParseStep DEF StatusInv
  <2> QED
    BY <1>1, <1>2, <2>2 DEF StatusInv
<1>6. CASE next_chunk
  <2>1. stage = "send" /\ stage' = "send"
    BY <1>6 DEF next_chunk
  <2>2. StatusTypes' /\ Encoded' /\ Ended' /\ Sending'
    BY <1>6, <2>1, NextChunkStep DEF StatusInv
  <2> QED
    BY <1>1, <1>2, <2>1, <2>2 DEF StatusInv
<1>7. CASE no_chunk
  <2>1. /\ stage = "send" /\ stage' = "done" /\ Ahead = {}
        /\ UNCHANGED <<buf, zeroes, cap, bit, count, prev_val, written, update, missing,
                       cursor, sent>>
    BY <1>7 DEF no_chunk, vars
  <2>2. StatusTypes /\ Encoded /\ Ended /\ Sending
    BY <2>1 DEF StatusInv
  <2>3. StatusTypes' /\ Encoded' /\ Ended' /\ Sending' /\ Ahead' = {}
    BY <2>1, <2>2
    DEF StatusTypes, Encoded, Ended, Sending, Ahead, Wanted, Tuples, Scan, Runs, End
  <2> QED
    BY <1>1, <1>2, <2>1, <2>3 DEF StatusInv
<1> QED
  BY <1>3, <1>4, <1>5, <1>6, <1>7 DEF Working

\* The layout is settled before the bitmap is made.
LEMMA TurnKeepsBitmap ==
    ASSUME Turn
    PROVE  ~done
BY DEF Turn

LEMMA StatusStep ==
    ASSUME ZeroesInv, StatusInv, [CodecNext]_<<layoutVars, vars, statusVars>>
    PROVE  ZeroesInv' /\ StatusInv'
<1>1. CASE Turn /\ UNCHANGED <<vars, statusVars>>
  <2>1. ZeroesInv'
    BY <1>1, NextZeroes
  <2>2. ~HasBitmap
    BY <1>1, TurnKeepsBitmap DEF HasBitmap
  <2>3. StatusInv'
    BY <1>1, <2>2, StatusFrame DEF vars
  <2> QED
    BY <2>1, <2>3
<1>2. CASE HasBitmap /\ receive /\ UNCHANGED layoutVars
  <2>1. Next /\ UNCHANGED statusVars /\ stage = "receive"
    BY <1>2 DEF receive
  <2>2. ZeroesInv'
    BY <2>1, NextZeroes
  <2>3. HasBitmap'
    BY <1>2 DEF HasBitmap, layoutVars, NumChunks, chunk_size
  <2>4. StatusInv'
    BY <2>1, <2>3, StatusFrame
  <2> QED
    BY <2>2, <2>4
<1>3. CASE HasBitmap /\ start_send /\ UNCHANGED layoutVars
  <2>1. UNCHANGED vars
    BY <1>3 DEF start_send
  <2> QED
    BY <1>3, <2>1, NextZeroes, StartStep
<1>4. CASE HasBitmap /\ Working /\ UNCHANGED layoutVars
  BY <1>4, NextZeroes, WorkingStep
<1>5. CASE UNCHANGED <<layoutVars, vars, statusVars>>
  <2>1. HasBitmap' = HasBitmap
    BY <1>5 DEF HasBitmap, layoutVars, NumChunks, chunk_size
  <2> QED
    BY <1>5, <2>1, NextZeroes, StatusFrame DEF vars
<1> QED
  BY <1>1, <1>2, <1>3, <1>4, <1>5 DEF CodecNext, StatusNext

CodecInv == LayoutInv /\ ZeroesInv /\ StatusInv

LEMMA CodecInvariant == CodecSpec => []CodecInv
<1>1. CodecInit => CodecInv
  BY LayoutInitInv, StatusInvInit DEF CodecInit, CodecInv
<1>2. CodecInv /\ [CodecNext]_<<layoutVars, vars, statusVars>> => CodecInv'
  BY LayoutStep, StatusStep DEF CodecInv
<1> QED
  BY <1>1, <1>2, PTL DEF CodecSpec

\* Whatever the bitmap and however small the datagram: what the client sends
\* for a status reaches a bit that was zero in it, never one past the bitmap.
THEOREM AsksForZeroesAlways == CodecSpec => []AsksForZeroes
<1>1. ASSUME CodecInv PROVE AsksForZeroes
  <2> SUFFICES ASSUME NEW k \in DOMAIN sent
               PROVE  DecodeIndex(IndexField(sent[k])) \in Bits \ buf
    BY DEF AsksForZeroes
  <2>1. LayoutInv /\ StatusInv
    BY <1>1 DEF CodecInv
  <2>2. stage \in {"send", "done"}
    <3>1. sent # <<>>
      OBVIOUS
    <3> QED
      BY <2>1, <3>1 DEF StatusInv
  <2>3. HasBitmap /\ Encoded /\ Sending /\ update \in Seq(Nat)
    BY <2>1, <2>2 DEF StatusInv, StatusTypes
  <2>4. sent[k] \in ToSet(sent)
    BY DEF ToSet
  <2>5. sent[k] \in Wanted
    BY <2>3, <2>4 DEF Sending
  <2>6. sent[k] \in Bits \ buf
    BY <2>3, <2>5, WantedAreZeroes DEF Sending
  <2>7. done /\ sent[k] \in 0 .. NumChunks
    BY <2>3, <2>6, NumBitsAssumption DEF HasBitmap, Bits
  <2>8. DecodeIndex(IndexField(sent[k])) = sent[k]
    BY <2>1, <2>7, IndexComesOut
  <2> QED
    BY <2>6, <2>8
<1> QED
  BY <1>1, CodecInvariant, PTL

\* Whatever the bitmap and however small the datagram: the client takes the
\* upload to be complete if and only if the server's count of zeroes says so.
THEOREM EmptyMeansCompleteAlways == CodecSpec => []EmptyMeansComplete
<1>1. ASSUME CodecInv PROVE EmptyMeansComplete
  <2> SUFFICES ASSUME stage = "done" PROVE missing = <<>> <=> zeroes = 0
    BY DEF EmptyMeansComplete
  <2>1. ZeroesInv /\ StatusInv
    BY <1>1 DEF CodecInv
  <2>2. Encoded /\ Ended /\ missing = Tuples /\ update \in Seq(Nat)
    BY <2>1 DEF StatusInv, StatusTypes, Sending
  <2>3. zeroes = Cardinality(Bits \ buf) /\ IsFiniteSet(Bits \ buf)
    BY <2>1, ZeroBits DEF ZeroesInv, ZeroesCount
  <2>4. zeroes = 0 <=> Bits \ buf = {}
    BY <2>3, FS_EmptySet
  <2>5. /\ Runs \in Nat /\ Runs > 0 /\ Runs \div 2 \in Nat
        /\ DOMAIN missing = 1 .. Runs \div 2 /\ Len(missing) = Runs \div 2
    BY <2>2, Ranges DEF Ended
  <2>6. ASSUME missing = <<>> PROVE Bits \ buf = {}
    <3>1. Runs \div 2 = 0
      BY <2>5, <2>6
    <3>2. Runs = 1
      BY <2>5, <3>1
    <3>3. End(1) = NumBits /\ End(0) = 0
      BY <2>2, <3>2, TotalsRecursion DEF Ended, End
    <3>4. \A i \in End(0) .. End(1) - 1 : i \in buf
      <4>1. 1 \in 1 .. Runs /\ 1 - 1 = 0 /\ 1 % 2 = 1
        BY <3>2
      <4> QED
        BY <2>2, <4>1 DEF Encoded
    <3> QED
      BY <3>3, <3>4 DEF Bits
  <2>7. ASSUME missing # <<>> PROVE Bits \ buf # {}
    <3>1. 1 \in DOMAIN missing
      <4>1. missing = [k \in 1 .. Runs \div 2 |-> missing[k]]
        BY <2>2, <2>5 DEF Tuples, Runs
      <4>2. Runs \div 2 # 0
        BY <2>5, <2>7, <4>1
      <4> QED
        BY <2>5, <4>2
    <3>2. /\ missing[1][1] \in Nat /\ missing[1][2] \in Nat
          /\ missing[1][1] < missing[1][2]
          /\ \A i \in missing[1][1] .. missing[1][2] - 1 : i \in Bits \ buf
      BY <2>2, <3>1, Ranges
    <3>3. missing[1][1] \in missing[1][1] .. missing[1][2] - 1
      BY <3>2
    <3> QED
      BY <3>2, <3>3
  <2> QED
    BY <2>4, <2>6, <2>7
<1> QED
  BY <1>1, CodecInvariant, PTL

-----------------------------------------------------------------------------
(***************************************************************************)
(* The ranges of a status are the first ones that the bitmap misses.       *)
(***************************************************************************)

\* A chunk that the encoder has come past and that is missing is wanted.
LEMMA MissingIsWanted ==
    ASSUME update \in Seq(Nat), Encoded, missing = Tuples,
           NEW i \in Missing, i < End(Runs)
    PROVE  \E m \in DOMAIN missing : missing[m][1] <= i /\ i < missing[m][2]
<1>1. i \in Nat /\ ~(i \in buf) /\ Runs \in Nat /\ Runs = Len(update)
  BY NumBitsAssumption DEF Missing, Bits, Runs
<1>2. PICK k \in 1 .. Runs : End(k - 1) <= i /\ i < End(k)
  BY <1>1, InSomeRun DEF End
<1>3. End(k - 1) \in Nat /\ End(k) \in Nat
  BY <1>1, TotalsRecursion DEF End
<1>4. k % 2 # 1
  BY <1>1, <1>2, <1>3 DEF Encoded
<1>5. k \in Nat /\ k >= 1 /\ k <= Runs
  BY <1>1
<1>6. PICK m \in Nat : k = 2 * m
  <2>1. k \div 2 \in Nat /\ k = 2 * (k \div 2)
    BY <1>4, <1>5, Half
  <2> QED
    BY <2>1
<1>7. m <= Runs \div 2 /\ m >= 1
  BY <1>1, <1>5, <1>6, Half
<1>8. m \in DOMAIN missing
  <2>1. Runs \div 2 \in Nat /\ DOMAIN missing = 1 .. Runs \div 2
    BY Ranges
  <2> QED
    BY <1>7, <2>1
<1>9. missing[m][1] = End(2 * m - 1) /\ missing[m][2] = End(2 * m)
  BY <1>8, Ranges
<1> QED
  BY <1>2, <1>6, <1>8, <1>9

\* A range is not the end of a larger one.
LEMMA RangesStart ==
    ASSUME update \in Seq(Nat), Encoded, missing = Tuples, NEW m \in DOMAIN missing
    PROVE  missing[m][1] \in RangeStarts
<1> DEFINE a == missing[m][1]
           n == 2 * m - 1
<1>1. /\ n \in 1 .. Runs /\ a = End(n) /\ a \in Nat /\ missing[m][2] \in Nat
      /\ a < missing[m][2]
      /\ \A i \in a .. missing[m][2] - 1 : i \in Bits \ buf
      /\ Runs \in Nat /\ m \in Nat
  <2>1. Runs \div 2 \in Nat /\ DOMAIN missing = 1 .. Runs \div 2
    BY Ranges
  <2> QED
    BY <2>1, Ranges
<1>2. a \in Missing
  <2>1. a \in a .. missing[m][2] - 1
    BY <1>1
  <2> QED
    BY <1>1, <2>1 DEF Missing
<1>3. ASSUME a - 1 \in Missing PROVE FALSE
  <2>1. a - 1 \in Nat /\ ~(a - 1 \in buf)
    BY <1>3, NumBitsAssumption DEF Missing, Bits
  <2>2. n \in Nat /\ n \in 1 .. Len(update) /\ n - 1 \in 0 .. Len(update)
    BY <1>1 DEF Runs
  <2>3. End(n - 1) \in Nat /\ End(n) = End(n - 1) + update[n] /\ update[n] \in Nat
    BY <2>2, TotalsRecursion DEF End
  <2>4. update[n] > 0
    <3>1. CASE n = 1
      <4>1. End(n - 1) = 0
        BY <3>1, TotalsRecursion DEF End
      <4> QED
        BY <1>1, <2>1, <2>3, <4>1
    <3>2. CASE n # 1
      <4>1. n \in 2 .. Runs
        BY <1>1, <3>2
      <4> QED
        BY <4>1 DEF Encoded
    <3> QED
      BY <3>1, <3>2
  <2>5. a - 1 \in End(n - 1) .. End(n) - 1
    <3>1. PICK x \in Nat, y \in Nat : x = End(n - 1) /\ y = update[n]
      BY <2>3
    <3>2. a = x + y /\ y > 0 /\ a - 1 \in Nat
      BY <1>1, <2>1, <2>3, <2>4, <3>1
    <3>3. a - 1 \in x .. a - 1
      BY <3>1, <3>2
    <3> QED
      BY <1>1, <3>1, <3>3
  <2>6. (a - 1 \in buf) <=> (n % 2 = 1)
    BY <1>1, <2>5 DEF Encoded
  <2>7. n % 2 = 1
    BY <1>1
  <2> QED
    BY <2>1, <2>6, <2>7
<1> QED
  BY <1>2, <1>3 DEF RangeStarts

\* Where a range starts that the encoder has come past, one of the status's
\* ranges starts.
LEMMA StartsAreRanges ==
    ASSUME update \in Seq(Nat), Encoded, missing = Tuples,
           NEW j \in RangeStarts, j < End(Runs)
    PROVE  \E m \in DOMAIN missing : j = missing[m][1]
<1>1. j \in Missing /\ j - 1 \notin Missing /\ j \in Nat
  BY NumBitsAssumption DEF RangeStarts, Missing, Bits
<1>2. PICK m \in DOMAIN missing : missing[m][1] <= j /\ j < missing[m][2]
  BY <1>1, MissingIsWanted
<1>3. /\ missing[m][1] \in Nat /\ missing[m][2] \in Nat
      /\ \A i \in missing[m][1] .. missing[m][2] - 1 : i \in Missing
  BY Ranges DEF Missing
<1>4. j - 1 \notin missing[m][1] .. missing[m][2] - 1
  BY <1>1, <1>3
<1>5. j = missing[m][1]
  BY <1>1, <1>2, <1>3, <1>4
<1> QED
  BY <1>5

\* Behind the ranges of a status another one starts before the next chunk
\* that is missing.
LEMMA AnotherStart ==
    ASSUME update \in Seq(Nat), Encoded, Ended, missing = Tuples,
           NEW i \in Missing, i >= End(Runs)
    PROVE  \E j \in RangeStarts : End(Runs) <= j /\ j <= i
<1> DEFINE e == End(Runs)
           S == {j \in Missing : j >= e}
<1>1. Runs \in Nat /\ Runs > 0 /\ Runs = Len(update)
  BY DEF Ended, Runs
<1>2. e \in Nat /\ Runs \in 1 .. Len(update)
  BY <1>1, TotalsRecursion DEF End
<1>3. Missing \subseteq Nat /\ i < NumBits
  BY NumBitsAssumption DEF Missing, Bits
<1>4. PICK j \in S : \A x \in S : j <= x
  <2>1. S \in SUBSET Nat /\ i \in S
    BY <1>3
  <2> QED
    BY <2>1, LeastNat
<1>5. j \in Nat /\ j \in Missing /\ e <= j /\ j <= i
  BY <1>3, <1>4
<1>6. ASSUME j - 1 \in Missing PROVE FALSE
  <2>1. j - 1 \in Nat /\ ~(j - 1 \in S)
    BY <1>3, <1>4, <1>5, <1>6
  <2>2. j = e
    BY <1>2, <1>5, <1>6, <2>1
  <2>3. e # NumBits /\ ~(e \in buf) /\ ~(j - 1 \in buf)
    <3>1. ~(j \in buf) /\ ~(j - 1 \in buf)
      BY <1>5, <1>6 DEF Missing
    <3>2. i \in Nat /\ i < NumBits /\ e <= i
      BY <1>3, <1>5, <2>2
    <3>3. e # NumBits
      BY <1>2, <3>2, NumBitsAssumption
    <3> QED
      BY <2>2, <3>1, <3>3
  <2>4. Runs % 2 # 0
    BY <2>3 DEF Ended
  <2>5. Runs % 2 = 1
    BY <1>1, <2>4
  <2>6. Runs \in 2 .. Runs
    BY <1>1, <2>3 DEF Ended
  <2>7. update[Runs] > 0 /\ update[Runs] \in Nat
    BY <1>2, <2>6 DEF Encoded
  <2>8. End(Runs - 1) \in Nat /\ e = End(Runs - 1) + update[Runs]
    <3>1. Runs - 1 \in 0 .. Len(update)
      BY <1>1
    <3> QED
      BY <1>2, <3>1, TotalsRecursion DEF End
  <2>9. j - 1 \in End(Runs - 1) .. End(Runs) - 1
    BY <1>2, <2>1, <2>2, <2>7, <2>8
  <2>10. (j - 1 \in buf) <=> (Runs % 2 = 1)
    <3>1. Runs \in 1 .. Runs
      BY <1>1
    <3> QED
      BY <2>9, <3>1 DEF Encoded
  <2> QED
    BY <2>3, <2>5, <2>10
<1> QED
  BY <1>5, <1>6 DEF RangeStarts

\* A strictly increasing sequence has as many members as it is long.
LEMMA Ascending ==
    ASSUME NEW n \in Nat, NEW T, IsFiniteSet(T), NEW f \in [1 .. n -> T], T \subseteq Nat,
           \A a, b \in 1 .. n : a < b => f[a] < f[b]
    PROVE  n <= Cardinality(T)
<1>1. f \in Injection(1 .. n, T)
  <2>1. ASSUME NEW a \in 1 .. n, NEW b \in 1 .. n, f[a] = f[b] PROVE a = b
    <3>1. ~(a < b) /\ ~(b < a)
      <4>1. f[a] \in Nat /\ f[b] \in Nat
        OBVIOUS
      <4> QED
        BY <2>1, <4>1
    <3> QED
      BY <3>1
  <2> QED
    BY <2>1 DEF Injection, IsInjective
<1>2. Cardinality(1 .. n) = n
  BY FS_Interval
<1> QED
  BY <1>1, <1>2, FS_Injection

\* The ranges that start at i or before.
StartsUpto(i) == {j \in RangeStarts : j <= i}

LEMMA StartsUptoFinite ==
    /\ RangeStarts \subseteq Bits /\ Bits \subseteq Nat
    /\ IsFiniteSet(RangeStarts)
    /\ \A i : IsFiniteSet(StartsUpto(i)) /\ Cardinality(StartsUpto(i)) \in Nat
<1>1. RangeStarts \in SUBSET Bits /\ Bits \subseteq Nat
  BY NumBitsAssumption DEF Missing, Bits, RangeStarts
<1>2. IsFiniteSet(Bits)
  BY NumBitsAssumption, FS_Interval DEF Bits
<1>3. \A i : StartsUpto(i) \in SUBSET Bits
  BY <1>1 DEF StartsUpto
<1>4. IsFiniteSet(RangeStarts) /\ \A i : IsFiniteSet(StartsUpto(i))
  BY <1>1, <1>2, <1>3, FS_Subset
<1> QED
  BY <1>1, <1>4, FS_CardinalityType

\* The chunks of the status's ranges are those of the first ranges that the
\* bitmap misses, as many as the status has.
LEMMA WantedIsFirstRanges ==
    ASSUME update \in Seq(Nat), Encoded, Ended, missing = Tuples
    PROVE  Wanted = FirstRanges(Len(missing))
<1>1. PICK K \in Nat : K = Len(missing) /\ DOMAIN missing = 1 .. K
  BY Ranges
<1>2. Missing \subseteq Bits /\ Bits \subseteq Nat /\ RangeStarts \subseteq Missing
  BY NumBitsAssumption DEF Missing, Bits, RangeStarts
<1>3. /\ \A i : IsFiniteSet(StartsUpto(i)) /\ Cardinality(StartsUpto(i)) \in Nat
      /\ \A i : StartsUpto(i) \subseteq Nat
  BY <1>2, StartsUptoFinite DEF StartsUpto
<1>4. ASSUME NEW m \in 1 .. K
      PROVE  /\ missing[m][1] \in Nat /\ missing[m][2] \in Nat
             /\ missing[m][1] < missing[m][2] /\ missing[m][2] <= End(Runs)
             /\ missing[m][1] \in RangeStarts
  BY <1>1, Ranges, RangesStart
<1>5. End(Runs) \in Nat
  <2>1. Runs \in 0 .. Len(update)
    BY DEF Runs
  <2> QED
    BY <2>1, TotalsRecursion DEF End
<1>6. ASSUME NEW i \in Wanted PROVE i \in FirstRanges(K)
  <2>1. i \in Missing /\ i \in Nat
    BY <1>2, WantedAreZeroes DEF Missing
  <2>2. PICK k \in 1 .. K : missing[k][1] <= i /\ i < missing[k][2]
    BY <1>1, <1>6 DEF Wanted
  <2>3. i < End(Runs)
    BY <1>4, <1>5, <2>1, <2>2
  <2>4. \A j \in StartsUpto(i) : \E m \in 1 .. K : j = missing[m][1]
    <3>1. ASSUME NEW j \in StartsUpto(i) PROVE \E m \in 1 .. K : j = missing[m][1]
      <4>1. j \in RangeStarts /\ j \in Nat /\ j < End(Runs)
        BY <1>2, <1>5, <2>1, <2>3, <3>1 DEF StartsUpto
      <4> QED
        BY <1>1, <4>1, StartsAreRanges
    <3> QED
      BY <3>1
  <2> DEFINE Starts == {missing[m][1] : m \in 1 .. K}
             g == [m \in 1 .. K |-> missing[m][1]]
  <2>5. g \in Surjection(1 .. K, Starts)
    BY DEF Surjection
  <2>6. IsFiniteSet(1 .. K) /\ Cardinality(1 .. K) = K
    BY FS_Interval
  <2>7. StartsUpto(i) \in SUBSET Starts
    BY <2>4
  <2> HIDE DEF Starts, g
  <2>8. IsFiniteSet(Starts) /\ Cardinality(Starts) <= K
    BY <2>5, <2>6, FS_Surjection
  <2>9. Cardinality(StartsUpto(i)) <= Cardinality(Starts) /\ Cardinality(Starts) \in Nat
    BY <2>7, <2>8, FS_Subset, FS_CardinalityType
  <2>10. Cardinality(StartsUpto(i)) <= K
    BY <1>3, <2>8, <2>9
  <2> QED
    BY <2>1, <2>10 DEF FirstRanges, StartsUpto
<1>7. ASSUME NEW i \in FirstRanges(K) PROVE i \in Wanted
  <2>1. i \in Missing /\ i \in Bits /\ i \in Nat /\ Cardinality(StartsUpto(i)) <= K
    BY <1>2, <1>7 DEF FirstRanges, StartsUpto
  <2>2. CASE i < End(Runs)
    BY <2>1, <2>2, MissingIsWanted DEF Wanted
  <2>3. CASE i >= End(Runs)
    <3>1. PICK j \in RangeStarts : End(Runs) <= j /\ j <= i
      BY <2>1, <2>3, AnotherStart
    <3> DEFINE h == [m \in 1 .. K + 1 |-> IF m <= K THEN missing[m][1] ELSE j]
    <3>2. j \in Nat /\ j \in StartsUpto(i)
      BY <1>2, <3>1 DEF StartsUpto
    <3>3. ASSUME NEW m \in 1 .. K
          PROVE  h[m] = missing[m][1] /\ h[m] \in StartsUpto(i) /\ h[m] < j /\ h[m] \in Nat
      <4>1. h[m] = missing[m][1]
        OBVIOUS
      <4>2. missing[m][1] < j /\ missing[m][1] <= i
        <5>1. PICK x \in Nat, y \in Nat, e \in Nat :
                 /\ x = missing[m][1] /\ y = missing[m][2] /\ e = End(Runs)
                 /\ x < y /\ y <= e
          BY <1>4, <1>5
        <5>2. e <= j /\ j <= i /\ j \in Nat /\ i \in Nat
          BY <2>1, <3>1, <3>2, <5>1
        <5>3. x < j /\ x <= i
          BY <5>1, <5>2
        <5> QED
          BY <5>1, <5>3
      <4> QED
        BY <1>4, <4>1, <4>2 DEF StartsUpto
    <3>4. h[K + 1] = j /\ \A m \in 1 .. K + 1 : m \in 1 .. K \/ m = K + 1
      OBVIOUS
    <3>5. DOMAIN h = 1 .. K + 1 /\ h = [m \in 1 .. K + 1 |-> h[m]]
      OBVIOUS
    <3> HIDE DEF h
    <3>6. h \in [1 .. K + 1 -> StartsUpto(i)]
      <4>1. \A m \in 1 .. K + 1 : h[m] \in StartsUpto(i)
        BY <3>2, <3>3, <3>4
      <4> QED
        BY <3>5, <4>1
    <3>7. \A a, b \in 1 .. K + 1 : a < b => h[a] < h[b]
      <4>1. ASSUME NEW a \in 1 .. K + 1, NEW b \in 1 .. K + 1, a < b PROVE h[a] < h[b]
        <5>1. a \in 1 .. K
          BY <4>1
        <5>2. CASE b = K + 1
          BY <3>3, <3>4, <5>1, <5>2
        <5>3. CASE b # K + 1
          <6>1. b \in 1 .. K
            BY <5>3
          <6>2. missing[a][2] < missing[b][1]
            BY <1>1, <4>1, <5>1, <6>1, Ranges
          <6> QED
            BY <1>4, <3>3, <5>1, <6>1, <6>2
        <5> QED
          BY <5>2, <5>3
      <4> QED
        BY <4>1
    <3>8. K + 1 <= Cardinality(StartsUpto(i))
      BY <1>3, <3>6, <3>7, Ascending
    <3> QED
      BY <1>3, <2>1, <3>8
  <2> QED
    BY <1>5, <2>1, <2>2, <2>3
<1>8. FirstRanges(K) \subseteq Wanted /\ Wanted \subseteq FirstRanges(K)
  BY <1>6, <1>7
<1> QED
  BY <1>1, <1>8

\* Whatever the bitmap and however small the datagram: the client ends up
\* with having sent, in order and each once, exactly the chunks of the first
\* ranges that the bitmap misses.
THEOREM SendsFirstRangesAlways == CodecSpec => []SendsFirstRanges
<1>1. ASSUME CodecInv PROVE SendsFirstRanges
  <2> SUFFICES ASSUME stage = "done"
               PROVE  /\ ToSet(sent) = FirstRanges(Len(missing))
                      /\ \A a, b \in DOMAIN sent : a < b => sent[a] < sent[b]
    BY DEF SendsFirstRanges
  <2>1. Encoded /\ Ended /\ Sending /\ Ahead = {} /\ update \in Seq(Nat) /\ cursor \in Nat
    BY <1>1 DEF CodecInv, StatusInv, StatusTypes
  <2>2. missing = Tuples
    BY <2>1 DEF Sending
  <2>3. ASSUME NEW i \in Wanted PROVE i < cursor
    <3>1. PICK k \in DOMAIN missing : missing[k][1] <= i /\ i < missing[k][2]
      BY DEF Wanted
    <3>2. i \in Nat /\ missing[k][2] \in Nat
      BY <2>1, <2>2, Ranges, NumBitsAssumption DEF Wanted, Bits
    <3>3. ~(missing[k][2] > cursor)
      BY <2>1 DEF Ahead
    <3> QED
      BY <2>1, <3>1, <3>2, <3>3
  <2>4. ToSet(sent) = Wanted
    BY <2>1, <2>3 DEF Sending
  <2>5. Wanted = FirstRanges(Len(missing))
    BY <2>1, <2>2, WantedIsFirstRanges
  <2> QED
    BY <2>1, <2>4, <2>5 DEF Sending
<1> QED
  BY <1>1, CodecInvariant, PTL

-----------------------------------------------------------------------------
(***************************************************************************)
(* A status is cut only where the datagram is full.                        *)
(***************************************************************************)
Lens == [k \in 1 .. Runs |-> VarintLen(update[k])]

\* The octets written are those of the numbers written.
AllWritten == written = Totals(Lens)[Runs]

\* The run from End(Runs) to bit has been counted to its end and has not found
\* room.
Cut ==
    /\ AllWritten
    /\ Runs > 1 /\ count > 0
    /\ End(Runs) + count = bit
    /\ \A i \in End(Runs) .. bit - 1 : (i \in buf) <=> (Runs % 2 = 0)
    /\ bit = NumBits \/ (bit \in buf <=> ~(Runs % 2 = 0))
    /\ written + VarintLen(count) > cap

CutInv ==
    /\ stage \in {"receive", "encode"} => AllWritten
    /\ stage \in {"parse", "send", "done"} => End(Runs) = NumBits \/ Cut

\* A written number is the length of a part of the bitmap.
LEMMA RunLengths ==
    ASSUME update \in Seq(Nat), Encoded
    PROVE  /\ \A k \in 1 .. Runs : update[k] \in 0 .. NumBits
           /\ Lens \in Seq(Nat) /\ Len(Lens) = Runs /\ Runs \in Nat
<1>1. Runs \in Nat /\ Runs = Len(update)
  BY DEF Runs
<1>2. ASSUME NEW k \in 1 .. Runs PROVE update[k] \in 0 .. NumBits
  <2>1. k \in 1 .. Len(update) /\ k - 1 \in 0 .. Len(update) /\ k \in 0 .. Len(update)
        /\ Runs \in k .. Len(update)
    BY <1>1
  <2>2. /\ End(k) = End(k - 1) + update[k] /\ End(k - 1) \in Nat /\ End(k) \in Nat
        /\ update[k] \in Nat
    <3>1. /\ Totals(update)[k] = Totals(update)[k - 1] + update[k]
          /\ Totals(update)[k - 1] \in Nat /\ Totals(update)[k] \in Nat
      BY <2>1, TotalsRecursion
    <3> QED
      BY <2>1, <3>1 DEF End
  <2>3. End(k) <= End(Runs)
    BY <2>1, TotalsMonotone DEF End
  <2>4. End(Runs) <= NumBits /\ End(Runs) \in Nat
    BY <1>1, TotalsRecursion DEF Encoded, End
  <2> QED
    BY <2>2, <2>3, <2>4, NumBitsAssumption
<1>3. \A k \in 1 .. Runs : VarintLen(update[k]) \in Nat
  BY <1>2, VarintBounds
<1>4. Lens \in Seq(Nat) /\ Len(Lens) = Runs
  BY <1>1, <1>3 DEF Lens
<1> QED
  BY <1>1, <1>2, <1>4

LEMMA WriteStep ==
    ASSUME StatusTypes, Encoded, Encoding, AllWritten, WriteNumber
    PROVE  AllWritten'
<1>1. written' = written + VarintLen(count) /\ update' = Append(update, count)
  BY DEF WriteNumber
<1>2. update \in Seq(Nat) /\ Runs \in Nat /\ Runs = Len(update) /\ count \in 0 .. NumBits
  BY EncodingTypes DEF StatusTypes, Runs
<1>3. VarintLen(count) \in Nat /\ Lens \in Seq(Nat) /\ Len(Lens) = Runs
  BY <1>2, VarintBounds, RunLengths
<1>4. Runs' = Runs + 1 /\ \A k \in 1 .. Runs : update'[k] = update[k]
  BY <1>1, <1>2, NumBitsAssumption DEF Runs
<1>5. update'[Runs + 1] = count
  BY <1>1, <1>2, NumBitsAssumption
<1>6. Lens' = Append(Lens, VarintLen(count))
  <2>1. Lens' = [k \in 1 .. Runs + 1 |-> VarintLen(update'[k])]
    BY <1>4 DEF Lens
  <2>2. Append(Lens, VarintLen(count))
          = [k \in 1 .. Runs + 1 |-> IF k = Runs + 1 THEN VarintLen(count) ELSE Lens[k]]
    <3> DEFINE u == Append(Lens, VarintLen(count))
    <3>1. /\ u \in Seq(Nat) /\ Len(u) = Runs + 1 /\ u[Runs + 1] = VarintLen(count)
          /\ \A k \in 1 .. Runs : u[k] = Lens[k]
      BY <1>2, <1>3
    <3> HIDE DEF u
    <3>2. u = [k \in 1 .. Runs + 1 |-> u[k]]
      BY <3>1
    <3>3. \A k \in 1 .. Runs + 1 : k = Runs + 1 \/ k \in 1 .. Runs
      BY <1>2
    <3>4. \A k \in 1 .. Runs + 1 :
             u[k] = IF k = Runs + 1 THEN VarintLen(count) ELSE Lens[k]
      BY <3>1, <3>3
    <3> QED
      BY <3>2, <3>4 DEF u
  <2>3. ASSUME NEW k \in 1 .. Runs + 1
        PROVE  VarintLen(update'[k]) = IF k = Runs + 1 THEN VarintLen(count) ELSE Lens[k]
    <3>1. k = Runs + 1 \/ k \in 1 .. Runs
      BY <1>2
    <3>2. k \in 1 .. Runs => Lens[k] = VarintLen(update[k]) /\ k # Runs + 1
      BY <1>2 DEF Lens
    <3> QED
      BY <1>4, <1>5, <3>1, <3>2
  <2> QED
    BY <2>1, <2>2, <2>3
<1>7. Totals(Lens')[Runs + 1] = Totals(Lens)[Runs] + VarintLen(count)
  BY <1>3, <1>6, TotalsAppend
<1> QED
  BY <1>1, <1>4, <1>7 DEF AllWritten

LEMMA CutFrame ==
    ASSUME CutInv, UNCHANGED statusVars, stage # "receive" => UNCHANGED buf
    PROVE  CutInv'
<1>1. UNCHANGED <<cap, stage, bit, count, prev_val, written, update, missing, cursor, sent>>
  BY DEF statusVars
<1>2. AllWritten' = AllWritten /\ Runs' = Runs /\ End(Runs)' = End(Runs)
  BY <1>1 DEF AllWritten, Lens, Runs, End
<1>3. CASE stage = "receive"
  BY <1>1, <1>2, <1>3 DEF CutInv
<1>4. CASE stage # "receive"
  <2>1. Cut' = Cut
    BY <1>1, <1>2, <1>4 DEF Cut
  <2> QED
    BY <1>1, <1>2, <2>1 DEF CutInv
<1> QED
  BY <1>3, <1>4

LEMMA CutStep ==
    ASSUME StatusInv, CutInv, [CodecNext]_<<layoutVars, vars, statusVars>>
    PROVE  CutInv'
<1>1. CASE UNCHANGED <<vars, statusVars>>
  BY <1>1, CutFrame DEF vars
<1>2. CASE receive
  BY <1>2, CutFrame DEF receive
<1>3. CASE start_send
  <2>1. stage = "receive" /\ stage' = "encode" /\ UNCHANGED <<written, update>>
    BY <1>3 DEF start_send
  <2> QED
    BY <2>1 DEF CutInv, AllWritten, Lens, Runs
<1>4. CASE CountBit
  <2>1. stage = "encode" /\ stage' = "encode" /\ UNCHANGED <<written, update>>
    BY <1>4 DEF CountBit
  <2> QED
    BY <2>1 DEF CutInv, AllWritten, Lens, Runs
<1>5. CASE EndRun
  <2>1. stage = "encode" /\ stage' = "encode" /\ WriteNumber
    BY <1>5 DEF EndRun
  <2>2. AllWritten'
    BY <2>1, WriteStep DEF CutInv, StatusInv
  <2> QED
    BY <2>1, <2>2 DEF CutInv
<1>6. CASE EndBitmap
  <2>1. stage = "encode" /\ stage' = "parse" /\ bit = NumBits /\ UNCHANGED buf
        /\ update' = Append(update, count)
    BY <1>6 DEF EndBitmap, WriteNumber, vars
  <2>2. End(Runs)' = NumBits
    BY <2>1, OneRunMore DEF StatusInv
  <2> QED
    BY <2>1, <2>2 DEF CutInv
<1>7. CASE Truncate
  <2>1. /\ stage = "encode" /\ stage' = "parse" /\ ~InRun
        /\ ~(written + VarintLen(count) <= cap)
        /\ UNCHANGED <<buf, cap, bit, count, written, update>>
    BY <1>7 DEF Truncate, Fits, vars
  <2>2. StatusTypes /\ Encoded /\ Encoding /\ AllWritten
    BY <2>1 DEF StatusInv, CutInv
  <2>3. count \in 0 .. NumBits /\ written \in Nat /\ bit \in 0 .. NumBits
    BY <2>2, EncodingTypes DEF StatusTypes
  <2>4. written + VarintLen(count) > cap
    <3>1. VarintLen(count) \in Nat /\ cap \in Nat
      BY <2>2, <2>3, VarintBounds, CapacitiesAssumption DEF StatusTypes
    <3> QED
      BY <2>1, <2>3, <3>1
  <2>5. Runs \in Nat /\ Runs > 1
    <3>1. Ended' /\ Runs' = Runs /\ End(1)' = End(1)
      BY <1>7, <2>1, <2>2, TruncateStep DEF Runs, End
    <3>2. Runs \in Nat /\ Runs > 0
      BY <2>2, <3>1 DEF Ended, Runs, StatusTypes
    <3>3. ASSUME Runs = 1 PROVE FALSE
      <4>1. End(Runs) = NumBits
        BY <3>1, <3>3 DEF Ended
      <4>2. End(Runs) + count = bit /\ count > 0
        BY <2>2, <3>2 DEF Encoding
      <4> QED
        BY <2>3, <4>1, <4>2, NumBitsAssumption
    <3> QED
      BY <3>2, <3>3
  <2>6. \A i \in End(Runs) .. bit - 1 : (i \in buf) <=> (Runs % 2 = 0)
    BY <2>2 DEF Encoding
  <2>7. bit = NumBits \/ (bit \in buf <=> ~(Runs % 2 = 0))
    <3>1. prev_val \in BOOLEAN /\ (prev_val <=> Runs % 2 = 0)
      BY <2>2 DEF Encoding
    <3>2. bit = NumBits \/ ~((bit \in buf) = prev_val)
      BY <2>1, <2>3, NumBitsAssumption DEF InRun
    <3> QED
      BY <3>1, <3>2
  <2>8. Cut
    BY <2>2, <2>4, <2>5, <2>6, <2>7 DEF Cut, Encoding
  <2>9. Cut'
    BY <2>1, <2>8 DEF Cut, AllWritten, Lens, Runs, End
  <2> QED
    BY <2>1, <2>9 DEF CutInv
<1>8. CASE parse_status_update \/ next_chunk \/ no_chunk
  <2>1. /\ stage \in {"parse", "send"} /\ stage' \in {"send", "done"}
        /\ UNCHANGED <<buf, cap, bit, count, written, update>>
    BY <1>8 DEF parse_status_update, next_chunk, no_chunk, vars
  <2>2. Cut' = Cut /\ Runs' = Runs /\ End(Runs)' = End(Runs)
    BY <2>1 DEF Cut, AllWritten, Lens, Runs, End
  <2> QED
    BY <2>1, <2>2 DEF CutInv
<1> QED
  BY <1>1, <1>2, <1>3, <1>4, <1>5, <1>6, <1>7, <1>8 DEF CodecNext, StatusNext, Working

LEMMA CutInvariant == CodecSpec => []CutInv
<1>1. CodecInit => CutInv
  <2> SUFFICES ASSUME StatusInit PROVE CutInv
    BY DEF CodecInit
  <2>1. stage = "receive" /\ written = 0 /\ update = <<>>
    BY DEF StatusInit
  <2>2. Runs = 0 /\ Lens \in Seq(Nat)
    BY <2>1 DEF Runs, Lens
  <2>3. Totals(Lens)[0] = 0
    BY <2>2, TotalsRecursion
  <2> QED
    BY <2>1, <2>2, <2>3 DEF CutInv, AllWritten
<1>2. CodecInv /\ CutInv /\ [CodecNext]_<<layoutVars, vars, statusVars>> => CutInv'
  BY CutStep DEF CodecInv
<1> QED
  BY <1>1, <1>2, CodecInvariant, PTL DEF CodecSpec

LEMMA LeastIs ==
    ASSUME NEW S \in SUBSET Nat, NEW b \in S, \A x \in S : b <= x
    PROVE  Min(S) = b
<1>1. Min(S) \in S /\ \A n \in S : Min(S) <= n
  BY LeastNat
<1>2. Min(S) \in Nat /\ b \in Nat /\ Min(S) <= b /\ b <= Min(S)
  BY <1>1
<1> QED
  BY <1>2

\* The k-th range is the one with k starts up to its own.
LEMMA RangeStartIs ==
    ASSUME NEW i \in RangeStarts
    PROVE  RangeStart(Cardinality(StartsUpto(i))) = i
<1> DEFINE n == Cardinality(StartsUpto(i))
           x == RangeStart(n)
<1>1. x \in RangeStarts /\ Cardinality(StartsUpto(x)) = n
  BY DEF RangeStart, StartsUpto
<1>2. i \in Nat /\ x \in Nat
  BY <1>1, StartsUptoFinite
<1>3. IsFiniteSet(StartsUpto(i)) /\ IsFiniteSet(StartsUpto(x))
  BY StartsUptoFinite
<1> HIDE DEF x
<1>4. i \in StartsUpto(i) /\ x \in StartsUpto(x)
  BY <1>1, <1>2 DEF StartsUpto
<1>5. RangeStarts \subseteq Nat
  BY StartsUptoFinite
<1>6. ASSUME x < i PROVE FALSE
  <2>1. StartsUpto(x) \in SUBSET StartsUpto(i)
    <3>1. ASSUME NEW j \in StartsUpto(x) PROVE j \in StartsUpto(i)
      <4>1. j \in RangeStarts /\ j \in Nat /\ j <= x
        BY <1>5, <3>1 DEF StartsUpto
      <4>2. j <= i
        BY <1>2, <1>6, <4>1
      <4> QED
        BY <4>1, <4>2 DEF StartsUpto
    <3> QED
      BY <3>1
  <2>2. StartsUpto(i) = StartsUpto(x)
    BY <1>1, <1>3, <2>1, FS_Subset
  <2>3. i \in StartsUpto(x)
    BY <1>4, <2>2
  <2> QED
    BY <1>2, <1>6, <2>3 DEF StartsUpto
<1>7. ASSUME i < x PROVE FALSE
  <2>1. StartsUpto(i) \in SUBSET StartsUpto(x)
    <3>1. ASSUME NEW j \in StartsUpto(i) PROVE j \in StartsUpto(x)
      <4>1. j \in RangeStarts /\ j \in Nat /\ j <= i
        BY <1>5, <3>1 DEF StartsUpto
      <4>2. j <= x
        BY <1>2, <1>7, <4>1
      <4> QED
        BY <4>1, <4>2 DEF StartsUpto
    <3> QED
      BY <3>1
  <2>2. StartsUpto(i) = StartsUpto(x)
    BY <1>1, <1>3, <2>1, FS_Subset
  <2>3. x \in StartsUpto(i)
    BY <1>4, <2>2
  <2> QED
    BY <1>2, <1>7, <2>3 DEF StartsUpto
<1> QED
  BY <1>2, <1>6, <1>7 DEF x

\* A strictly increasing sequence and its members.
LEMMA AscendingImage ==
    ASSUME NEW n \in Nat, NEW T, T \subseteq Nat, NEW f \in [1 .. n -> T],
           \A a, b \in 1 .. n : a < b => f[a] < f[b],
           \A x \in T : \E a \in 1 .. n : x = f[a]
    PROVE  Cardinality(T) = n
<1>1. f \in Surjection(1 .. n, T)
  BY DEF Surjection
<1>2. IsFiniteSet(1 .. n) /\ Cardinality(1 .. n) = n
  BY FS_Interval
<1>3. IsFiniteSet(T) /\ Cardinality(T) <= n
  BY <1>1, <1>2, FS_Surjection
<1>4. n <= Cardinality(T)
  BY <1>3, Ascending
<1>5. Cardinality(T) \in Nat
  BY <1>3, FS_CardinalityType
<1> QED
  BY <1>3, <1>4, <1>5

\* The starts of the status's ranges as a sequence.
LEMMA RangesAscend ==
    ASSUME update \in Seq(Nat), Encoded, missing = Tuples, NEW n \in 0 .. Len(missing)
    PROVE  /\ n \in Nat /\ 1 .. n \subseteq DOMAIN missing
           /\ [m \in 1 .. n |-> missing[m][1]] \in [1 .. n -> Nat]
           /\ \A a, b \in 1 .. n : a < b => missing[a][1] < missing[b][1]
<1>1. n \in Nat /\ 1 .. n \subseteq DOMAIN missing
  <2>1. Runs \div 2 \in Nat /\ DOMAIN missing = 1 .. Runs \div 2 /\ Len(missing) = Runs \div 2
    BY Ranges
  <2> QED
    BY <2>1
<1>2. \A a \in 1 .. n : missing[a][1] \in Nat
  BY <1>1, Ranges
<1>3. ASSUME NEW a \in 1 .. n, NEW b \in 1 .. n, a < b
      PROVE  missing[a][1] < missing[b][1]
  <2>1. /\ missing[a][1] \in Nat /\ missing[a][2] \in Nat /\ missing[b][1] \in Nat
        /\ missing[a][1] < missing[a][2] /\ missing[a][2] < missing[b][1]
    BY <1>1, <1>3, Ranges
  <2> QED
    BY <2>1
<1> QED
  BY <1>1, <1>2, <1>3

LEMMA NextOdd ==
    ASSUME NEW m \in Nat, NEW r \in Nat, m >= 1, 2 * m <= r, 2 * m # r
    PROVE  /\ 2 * m + 1 \in 1 .. r /\ 2 * m + 1 \in 2 .. r
           /\ (2 * m + 1) - 1 = 2 * m /\ (2 * m + 1) % 2 = 1
OBVIOUS

\* The status's ranges are the bitmap's, from the first one on, and end where
\* those do.
LEMMA KthRange ==
    ASSUME update \in Seq(Nat), Encoded, Ended, missing = Tuples, NEW m \in DOMAIN missing
    PROVE  RangeStart(m) = missing[m][1] /\ RangeEnd(m) = missing[m][2]
<1> DEFINE a == missing[m][1]
           b == missing[m][2]
           f == [x \in 1 .. m |-> missing[x][1]]
<1>1. /\ DOMAIN missing = 1 .. Len(missing) /\ Len(missing) \in Nat
      /\ m \in Nat /\ m \in 0 .. Len(missing)
  BY Ranges
<1>2. /\ a \in Nat /\ b \in Nat /\ a < b /\ b <= End(Runs) /\ End(Runs) \in Nat
      /\ a \in RangeStarts /\ 2 * m \in 1 .. Runs /\ b = End(2 * m)
      /\ \A i \in a .. b - 1 : i \in Missing
  <2>1. End(Runs) \in Nat
    BY TotalsRecursion DEF End, Runs
  <2> QED
    BY <2>1, Ranges, RangesStart DEF Missing
<1>3. Cardinality(StartsUpto(a)) = m
  <2>1. /\ 1 .. m \subseteq DOMAIN missing /\ f \in [1 .. m -> Nat]
        /\ \A x, y \in 1 .. m : x < y => missing[x][1] < missing[y][1]
    BY <1>1, RangesAscend
  <2>2. ASSUME NEW x \in 1 .. m PROVE f[x] \in StartsUpto(a)
    <3>1. f[x] = missing[x][1] /\ missing[x][1] \in RangeStarts /\ missing[x][1] \in Nat
      BY <2>1, RangesStart, Ranges
    <3>2. x = m \/ x < m
      BY <1>1
    <3>3. m \in 1 .. m
      BY <1>1
    <3>4. missing[x][1] <= a
      BY <1>2, <2>1, <3>1, <3>2, <3>3
    <3> QED
      BY <3>1, <3>4 DEF StartsUpto
  <2>3. f \in [1 .. m -> StartsUpto(a)]
    BY <2>2
  <2>4. ASSUME NEW j \in StartsUpto(a) PROVE \E x \in 1 .. m : j = f[x]
    <3>1. j \in RangeStarts /\ j <= a /\ j \in Nat
      BY StartsUptoFinite DEF StartsUpto
    <3>2. j < End(Runs)
      BY <1>2, <3>1
    <3>3. PICK x \in DOMAIN missing : j = missing[x][1]
      BY <3>1, <3>2, StartsAreRanges
    <3>4. ASSUME m < x PROVE FALSE
      <4>1. b < missing[x][1]
        BY <3>4, Ranges
      <4> QED
        BY <1>2, <3>1, <3>3, <4>1
    <3>5. x \in 1 .. m
      BY <1>1, <3>4
    <3> QED
      BY <3>3, <3>5
  <2>5. \A x, y \in 1 .. m : x < y => f[x] < f[y]
    BY <2>1
  <2>6. StartsUpto(a) \subseteq Nat
    BY StartsUptoFinite DEF StartsUpto
  <2> HIDE DEF f, a
  <2> QED
    BY <1>1, <2>3, <2>4, <2>5, <2>6, AscendingImage
<1>4. RangeStart(m) = a
  BY <1>2, <1>3, RangeStartIs
<1>5. b \in a .. NumBits /\ b \notin Missing
  <2>1. b <= NumBits
    BY <1>2, NumBitsAssumption DEF Encoded
  <2>2. ASSUME b \in Missing PROVE FALSE
    <3>1. b # NumBits /\ ~(b \in buf)
      BY <1>2, <2>2, NumBitsAssumption DEF Missing, Bits
    <3>2. CASE 2 * m = Runs
      <4>1. Runs % 2 = 0
        BY <1>1, <3>2
      <4> QED
        BY <1>2, <3>1, <3>2, <4>1 DEF Ended
    <3>3. CASE 2 * m # Runs
      <4> DEFINE n == 2 * m + 1
      <4>1. n \in 1 .. Runs /\ n \in 2 .. Runs /\ n - 1 = 2 * m /\ n % 2 = 1
        <5>1. Runs \in Nat /\ 2 * m <= Runs /\ m >= 1
          <6>1. Runs \in Nat
            BY DEF Runs
          <6>2. m \in 1 .. Len(missing)
            BY <1>1
          <6> QED
            BY <1>1, <1>2, <6>1, <6>2
        <5>2. m \in Nat
          BY <1>1
        <5> QED
          BY <3>3, <5>1, <5>2, NextOdd
      <4>2. n \in 1 .. Len(update)
        BY <4>1 DEF Runs
      <4> HIDE DEF n
      <4>3. End(n) = b + update[n] /\ update[n] \in Nat
        <5>1. Totals(update)[n] = Totals(update)[n - 1] + update[n]
          BY <4>2, TotalsRecursion
        <5>2. update[n] \in Nat
          BY <4>2
        <5>3. b = End(n - 1)
          BY <1>2, <4>1
        <5> QED
          BY <5>1, <5>2, <5>3 DEF End
      <4>4. update[n] > 0
        BY <4>1 DEF Encoded
      <4>5. b \in b .. (b + update[n]) - 1
        BY <1>2, <4>3, <4>4
      <4>6. (b \in buf) <=> (n % 2 = 1)
        BY <1>2, <4>1, <4>3, <4>5 DEF Encoded
      <4> QED
        BY <3>1, <4>1, <4>6
    <3> QED
      BY <3>2, <3>3
  <2> QED
    BY <1>2, <2>1, <2>2, NumBitsAssumption
<1>6. RangeEnd(m) = b
  <2> DEFINE S == {i \in a .. NumBits : i \notin Missing}
  <2>1. S \in SUBSET Nat /\ b \in S
    BY <1>2, <1>5, NumBitsAssumption
  <2>2. \A x \in S : b <= x
    <3>1. \A x \in S : x \in Nat /\ x >= a /\ x \notin Missing
      BY <1>2, NumBitsAssumption
    <3> QED
      BY <1>2, <3>1
  <2> HIDE DEF S
  <2>3. Min(S) = b
    BY <2>1, <2>2, LeastIs
  <2> QED
    BY <1>4, <2>3 DEF RangeEnd, S
<1> QED
  BY <1>4, <1>6

\* Where the range starts that a status cut off comes next to.
NextStart == IF Runs % 2 = 0 THEN bit ELSE End(Runs)

LEMMA CutTypes ==
    ASSUME StatusTypes, Cut
    PROVE  /\ Runs \in Nat /\ Runs \in 2 .. Runs /\ End(Runs) \in Nat /\ bit \in Nat
           /\ bit <= NumBits /\ End(Runs) < bit /\ End(Runs) + count = bit
           /\ count \in 0 .. NumBits /\ written \in Nat
<1>1. update \in Seq(Nat) /\ Runs \in Nat /\ Runs \in 0 .. Len(update) /\ Runs > 1
  BY DEF StatusTypes, Cut, Runs
<1>2. End(Runs) \in Nat
  BY <1>1, TotalsRecursion DEF End
<1>3. bit \in Nat /\ bit <= NumBits /\ count \in Nat /\ written \in Nat /\ count > 0
  BY NumBitsAssumption DEF StatusTypes, Cut
<1>4. End(Runs) + count = bit
  BY DEF Cut
<1> QED
  BY <1>1, <1>2, <1>3, <1>4, NumBitsAssumption

\* If there is another range, it starts at NextStart: behind a run of ones
\* that was counted, or at the run of zeroes that was.
LEMMA NextStartIs ==
    ASSUME StatusTypes, Encoded, Ended, missing = Tuples, Cut,
           NEW s \in RangeStarts, s >= End(Runs)
    PROVE  /\ NextStart \in RangeStarts /\ NextStart \in Nat /\ NextStart <= s
           /\ End(Runs) <= NextStart
<1>1. /\ Runs \in Nat /\ Runs \in 2 .. Runs /\ End(Runs) \in Nat /\ bit \in Nat
      /\ bit <= NumBits /\ End(Runs) < bit
  BY CutTypes
<1>2. s \in Missing /\ s \in Nat /\ s < NumBits /\ ~(s \in buf)
  BY NumBitsAssumption DEF RangeStarts, Missing, Bits
<1>3. CASE Runs % 2 = 0
  <2>1. ~(s < bit)
    BY <1>1, <1>2, <1>3 DEF Cut
  <2>2. bit <= s /\ bit < NumBits
    BY <1>1, <1>2, <2>1, NumBitsAssumption
  <2>3. ~(bit \in buf)
    BY <1>1, <1>3, <2>2, NumBitsAssumption DEF Cut
  <2>4. bit \in Missing
    BY <1>1, <2>2, <2>3, NumBitsAssumption DEF Missing, Bits
  <2>5. bit - 1 \in End(Runs) .. bit - 1
    BY <1>1
  <2>6. bit - 1 \notin Missing
    BY <1>3, <2>5 DEF Cut, Missing
  <2> QED
    BY <1>1, <1>3, <2>2, <2>4, <2>6 DEF NextStart, RangeStarts
<1>4. CASE Runs % 2 # 0
  <2>1. PICK e \in Nat : e = End(Runs)
    BY <1>1
  <2>2. e \in Missing
    <3>1. e \in End(Runs) .. bit - 1
      BY <1>1, <2>1
    <3>2. ~(e \in buf)
      BY <1>4, <3>1 DEF Cut
    <3> QED
      BY <1>1, <2>1, <3>2, NumBitsAssumption DEF Missing, Bits
  <2>3. PICK j \in RangeStarts : e <= j /\ j <= e
    <3>1. e >= End(Runs)
      BY <2>1
    <3>2. update \in Seq(Nat)
      BY DEF StatusTypes
    <3> QED
      BY <2>1, <2>2, <3>1, <3>2, AnotherStart
  <2>4. e \in RangeStarts
    <3>1. j \in Nat
      BY StartsUptoFinite
    <3>2. j = e
      BY <2>3, <3>1
    <3> QED
      BY <3>2
  <2> QED
    BY <1>2, <1>4, <2>1, <2>4 DEF NextStart
<1> QED
  BY <1>3, <1>4

\* It is the one after the status's ranges.
LEMMA NextRange ==
    ASSUME StatusTypes, Encoded, Ended, missing = Tuples, Cut,
           NEW s \in RangeStarts, s >= End(Runs)
    PROVE  RangeStart(Len(missing) + 1) = NextStart
<1>1. /\ NextStart \in RangeStarts /\ NextStart \in Nat /\ NextStart <= s
      /\ End(Runs) <= NextStart /\ End(Runs) \in Nat /\ update \in Seq(Nat)
  BY CutTypes, NextStartIs DEF StatusTypes
<1>2. PICK K \in Nat : K = Len(missing) /\ DOMAIN missing = 1 .. K
  BY <1>1, Ranges
<1>3. /\ \A a, b \in 1 .. K : a < b => missing[a][1] < missing[b][1]
      /\ \A a \in 1 .. K :
            /\ missing[a][1] \in Nat /\ missing[a][1] < NextStart
            /\ missing[a][1] \in RangeStarts
  <2>1. K \in 0 .. Len(missing)
    BY <1>2
  <2>2. \A a, b \in 1 .. K : a < b => missing[a][1] < missing[b][1]
    BY <1>1, <2>1, RangesAscend
  <2>3. ASSUME NEW a \in 1 .. K
        PROVE  missing[a][1] \in Nat /\ missing[a][1] < NextStart
    <3>1. /\ missing[a][1] \in Nat /\ missing[a][2] \in Nat
          /\ missing[a][1] < missing[a][2] /\ missing[a][2] <= End(Runs)
      BY <1>1, <1>2, Ranges
    <3> QED
      BY <1>1, <3>1
  <2> QED
    BY <1>1, <1>2, <2>2, <2>3, RangesStart
<1> DEFINE h == [a \in 1 .. K + 1 |-> IF a <= K THEN missing[a][1] ELSE NextStart]
<1>4. (\A a \in 1 .. K : h[a] = missing[a][1]) /\ h[K + 1] = NextStart
  OBVIOUS
<1>5. \A a \in 1 .. K + 1 : a \in 1 .. K \/ a = K + 1
  OBVIOUS
<1>6. ASSUME NEW a \in 1 .. K + 1 PROVE h[a] \in StartsUpto(NextStart)
  <2>1. CASE a \in 1 .. K
    <3>1. h[a] \in Nat /\ h[a] < NextStart /\ h[a] \in RangeStarts
      BY <1>3, <1>4, <2>1
    <3> QED
      BY <1>1, <3>1 DEF StartsUpto
  <2>2. CASE a = K + 1
    BY <1>1, <1>4, <2>2 DEF StartsUpto
  <2> QED
    BY <1>5, <2>1, <2>2
<1>7. h \in [1 .. K + 1 -> StartsUpto(NextStart)]
  BY <1>6
<1> HIDE DEF h
<1>8. ASSUME NEW a \in 1 .. K + 1, NEW b \in 1 .. K + 1, a < b PROVE h[a] < h[b]
  <2>1. a \in 1 .. K
    BY <1>8
  <2>2. CASE b = K + 1
    BY <1>3, <1>4, <2>1, <2>2
  <2>3. CASE b \in 1 .. K
    BY <1>3, <1>4, <1>8, <2>1, <2>3
  <2> QED
    BY <1>5, <2>2, <2>3
<1>9. ASSUME NEW j \in StartsUpto(NextStart) PROVE \E a \in 1 .. K + 1 : j = h[a]
  <2>1. j \in RangeStarts /\ j <= NextStart /\ j \in Nat
    BY StartsUptoFinite DEF StartsUpto
  <2>2. CASE j < End(Runs)
    <3>1. PICK a \in 1 .. K : j = missing[a][1]
      BY <1>1, <1>2, <2>1, <2>2, StartsAreRanges
    <3>2. a \in 1 .. K + 1 /\ j = h[a]
      BY <1>4, <3>1
    <3> QED
      BY <3>2
  <2>3. CASE j >= End(Runs)
    <3>1. NextStart <= j
      BY <2>1, <2>3, NextStartIs
    <3>2. j = h[K + 1] /\ K + 1 \in 1 .. K + 1
      BY <1>1, <1>4, <2>1, <3>1
    <3> QED
      BY <3>2
  <2> QED
    BY <1>1, <2>1, <2>2, <2>3
<1>10. Cardinality(StartsUpto(NextStart)) = K + 1
  <2>1. StartsUpto(NextStart) \subseteq Nat
    BY StartsUptoFinite DEF StartsUpto
  <2> QED
    BY <1>7, <1>8, <1>9, <2>1, AscendingImage
<1>11. RangeStart(K + 1) = NextStart
  BY <1>1, <1>10, RangeStartIs
<1> QED
  BY <1>2, <1>11

\* Without one the status has all the ranges.
LEMMA NoRangeMore ==
    ASSUME update \in Seq(Nat), Encoded, missing = Tuples,
           \A s \in RangeStarts : s < End(Runs)
    PROVE  Len(missing) = Cardinality(RangeStarts)
<1>1. PICK K \in Nat : K = Len(missing) /\ DOMAIN missing = 1 .. K
  BY Ranges
<1> DEFINE f == [m \in 1 .. K |-> missing[m][1]]
<1>2. /\ f \in [1 .. K -> RangeStarts]
      /\ \A a, b \in 1 .. K : a < b => f[a] < f[b]
  <2>1. K \in 0 .. Len(missing)
    BY <1>1
  <2>2. \A a, b \in 1 .. K : a < b => missing[a][1] < missing[b][1]
    BY <2>1, RangesAscend
  <2>3. \A m \in 1 .. K : missing[m][1] \in RangeStarts
    BY <1>1, RangesStart
  <2> QED
    BY <2>2, <2>3
<1>3. ASSUME NEW j \in RangeStarts PROVE \E a \in 1 .. K : j = f[a]
  BY <1>1, StartsAreRanges
<1>4. RangeStarts \subseteq Nat
  BY StartsUptoFinite
<1> HIDE DEF f
<1>5. Cardinality(RangeStarts) = K
  BY <1>2, <1>3, <1>4, AscendingImage
<1> QED
  BY <1>1, <1>5

\* Summing up pairs.
LEMMA SumByPairs ==
    ASSUME NEW l \in Seq(Nat), NEW r \in Seq(Nat), NEW n \in Nat,
           2 * n <= Len(l), n <= Len(r),
           \A m \in 1 .. n : r[m] = l[2 * m - 1] + l[2 * m]
    PROVE  Totals(r)[n] = Totals(l)[2 * n]
<1> DEFINE S == {m \in Nat : Totals(r)[m] = Totals(l)[2 * m]}
<1>1. 0 \in S
  <2>1. 2 * 0 = 0 /\ 0 \in Nat
    OBVIOUS
  <2>2. Totals(r)[0] = 0 /\ Totals(l)[0] = 0
    BY TotalsRecursion
  <2> QED
    BY <2>1, <2>2
<1>2. ASSUME NEW m \in 1 .. n, m - 1 \in S PROVE m \in S
  <2>1. /\ m \in Nat /\ m \in 1 .. Len(r) /\ 2 * m \in 1 .. Len(l)
        /\ 2 * m - 1 \in 1 .. Len(l) /\ (2 * m - 1) - 1 = 2 * (m - 1)
        /\ 2 * (m - 1) \in 0 .. Len(l)
    <3>1. m \in Nat /\ m >= 1 /\ m <= n /\ Len(l) \in Nat /\ Len(r) \in Nat
      OBVIOUS
    <3>2. 2 * m <= Len(l)
      BY <3>1
    <3> QED
      BY <3>1, <3>2
  <2>2. Totals(r)[m] = Totals(r)[m - 1] + r[m]
    BY <2>1, TotalsRecursion
  <2>3. /\ Totals(l)[2 * m] = Totals(l)[2 * m - 1] + l[2 * m]
        /\ Totals(l)[2 * m - 1] = Totals(l)[(2 * m - 1) - 1] + l[2 * m - 1]
    BY <2>1, TotalsRecursion
  <2>4. PICK t \in Nat, x \in Nat, y \in Nat :
           t = Totals(l)[2 * (m - 1)] /\ x = l[2 * m - 1] /\ y = l[2 * m]
    <3>1. Totals(l)[2 * (m - 1)] \in Nat
      BY <2>1, TotalsRecursion
    <3>2. \A k \in 1 .. Len(l) : l[k] \in Nat
      OBVIOUS
    <3>3. l[2 * m - 1] \in Nat /\ l[2 * m] \in Nat
      BY ONLY <2>1, <3>2, Zenon
    <3> QED
      BY <3>1, <3>3, Zenon
  <2>5. Totals(l)[2 * m] = (t + x) + y
    BY <2>1, <2>3, <2>4
  <2>6. Totals(r)[m] = t + (x + y)
    BY <1>2, <2>2, <2>4
  <2>7. (t + x) + y = t + (x + y)
    OBVIOUS
  <2>8. Totals(r)[m] = Totals(l)[2 * m]
    BY <2>5, <2>6, <2>7
  <2> QED
    BY <2>1, <2>8
<1> HIDE DEF S
<1>3. n \in S
  <2>1. \A k \in 0 .. n : k \in S
    BY <1>1, <1>2, InductiveSet
  <2> QED
    BY <2>1
<1> QED
  BY <1>3 DEF S

\* The octets of one of the status's ranges are those of its two numbers.
LEMMA RangeSizeIs ==
    ASSUME update \in Seq(Nat), Encoded, Ended, missing = Tuples, NEW m \in DOMAIN missing
    PROVE  RangeSize(m) = Lens[2 * m - 1] + Lens[2 * m]
<1>1. /\ 2 * m - 1 \in 1 .. Runs /\ 2 * m \in 1 .. Runs
      /\ missing[m][1] = End(2 * m - 1) /\ missing[m][2] = End(2 * m)
      /\ m \in Nat /\ m >= 1 /\ DOMAIN missing = 1 .. Len(missing) /\ Len(missing) \in Nat
  <2>1. DOMAIN missing = 1 .. Len(missing) /\ Len(missing) \in Nat
    BY Ranges
  <2> QED
    BY <2>1, Ranges
<1>2. RangeStart(m) = End(2 * m - 1) /\ RangeEnd(m) = End(2 * m)
  BY <1>1, KthRange
<1>3. EndBefore(m) = End((2 * m - 1) - 1)
  <2>1. CASE m = 1
    <3>1. (2 * m - 1) - 1 = 0 /\ End(0) = 0
      BY <2>1, TotalsRecursion DEF End
    <3> QED
      BY <2>1, <3>1 DEF EndBefore
  <2>2. CASE m # 1
    <3>1. m - 1 \in DOMAIN missing /\ 2 * (m - 1) = (2 * m - 1) - 1
      BY <1>1, <2>2
    <3>2. RangeEnd(m - 1) = End(2 * (m - 1))
      BY <3>1, KthRange, Ranges
    <3> QED
      BY <2>2, <3>1, <3>2 DEF EndBefore
  <2> QED
    BY <2>1, <2>2
<1>4. \A k \in 1 .. Runs :
         End(k) - End(k - 1) = update[k] /\ Lens[k] = VarintLen(update[k])
  <2>1. ASSUME NEW k \in 1 .. Runs
        PROVE  End(k) - End(k - 1) = update[k] /\ Lens[k] = VarintLen(update[k])
    <3>1. k \in 1 .. Len(update) /\ k - 1 \in 0 .. Len(update)
      BY DEF Runs
    <3>2. End(k) = End(k - 1) + update[k] /\ End(k - 1) \in Nat /\ update[k] \in Nat
      BY <3>1, TotalsRecursion DEF End
    <3>3. End(k) - End(k - 1) = update[k]
      BY <3>2
    <3> QED
      BY <3>3 DEF Lens
  <2> QED
    BY <2>1
<1>5. RangeStart(m) - EndBefore(m) = update[2 * m - 1]
  BY <1>1, <1>2, <1>3, <1>4
<1>6. RangeEnd(m) - RangeStart(m) = update[2 * m]
  BY <1>1, <1>2, <1>4
<1> QED
  BY <1>1, <1>4, <1>5, <1>6 DEF RangeSize

\* One range more is at least the number that did not fit.
LEMMA NextRangeSize ==
    ASSUME StatusTypes, Encoded, Ended, missing = Tuples, Cut,
           NEW s \in RangeStarts, s >= End(Runs),
           NEW K \in Nat, K = Len(missing)
    PROVE  /\ RangeSize(K + 1) \in Nat
           /\ Totals(Lens)[2 * K] + RangeSize(K + 1) >= written + VarintLen(count)
<1>1. /\ Runs \in Nat /\ Runs >= 2 /\ End(Runs) \in Nat /\ bit \in Nat
      /\ bit <= NumBits /\ End(Runs) < bit /\ End(Runs) + count = bit
      /\ count \in 0 .. NumBits /\ written \in Nat /\ update \in Seq(Nat)
  BY CutTypes DEF StatusTypes
<1>2. /\ K = Runs \div 2 /\ DOMAIN missing = 1 .. K
  BY <1>1, Ranges
<1>3. /\ Lens \in Seq(Nat) /\ Len(Lens) = Runs
      /\ \A k \in 1 .. Runs : update[k] \in 0 .. NumBits
  BY <1>1, RunLengths
<1>4. written = Totals(Lens)[Runs]
  BY DEF Cut, AllWritten
<1>5. VarintLen(count) \in Nat
  BY <1>1, VarintBounds
<1>6. RangeStart(K + 1) = NextStart
  BY NextRange
<1>7. K >= 1 /\ K \in DOMAIN missing /\ K + 1 # 1 /\ (K + 1) - 1 = K
  <2>1. 1 <= K
    BY <1>1, <1>2, Half
  <2> QED
    BY <1>2, <2>1
<1>8. EndBefore(K + 1) = End(2 * K)
  <2>1. RangeEnd(K) = missing[K][2] /\ missing[K][2] = End(2 * K)
    BY <1>1, <1>7, KthRange, Ranges
  <2> QED
    BY <1>7, <2>1 DEF EndBefore
<1>9. RangeSize(K + 1)
        = VarintLen(NextStart - End(2 * K)) + VarintLen(RangeEnd(K + 1) - NextStart)
  BY <1>6, <1>8 DEF RangeSize
<1> DEFINE S == {i \in NextStart .. NumBits : i \notin Missing}
<1>10. NextStart \in Nat /\ NextStart <= s /\ s \in Nat /\ s < NumBits
  BY NextStartIs, StartsUptoFinite, NumBitsAssumption DEF Bits
<1>11. RangeEnd(K + 1) = Min(S) /\ S \in SUBSET Nat /\ NumBits \in S
  <2>1. RangeEnd(K + 1) = Min(S)
    BY <1>6 DEF RangeEnd
  <2>2. NumBits \notin Missing
    BY NumBitsAssumption DEF Missing, Bits
  <2>3. NumBits \in NextStart .. NumBits /\ NextStart .. NumBits \subseteq Nat
    BY <1>10, NumBitsAssumption
  <2> QED
    BY <2>1, <2>2, <2>3
<1>12. CASE Runs % 2 = 0
  <2>1. Runs = 2 * K
    BY <1>1, <1>2, <1>12, Half
  <2>2. NextStart = bit /\ NextStart - End(2 * K) = count
    BY <1>1, <1>12, <2>1 DEF NextStart
  <2>3. RangeEnd(K + 1) \in S
    BY <1>11, LeastNat
  <2>4. RangeEnd(K + 1) - NextStart \in 0 .. NumBits
    BY <1>10, <2>3, NumBitsAssumption
  <2>5. VarintLen(RangeEnd(K + 1) - NextStart) \in Nat
    BY <2>4, VarintBounds
  <2>6. RangeSize(K + 1) = VarintLen(count) + VarintLen(RangeEnd(K + 1) - NextStart)
    BY <1>9, <2>2
  <2>7. PICK x \in Nat, y \in Nat :
              x = VarintLen(count) /\ y = VarintLen(RangeEnd(K + 1) - NextStart)
    BY <1>5, <2>5, Zenon
  <2>8. RangeSize(K + 1) = x + y /\ Totals(Lens)[2 * K] = written
    BY <1>4, <2>1, <2>6, <2>7, Zenon
  <2>9. x + y \in Nat /\ written + (x + y) >= written + x
    <3>1. written \in Nat
      BY <1>1, Zenon
    <3> QED
      BY ONLY <3>1, x \in Nat, y \in Nat
  <2> QED
    BY <2>7, <2>8, <2>9, Zenon
<1>13. CASE Runs % 2 # 0
  <2>1. Runs = 2 * K + 1 /\ Runs - 1 = 2 * K
    BY <1>1, <1>2, <1>13, Half
  <2>2. NextStart = End(Runs)
    BY <1>13 DEF NextStart
  <2>3. Runs \in 1 .. Len(update) /\ Runs \in 1 .. Runs /\ Runs - 1 \in 0 .. Len(update)
    BY <1>1 DEF Runs
  <2>4. End(Runs) = End(Runs - 1) + update[Runs] /\ End(Runs - 1) \in Nat
    BY <1>1, <2>3, TotalsRecursion DEF End
  <2>5. NextStart - End(2 * K) = update[Runs]
    <3>1. update[Runs] \in Nat
      BY <1>3, <2>3, NumBitsAssumption
    <3> QED
      BY <2>1, <2>2, <2>4, <3>1
  <2>6. RangeEnd(K + 1) = bit
    <3>1. bit \in S
      <4>1. bit \notin Missing
        BY <1>1, <1>13, NumBitsAssumption DEF Cut, Missing, Bits
      <4> QED
        BY <1>1, <2>2, <4>1, NumBitsAssumption
    <3>2. ASSUME NEW x \in S PROVE bit <= x
      <4>1. x \in Nat /\ x >= End(Runs) /\ x <= NumBits /\ x \notin Missing
        BY <1>10, <2>2, <3>2, NumBitsAssumption
      <4>2. ASSUME x < bit PROVE FALSE
        <5>1. x \in End(Runs) .. bit - 1
          BY <1>1, <4>1, <4>2
        <5>2. ~(x \in buf)
          BY <1>13, <5>1 DEF Cut
        <5>3. x \in Missing
          BY <1>1, <4>1, <4>2, <5>2, NumBitsAssumption DEF Missing, Bits
        <5> QED
          BY <4>1, <5>3
      <4> QED
        BY <1>1, <4>1, <4>2
    <3> HIDE DEF S
    <3> QED
      BY <1>11, <3>1, <3>2, LeastIs
  <2>7. RangeEnd(K + 1) - NextStart = count
    <3>1. count \in Nat
      BY <1>1, NumBitsAssumption
    <3> QED
      BY <1>1, <2>2, <2>6, <3>1
  <2>8. Lens[Runs] = VarintLen(update[Runs])
    BY <2>3 DEF Lens
  <2>9. RangeSize(K + 1) = Lens[Runs] + VarintLen(count)
    BY <1>9, <2>5, <2>7, <2>8
  <2>10. Totals(Lens)[Runs] = Totals(Lens)[2 * K] + Lens[Runs] /\ Totals(Lens)[2 * K] \in Nat
    <3>1. Runs \in 1 .. Len(Lens) /\ Runs - 1 \in 0 .. Len(Lens)
      BY <1>1, <1>3
    <3> QED
      BY <1>3, <2>1, <3>1, TotalsRecursion
  <2>11. Lens[Runs] \in Nat
    BY <1>1, <1>3
  <2> QED
    BY <1>4, <1>5, <2>9, <2>10, <2>11
<1> QED
  BY <1>12, <1>13

\* For any bitmap and any datagram, a status leaves out no range that would
\* have fitted.
THEOREM TruncatesLateAlways == CodecSpec => []TruncatesLate
<1>1. ASSUME CodecInv, CutInv PROVE TruncatesLate
  <2> SUFFICES ASSUME stage = "done", Len(missing) # Cardinality(RangeStarts)
               PROVE  EncodedSize(Len(missing) + 1) > cap
    BY DEF TruncatesLate
  <2>1. StatusTypes /\ Encoded /\ Ended /\ missing = Tuples /\ update \in Seq(Nat)
    BY <1>1 DEF CodecInv, StatusInv, StatusTypes, Sending
  <2>2. PICK s \in RangeStarts : ~(s < End(Runs))
    BY <2>1, NoRangeMore
  <2>3. s \in Nat /\ s < NumBits /\ End(Runs) \in Nat
    <3>1. s \in Bits
      BY StartsUptoFinite
    <3>2. Runs \in 0 .. Len(update)
      BY <2>1 DEF Runs
    <3> QED
      BY <2>1, <3>1, <3>2, NumBitsAssumption, TotalsRecursion DEF Bits, End
  <2>4. s >= End(Runs) /\ End(Runs) # NumBits
    BY <2>2, <2>3, NumBitsAssumption
  <2>5. Cut
    BY <1>1, <2>4 DEF CutInv
  <2>6. PICK K \in Nat : K = Len(missing) /\ DOMAIN missing = 1 .. K
    BY <2>1, Ranges
  <2>7. /\ RangeSize(K + 1) \in Nat
        /\ Totals(Lens)[2 * K] + RangeSize(K + 1) >= written + VarintLen(count)
    BY <2>1, <2>4, <2>5, <2>6, NextRangeSize
  <2>8. /\ Lens \in Seq(Nat) /\ Len(Lens) = Runs /\ Runs \in Nat
        /\ \A k \in 1 .. Runs : Lens[k] \in Nat
    BY <2>1, RunLengths
  <2>9. 2 * K <= Len(Lens)
    <3>1. K = Runs \div 2
      BY <2>1, <2>6, Ranges
    <3> QED
      BY <2>6, <2>8, <3>1, Half
  <2> DEFINE r == [m \in 1 .. K + 1 |-> RangeSize(m)]
  <2>10. ASSUME NEW m \in 1 .. K
         PROVE  RangeSize(m) = Lens[2 * m - 1] + Lens[2 * m] /\ RangeSize(m) \in Nat
    <3>1. RangeSize(m) = Lens[2 * m - 1] + Lens[2 * m]
      BY <2>1, <2>6, RangeSizeIs
    <3>2. 2 * K <= Runs /\ Runs \in Nat
      BY <2>8, <2>9, Zenon
    <3>3. 2 * m - 1 \in 1 .. Runs /\ 2 * m \in 1 .. Runs
      BY <2>6, <3>2
    <3> QED
      BY <2>8, <3>1, <3>3
  <2>11. r \in Seq(Nat) /\ Len(r) = K + 1 /\ r[K + 1] = RangeSize(K + 1)
    <3>1. \A m \in 1 .. K + 1 : m \in 1 .. K \/ m = K + 1
      BY <2>6
    <3>2. \A m \in 1 .. K + 1 : RangeSize(m) \in Nat
      BY <2>7, <2>10, <3>1
    <3> QED
      BY <2>6, <3>2
  <2>12. \A m \in 1 .. K : r[m] = Lens[2 * m - 1] + Lens[2 * m]
    BY <2>6, <2>10
  <2>13. EncodedSize(K + 1) = Totals(r)[K + 1]
    BY DEF EncodedSize
  <2> HIDE DEF r
  <2>14. Totals(r)[K] = Totals(Lens)[2 * K]
    <3>1. K <= Len(r)
      BY <2>11
    <3> QED
      BY <2>8, <2>9, <2>11, <2>12, <3>1, SumByPairs
  <2>15. Totals(r)[K + 1] = Totals(r)[K] + r[K + 1]
    <3>1. K + 1 \in 1 .. Len(r) /\ (K + 1) - 1 = K
      BY <2>11
    <3> QED
      BY <2>11, <3>1, TotalsRecursion
  <2>16. EncodedSize(K + 1) >= written + VarintLen(count)
    BY <2>7, <2>11, <2>13, <2>14, <2>15
  <2>17. written + VarintLen(count) > cap
    BY <2>5 DEF Cut
  <2>18. EncodedSize(K + 1) \in Nat /\ written + VarintLen(count) \in Nat /\ cap \in Nat
    <3>1. K + 1 \in 0 .. Len(r)
      BY <2>11
    <3>2. Totals(r)[K + 1] \in Nat
      BY <2>11, <3>1, TotalsRecursion
    <3>3. VarintLen(count) \in Nat /\ written \in Nat
      BY <2>1, <2>5, CutTypes, VarintBounds
    <3> QED
      BY <2>1, <2>13, <3>2, <3>3, CapacitiesAssumption DEF StatusTypes
  <2>19. EncodedSize(K + 1) > cap
    BY <2>16, <2>17, <2>18
  <2> QED
    BY <2>6, <2>19
<1> QED
  BY <1>1, CodecInvariant, CutInvariant, PTL
=============================================================================
