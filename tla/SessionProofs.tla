--------------------------- MODULE SessionProofs ---------------------------
(***************************************************************************)
(* The arithmetic of CongestionInfo and the timers of a session, for every *)
(* window, every timeout and every sequence of packets that are at least   *)
(* as many units of time apart as the window is long.                      *)
(***************************************************************************)
EXTENDS Session, TLAPS

-----------------------------------------------------------------------------
(***************************************************************************)
(* One stream: the bounds of TimeoutStream, for every period and every     *)
(* delay shorter than the period.  They rest on the assumptions of that    *)
(* module alone.                                                           *)
(***************************************************************************)

\* One turn of the drain loop is enough when the interval is less than a
\* period late.
LEMMA DrainedOnce ==
    ASSUME NEW d \in Int, d <= 0, -d < Timeout
    PROVE  (-d) % Timeout = -d
BY TimeoutAssumption

LEMMA InitTimeout == Init => TimeoutInv
BY TimeoutAssumption, StallAssumption DEF Init, TimeoutInv, TimeoutNotEarly

LEMMA NextTimeout ==
    ASSUME Stall < Timeout, TimeoutInv, [Next]_vars
    PROVE  TimeoutInv'
<1> USE TimeoutAssumption, StallAssumption DEF TimeoutInv, TimeoutNotEarly
<1>1. CASE Tick
  BY <1>1 DEF Tick
<1>2. CASE PollItem
  BY <1>2 DEF PollItem
<1>3. CASE PollExpired
  <2>1. due \in Int /\ due <= 0 /\ -due < Timeout
    BY <1>3 DEF PollExpired
  <2>2. (-due) % Timeout = -due
    BY <2>1, DrainedOnce
  <2>3. due' = Timeout - ((-due) % Timeout)
    BY <1>3 DEF PollExpired, Drained
  <2>4. due' = Timeout + due
    BY <2>1, <2>2, <2>3
  <2> QED
    BY <1>3, <2>1, <2>4 DEF PollExpired
<1>4. CASE PollTimeout
  BY <1>4 DEF PollTimeout
<1>5. CASE PollError
  BY <1>5 DEF PollError
<1>6. CASE UNCHANGED vars
  BY <1>6 DEF vars
<1> QED
  BY <1>1, <1>2, <1>3, <1>4, <1>5, <1>6 DEF Next

\* A session's stream that is polled less than a period late never times out
\* earlier than the period less that delay.
THEOREM NotEarlyAlways ==
    ASSUME Stall < Timeout
    PROVE  Spec => []TimeoutNotEarly
<1>1. TimeoutInv => TimeoutNotEarly
  BY DEF TimeoutInv
<1>2. TimeoutInv /\ [Next]_vars => TimeoutInv'
  BY NextTimeout
<1> QED
  BY <1>1, <1>2, InitTimeout, PTL DEF Spec

\* ... and its silence lasts at most two periods and the delay.
THEOREM SilenceDetectedAlways ==
    ASSUME Stall < Timeout
    PROVE  Spec => []SilenceDetected
<1>1. TimeoutInv => SilenceDetected
  BY TimeoutAssumption, StallAssumption DEF TimeoutInv, SilenceDetected
<1>2. TimeoutInv /\ [Next]_vars => TimeoutInv'
  BY NextTimeout
<1> QED
  BY <1>1, <1>2, InitTimeout, PTL DEF Spec

-----------------------------------------------------------------------------
(***************************************************************************)
(* A session.                                                              *)
(***************************************************************************)
Types ==
    /\ last_ipt \in BOOLEAN /\ done \in BOOLEAN
    /\ ipts \in Seq(Nat) /\ shares \in Seq(Nat)
    /\ ipt \in Nat
    /\ num_packets \in Nat \ {0}
    /\ last_notify \in Nat /\ packets \in Nat
    /\ ipts # <<>> => last_ipt

IInv ==
    /\ Types /\ WindowInv
    /\ TimeoutInv /\ Sender!TimeoutInv
    /\ StatusInv /\ StatusesKeepSession

-----------------------------------------------------------------------------
(***************************************************************************)
(* Arithmetic.                                                             *)
(***************************************************************************)

\* Division rounds down.
LEMMA Quotient ==
    ASSUME NEW a \in Nat, NEW b \in Nat, b > 0
    PROVE  /\ a \div b \in Nat
           /\ b * (a \div b) <= a
           /\ a <= b * (a \div b) + (b - 1)
OBVIOUS

\* One more time in the average loses at most the two remainders.
LEMMA AverageBounds ==
    ASSUME NEW x \in Nat, NEW d \in Nat, NEW n \in Nat,
           NEW y \in Nat, y = (x * n) \div (n + 1) + d \div (n + 1)
    PROVE  /\ (n + 1) * y <= n * x + d
           /\ (n + 1) * y >= n * x + d - 2 * n
<1> DEFINE p == (x * n) \div (n + 1)
           q == d \div (n + 1)
<1>1. x * n \in Nat /\ n + 1 \in Nat /\ n + 1 > 0
  OBVIOUS
<1>2. p \in Nat /\ (n + 1) * p <= x * n /\ x * n <= (n + 1) * p + n
  BY <1>1, Quotient
<1>3. q \in Nat /\ (n + 1) * q <= d /\ d <= (n + 1) * q + n
  BY <1>1, Quotient
<1>4. y = p + q
  OBVIOUS
<1> HIDE DEF p, q
<1>5. (n + 1) * y = (n + 1) * p + (n + 1) * q
  BY <1>2, <1>3, <1>4
<1>6. x * n = n * x
  OBVIOUS
<1> QED
  BY <1>2, <1>3, <1>5, <1>6

\* What is a multiple can be divided.
LEMMA Cancel ==
    ASSUME NEW w \in Nat, w > 0, NEW a \in Int, NEW b \in Int, w * a >= w * b
    PROVE  a >= b
OBVIOUS

\* The bounds of a window that fills, from n times to n + 1.
LEMMA GrowBounds ==
    ASSUME NEW n \in Nat, NEW w \in Nat, NEW s \in Nat, NEW e \in Nat,
           NEW x \in Nat, NEW y \in Nat, NEW d \in Nat,
           w * e <= d, d <= w * e + (w - 1),
           (n + 1) * y <= n * x + d, (n + 1) * y >= n * x + d - 2 * n,
           n * x >= w * s - n * (n - 1), n * x <= w * s + n * (w - 1)
    PROVE  /\ (n + 1) * y >= w * (s + e) - (n + 1) * n
           /\ (n + 1) * y <= w * (s + e) + (n + 1) * (w - 1)
<1>1. w * (s + e) = w * s + w * e
  OBVIOUS
<1>2. (n + 1) * n = n * (n - 1) + 2 * n
  OBVIOUS
<1>3. (n + 1) * (w - 1) = n * (w - 1) + (w - 1)
  OBVIOUS
<1> DEFINE a == (n + 1) * y
           b == n * x
           c == w * s
           f == w * e
           g == n * (n - 1)
           h == n * (w - 1)
<1>4. a \in Int /\ b \in Int /\ c \in Int /\ f \in Int /\ g \in Int /\ h \in Int
  OBVIOUS
<1>5. /\ f <= d /\ d <= f + (w - 1) /\ a <= b + d /\ a >= b + d - 2 * n
      /\ b >= c - g /\ b <= c + h
  OBVIOUS
<1> HIDE DEF a, b, c, f, g, h
<1>6. a >= (c + f) - (g + 2 * n) /\ a <= (c + f) + (h + (w - 1))
  BY <1>4, <1>5
<1> QED
  BY <1>1, <1>2, <1>3, <1>6 DEF a, c, f, g, h

LEMMA OneMore ==
    ASSUME NEW s \in Nat, NEW e \in Nat, e >= 1, NEW t \in Nat, NEW n \in Nat, NEW i \in Nat,
           s - t >= n - i
    PROVE  (s + e) - t >= (n + 1) - i
OBVIOUS

\* ... and of one that is full.
LEMMA SlideBounds ==
    ASSUME NEW w \in Nat, NEW s \in Nat, NEW x \in Nat,
           x >= s - (w - 1), x <= s + (w - 1)
    PROVE  /\ w * x >= w * s - w * (w - 1)
           /\ w * x <= w * s + w * (w - 1)
<1>1. w * (x - (s - (w - 1))) >= 0 /\ w * ((s + (w - 1)) - x) >= 0
  <2>1. x - (s - (w - 1)) \in Nat /\ (s + (w - 1)) - x \in Nat
    OBVIOUS
  <2>2. \A k \in Nat : w * k >= 0
    OBVIOUS
  <2> QED
    BY <2>1, <2>2
<1>2. w * (x - (s - (w - 1))) = w * x - (w * s - w * (w - 1))
  OBVIOUS
<1>3. w * ((s + (w - 1)) - x) = (w * s + w * (w - 1)) - w * x
  OBVIOUS
<1>4. w * x \in Int /\ w * s \in Int /\ w * (w - 1) \in Int
  OBVIOUS
<1> QED
  BY <1>1, <1>2, <1>3, <1>4

LEMMA Product == ASSUME NEW x \in Nat, NEW y \in Nat PROVE x * y \in Nat
OBVIOUS

LEMMA Difference ==
    ASSUME NEW x \in Nat, NEW y \in Nat, NEW e \in Nat, x >= y
    PROVE  x - y \in Nat /\ x - y + e \in Nat
OBVIOUS

LEMMA ShareBounds ==
    ASSUME NEW d \in Nat
    PROVE  /\ Share(d) \in Nat
           /\ Window * Share(d) <= d
           /\ d <= Window * Share(d) + (Window - 1)
           /\ d >= Window => Share(d) >= 1
BY WindowAssumption, Quotient DEF Share

-----------------------------------------------------------------------------
(***************************************************************************)
(* The moving average.                                                     *)
(***************************************************************************)

LEMMA SumTypes ==
    ASSUME Types, WindowInv
    PROVE  /\ Len(ipts) \in Nat /\ Len(shares) = Len(ipts)
           /\ \A i \in 0 .. Len(ipts) : Sum(i) \in Nat
<1>1. Len(shares) = Len(ipts)
  BY DEF WindowInv
<1> QED
  BY <1>1 DEF Types, Sum

\* A full window's average is its sum of shares, up to the length of the
\* window, and at least the share of its oldest time.
LEMMA FullWindow ==
    ASSUME Types, WindowInv, Len(ipts) = Window
    PROVE  /\ Sum(Window) \in Nat /\ Sum(1) \in Nat
           /\ ipt >= Sum(Window) - (Window - 1)
           /\ ipt <= Sum(Window) + (Window - 1)
           /\ ipt >= Sum(1)
           /\ Sum(1) = Share(ipts[1])
<1> USE WindowAssumption
<1>1. Sum(Window) \in Nat /\ Sum(1) \in Nat /\ Sum(0) = 0
  BY SumTypes DEF Sum
<1>2. Window * ipt >= Window * Sum(Window) - Window * (Window - 1)
  BY DEF WindowInv
<1>3. Window * ipt <= Window * Sum(Window) + Window * (Window - 1)
  BY DEF WindowInv
<1>4. ipt \in Nat
  BY DEF Types
<1>5. Window * ipt >= Window * (Sum(Window) - (Window - 1))
  BY <1>1, <1>2, <1>4
<1>6. Window * (Sum(Window) + (Window - 1)) >= Window * ipt
  BY <1>1, <1>3, <1>4
<1>7. ipt >= Sum(Window) - (Window - 1) /\ Sum(Window) + (Window - 1) >= ipt
  <2>1. Sum(Window) - (Window - 1) \in Int /\ Sum(Window) + (Window - 1) \in Int
    BY <1>1
  <2>2. Window \in Nat /\ Window > 0 /\ ipt \in Int
    BY <1>4
  <2>3. ipt >= Sum(Window) - (Window - 1)
    BY ONLY <1>5, <2>1, <2>2, Cancel
  <2>4. Sum(Window) + (Window - 1) >= ipt
    BY ONLY <1>6, <2>1, <2>2, Cancel
  <2> QED
    BY <2>3, <2>4
<1>8. Sum(Window) - Sum(1) >= Window - 1
  BY DEF WindowInv
<1>9. Sum(1) = Sum(1 - 1) + Share(ipts[1])
  BY DEF WindowInv
<1>10. ipts[1] \in Nat
  BY DEF Types
<1>11. Share(ipts[1]) \in Nat
  BY <1>10, ShareBounds
<1> QED
  BY <1>1, <1>4, <1>7, <1>8, <1>9, <1>11

LEMMA AveragePositive ==
    ASSUME Types, WindowInv, ipts # <<>>
    PROVE  ipt > 0
<1> USE WindowAssumption
<1> DEFINE n == Len(ipts)
<1>1. n \in Nat /\ n > 0 /\ n <= Window /\ ipt \in Nat
  BY DEF Types, WindowInv
<1>2. Sum(n) \in Nat /\ Sum(0) = 0
  BY <1>1, SumTypes DEF Sum
<1>3. Sum(n) - Sum(0) >= n - 0
  BY <1>1 DEF WindowInv
<1>4. n * ipt >= Window * Sum(n) - n * (n - 1)
  BY DEF WindowInv
<1> HIDE DEF n
<1>5. Window * Sum(n) >= Window * n
  BY <1>1, <1>2, <1>3
<1>6. n * ipt >= n * (Window - (n - 1))
  <2>1. n * (Window - (n - 1)) = Window * n - n * (n - 1)
    BY <1>1
  <2>2. n * ipt \in Int /\ Window * Sum(n) \in Int /\ Window * n \in Int /\ n * (n - 1) \in Int
    BY <1>1, <1>2
  <2> QED
    BY <1>4, <1>5, <2>1, <2>2
<1>7. ipt >= Window - (n - 1)
  BY <1>1, <1>6, Cancel
<1> QED
  BY <1>1, <1>7

\* A window that is not full gets longer.
LEMMA GrowStep ==
    ASSUME Types, WindowInv, NEW diff \in Nat, diff >= Window,
           Len(ipts) # Window, Push(diff), ipt' = Average(diff)
    PROVE  WindowInv' /\ ipt' \in Nat /\ ipts' \in Seq(Nat) /\ shares' \in Seq(Nat)
<1> USE WindowAssumption
<1>0. Len(ipts) \in Nat /\ Len(shares) = Len(ipts) /\ Len(ipts) <= Window
  BY SumTypes DEF WindowInv
<1> PICK n \in Nat : n = Len(ipts)
  BY <1>0
<1> PICK s : s = Sum(n)
  OBVIOUS
<1> PICK e : e = Share(diff)
  OBVIOUS
<1>1. n \in Nat /\ n < Window /\ n + 1 \in Nat /\ n + 1 > 0
  BY <1>0
<1>2. e \in Nat /\ e >= 1 /\ Window * e <= diff /\ diff <= Window * e + (Window - 1)
  BY ShareBounds
<1>3. s \in Nat
  BY <1>1, SumTypes
<1>4. /\ ipts' = [i \in 1 .. n + 1 |-> IF i <= n THEN ipts[i] ELSE diff]
      /\ shares' = [i \in 1 .. n + 1 |-> IF i <= n THEN shares[i] ELSE s + e]
  BY <1>1 DEF Push
<1>5. ipts' \in Seq(Nat) /\ Len(ipts') = n + 1
  <2>1. \A i \in 1 .. n + 1 : ipts'[i] \in Nat
    BY <1>1, <1>4 DEF Types
  <2> QED
    BY <1>1, <1>4, <2>1
<1>6. shares' \in Seq(Nat) /\ Len(shares') = n + 1
  <2>0. \A i \in 1 .. n : shares[i] \in Nat
    BY <1>0 DEF Types
  <2>1. \A i \in 1 .. n + 1 : shares'[i] \in Nat
    BY <1>1, <1>2, <1>3, <1>4, <2>0
  <2> QED
    BY <1>1, <1>4, <2>1
<1>7. \A i \in 0 .. n : Sum(i)' = Sum(i) /\ Sum(i) \in Nat
  BY <1>0, <1>1, <1>4, SumTypes DEF Sum
<1>8. Sum(n + 1)' = s + e
  BY <1>1, <1>4 DEF Sum
<1>9. ipt' = (ipt * n) \div (n + 1) + diff \div (n + 1)
  BY <1>1 DEF Average
<1>10. ipt \in Nat
  BY DEF Types
<1>11. ipt' \in Nat
  <2>1. ipt * n \in Nat
    BY <1>1, <1>10
  <2>2. (ipt * n) \div (n + 1) \in Nat /\ diff \div (n + 1) \in Nat
    BY <1>1, <2>1, Quotient
  <2> QED
    BY <1>9, <2>2
<1>12. (n + 1) * ipt' <= n * ipt + diff /\ (n + 1) * ipt' >= n * ipt + diff - 2 * n
  BY <1>1, <1>9, <1>10, <1>11, AverageBounds
<1>13. n * ipt >= Window * s - n * (n - 1) /\ n * ipt <= Window * s + n * (Window - 1)
  BY DEF WindowInv
<1>14. \A i \in 1 .. n : ipts[i] >= Window /\ Sum(i) = Sum(i - 1) + Share(ipts[i])
  BY DEF WindowInv
<1>15. \A i, j \in 0 .. n : i <= j => Sum(j) - Sum(i) >= j - i
  BY DEF WindowInv
<1>16. \A i \in 1 .. n : ipts'[i] = ipts[i]
  BY <1>1, <1>4
<1>17. ipts'[n + 1] = diff
  BY <1>1, <1>4
<1>18. s = Sum(n)
  OBVIOUS
<1>19. e = Share(diff)
  OBVIOUS
<1>20. /\ (n + 1) * ipt' >= Window * (s + e) - (n + 1) * n
       /\ (n + 1) * ipt' <= Window * (s + e) + (n + 1) * (Window - 1)
  BY <1>1, <1>2, <1>3, <1>10, <1>11, <1>12, <1>13, GrowBounds
<1>22. \A i \in 1 .. n + 1 : ipts'[i] >= Window /\ Sum(i)' = Sum(i - 1)' + Share(ipts'[i])
  <2> TAKE i \in 1 .. n + 1
  <2>1. CASE i <= n
    BY <1>1, <1>7, <1>14, <1>16, <2>1
  <2>2. CASE i = n + 1
    <3>1. Sum(i - 1)' = s
      BY <1>1, <1>7, <1>18, <2>2
    <3> QED
      BY <1>1, <1>8, <1>17, <1>19, <2>2, <3>1
  <2> QED
    BY <1>1, <2>1, <2>2
<1>23. \A i, j \in 0 .. n + 1 : i <= j => Sum(j)' - Sum(i)' >= j - i
  <2> SUFFICES ASSUME NEW i \in 0 .. n + 1, NEW j \in 0 .. n + 1, i <= j
               PROVE  Sum(j)' - Sum(i)' >= j - i
    OBVIOUS
  <2>1. CASE j <= n
    <3>1. i \in 0 .. n /\ j \in 0 .. n
      BY <1>1, <2>1
    <3>2. Sum(j) - Sum(i) >= j - i /\ Sum(i)' = Sum(i) /\ Sum(j)' = Sum(j)
      BY <1>7, <1>15, <3>1
    <3> QED
      BY <3>2
  <2>2. CASE j = n + 1 /\ i = n + 1
    BY <1>1, <1>2, <1>3, <1>8, <2>2
  <2>3. CASE j = n + 1 /\ i <= n
    <3>1. i \in 0 .. n /\ n \in 0 .. n /\ i <= n
      BY <1>1, <2>3
    <3>2. Sum(n) - Sum(i) >= n - i /\ Sum(i)' = Sum(i) /\ Sum(i) \in Nat
      BY <1>7, <1>15, <3>1
    <3>3. Sum(j)' = s + e
      BY <1>8, <2>3
    <3>4. s - Sum(i) >= n - i
      BY <3>2
    <3>5. (s + e) - Sum(i) >= (n + 1) - i
      <4>1. i \in Nat /\ Sum(i) \in Nat
        BY <3>1, <3>2
      <4>2. e \in Nat /\ e >= 1
        BY <1>2
      <4> QED
        BY <1>1, <1>3, <3>4, <4>1, <4>2, OneMore
    <3>6. j = n + 1
      BY <2>3
    <3>7. Sum(j)' - Sum(i)' = (s + e) - Sum(i)
      BY <3>2, <3>3
    <3> QED
      BY <3>5, <3>6, <3>7
  <2> QED
    BY <1>1, <2>1, <2>2, <2>3
<1>24. (n + 1) - 1 = n
  BY <1>1
<1> QED
  BY <1>1, <1>5, <1>6, <1>8, <1>11, <1>20, <1>22, <1>23, <1>24 DEF WindowInv

\* A full window loses its oldest time.
LEMMA SlideStep ==
    ASSUME Types, WindowInv, NEW diff \in Nat, diff >= Window,
           Len(ipts) = Window, Push(diff), ipt' = Average(diff)
    PROVE  WindowInv' /\ ipt' \in Nat /\ ipts' \in Seq(Nat) /\ shares' \in Seq(Nat)
<1> USE WindowAssumption
<1>0. Len(shares) = Window /\ \A i \in 0 .. Window : Sum(i) \in Nat
  BY SumTypes
<1> PICK n \in Nat : n = Window
  OBVIOUS
<1> PICK e : e = Share(diff)
  OBVIOUS
<1> PICK a : a = Sum(1)
  OBVIOUS
<1>1. n \in Nat /\ n > 1
  OBVIOUS
<1>2. e \in Nat /\ e >= 1
  BY ShareBounds
<1>3. /\ ipts' = [i \in 1 .. n |-> IF i < n THEN ipts[i + 1] ELSE diff]
      /\ shares' = [i \in 1 .. n |->
                        IF i < n THEN shares[i + 1] - shares[1]
                        ELSE shares[n] - shares[1] + e]
  BY DEF Push
<1>4. a = shares[1] /\ a \in Nat /\ a = Share(ipts[1])
  BY <1>0, <1>1, FullWindow DEF Sum
<1>5. \A i, j \in 0 .. n : i <= j => Sum(j) - Sum(i) >= j - i
  BY DEF WindowInv
<1>6. \A i \in 1 .. n : ipts[i] >= Window /\ Sum(i) = Sum(i - 1) + Share(ipts[i])
  BY DEF WindowInv
<1>7. \A i \in 1 .. n : Sum(i) = shares[i] /\ Sum(i) \in Nat /\ Sum(i) >= a
  <2> TAKE i \in 1 .. n
  <2>1. Sum(i) = shares[i]
    BY <1>1 DEF Sum
  <2>2. i \in 0 .. n /\ 1 \in 0 .. n /\ 1 <= i
    BY <1>1
  <2>3. Sum(i) \in Nat /\ Sum(i) - Sum(1) >= i - 1
    BY <1>0, <1>5, <2>2
  <2> QED
    BY <1>4, <2>1, <2>2, <2>3
<1>8. \A i \in 0 .. n - 1 : Sum(i)' = Sum(i + 1) - a /\ Sum(i)' \in Nat
  <2> TAKE i \in 0 .. n - 1
  <2>1. i + 1 \in 1 .. n
    BY <1>1
  <2>2. Sum(i + 1) = shares[i + 1] /\ Sum(i + 1) \in Nat /\ Sum(i + 1) >= a
    BY <1>7, <2>1
  <2>3. CASE i = 0
    <3>1. Sum(i)' = 0
      BY <2>3 DEF Sum
    <3>2. Sum(i + 1) = a
      BY <2>3
    <3> QED
      BY <1>4, <3>1, <3>2
  <2>4. CASE i # 0
    <3>1. i \in 1 .. n /\ i < n
      BY <1>1, <2>4
    <3>2. shares'[i] = shares[i + 1] - shares[1]
      BY <1>3, <3>1
    <3>3. Sum(i)' = shares'[i]
      BY <2>4 DEF Sum
    <3>4. Sum(i)' = Sum(i + 1) - a
      BY <1>4, <2>2, <3>2, <3>3
    <3>5. a \in Nat /\ Sum(i + 1) - a \in Nat
      BY <1>4, <2>2, Difference
    <3> QED
      BY <3>4, <3>5
  <2> QED
    BY <2>3, <2>4
<1>9. Sum(n)' = Sum(n) - a + e /\ Sum(n)' \in Nat
  <2>1. Sum(n) = shares[n] /\ Sum(n) \in Nat /\ Sum(n) >= a
    BY <1>1, <1>7
  <2>2. shares'[n] = shares[n] - shares[1] + e
    BY <1>1, <1>3
  <2>3. Sum(n)' = shares'[n]
    BY <1>1 DEF Sum
  <2>4. Sum(n)' = Sum(n) - a + e
    BY <1>4, <2>1, <2>2, <2>3
  <2>5. Sum(n) - a + e \in Nat
    BY <1>2, <1>4, <2>1, Difference
  <2> QED
    BY <2>4, <2>5
<1>10. ipts' \in Seq(Nat) /\ Len(ipts') = n
  <2>0. \A i \in 1 .. n : ipts[i] \in Nat
    BY DEF Types
  <2>1. \A i \in 1 .. n : ipts'[i] \in Nat
    <3> TAKE i \in 1 .. n
    <3>1. i < n => i + 1 \in 1 .. n
      BY <1>1
    <3> QED
      BY <1>3, <2>0, <3>1
  <2> QED
    BY <1>1, <1>3, <2>1
<1>11. shares' \in Seq(Nat) /\ Len(shares') = n
  <2>1. \A i \in 1 .. n : shares'[i] \in Nat
    <3> TAKE i \in 1 .. n
    <3>1. Sum(i)' = shares'[i]
      BY <1>1 DEF Sum
    <3>2. i = n \/ i \in 0 .. n - 1
      BY <1>1
    <3> QED
      BY <1>8, <1>9, <3>1, <3>2
  <2> QED
    BY <1>1, <1>3, <2>1
<1>12. ipt' = ipt - a + e
  BY <1>4 DEF Average
<1>13. ipt \in Nat /\ ipt >= a /\ ipt >= Sum(n) - (n - 1) /\ ipt <= Sum(n) + (n - 1)
  BY FullWindow DEF Types
<1>14. Sum(n) \in Nat
  BY <1>1, <1>7
<1>15. ipt' \in Nat /\ ipt' >= Sum(n)' - (n - 1) /\ ipt' <= Sum(n)' + (n - 1)
  <2>1. a \in Nat
    BY <1>4
  <2>2. ipt' \in Nat
    BY <1>2, <1>12, <1>13, <2>1, Difference
  <2>3. /\ ipt - a + e >= (Sum(n) - a + e) - (n - 1)
        /\ ipt - a + e <= (Sum(n) - a + e) + (n - 1)
    <3>1. PICK w \in Nat : w = Sum(n)
      BY <1>14, Zenon
    <3>2. ipt \in Nat /\ ipt >= w - (n - 1) /\ ipt <= w + (n - 1)
      BY <1>13, <3>1, Zenon
    <3>3. n \in Int /\ e \in Int /\ a \in Int
      BY <1>1, <1>2, <2>1
    <3>4. /\ ipt - a + e >= (w - a + e) - (n - 1)
          /\ ipt - a + e <= (w - a + e) + (n - 1)
      BY ONLY <3>2, <3>3, w \in Nat
    <3> QED
      BY <3>1, <3>4, Zenon
  <2> QED
    BY <1>9, <1>12, <2>2, <2>3
<1>16. /\ n * ipt' >= n * Sum(n)' - n * (n - 1)
       /\ n * ipt' <= n * Sum(n)' + n * (n - 1)
  BY <1>1, <1>9, <1>15, SlideBounds
<1>17. \A i \in 1 .. n : ipts'[i] >= Window /\ Sum(i)' = Sum(i - 1)' + Share(ipts'[i])
  <2> TAKE i \in 1 .. n
  <2>1. i - 1 \in 0 .. n - 1 /\ (i - 1) + 1 = i
    BY <1>1
  <2>2. Sum(i - 1)' = Sum(i) - a /\ Sum(i) \in Nat
    BY <1>7, <1>8, <2>1
  <2>3. CASE i = n
    <3>1. ipts'[i] = diff
      BY <1>1, <1>3, <2>3
    <3>2. Sum(i)' = Sum(i) - a + e
      BY <1>9, <2>3
    <3> QED
      BY <1>2, <1>4, <2>2, <3>1, <3>2
  <2>4. CASE i # n
    <3>1. i < n /\ i \in 0 .. n - 1 /\ i + 1 \in 1 .. n /\ (i + 1) - 1 = i
      BY <1>1, <2>4
    <3>2. ipts'[i] = ipts[i + 1]
      BY <1>3, <3>1
    <3>3. Sum(i)' = Sum(i + 1) - a /\ Sum(i + 1) \in Nat
      BY <1>7, <1>8, <3>1
    <3>4. ipts[i + 1] >= Window /\ Sum(i + 1) = Sum((i + 1) - 1) + Share(ipts[i + 1])
      BY <1>6, <3>1
    <3>5. ipts[i + 1] \in Nat
      BY <3>1 DEF Types
    <3>6. Share(ipts[i + 1]) \in Nat
      BY <3>5, ShareBounds
    <3>7. Sum(i + 1) = Sum(i) + Share(ipts[i + 1])
      BY <3>1, <3>4
    <3> QED
      BY <1>4, <2>2, <3>2, <3>3, <3>4, <3>6, <3>7
  <2> QED
    BY <2>3, <2>4
<1>18. \A i, j \in 0 .. n : i <= j => Sum(j)' - Sum(i)' >= j - i
  <2> SUFFICES ASSUME NEW i \in 0 .. n, NEW j \in 0 .. n, i <= j
               PROVE  Sum(j)' - Sum(i)' >= j - i
    OBVIOUS
  <2>1. CASE j # n
    <3>1. i \in 0 .. n - 1 /\ j \in 0 .. n - 1 /\ i + 1 \in 0 .. n /\ j + 1 \in 0 .. n /\ i + 1 <= j + 1
      BY <1>1, <2>1
    <3>2. Sum(j + 1) - Sum(i + 1) >= (j + 1) - (i + 1)
      BY <1>5, <3>1
    <3>3. Sum(i + 1) \in Nat /\ Sum(j + 1) \in Nat
      BY <1>0, <3>1
    <3>4. Sum(i)' = Sum(i + 1) - a /\ Sum(j)' = Sum(j + 1) - a
      BY <1>8, <3>1
    <3> QED
      BY <1>4, <3>1, <3>2, <3>3, <3>4
  <2>2. CASE j = n /\ i = n
    BY <1>1, <1>9, <2>2
  <2>3. CASE j = n /\ i # n
    <3>1. i \in 0 .. n - 1 /\ i + 1 \in 0 .. n /\ n \in 0 .. n /\ i + 1 <= n /\ i \in Nat
      BY <1>1, <2>3
    <3>2. Sum(n) - Sum(i + 1) >= n - (i + 1)
      BY <1>5, <3>1
    <3>3. Sum(i + 1) \in Nat
      BY <1>0, <3>1
    <3>4. Sum(i)' = Sum(i + 1) - a /\ Sum(j)' = Sum(n) - a + e
      BY <1>8, <1>9, <2>3, <3>1
    <3>5. (Sum(n) + e) - Sum(i + 1) >= (n + 1) - (i + 1)
      BY <1>1, <1>2, <1>14, <3>1, <3>2, <3>3, OneMore
    <3>6. Sum(j)' - Sum(i)' = (Sum(n) + e) - Sum(i + 1)
      <4>1. Sum(n) \in Int /\ Sum(i + 1) \in Int /\ a \in Int /\ e \in Int
        BY <1>2, <1>4, <1>14, <3>3
      <4>2. (Sum(n) - a + e) - (Sum(i + 1) - a) = (Sum(n) + e) - Sum(i + 1)
        BY ONLY <4>1
      <4> QED
        BY <3>4, <4>2, Zenon
    <3>7. (n + 1) - (i + 1) = j - i
      BY <1>1, <2>3, <3>1
    <3> QED
      BY <3>5, <3>6, <3>7
  <2> QED
    BY <2>1, <2>2, <2>3
<1> QED
  BY <1>1, <1>10, <1>11, <1>15, <1>16, <1>17, <1>18 DEF WindowInv

-----------------------------------------------------------------------------
(***************************************************************************)
(* The steps of a session.                                                 *)
(***************************************************************************)
LEMMA StallBelow == Stall < Timeout /\ Timeout \in Nat /\ Stall \in Nat /\ Horizon \in Nat
BY TimeoutAssumption, StallAssumption, HorizonAssumption, PacketsAssumption

LEMMA ReceiverTick ==
    ASSUME TimeoutInv, Tick \/ PollItem \/ PollExpired \/ PollTimeout \/ PollError
    PROVE  TimeoutInv'
<1> USE StallBelow, TimeoutAssumption DEF TimeoutInv, TimeoutNotEarly
<1>1. CASE Tick
  BY <1>1 DEF Tick
<1>2. CASE PollItem
  BY <1>2 DEF PollItem
<1>3. CASE PollExpired
  <2>1. due \in Int /\ due <= 0 /\ -due < Timeout
    BY <1>3 DEF PollExpired
  <2>2. (-due) % Timeout = -due
    BY <2>1
  <2>3. due' = Timeout + due
    BY <1>3, <2>1, <2>2 DEF PollExpired, Drained
  <2> QED
    BY <1>3, <2>1, <2>3 DEF PollExpired
<1>4. CASE PollTimeout
  BY <1>4 DEF PollTimeout
<1>5. CASE PollError
  BY <1>5 DEF PollError
<1> QED
  BY <1>1, <1>2, <1>3, <1>4, <1>5

LEMMA SenderTick ==
    ASSUME Sender!TimeoutInv,
           Sender!Tick \/ Sender!PollItem \/ Sender!PollExpired \/ Sender!PollTimeout \/ Sender!PollError
    PROVE  Sender!TimeoutInv'
<1> USE StallBelow, TimeoutAssumption DEF Sender!TimeoutInv, Sender!TimeoutNotEarly
<1>1. CASE Sender!Tick
  BY <1>1 DEF Sender!Tick
<1>2. CASE Sender!PollItem
  BY <1>2 DEF Sender!PollItem
<1>3. CASE Sender!PollExpired
  <2>1. s_due \in Int /\ s_due <= 0 /\ -s_due < Timeout
    BY <1>3 DEF Sender!PollExpired
  <2>2. (-s_due) % Timeout = -s_due
    BY <2>1
  <2>3. s_due' = Timeout + s_due
    BY <1>3, <2>1, <2>2 DEF Sender!PollExpired, Sender!Drained
  <2> QED
    BY <1>3, <2>1, <2>3 DEF Sender!PollExpired
<1>4. CASE Sender!PollTimeout
  BY <1>4 DEF Sender!PollTimeout
<1>5. CASE Sender!PollError
  BY <1>5 DEF Sender!PollError
<1> QED
  BY <1>1, <1>2, <1>3, <1>4, <1>5

\* What is left alone keeps its invariant.
LEMMA WindowFrame ==
    ASSUME WindowInv, UNCHANGED <<ipts, ipt, shares>>
    PROVE  WindowInv'
BY DEF WindowInv, Sum

LEMMA ReceiverFrame ==
    ASSUME TimeoutInv, UNCHANGED vars
    PROVE  TimeoutInv'
BY DEF TimeoutInv, TimeoutNotEarly, vars

LEMMA SenderFrame ==
    ASSUME Sender!TimeoutInv, UNCHANGED senderVars
    PROVE  Sender!TimeoutInv'
BY DEF Sender!TimeoutInv, Sender!TimeoutNotEarly, senderVars

LEMMA SessionInitIInv == SessionInit => IInv
<1> SUFFICES ASSUME SessionInit PROVE IInv
  OBVIOUS
<1> USE StallBelow, TimeoutAssumption, WindowAssumption DEF SessionInit
<1>1. Types
  <2>1. <<>> \in Seq(Nat)
    OBVIOUS
  <2>2. last_ipt \in BOOLEAN /\ done \in BOOLEAN
    BY DEF CongestionInit
  <2> QED
    BY <2>1, <2>2 DEF Types, CongestionInit
<1>2. WindowInv
  BY DEF WindowInv, CongestionInit, Sum
<1>3. TimeoutInv
  BY DEF TimeoutInv, TimeoutNotEarly, Init
<1>4. Sender!TimeoutInv
  BY DEF Sender!TimeoutInv, Sender!TimeoutNotEarly
<1>5. StatusInv /\ StatusesKeepSession
  BY DEF StatusInv, StatusesKeepSession, Armed, CongestionInit
<1> QED
  BY <1>1, <1>2, <1>3, <1>4, <1>5 DEF IInv

LEMMA ElapseStep ==
    ASSUME IInv, Elapse
    PROVE  IInv'
<1> USE DEF IInv, Elapse
<1>1. Types'
  BY DEF Types
<1>2. WindowInv'
  BY WindowFrame
<1>3. TimeoutInv' /\ Sender!TimeoutInv'
  BY ReceiverTick, SenderTick
<1>4. StatusInv'
  <2>1. s_idle \in Nat /\ idle \in Nat /\ s_idle' = s_idle + 1 /\ idle' = idle + 1
    BY DEF TimeoutInv, Sender!TimeoutInv, Tick, Sender!Tick
  <2>2. Armed' = Armed /\ time_left' = time_left /\ (Armed => time_left \in Nat)
    BY DEF Armed, time_left, Types
  <2>3. last_notify \in Nat /\ (~done => last_notify' = last_notify + 1)
    BY DEF Types
  <2>4. Armed => ~done
    BY DEF Armed
  <2>5. UNCHANGED <<num_packets, ipt, packets, done>>
    OBVIOUS
  <2>6. NumPackets(ipt)' = NumPackets(ipt)
    BY <2>5 DEF NumPackets
  <2> QED
    BY <2>1, <2>2, <2>3, <2>4, <2>5, <2>6, StallBelow DEF StatusInv
<1>5. StatusesKeepSession'
  BY DEF Sender!Tick, StatusesKeepSession
<1> QED
  BY <1>1, <1>2, <1>3, <1>4, <1>5

\* A status that is sent, and a chunk that is received, leave the session in
\* time.
LEMMA ChunkStep ==
    ASSUME IInv, LaterChunk
    PROVE  IInv'
<1> USE DEF IInv
<1>1. PICK notify \in BOOLEAN :
        /\ later_packet(idle, notify)
        /\ IF notify THEN Sender!PollItem ELSE UNCHANGED senderVars
  BY DEF LaterChunk
<1>2. idle \in Nat /\ idle >= Window /\ idle' = 0 /\ ~done /\ s_ended = "no" /\ s_idle \in Nat
  BY GapAssumption, WindowAssumption
     DEF LaterChunk, Packet, Running, PollItem, TimeoutInv, Sender!TimeoutInv
<1>3. WindowInv' /\ ipt' \in Nat /\ ipts' \in Seq(Nat) /\ shares' \in Seq(Nat)
  <2>1. Push(idle) /\ ipt' = Average(idle)
    BY <1>1 DEF later_packet
  <2> QED
    BY <1>2, <2>1, GrowStep, SlideStep
<1>4. num_packets' \in NumPackets(ipt') /\ num_packets' \in Nat \ {0}
  BY <1>1, PacketsAssumption DEF later_packet, NumPackets
<1>5. /\ last_notify' = IF notify THEN 0 ELSE last_notify
      /\ packets' = IF notify THEN 0 ELSE packets + 1
      /\ notify = Due(packets + 1)
      /\ UNCHANGED <<last_ipt, done>>
  BY <1>1 DEF later_packet
<1>6. Types'
  <2>1. last_ipt /\ last_ipt' /\ done' \in BOOLEAN /\ last_ipt' \in BOOLEAN
    BY <1>1, <1>5 DEF later_packet, Types
  <2>2. last_notify' \in Nat /\ packets' \in Nat
    BY <1>5 DEF Types
  <2> QED
    BY <1>3, <1>4, <2>1, <2>2 DEF Types
<1>7. TimeoutInv'
  BY ReceiverTick DEF LaterChunk, Packet
<1>8. Sender!TimeoutInv' /\ s_ended' = "no" /\ s_idle' \in {0, s_idle} /\ (notify => s_idle' = 0)
  BY <1>1, <1>2, SenderTick, SenderFrame DEF senderVars, Sender!PollItem
<1>9. PICK t \in Nat : t = time_left'
  BY <1>3, <1>4, Product DEF time_left
<1>10. StatusInv'
  <2>1. last_notify \in Nat /\ packets \in Nat /\ s_idle <= last_notify
    BY <1>2 DEF Types, StatusInv
  <2>2. /\ s_idle' <= last_notify'
        /\ packets' < num_packets'
        /\ last_notify' <= time_left' + Stall
        /\ packets' = 0 => last_notify' <= idle'
    <3>1. CASE notify
      <4>1. s_idle' = 0 /\ last_notify' = 0 /\ packets' = 0 /\ idle' = 0
        BY <1>2, <1>5, <1>8, <3>1
      <4>2. 0 < num_packets'
        BY <1>4
      <4>3. 0 <= t + Stall
        BY StallBelow
      <4> QED
        BY <1>9, <4>1, <4>2, <4>3
    <3>2. CASE ~notify
      <4>1. ~(packets + 1 >= num_packets') /\ ~(last_notify >= time_left')
        BY <1>5, <3>2 DEF Due
      <4>2. packets' = packets + 1 /\ last_notify' = last_notify
        BY <1>5, <3>2
      <4>3. s_idle' <= last_notify
        BY <1>2, <1>8, <2>1
      <4>4. packets' < num_packets' /\ packets' # 0
        BY <1>4, <2>1, <4>1, <4>2
      <4>5. last_notify <= t + Stall
        <5>1. ~(last_notify >= t)
          BY <1>9, <4>1
        <5>2. last_notify \in Nat /\ Stall \in Nat
          BY <2>1, StallBelow
        <5> QED
          BY <5>1, <5>2
      <4> QED
        BY <1>9, <4>2, <4>3, <4>4, <4>5
    <3> QED
      BY <3>1, <3>2
  <2>3. num_packets' \in NumPackets(ipt)'
    BY <1>4 DEF NumPackets
  <2> QED
    BY <2>2, <2>3 DEF StatusInv
<1>11. StatusesKeepSession'
  BY <1>8 DEF StatusesKeepSession
<1> QED
  BY <1>3, <1>6, <1>7, <1>8, <1>10, <1>11

\* The sender's stream times out only after a silence of its own.
LEMMA SenderStep ==
    ASSUME IInv, PollSender
    PROVE  IInv'
<1> USE DEF IInv
<1>1. UNCHANGED <<congestionVars, vars>> /\ s_ended = "no"
  BY DEF PollSender, Running
<1>2. UNCHANGED <<last_ipt, ipts, ipt, num_packets, last_notify, packets, done, shares, idle>>
  BY <1>1 DEF congestionVars, vars
<1>3. Types' /\ WindowInv' /\ TimeoutInv'
  BY <1>1, <1>2, WindowFrame, ReceiverFrame DEF Types
<1>4. Sender!TimeoutInv'
  BY SenderTick DEF PollSender
<1>5. s_idle' = s_idle
  BY DEF PollSender, Sender!PollExpired, Sender!PollTimeout, Sender!PollError
<1>6. StatusInv'
  BY <1>2, <1>5 DEF StatusInv, Armed, NumPackets, time_left
<1>7. StatusesKeepSession'
  <2> SUFFICES ASSUME s_ended' = "timeout", ~done, ipts # <<>>
               PROVE  idle >= Timeout - Stall
    BY <1>2 DEF StatusesKeepSession
  <2>1. s_idle >= Timeout - Stall /\ s_idle \in Nat /\ idle \in Nat
    BY <1>4, <1>5 DEF Sender!TimeoutInv, Sender!TimeoutNotEarly, TimeoutInv
  <2>2. /\ s_idle <= last_notify /\ num_packets \in NumPackets(ipt) /\ packets < num_packets
        /\ last_notify <= time_left + Stall /\ (packets = 0 => last_notify <= idle)
    BY DEF StatusInv, Armed
  <2>3. last_notify \in Nat /\ packets \in Nat
    BY DEF Types
  <2>4. num_packets = 1 \/ time_left <= Horizon
    BY <2>2 DEF NumPackets, time_left
  <2>5. time_left \in Nat
    BY Product DEF Types, time_left
  <2>6. CASE num_packets = 1
    <3>1. packets = 0
      BY <2>2, <2>3, <2>6
    <3> QED
      BY <2>1, <2>2, <2>3, <3>1, StallBelow
  <2>7. CASE time_left <= Horizon
    BY <2>1, <2>2, <2>3, <2>5, <2>7, StallBelow, HorizonAssumption
  <2> QED
    BY <2>4, <2>6, <2>7
<1> QED
  BY <1>3, <1>4, <1>6, <1>7

LEMMA NextIInv ==
    ASSUME IInv, [SessionNext]_sessionVars
    PROVE  IInv'
<1>1. CASE Elapse
  BY <1>1, ElapseStep
<1>2. CASE LaterChunk
  BY <1>2, ChunkStep
<1>3. CASE PollSender
  BY <1>3, SenderStep
<1> USE DEF IInv
<1>4. CASE FirstChunk
  <2>1. /\ UNCHANGED senderVars /\ PollItem /\ s_ended = "no"
        /\ UNCHANGED <<ipts, ipt, num_packets, last_notify, packets, done, shares>>
        /\ last_ipt' = TRUE /\ ipts = <<>>
    <3>1. ~last_ipt
      BY <1>4 DEF FirstChunk, first_packet
    <3> QED
      BY <1>4, <3>1 DEF FirstChunk, first_packet, Packet, Running, Types
  <2>2. Types' /\ WindowInv' /\ TimeoutInv' /\ Sender!TimeoutInv'
    BY <2>1, WindowFrame, ReceiverTick, SenderFrame DEF Types
  <2>3. StatusInv' /\ StatusesKeepSession'
    BY <2>1 DEF StatusInv, StatusesKeepSession, Armed, senderVars
  <2> QED
    BY <2>2, <2>3
<1>5. CASE FinChunk
  <2>1. /\ UNCHANGED senderVars /\ PollItem /\ s_ended = "no"
        /\ UNCHANGED <<last_ipt, ipts, ipt, num_packets, last_notify, packets, shares>>
        /\ done' = TRUE
    BY <1>5 DEF FinChunk, shutdown, Packet, Running
  <2>2. Types' /\ WindowInv' /\ TimeoutInv' /\ Sender!TimeoutInv'
    BY <2>1, WindowFrame, ReceiverTick, SenderFrame DEF Types
  <2>3. StatusInv' /\ StatusesKeepSession'
    BY <2>1 DEF StatusInv, StatusesKeepSession, Armed, senderVars
  <2> QED
    BY <2>2, <2>3
<1>6. CASE InShutdown
  <2>1. /\ UNCHANGED <<congestionVars, senderVars>> /\ PollItem /\ s_ended = "no" /\ done
    BY <1>6 DEF InShutdown, Packet, Running
  <2>2. Types' /\ WindowInv' /\ TimeoutInv' /\ Sender!TimeoutInv'
    BY <2>1, WindowFrame, ReceiverTick, SenderFrame DEF Types, congestionVars
  <2>3. StatusInv' /\ StatusesKeepSession'
    BY <2>1 DEF StatusInv, StatusesKeepSession, Armed, senderVars, congestionVars
  <2> QED
    BY <2>2, <2>3
<1>7. CASE PeriodicStatus
  <2>1. /\ UNCHANGED vars /\ Sender!PollItem
        /\ UNCHANGED <<last_ipt, ipts, ipt, num_packets, done, shares>>
        /\ packets' = 0 /\ last_notify' = 0
    BY <1>7 DEF PeriodicStatus, delay_over
  <2>2. Types' /\ WindowInv' /\ TimeoutInv' /\ Sender!TimeoutInv'
    BY <2>1, WindowFrame, ReceiverFrame, SenderTick DEF Types
  <2>3. s_idle' = 0 /\ s_ended' = "no" /\ idle' = idle /\ idle \in Nat
    BY <2>1 DEF Sender!PollItem, vars, TimeoutInv
  <2>4. time_left' = time_left /\ time_left \in Nat /\ Armed' = Armed /\ NumPackets(ipt)' = NumPackets(ipt)
    BY <2>1 DEF time_left, Types, Armed, NumPackets
  <2>5. num_packets \in Nat \ {0}
    BY DEF Types
  <2>6. StatusInv' /\ StatusesKeepSession'
    BY <2>1, <2>3, <2>4, <2>5, StallBelow DEF StatusInv, StatusesKeepSession
  <2> QED
    BY <2>2, <2>6
<1>8. CASE ChunkStatus
  <2>1. UNCHANGED <<congestionVars, vars>> /\ Sender!PollItem
    BY <1>8 DEF ChunkStatus
  <2>2. Types' /\ WindowInv' /\ TimeoutInv' /\ Sender!TimeoutInv'
    BY <2>1, WindowFrame, ReceiverFrame, SenderTick DEF Types, congestionVars
  <2>3. s_idle' = 0 /\ s_ended' = "no" /\ last_notify \in Nat
    BY <2>1 DEF Sender!PollItem, Types
  <2>4. StatusInv' /\ StatusesKeepSession'
    BY <2>1, <2>3 DEF StatusInv, StatusesKeepSession, Armed, NumPackets, time_left, congestionVars, vars
  <2> QED
    BY <2>2, <2>4
<1>9. CASE PollReceiver
  <2>1. UNCHANGED <<congestionVars, senderVars>> /\ s_ended = "no"
    BY <1>9 DEF PollReceiver, Running
  <2>2. Types' /\ WindowInv' /\ TimeoutInv' /\ Sender!TimeoutInv'
    BY <1>9, <2>1, WindowFrame, ReceiverTick, SenderFrame DEF Types, congestionVars, PollReceiver
  <2>3. idle' = idle
    BY <1>9 DEF PollReceiver, PollExpired, PollTimeout, PollError
  <2>4. StatusInv' /\ StatusesKeepSession'
    BY <2>1, <2>3 DEF StatusInv, StatusesKeepSession, Armed, NumPackets, time_left, congestionVars, senderVars
  <2> QED
    BY <2>2, <2>4
<1>10. CASE UNCHANGED sessionVars
  <2>1. UNCHANGED <<congestionVars, vars, senderVars>>
    BY <1>10 DEF sessionVars
  <2>2. Types' /\ WindowInv' /\ TimeoutInv' /\ Sender!TimeoutInv'
    BY <2>1, WindowFrame, ReceiverFrame, SenderFrame DEF Types, congestionVars
  <2>3. StatusInv' /\ StatusesKeepSession'
    BY <2>1 DEF StatusInv, StatusesKeepSession, Armed, NumPackets, time_left, congestionVars, vars, senderVars
  <2> QED
    BY <2>2, <2>3
<1> QED
  BY <1>1, <1>2, <1>3, <1>4, <1>5, <1>6, <1>7, <1>8, <1>9, <1>10 DEF SessionNext

LEMMA SessionInvariant == SessionSpec => []IInv
<1>1. IInv /\ [SessionNext]_sessionVars => IInv'
  BY NextIInv
<1> QED
  BY <1>1, SessionInitIInv, PTL DEF SessionSpec

-----------------------------------------------------------------------------
\* CongestionInfo never subtracts a time from an average that is smaller, nor
\* takes the rate of an average of zero, in sessions of any length.
THEOREM AverageUsableAlways == SessionSpec => []AverageUsable
<1>1. IInv => AverageUsable
  BY AveragePositive, FullWindow DEF IInv, AverageUsable
<1> QED
  BY <1>1, SessionInvariant, PTL

\* The moving average differs from one taken afresh by less than the length of
\* the window, in sessions of any length.
THEOREM AverageTracksWindowAlways == SessionSpec => []AverageTracksWindow
<1>1. IInv => AverageTracksWindow
  <2> SUFFICES ASSUME IInv, Len(ipts) = Window
               PROVE  ipt - shares[Window] \in -(Window - 1) .. Window - 1
    BY DEF AverageTracksWindow
  <2>1. /\ ipt >= Sum(Window) - (Window - 1) /\ ipt <= Sum(Window) + (Window - 1)
        /\ Sum(Window) \in Nat /\ ipt \in Nat
    BY FullWindow DEF IInv, Types
  <2>2. Sum(Window) = shares[Window]
    BY WindowAssumption DEF Sum
  <2> QED
    BY <2>1, <2>2, WindowAssumption
<1> QED
  BY <1>1, SessionInvariant, PTL

\* Between the second chunk and FIN, the sender's timeout ends no session whose
\* client was not itself silent for the period, at any rate of the chunks.
THEOREM StatusesKeepSessionAlways == SessionSpec => []StatusesKeepSession
<1>1. IInv => StatusesKeepSession
  BY DEF IInv
<1> QED
  BY <1>1, SessionInvariant, PTL
=============================================================================
