------------------------------ MODULE Numbers -------------------------------
(***************************************************************************)
(* Powers and running sums.  They are recursive functions, and not ^ and a *)
(* fold, because that is what the proofs about them can unfold.            *)
(***************************************************************************)
EXTENDS Integers, Sequences

\* The number of values that n digits have: 1 << (n * 8) for octets.
Power(base, n) ==
    LET power[k \in Nat] == IF k = 0 THEN 1 ELSE base * power[k - 1]
    IN  power[n]

\* The iterator scan with an addition: the sums of the numbers so far.
Totals(s) ==
    LET total[k \in 0 .. Len(s)] == IF k = 0 THEN 0 ELSE total[k - 1] + s[k]
    IN  total
=============================================================================
