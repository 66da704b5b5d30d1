------------------------------- MODULE BitMap -------------------------------
(***************************************************************************)
(* bitte_ein_bit::BitMap: a buffer of octets read as bits, with a cached   *)
(* count of the zero bits.  zeroes() decides in csync when a status is     *)
(* sent and when an upload is over, so it has to stay exact.               *)
(*                                                                         *)
(* The buffer may have more bits than the map: csync rounds the number of  *)
(* chunks up to whole octets.                                              *)
(***************************************************************************)
EXTENDS Integers, FiniteSets

CONSTANTS
    NumBits,    \* num_bits
    Octets,     \* octets of the buffer
    OctetBits   \* bits of an octet (8 in the code)

ASSUME NumBitsAssumption == NumBits \in Nat
ASSUME OctetBitsAssumption == OctetBits \in Nat \ {0}
ASSUME OctetsAssumption == Octets \in Nat /\ NumBits <= Octets * OctetBits

VARIABLES
    buf,        \* the bits of the buffer that are one
    zeroes      \* the cached count

vars == <<buf, zeroes>>

Bits == 0 .. NumBits - 1
BufBits == 0 .. Octets * OctetBits - 1

\* with_length counts the zeroes of whatever the buffer holds.
Init ==
    /\ buf \in SUBSET BufBits
    /\ zeroes = Cardinality(Bits \ buf)

\* check lets the number of bits itself pass.
check(bit) == bit <= NumBits

\* Indexing the slice panics behind the buffer.
InBuffer(bit) == bit \in BufBits

\* Mutant of set: the count is adjusted even if the bit does not change.
setAlwaysCounts(bit, new) ==
    /\ check(bit) /\ InBuffer(bit)
    /\ buf' = IF new THEN buf \cup {bit} ELSE buf \ {bit}
    /\ zeroes' = IF new THEN zeroes - 1 ELSE zeroes + 1

\* set: the count changes with the bit.
set(bit, new) ==
    /\ check(bit) /\ InBuffer(bit)
    /\ buf' = IF new THEN buf \cup {bit} ELSE buf \ {bit}
    /\ zeroes' = IF (bit \in buf) = new THEN zeroes
                 ELSE IF new THEN zeroes - 1 ELSE zeroes + 1

\* reset clears the padding, too.
reset ==
    /\ buf' = {}
    /\ zeroes' = NumBits

\* What csync calls: set is only called with the index of a chunk.
Next ==
    \/ \E bit \in Bits : \E new \in BOOLEAN : set(bit, new)
    \/ reset

Spec == Init /\ [][Next]_vars

-----------------------------------------------------------------------------
\* The buffer is a buffer, the count a count of bits.
TypeOK ==
    /\ buf \subseteq BufBits
    /\ zeroes \in 0 .. NumBits

\* zeroes() is the number of zero bits, after any sequence of set and reset:
\* however often a bit is set to the value it has, and whatever the padding
\* held when the map was made.
ZeroesCount == zeroes = Cardinality(Bits \ buf)
=============================================================================
