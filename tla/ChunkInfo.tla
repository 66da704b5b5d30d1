------------------------------ MODULE ChunkInfo ------------------------------
(***************************************************************************)
(* How csync cuts a file into chunks: codec::index_field_size, the loop    *)
(* that client and server both run on the length of the file, and the      *)
(* index field of the chunk datagrams it determines.                       *)
(*                                                                         *)
(* An octet has Radix values, a u64 has U64 octets.  The code has 256 and  *)
(* 8; TLC checks smaller numbers, with the relation between MTU and Radix  *)
(* that makes the loop end before the shift overflows.                     *)
(***************************************************************************)
EXTENDS Integers, Numbers

CONSTANTS
    MTU,        \* octets of a datagram
    Radix,      \* values of an octet
    U64         \* octets of a u64

ASSUME MTUAssumption == MTU \in Nat /\ MTU - (U64 - 1) >= 2 * Radix
ASSUME RadixAssumption == Radix \in Nat \ {0, 1}
ASSUME U64Assumption == U64 \in Nat /\ U64 > 2

VARIABLES
    length,             \* the argument
    index_field_size,   \* octets of the index
    num_chunks,         \* chunks of the file, and the additional one
    done

layoutVars == <<length, index_field_size, num_chunks, done>>

chunk_size == MTU - index_field_size

LayoutInit ==
    /\ length \in 0 .. Power(Radix, U64) - 1
    /\ index_field_size = 1
    /\ num_chunks = 0
    /\ done = FALSE

\* length / chunk_size + (length % chunk_size != 0)
ChunkCount(len, size) ==
    len \div size + IF len % size # 0 THEN 1 ELSE 0

\* Mutant of Holds: the FIN index gets no room.
HoldsExactly(n, octets) == n - 1 <= Power(Radix, octets)

\* Mutant of Holds: the bound is strict.
HoldsStrictly(n, octets) == n < Power(Radix, octets)

\* Mutant of Holds: the shift is taken for a product.
HoldsProduct(n, octets) == n <= Radix * octets

\* num_chunks <= 1 << (index_field_size * 8)
Holds(n, octets) == n <= Power(Radix, octets)

\* One turn of the loop.
Turn ==
    /\ ~done
    /\ num_chunks' = ChunkCount(length, chunk_size) + 1
    /\ IF Holds(num_chunks', index_field_size)
       THEN done' = TRUE /\ UNCHANGED index_field_size
       ELSE done' = FALSE /\ index_field_size' = index_field_size + 1
    /\ UNCHANGED length

-----------------------------------------------------------------------------
(***************************************************************************)
(* The result, once the loop has ended.                                    *)
(***************************************************************************)

NumChunks == ChunkCount(length, chunk_size)

LastChunkSize == length % chunk_size

\* The payload do_chunk reads for a chunk.
PayloadSize(i) == IF i = NumChunks - 1 THEN LastChunkSize ELSE chunk_size

\* Chunk::new writes the index as a little-endian u64 and cuts or pads the
\* buffer; the payload replaces what follows the index field.
LittleEndian(i) == [k \in 1 .. U64 |-> (i \div Power(Radix, k - 1)) % Radix]
IndexField(i) == [k \in 1 .. index_field_size |-> LittleEndian(i)[k]]

\* Mutant of DecodeIndex: big-endian.
DecodeIndexBigEndian(field) ==
    Totals([k \in DOMAIN field |-> field[k] * Power(Radix, index_field_size - k)])
        [index_field_size]

\* Chunk::decode reads the index field into a zeroed u64.
DecodeIndex(field) ==
    Totals([k \in DOMAIN field |-> field[k] * Power(Radix, k - 1)])[index_field_size]

-----------------------------------------------------------------------------
\* The shift 1 << (index_field_size * 8) never shifts a u64 by its width, and
\* the index never needs all of it, for any length a u64 can hold.
ShiftInRange == index_field_size < U64

\* Every index that is sent, FIN included, comes out of its index field as it
\* went in: the receiver never takes one chunk for another or for FIN.
IndexSurvives ==
    done => \A i \in 0 .. NumChunks : DecodeIndex(IndexField(i)) = i

\* One octet less would not do.
IndexFieldMinimal ==
    done /\ index_field_size > 1 =>
        ChunkCount(length, chunk_size + 1) + 1 > Power(Radix, index_field_size - 1)

\* The payloads of the chunks, one after the other, make up the file: the
\* client has nothing left to send when the server has every chunk.
PayloadsCoverFile ==
    done /\ length > 0 =>
        (NumChunks - 1) * chunk_size + PayloadSize(NumChunks - 1) = length
=============================================================================
