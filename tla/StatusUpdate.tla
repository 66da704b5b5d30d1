---------------------------- MODULE StatusUpdate ----------------------------
(***************************************************************************)
(* A status update from the server's bitmap to the client's chunk_send     *)
(* loop: write_runlength_encoded writes the lengths of the runs of equal   *)
(* bits as varints, as many as fit into a datagram; parse_status_update    *)
(* turns them back into ranges of missing chunks; next_chunk walks them.   *)
(*                                                                         *)
(* The bitmap is a BitMap, with the chunks received so far; the session    *)
(* marks chunks until it sends a status.                                   *)
(*                                                                         *)
(* Upload takes from here that a status reports the first ranges of        *)
(* missing chunks (its operator Reported).                                 *)
(***************************************************************************)
EXTENDS BitMap, Numbers, SequencesExt

CONSTANTS
    Capacities,     \* octets of a datagram, those to consider
    VarBase         \* values an octet of a varint holds (128 in the code)

ASSUME ChunksAssumption == NumBits > 0
ASSUME VarBaseAssumption == VarBase \in Nat \ {0, 1}

VARIABLES
    cap,        \* the octets the buffer has
    stage,      \* "receive", "encode", "parse", "send", "done"
    bit,        \* encoder: the iterator's position
    count,      \* encoder: length of the current run
    prev_val,   \* encoder: value of the current run
    written,    \* encoder: octets written
    update,     \* the datagram, as its sequence of whole varints
    missing,    \* client: MissingRanges::missing
    cursor,     \* client: MissingRanges::cursor
    sent        \* history: the chunks next_chunk has returned

statusVars == <<cap, stage, bit, count, prev_val, written, update, missing,
          cursor, sent>>

\* varmint::len_u64_varint
VarintLen(n) == Min({k \in 1 .. NumBits : n < Power(VarBase, k)})

\* A datagram holds two numbers of any size, hence one range.
ASSUME CapacitiesAssumption ==
    \A c \in Capacities : c \in Nat /\ c >= 2 * VarintLen(NumBits)

\* A new file's bitmap is zeroed.
StatusInit ==
    /\ buf = {}
    /\ Init
    /\ cap \in Capacities
    /\ stage = "receive"
    /\ bit = 0
    /\ count = 0
    /\ prev_val = TRUE
    /\ written = 0
    /\ update = <<>>
    /\ missing = <<>>
    /\ cursor = 0
    /\ sent = <<>>

\* The session sets bits, or resets the bitmap.
receive ==
    /\ stage = "receive"
    /\ Next
    /\ UNCHANGED statusVars

\* Sender::start_send: the bitmap is to be encoded as it is.
start_send ==
    /\ stage = "receive"
    /\ stage' = "encode"
    /\ UNCHANGED <<vars, cap, bit, count, prev_val, written, update, missing,
                   cursor, sent>>

-----------------------------------------------------------------------------
(***************************************************************************)
(* write_runlength_encoded                                                 *)
(***************************************************************************)
InRun == bit < NumBits /\ (bit \in buf) = prev_val

\* Mutant of Fits: the last octet is never used.
FitsOneLess(n) == written + VarintLen(n) < cap

\* write_u64_varint finds room for all of the number.
Fits(n) == written + VarintLen(n) <= cap

CountBit ==
    /\ stage = "encode" /\ InRun
    /\ bit' = bit + 1
    /\ count' = count + 1
    /\ UNCHANGED <<vars, cap, stage, prev_val, written, update, missing, cursor, sent>>

\* A run has ended, or the bitmap: write the run's length.
WriteNumber ==
    /\ Fits(count)
    /\ written' = written + VarintLen(count)
    /\ update' = Append(update, count)

EndRun ==
    /\ stage = "encode" /\ bit < NumBits /\ ~InRun
    /\ WriteNumber
    /\ prev_val' = (bit \in buf)
    /\ count' = 1
    /\ bit' = bit + 1
    /\ UNCHANGED <<vars, cap, stage, missing, cursor, sent>>

\* Mutant of EndBitmap: the last run is not written.
EndBitmapUnwritten ==
    /\ stage = "encode" /\ bit = NumBits
    /\ stage' = "parse"
    /\ UNCHANGED <<vars, cap, bit, count, prev_val, written, update, missing,
                   cursor, sent>>

EndBitmap ==
    /\ stage = "encode" /\ bit = NumBits
    /\ WriteNumber
    /\ stage' = "parse"
    /\ UNCHANGED <<vars, cap, bit, count, prev_val, missing, cursor, sent>>

\* Mutant of Truncate: WriteZero is only expected from the last number.
TruncateAtEnd ==
    /\ stage = "encode" /\ bit = NumBits
    /\ ~Fits(count)
    /\ stage' = "parse"
    /\ UNCHANGED <<vars, cap, bit, count, prev_val, written, update, missing,
                   cursor, sent>>

\* WriteZero: whatever part of the number was written is cut off again.
Truncate ==
    /\ stage = "encode" /\ ~InRun
    /\ ~Fits(count)
    /\ stage' = "parse"
    /\ UNCHANGED <<vars, cap, bit, count, prev_val, written, update, missing,
                   cursor, sent>>

-----------------------------------------------------------------------------
(***************************************************************************)
(* MissingRanges                                                           *)
(***************************************************************************)

\* scan: the sums of the numbers so far.
Scan(k) == Totals(update)[k]

\* tuples: pairs of consecutive sums; a last one without partner is dropped.
Tuples == [k \in 1 .. Len(update) \div 2 |-> <<Scan(2 * k - 1), Scan(2 * k)>>]

parse_status_update ==
    /\ stage = "parse"
    /\ missing' = Tuples
    /\ cursor' = 0
    /\ stage' = IF missing' = <<>> THEN "done" ELSE "send"
    /\ UNCHANGED <<vars, cap, bit, count, prev_val, written, update, sent>>

\* Mutant of Ahead: the end of a range belongs to it.
AheadInclusive == {k \in DOMAIN missing : missing[k][2] >= cursor}

\* The ranges that end behind the cursor; find takes the first.
Ahead == {k \in DOMAIN missing : missing[k][2] > cursor}

next_chunk ==
    /\ stage = "send" /\ Ahead # {}
    /\ LET chunk == Max({cursor, missing[Min(Ahead)][1]})
       IN  /\ sent' = Append(sent, chunk)
           /\ cursor' = chunk + 1
    /\ UNCHANGED <<vars, cap, stage, bit, count, prev_val, written, update, missing>>

\* next_chunk returns None: the client goes to sleep.
no_chunk ==
    /\ stage = "send" /\ Ahead = {}
    /\ stage' = "done"
    /\ UNCHANGED <<vars, cap, bit, count, prev_val, written, update, missing,
                   cursor, sent>>

\* The encoder, and then the client.
Working ==
    \/ CountBit \/ EndRun \/ EndBitmap \/ Truncate
    \/ parse_status_update \/ next_chunk \/ no_chunk

StatusNext == receive \/ start_send \/ Working

-----------------------------------------------------------------------------
(***************************************************************************)
(* Properties.                                                             *)
(***************************************************************************)
Missing == Bits \ buf
RangeStarts == {i \in Missing : i - 1 \notin Missing}
FirstRanges(k) ==
    {i \in Missing : Cardinality({j \in RangeStarts : j <= i}) <= k}

\* The octets that the first k ranges take: for each the run of ones before
\* it and its own length.
RangeStart(k) ==
    CHOOSE i \in RangeStarts : Cardinality({j \in RangeStarts : j <= i}) = k
RangeEnd(k) == Min({i \in RangeStart(k) .. NumBits : i \notin Missing})
EndBefore(k) == IF k = 1 THEN 0 ELSE RangeEnd(k - 1)
RangeSize(k) ==
    VarintLen(RangeStart(k) - EndBefore(k)) + VarintLen(RangeEnd(k) - RangeStart(k))
EncodedSize(k) == Totals([m \in 1 .. k |-> RangeSize(m)])[k]

\* Once the client has sent everything an update asks for, it has sent, in
\* ascending order and each once, exactly the chunks of the first ranges the
\* bitmap misses: never a chunk the server has, never one past the end.
SendsFirstRanges ==
    stage = "done" =>
        /\ ToSet(sent) = FirstRanges(Len(missing))
        /\ \A a, b \in DOMAIN sent : a < b => sent[a] < sent[b]

\* However small the datagram and however the bitmap is fragmented, the client
\* takes an update for the end of the upload if and only if the server, which
\* goes by its count of zeroes, will take the FIN for it.
EmptyMeansComplete ==
    stage = "done" => ((missing = <<>>) <=> (zeroes = 0))

\* Truncation drops no range that would have fitted: the octets of one more
\* range, counted from the bitmap itself, are more than the datagram has.
TruncatesLate ==
    stage = "done" =>
        \/ Len(missing) = Cardinality(RangeStarts)
        \/ EncodedSize(Len(missing) + 1) > cap

\* An update is always worked off: the client goes to sleep or exits.
WorkedOff == (stage = "encode") ~> (stage = "done")
=============================================================================
