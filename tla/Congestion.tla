----------------------------- MODULE Congestion -----------------------------
(***************************************************************************)
(* csync's CongestionInfo: a moving average of the time between two chunk  *)
(* packets, and the periodic status that comes after a number of packets   *)
(* or a time which depend on it.                                           *)
(*                                                                         *)
(* Times are natural numbers (nanoseconds in the code) and divisions round *)
(* down, as Duration's do.  The RTT is started and never stopped, so it is *)
(* zero.  The delay is set to last_notify + time_left whenever one of the  *)
(* two changes, so it is no variable of its own.                           *)
(***************************************************************************)
EXTENDS Integers, Sequences

CONSTANTS
    Window,         \* packet times in the average (10 in the code)
    MaxPackets,     \* the most packets between two statuses
    Horizon         \* the longest time they may take, if more than one

ASSUME WindowAssumption == Window \in Nat \ {0, 1}
ASSUME PacketsAssumption == MaxPackets \in Nat \ {0} /\ Horizon \in Nat

VARIABLES
    last_ipt,       \* a packet has come
    ipts,           \* the last times between packets
    ipt,            \* their average
    num_packets,    \* what num_packets() returns
    last_notify,    \* the time since the last periodic status
    packets,        \* packets_since_last_notify
    done,           \* shutdown has been called
    shares          \* history: shares[i] sums up the first i of ipts, each
                    \* divided by Window

congestionVars == <<last_ipt, ipts, ipt, num_packets, last_notify, packets, done, shares>>

\* CongestionInfo::new
CongestionInit ==
    /\ last_ipt = FALSE
    /\ ipts = <<>>
    /\ ipt = 0
    /\ num_packets = 1
    /\ last_notify = 0
    /\ packets = 0
    /\ done = FALSE
    /\ shares = <<>>

\* pps / ln(pps + 1), rounded down, in floating point: at least 1, and 2 or
\* more only at such rates that the packets come within a second.
NumPackets(time) == {n \in 1 .. MaxPackets : n = 1 \/ time * n <= Horizon}

time_left == ipt * num_packets

-----------------------------------------------------------------------------
(***************************************************************************)
(* ipt_packet                                                              *)
(***************************************************************************)
Share(time) == time \div Window

\* Mutant of Average: the newest time is taken out of a full window.
AverageDropsNewest(diff) ==
    LET n == Len(ipts)
    IN  IF n = Window THEN ipt - Share(ipts[n]) + Share(diff)
        ELSE (ipt * n) \div (n + 1) + diff \div (n + 1)

\* The average once diff is in the window: an empty place of it is filled, or
\* the oldest time goes.
Average(diff) ==
    LET n == Len(ipts)
    IN  IF n = Window THEN ipt - Share(ipts[1]) + Share(diff)
        ELSE (ipt * n) \div (n + 1) + diff \div (n + 1)

Sum(i) == IF i = 0 THEN 0 ELSE shares[i]

Push(diff) ==
    LET n == Len(ipts)
        full == n = Window
    IN  /\ ipts' = IF full
                   THEN [i \in 1 .. n |-> IF i < n THEN ipts[i + 1] ELSE diff]
                   ELSE [i \in 1 .. n + 1 |-> IF i <= n THEN ipts[i] ELSE diff]
        /\ shares' = IF full
                     THEN [i \in 1 .. n |->
                            IF i < n THEN shares[i + 1] - shares[1]
                            ELSE shares[n] - shares[1] + Share(diff)]
                     ELSE [i \in 1 .. n + 1 |->
                            IF i <= n THEN shares[i] ELSE Sum(n) + Share(diff)]

\* The first packet only starts the measurement.
first_packet ==
    /\ ~last_ipt
    /\ last_ipt' = TRUE
    /\ UNCHANGED <<ipts, ipt, num_packets, last_notify, packets, done, shares>>

\* Whether poll, which comes next, has a status to send because of the number
\* of packets, or because the delay is over by now.
Due(n) == n >= num_packets' \/ last_notify >= time_left'

\* Mutant of later_packet: the packet that makes the number full is not counted.
later_packet_late(diff, notify) ==
    /\ last_ipt
    /\ Push(diff)
    /\ ipt' = Average(diff)
    /\ num_packets' \in NumPackets(ipt')
    /\ notify = Due(packets)
    /\ packets' = IF notify THEN 0 ELSE packets + 1
    /\ last_notify' = IF notify THEN 0 ELSE last_notify
    /\ UNCHANGED <<last_ipt, done>>

\* A packet diff after the one before, and the poll after it: Receiver::poll
\* is called again at once when it has returned an item.
later_packet(diff, notify) ==
    /\ last_ipt
    /\ Push(diff)
    /\ ipt' = Average(diff)
    /\ num_packets' \in NumPackets(ipt')
    /\ notify = Due(packets + 1)
    /\ packets' = IF notify THEN 0 ELSE packets + 1
    /\ last_notify' = IF notify THEN 0 ELSE last_notify
    /\ UNCHANGED <<last_ipt, done>>

-----------------------------------------------------------------------------
\* Mutant of Armed: shutdown is not looked at.
ArmedAnyway == ipts # <<>>

\* The delay is armed by the second packet; after shutdown it is not polled.
Armed == ipts # <<>> /\ ~done

\* poll: the delay is over.
delay_over ==
    /\ Armed /\ last_notify >= time_left
    /\ packets' = 0
    /\ last_notify' = 0
    /\ UNCHANGED <<last_ipt, ipts, ipt, num_packets, done, shares>>

shutdown ==
    /\ done' = TRUE
    /\ UNCHANGED <<last_ipt, ipts, ipt, num_packets, last_notify, packets, shares>>

-----------------------------------------------------------------------------
\* Taking the oldest time out of the average does not make it negative, which
\* would be a panic, and the average is never zero, for which num_packets
\* would be that of an infinite rate: a status for every poll.
AverageUsable ==
    /\ ipts # <<>> => ipt > 0
    /\ Len(ipts) = Window => ipt >= Share(ipts[1])

\* However long the session, what rounding adds to or takes from the average
\* stays less than the length of the window: the sum of what went in and what
\* came out never drifts from the one taken afresh.
AverageTracksWindow ==
    Len(ipts) = Window =>
        ipt - shares[Window] \in -(Window - 1) .. Window - 1

\* The inductive invariant: shares are the partial sums, each time adds at
\* least one, and the average is bounded by them while the window fills.
WindowInv ==
    LET n == Len(ipts)
    IN  /\ n <= Window /\ Len(shares) = n
        /\ \A i \in 1 .. n : ipts[i] >= Window /\ Sum(i) = Sum(i - 1) + Share(ipts[i])
        /\ \A i, j \in 0 .. n : i <= j => Sum(j) - Sum(i) >= j - i
        /\ n * ipt >= Window * Sum(n) - n * (n - 1)
        /\ n * ipt <= Window * Sum(n) + n * (Window - 1)
=============================================================================
