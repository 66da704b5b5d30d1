------------------------------ MODULE Session ------------------------------
(***************************************************************************)
(* The timers of one session of csync's server.  handle_client joins two   *)
(* streams, and the session ends when one of them does: the Receiver,      *)
(* whose items are the packets of the client, and the channel to the       *)
(* Sender, whose items are the statuses.  Each is in a TimeoutStream (the  *)
(* receiver's has the variables of that module, the sender's its own); the *)
(* periodic statuses are those of Congestion.                              *)
(***************************************************************************)
EXTENDS Congestion, TimeoutStream

CONSTANTS
    MinGap,     \* the shortest time between two packets the task reads
    MaxGap      \* the longest one considered

ASSUME GapAssumption == MinGap \in Nat /\ Window <= MinGap /\ MaxGap \in Nat
ASSUME HorizonAssumption == Horizon + 2 * Stall < Timeout

VARIABLES s_due, s_idle, s_got, s_ended

senderVars == <<s_due, s_idle, s_got, s_ended>>
sessionVars == <<congestionVars, vars, senderVars>>

Sender == INSTANCE TimeoutStream WITH
    due <- s_due, idle <- s_idle, got_something <- s_got, ended <- s_ended

\* The first poll of the channel finds UploadStart and the first status.
SessionInit ==
    /\ CongestionInit
    /\ Init
    /\ s_due = Timeout /\ s_idle = 0 /\ s_got = TRUE /\ s_ended = "no"

Running == ended = "no" /\ s_ended = "no"

\* Time passes; the timers are polled, at most Stall late.
Elapse ==
    /\ Tick /\ Sender!Tick
    /\ Armed => last_notify < time_left + Stall
    /\ last_notify' = IF done /\ ~Armed THEN last_notify ELSE last_notify + 1
    /\ UNCHANGED <<last_ipt, ipts, ipt, num_packets, packets, done, shares>>

\* The receiver's stream has an item.
Packet == Running /\ PollItem

FirstChunk ==
    /\ Packet /\ ~done
    /\ first_packet
    /\ UNCHANGED senderVars

\* Every packet before FIN is a chunk, so the time since the last chunk is
\* that since the last item.
LaterChunk ==
    /\ Packet /\ ~done
    /\ idle \in MinGap .. MaxGap
    /\ \/ later_packet(idle, TRUE) /\ Sender!PollItem
       \/ later_packet(idle, FALSE) /\ UNCHANGED senderVars

FinChunk ==
    /\ Packet /\ ~done
    /\ shutdown
    /\ UNCHANGED senderVars

\* Whatever comes after FIN is an item too.
InShutdown ==
    /\ Packet /\ done /\ idle >= MinGap
    /\ UNCHANGED <<congestionVars, senderVars>>

PeriodicStatus ==
    /\ Running
    /\ delay_over
    /\ Sender!PollItem
    /\ UNCHANGED vars

\* A chunk was marked, and the number of zeroes is zero or a power of two.
ChunkStatus ==
    /\ Running /\ last_ipt /\ ~done
    /\ Sender!PollItem
    /\ UNCHANGED <<congestionVars, vars>>

PollReceiver ==
    /\ Running
    /\ PollExpired \/ PollTimeout \/ PollError
    /\ UNCHANGED <<congestionVars, senderVars>>

PollSender ==
    /\ Running
    /\ Sender!PollExpired \/ Sender!PollTimeout \/ Sender!PollError
    /\ UNCHANGED <<congestionVars, vars>>

SessionNext ==
    \/ Elapse \/ FirstChunk \/ LaterChunk \/ FinChunk \/ InShutdown
    \/ PeriodicStatus \/ ChunkStatus \/ PollReceiver \/ PollSender

SessionSpec == SessionInit /\ [][SessionNext]_sessionVars

\* Time goes on, and the task is polled when a timer is over.
FairSession ==
    /\ SessionSpec
    /\ WF_sessionVars(Elapse)
    /\ WF_sessionVars(PeriodicStatus)
    /\ WF_sessionVars(Running /\ (PollExpired \/ PollTimeout) /\ UNCHANGED <<congestionVars, senderVars>>)
    /\ WF_sessionVars(Running /\ (Sender!PollExpired \/ Sender!PollTimeout) /\ UNCHANGED <<congestionVars, vars>>)

-----------------------------------------------------------------------------
\* The sender's timeout ends no upload whose client is there: between the
\* second chunk and FIN, statuses come often enough, at whatever rate the
\* chunks come, unless the client itself has been silent for the period.
StatusesKeepSession ==
    s_ended = "timeout" => done \/ ipts = <<>> \/ idle >= Timeout - Stall

\* The inductive invariant: a periodic status is never later than the delay
\* allows, nor is the last of any kind; and if a single packet is enough for
\* one, there was none since.
StatusInv ==
    /\ ~done => s_idle <= last_notify
    /\ Armed =>
        /\ num_packets \in NumPackets(ipt)
        /\ packets < num_packets
        /\ last_notify <= time_left + Stall
        /\ packets = 0 => last_notify <= idle

\* After FIN the session ends, even if its client goes on sending.
FinEndsSession == done ~> ~Running
=============================================================================
