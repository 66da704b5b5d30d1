---------------------------- MODULE TimeoutStream ----------------------------
(***************************************************************************)
(* timeout::TimeoutStream, which ends a session's streams when they are    *)
(* silent.  It asks an Interval, once per period, whether anything arrived *)
(* in that period, and asks it only when the stream itself is not ready.   *)
(*                                                                         *)
(* The task is not always polled in time: Receiver::poll does not look at  *)
(* its stream while a chunk is being written, and while the stream is      *)
(* ready the interval is not polled.  Stall bounds that delay.  Times are  *)
(* relative to now, so no clock has to be bounded.                         *)
(***************************************************************************)
EXTENDS Integers

CONSTANTS
    Timeout,    \* the period
    Stall       \* how late an expired interval may be polled

ASSUME TimeoutAssumption == Timeout \in Nat \ {0}
ASSUME StallAssumption == Stall \in Nat

VARIABLES
    due,            \* the interval's deadline, relative to now
    idle,           \* the time since the last item (or the start)
    got_something,
    ended           \* "no", "timeout", "error"

vars == <<due, idle, got_something, ended>>

Init ==
    /\ due = Timeout
    /\ idle = 0
    /\ got_something = FALSE
    /\ ended = "no"

\* Time passes; an expired interval is polled within Stall.
Tick ==
    /\ ended = "no"
    /\ due > -Stall
    /\ due' = due - 1
    /\ idle' = idle + 1
    /\ UNCHANGED <<got_something, ended>>

\* poll: the stream is ready.
PollItem ==
    /\ ended = "no"
    /\ got_something' = TRUE
    /\ idle' = 0
    /\ UNCHANGED <<due, ended>>

\* Each poll of an expired interval moves its deadline by one period; the
\* loop polls until it is in the future.
Drained == Timeout - ((-due) % Timeout)

\* Mutant of PollExpired: the flag is not cleared.
PollExpiredKeeps ==
    /\ ended = "no"
    /\ due <= 0 /\ got_something
    /\ due' = Drained
    /\ UNCHANGED <<got_something, idle, ended>>

\* poll: nothing to read, the interval has expired, something had arrived.
PollExpired ==
    /\ ended = "no"
    /\ due <= 0 /\ got_something
    /\ got_something' = FALSE
    /\ due' = Drained
    /\ UNCHANGED <<idle, ended>>

\* Mutant of PollTimeout: what arrived in the period is not considered.
PollTimeoutAnyway ==
    /\ ended = "no"
    /\ due <= 0
    /\ ended' = "timeout"
    /\ UNCHANGED <<due, idle, got_something>>

\* poll: nothing to read, and nothing had arrived in the period.
PollTimeout ==
    /\ ended = "no"
    /\ due <= 0 /\ ~got_something
    /\ ended' = "timeout"
    /\ UNCHANGED <<due, idle, got_something>>

\* poll: the stream, or the timer, has failed.
PollError ==
    /\ ended = "no"
    /\ ended' = "error"
    /\ UNCHANGED <<due, idle, got_something>>

Next == Tick \/ PollItem \/ PollExpired \/ PollTimeout \/ PollError

Spec == Init /\ [][Next]_vars

-----------------------------------------------------------------------------
\* A stream times out only when it was silent for a whole period, short of
\* the time by which the interval was polled late.
TimeoutNotEarly == ended = "timeout" => idle >= Timeout - Stall

\* No silence goes unnoticed for longer than two periods and the delay.
SilenceDetected == idle <= 2 * Timeout + Stall

\* The inductive invariant: how long the silence is, in terms of the
\* deadline and of what this period has seen.  It needs Stall < Timeout.
TimeoutInv ==
    /\ due \in Int /\ -Stall <= due /\ due <= Timeout
    /\ idle \in Nat
    /\ got_something => idle <= Timeout - due
    /\ ~got_something => idle + due >= Timeout - Stall
    /\ idle + due <= 2 * Timeout
    /\ TimeoutNotEarly
=============================================================================
