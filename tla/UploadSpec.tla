----------------------------- MODULE UploadSpec -----------------------------
(***************************************************************************)
(* What the upload of a file promises, without packets, sessions or files: *)
(* which chunks have been written, what the server remembers of that for   *)
(* the next login, and which clients were told that the upload is over.    *)
(*                                                                         *)
(* A client or a server may stop at any time: there is no step for it,     *)
(* because nothing of this state changes.                                  *)
(***************************************************************************)
CONSTANTS
    Chunks,     \* the chunks of the file
    Empty,      \* those without any bytes to write
    Clients     \* the runs of the client

VARIABLES
    written,    \* the chunks whose data has been written
    recorded,   \* the chunks the next login is told not to send
    finished    \* the clients that have exited successfully

vars == <<written, recorded, finished>>

Init ==
    /\ written = Empty
    /\ recorded = {}
    /\ finished = {}

\* The data of a chunk is written; a chunk may be written again.
Write(i) ==
    /\ written' = written \cup {i}
    /\ UNCHANGED <<recorded, finished>>

\* The record changes, and never names a chunk that is not written.  It may
\* lose chunks: the upload starts over, or two sessions race.
Record ==
    /\ recorded' \in SUBSET written
    /\ UNCHANGED <<written, finished>>

\* A client exits once all of the file is written.
Finish(c) ==
    /\ written = Chunks
    /\ finished' = finished \cup {c}
    /\ UNCHANGED <<written, recorded>>

Next ==
    \/ \E i \in Chunks : Write(i)
    \/ Record
    \/ \E c \in Clients : Finish(c)

Spec == Init /\ [][Next]_vars
=============================================================================
