--------------------------- MODULE UploadHistory ---------------------------
(***************************************************************************)
(* Upload with a history variable: whether the network has lost a datagram *)
(* so far.  A step is marked as a loss only when it is one; reading and    *)
(* ignoring a datagram may have the same effect on the other variables.    *)
(***************************************************************************)
EXTENDS Upload

VARIABLE lost   \* history: a datagram has been lost

varsH == <<vars, lost>>

InitH == Init /\ lost = FALSE

\* A step of the client or the server, or one that hands a datagram over.
KeepStep ==
    /\ \/ \E f \in Flows : ClientStep(f)
       \/ \E s \in Sessions : SessionStep(s)
       \/ ServerCrash
       \/ \E m \in net : LateChunk(m)
    /\ UNCHANGED lost

LoseStep ==
    /\ \E m \in net : Lose(m)
    /\ lost' = TRUE

FairSpecH == InitH /\ [][KeepStep \/ LoseStep]_varsH /\ Fairness

\* Over a network that loses nothing an upload ends: the client exits, the
\* server has the file and has removed the bitmap.  Nobody sleeps for ever
\* although each of them only acts on what the other one sends.
UploadCompletes == <>(lost \/ Complete)
=============================================================================
