------------------------------ MODULE SyncSpec ------------------------------
(***************************************************************************)
(* What scsync's server promises: first come, first served, and its folder *)
(* is replaced as a whole.  Clients announce their folder; one at a time   *)
(* is accepted; the server's folder becomes exactly the folder of the      *)
(* client that was accepted, in one step, or stays as it is.               *)
(***************************************************************************)
CONSTANTS
    Clients,
    FolderOf,       \* the folder of a client
    ServerFolder,   \* the server's at the start
    Nobody

VARIABLES
    announced,      \* the clients that have announced their folder
    accepted,       \* the client whose folder is being uploaded
    folder          \* the server's folder

vars == <<announced, accepted, folder>>

Init ==
    /\ announced = {}
    /\ accepted = Nobody
    /\ folder = ServerFolder

Announce(c) ==
    /\ announced' = announced \cup {c}
    /\ UNCHANGED <<accepted, folder>>

Accept(c) ==
    /\ c \in announced /\ accepted = Nobody
    /\ accepted' = c
    /\ UNCHANGED <<announced, folder>>

Replace ==
    /\ accepted # Nobody
    /\ folder' = FolderOf[accepted]
    /\ accepted' = Nobody
    /\ UNCHANGED announced

Next == Replace \/ \E c \in Clients : Announce(c) \/ Accept(c)

Spec == Init /\ [][Next]_vars
=============================================================================
