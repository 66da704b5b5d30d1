--------------------------- MODULE SyncRefinement ---------------------------
(***************************************************************************)
(* Sync implements SyncSpec.  The client accepted is the one the server    *)
(* has an entry for.                                                       *)
(***************************************************************************)
EXTENDS Sync

Announced == {c \in Clients : connected[c]}
Accepted == IF known = {} THEN None ELSE CHOOSE c \in Clients : known = {c}

FolderOf == [c \in Clients |-> Original[Root[c]]]

Contract == INSTANCE SyncSpec WITH
    ServerFolder <- Original[ServerRoot],
    Nobody <- None,
    announced <- Announced,
    accepted <- Accepted,
    folder <- folder

\* The server serves one client after the other, and every upload replaces
\* its folder by the client's, as a whole and in one step, whatever the
\* network does to the messages.
ImplementsSyncSpec == Contract!Spec
=============================================================================
