------------------------------- MODULE MCSync -------------------------------
(***************************************************************************)
(* Folders for the runs of Sync.  The server starts with an empty folder,  *)
(* the block "s".                                                          *)
(***************************************************************************)
EXTENDS SyncRefinement

\* One client, a folder with one file of three chunks.
OneFileBlocks == {"s", "r", "a"}
OneFileChildren == [b \in OneFileBlocks |-> IF b = "r" THEN {"a"} ELSE {}]
OneFileLen == [b \in OneFileBlocks |-> IF b = "a" THEN 5 ELSE 2]

\* One client, a folder with two files of one chunk.
TwoFilesBlocks == {"s", "r", "a", "b"}
TwoFilesChildren == [b \in TwoFilesBlocks |-> IF b = "r" THEN {"a", "b"} ELSE {}]
TwoFilesLen == [b \in TwoFilesBlocks |-> 1]

\* Two clients, a folder with one file, whose own block has two chunks, and an
\* empty folder.
TwoClientsBlocks == {"s", "r", "a", "q"}
TwoClientsChildren == [b \in TwoClientsBlocks |-> IF b = "r" THEN {"a"} ELSE {}]
TwoClientsLen == [b \in TwoClientsBlocks |-> IF b = "r" THEN 3 ELSE 1]
TwoClientsRoot == [c \in Clients |-> IF c = "c1" THEN "r" ELSE "q"]

OneRoot == [c \in Clients |-> "r"]
=============================================================================
