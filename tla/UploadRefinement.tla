-------------------------- MODULE UploadRefinement --------------------------
(***************************************************************************)
(* The upload implements UploadSpec.  What the next login is told is the   *)
(* content of the bitmap that bitmap_path names, if it names one.          *)
(***************************************************************************)
EXTENDS Upload

Recorded == IF path = None THEN {} ELSE bitmap[path]
Finished == {f \in Flows : phase[f] = "done"}

Abstract == INSTANCE UploadSpec WITH
    Empty <- {i \in Chunks : EmptyChunk(i)},
    Clients <- Flows,
    written <- Written,
    recorded <- Recorded,
    finished <- Finished

\* Every behaviour of the code's protocol is one the abstract upload allows:
\* a resumed upload never skips a chunk that was not written, written chunks
\* stay written, and no client is told "done" before all of them are.
ImplementsUploadSpec == Abstract!Spec
=============================================================================
