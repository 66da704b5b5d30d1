------------------------------- MODULE Codec -------------------------------
(***************************************************************************)
(* csync's codec, from the length in the login to the chunks that answer a *)
(* status: both sides cut the file into chunks (ChunkInfo), the server     *)
(* makes a bitmap of that many bits (BitMap), sends it as a status, and    *)
(* the client works off what it reads out of it (StatusUpdate).            *)
(*                                                                         *)
(* The bitmap has NumBits bits, so the second half is explored for the     *)
(* files of NumBits chunks only.                                           *)
(***************************************************************************)
EXTENDS ChunkInfo, StatusUpdate

CodecInit == LayoutInit /\ StatusInit

\* Receiver::new: the bitmap has a bit for every chunk.
HasBitmap == done /\ NumChunks = NumBits

CodecNext ==
    \/ Turn /\ UNCHANGED <<vars, statusVars>>
    \/ HasBitmap /\ StatusNext /\ UNCHANGED layoutVars

CodecSpec == CodecInit /\ [][CodecNext]_<<layoutVars, vars, statusVars>>

\* The loops of the encoder and of the client go on.
FairCodec ==
    /\ CodecSpec
    /\ WF_<<layoutVars, vars, statusVars>>(HasBitmap /\ Working /\ UNCHANGED layoutVars)

-----------------------------------------------------------------------------
\* What the client sends for a status reaches the bit it was sent for: the
\* index that the server reads out of the chunk is that of a bit which was
\* zero in the status, never one past the bitmap, which would be FIN.
AsksForZeroes ==
    \A k \in DOMAIN sent : DecodeIndex(IndexField(sent[k])) \in Bits \ buf
=============================================================================
