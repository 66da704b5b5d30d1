---------------------------- MODULE UploadProofs ----------------------------
(***************************************************************************)
(* Theorems about Upload, for every number of chunks, clients, sessions    *)
(* and every choice of faults.                                             *)
(***************************************************************************)
EXTENDS UploadRefinement, FiniteSetTheorems, WellFoundedInduction, TLAPS

\* The number of clear bits that with_length counts is a natural number.
LEMMA MissingCount ==
    ASSUME NEW B
    PROVE  Cardinality(Chunks \ B) \in Nat
<1>1. IsFiniteSet(Chunks)
  BY FS_Interval, NumChunksAssumption DEF Chunks
<1>2. IsFiniteSet(Chunks \ B)
  BY <1>1, FS_Subset
<1>. QED
  BY <1>2, FS_CardinalityType

\* A nonempty set of chunks has a first one.
LEMMA FirstChunk ==
    ASSUME NEW M \in SUBSET Chunks, M # {}
    PROVE  \E i \in M : \A j \in M : i <= j
<1>1. M \subseteq Nat
  BY NumChunksAssumption DEF Chunks
<1>2. \E i \in M : \A j \in M : ~(<<j, i>> \in OpToRel(<, Nat))
  BY <1>1, NatLessThanWellFounded, WFMin
<1>3. PICK i \in M : \A j \in M : ~(<<j, i>> \in OpToRel(<, Nat))
  BY <1>2
<1>4. \A j \in M : ~(j < i)
  BY <1>1, <1>3 DEF OpToRel
<1>. QED
  BY <1>1, <1>4

\* Truncating a status to the ranges that fit never makes it empty: a client
\* reads "nothing is missing" only out of a full bitmap.
LEMMA ReportedLemma ==
    ASSUME NEW M \in SUBSET Chunks
    PROVE  /\ Reported(M) \subseteq M
           /\ Reported(M) = {} => M = {}
<1>1. Reported(M) \subseteq M
  BY DEF Reported
<1>2. ASSUME M # {} PROVE Reported(M) # {}
  <2>1. PICK i \in M : \A j \in M : i <= j
    BY <1>2, FirstChunk
  <2>2. {j \in RangeStarts(M) : j <= i} = {i}
    <3>1. M \subseteq Int
      BY NumChunksAssumption DEF Chunks
    <3>2. i \in RangeStarts(M)
      BY <2>1, <3>1 DEF RangeStarts
    <3>3. \A j \in RangeStarts(M) : j <= i => j = i
      BY <2>1, <3>1 DEF RangeStarts
    <3>4. i <= i
      BY <2>1, <3>1
    <3>. QED
      BY <3>2, <3>3, <3>4
  <2>3. Cardinality({i}) = 1
    BY FS_Singleton
  <2>4. i \in Reported(M)
    BY <2>1, <2>2, <2>3, MaxRangesAssumption DEF Reported
  <2>. QED
    BY <2>4
<1>. QED
  BY <1>1, <1>2

-----------------------------------------------------------------------------
(***************************************************************************)
(* The type invariant.                                                     *)
(***************************************************************************)

LEMMA TypeInit == Init => TypeOK
<1>. SUFFICES ASSUME Init PROVE TypeOK
  OBVIOUS
<1>. USE NumChunksAssumption, NoneAssumption, MaxQueueAssumption DEF Init
<1>1. ClientTypeOK
  BY DEF ClientTypeOK, NoChunk
<1>2. SessionTypeOK /\ listener \in ListenerStates
  BY DEF SessionTypeOK, SessionStates, ListenerStates, NoChunk
<1>3. \A s \in Sessions : SessionStateOK(s)
  BY DEF SessionStateOK, Live
<1>4. DiskTypeOK /\ net \subseteq Messages
  BY DEF DiskTypeOK
<1>. QED
  BY <1>1, <1>2, <1>3, <1>4 DEF TypeOK

\* What is left to show of a step that leaves sessions and disk alone.
LEMMA TypeOutsideServer ==
    ASSUME TypeOK, UNCHANGED <<sessionVars, diskVars>>, ClientTypeOK',
           listener' \in ListenerStates, net' \subseteq Messages
    PROVE  TypeOK'
<1>1. SessionTypeOK'
  BY DEF TypeOK, SessionTypeOK, sessionVars
<1>2. \A s \in Sessions : SessionStateOK(s)'
  BY DEF TypeOK, SessionStateOK, Live, sessionVars
<1>3. DiskTypeOK'
  BY DEF TypeOK, DiskTypeOK, diskVars
<1>. QED
  BY <1>1, <1>2, <1>3 DEF TypeOK

\* A delivery adds nothing to the network but what is sent.
LEMMA DeliverLemma ==
    ASSUME NEW m \in net, NEW sent, Deliver(m, sent)
    PROVE  net' \subseteq net \cup sent
BY DEF Deliver

\* do_chunk leaves the client in a state it can be in.
LEMMA DoChunkType ==
    ASSUME ClientTypeOK, NEW f \in Flows, NEW M \in SUBSET Chunks,
           NEW c \in 0 .. NumChunks, DoChunk(f, M, c),
           missing' \in [Flows -> SUBSET Chunks]
    PROVE  ClientTypeOK'
<1>. USE NumChunksAssumption DEF ClientTypeOK, Chunks
<1>1. CASE \E i \in M :
              /\ IsNextChunk(M, c, i)
              /\ phase' = [phase EXCEPT ![f] = "sending"]
              /\ sending' = [sending EXCEPT ![f] = i]
              /\ cursor' = [cursor EXCEPT ![f] = i + 1]
  BY <1>1
<1>2. CASE /\ phase' = [phase EXCEPT ![f] = "sleeping"]
           /\ sending' = [sending EXCEPT ![f] = NoChunk]
           /\ cursor' = [cursor EXCEPT ![f] = c]
  BY <1>2
<1>. QED
  BY <1>1, <1>2 DEF DoChunk

\* The steps of a client.
LEMMA TypeClient ==
    ASSUME TypeOK, NEW f \in Flows, ClientStep(f)
    PROVE  TypeOK'
<1>. USE NumChunksAssumption
<1>1. CASE StartClient(f)
  <2>1. ClientTypeOK'
    BY <1>1 DEF StartClient, TypeOK, ClientTypeOK
  <2>2. Login(f) \in Messages
    BY DEF Login, Messages, LoginMsg
  <2>3. net' \subseteq Messages
    BY <1>1, <2>2 DEF StartClient, TypeOK
  <2>. QED
    BY <1>1, <2>1, <2>3, TypeOutsideServer DEF StartClient, TypeOK
<1>2. CASE ChunkSent(f)
  <2>1. ClientTypeOK'
    BY <1>2, DoChunkType DEF ChunkSent, TypeOK, ClientTypeOK
  <2>2. sending[f] \in 0 .. NumChunks
    BY <1>2 DEF ChunkSent, TypeOK, ClientTypeOK, Chunks
  <2>3. net' \subseteq Messages
    BY <1>2, <2>2 DEF ChunkSent, TypeOK, Chunk, Messages, ChunkMsg
  <2>. QED
    BY <1>2, <2>1, <2>3, TypeOutsideServer DEF ChunkSent, TypeOK
<1>3. ASSUME NEW m \in net, StatusEmpty(f, m)
      PROVE  TypeOK'
  <2>1. ClientTypeOK'
    BY <1>3 DEF StatusEmpty, TypeOK, ClientTypeOK
  <2>2. net' \subseteq Messages
    BY <1>3 DEF StatusEmpty, TypeOK, Fin, Chunk, Messages, ChunkMsg
  <2>. QED
    BY <1>3, <2>1, <2>2, TypeOutsideServer DEF StatusEmpty, TypeOK
<1>4. ASSUME NEW m \in net, m.type = "status"
      PROVE  m.missing \in SUBSET Chunks
  BY <1>4 DEF TypeOK, Messages, LoginMsg, ChunkMsg, StatusMsg
<1>5. ASSUME NEW m \in net, StatusWhileSending(f, m)
      PROVE  TypeOK'
  <2>1. ClientTypeOK'
    BY <1>4, <1>5 DEF StatusWhileSending, TypeOK, ClientTypeOK
  <2>2. net' \subseteq Messages
    BY <1>5, DeliverLemma DEF StatusWhileSending, TypeOK
  <2>. QED
    BY <1>5, <2>1, <2>2, TypeOutsideServer DEF StatusWhileSending, TypeOK
<1>6. ASSUME NEW m \in net, StatusWhileSleeping(f, m)
      PROVE  TypeOK'
  <2>1. m.missing \in SUBSET Chunks
    BY <1>4, <1>6 DEF StatusWhileSleeping
  <2>2. missing' \in [Flows -> SUBSET Chunks]
    BY <1>6, <2>1 DEF StatusWhileSleeping, TypeOK, ClientTypeOK
  <2>3. 0 \in 0 .. NumChunks /\ ClientTypeOK /\ DoChunk(f, m.missing, 0)
    BY <1>6 DEF StatusWhileSleeping, TypeOK
  <2>4. ClientTypeOK'
    BY <2>1, <2>2, <2>3, DoChunkType
  <2>5. net' \subseteq Messages
    BY <1>6, DeliverLemma DEF StatusWhileSleeping, TypeOK
  <2>. QED
    BY <1>6, <2>4, <2>5, TypeOutsideServer DEF StatusWhileSleeping, TypeOK
<1>7. CASE ClientCrash(f)
  <2>1. ClientTypeOK'
    BY <1>7 DEF ClientCrash, TypeOK, ClientTypeOK
  <2>2. net' \subseteq Messages
    BY <1>7 DEF ClientCrash, TypeOK
  <2>. QED
    BY <1>7, <2>1, <2>2, TypeOutsideServer DEF ClientCrash, TypeOK
<1>. QED
  BY <1>1, <1>2, <1>3, <1>5, <1>6, <1>7 DEF ClientStep

\* What is left to show of a step of the server.
LEMMA TypeOutsideClient ==
    ASSUME TypeOK, UNCHANGED clientVars, listener' \in ListenerStates,
           SessionTypeOK', \A s \in Sessions : SessionStateOK(s)',
           DiskTypeOK', net' \subseteq Messages
    PROVE  TypeOK'
<1>1. ClientTypeOK'
  BY DEF TypeOK, ClientTypeOK, clientVars
<1>. QED
  BY <1>1 DEF TypeOK

\* The steps of the listener that open a session.
LEMMA TypeOpen ==
    ASSUME TypeOK, NEW s \in Sessions,
           \/ \E m \in net : RecvLogin(s, m)
           \/ CreateBitmap(s) \/ MapBitmap(s) \/ MapBitmapFails(s)
    PROVE  TypeOK'
<1>. USE NumChunksAssumption, MaxQueueAssumption, NoneAssumption
<1>1. ASSUME NEW m \in net, m.type = "login"
      PROVE  m.flow \in Flows
  BY <1>1 DEF TypeOK, Messages, LoginMsg, ChunkMsg, StatusMsg
<1>2. ASSUME NEW m \in net, RecvLogin(s, m)
      PROVE  TypeOK'
  <2>1. SessionTypeOK' /\ listener' \in ListenerStates
    BY <1>2, <1>1 DEF RecvLogin, TypeOK, SessionTypeOK, SessionStates, ListenerStates
  <2>2. \A t \in Sessions : SessionStateOK(t)'
    BY <1>2, <1>1 DEF RecvLogin, TypeOK, SessionTypeOK, SessionStateOK, Live, SessionStates, ListenerStates
  <2>3. DiskTypeOK'
    BY <1>2 DEF RecvLogin, TypeOK, DiskTypeOK, diskVars
  <2>4. net' \subseteq Messages
    BY <1>2, DeliverLemma DEF RecvLogin, TypeOK
  <2>. QED
    BY <1>2, <2>1, <2>2, <2>3, <2>4, TypeOutsideClient DEF RecvLogin
<1>3. CASE CreateBitmap(s)
  <2>1. SessionTypeOK' /\ listener' \in ListenerStates
    BY <1>3 DEF CreateBitmap, TypeOK, SessionTypeOK, SessionStates, ListenerStates, DiskTypeOK
  <2>2. \A t \in Sessions : SessionStateOK(t)'
    BY <1>3 DEF CreateBitmap, TypeOK, SessionTypeOK, SessionStateOK, Live, SessionStates, ListenerStates, DiskTypeOK
  <2>3. DiskTypeOK'
    BY <1>3 DEF CreateBitmap, TypeOK, DiskTypeOK
  <2>4. net' \subseteq Messages
    BY <1>3 DEF CreateBitmap, TypeOK
  <2>. QED
    BY <1>3, <2>1, <2>2, <2>3, <2>4, TypeOutsideClient DEF CreateBitmap
<1>4. CASE MapBitmap(s)
  <2>0. Cardinality(Chunks \ bitmap[inode[s]]) \in Nat
    BY MissingCount
  <2>1. SessionTypeOK' /\ listener' \in ListenerStates
    BY <1>4, <2>0 DEF MapBitmap, TypeOK, SessionTypeOK, SessionStates, ListenerStates
  <2>2. \A t \in Sessions : SessionStateOK(t)'
    BY <1>4 DEF MapBitmap, TypeOK, SessionTypeOK, SessionStateOK, Live, SessionStates, ListenerStates
  <2>3. DiskTypeOK'
    BY <1>4 DEF MapBitmap, TypeOK, DiskTypeOK, SizedAfter, SessionTypeOK, SessionStateOK, Live
  <2>4. net' \subseteq Messages
    BY <1>4 DEF MapBitmap, TypeOK
  <2>. QED
    BY <1>4, <2>1, <2>2, <2>3, <2>4, TypeOutsideClient DEF MapBitmap
<1>5. CASE MapBitmapFails(s)
  <2>1. SessionTypeOK' /\ listener' \in ListenerStates
    BY <1>5 DEF MapBitmapFails, TypeOK, SessionTypeOK, Close, SessionStates, ListenerStates, NoChunk
  <2>2. \A t \in Sessions : SessionStateOK(t)'
    BY <1>5 DEF MapBitmapFails, TypeOK, SessionTypeOK, SessionStateOK, Live, Close, SessionStates, ListenerStates, NoChunk
  <2>3. DiskTypeOK'
    BY <1>5 DEF MapBitmapFails, TypeOK, DiskTypeOK, SizedAfter, SessionStateOK, Live
  <2>4. net' \subseteq Messages
    BY <1>5 DEF MapBitmapFails, TypeOK
  <2>. QED
    BY <1>5, <2>1, <2>2, <2>3, <2>4, TypeOutsideClient DEF MapBitmapFails
<1>. QED
  BY <1>2, <1>3, <1>4, <1>5

\* The steps of a session that read a datagram.
LEMMA TypeRead ==
    ASSUME TypeOK, NEW s \in Sessions, NEW m \in net,
           \/ RecvChunk(s, m) \/ SkipChunk(s, m) \/ RecvFin(s, m)
           \/ RecvOutOfBounds(s, m) \/ IgnoreInShutdown(s, m)
    PROVE  TypeOK'
<1>. USE NumChunksAssumption, MaxQueueAssumption, NoneAssumption
<1>1. CASE RecvChunk(s, m)
  <2>1. SessionTypeOK' /\ listener' \in ListenerStates
    BY <1>1 DEF RecvChunk, TypeOK, SessionTypeOK, SessionStates, CountPacket, Payload, Reads
  <2>2. \A t \in Sessions : SessionStateOK(t)'
    BY <1>1 DEF RecvChunk, TypeOK, SessionTypeOK, SessionStateOK, Live, SessionStates, CountPacket, Payload, Reads
  <2>3. DiskTypeOK'
    BY <1>1 DEF RecvChunk, TypeOK, DiskTypeOK, diskVars
  <2>4. net' \subseteq Messages
    BY <1>1, DeliverLemma DEF RecvChunk, TypeOK
  <2>. QED
    BY <1>1, <2>1, <2>2, <2>3, <2>4, TypeOutsideClient DEF RecvChunk
<1>2. CASE SkipChunk(s, m)
  <2>1. SessionTypeOK' /\ listener' \in ListenerStates
    BY <1>2 DEF SkipChunk, TypeOK, SessionTypeOK, SessionStates, CountPacket
  <2>2. \A t \in Sessions : SessionStateOK(t)'
    BY <1>2 DEF SkipChunk, TypeOK, SessionTypeOK, SessionStateOK, Live, SessionStates, CountPacket
  <2>3. DiskTypeOK'
    BY <1>2 DEF SkipChunk, TypeOK, DiskTypeOK, diskVars
  <2>4. net' \subseteq Messages
    BY <1>2, DeliverLemma DEF SkipChunk, TypeOK
  <2>. QED
    BY <1>2, <2>1, <2>2, <2>3, <2>4, TypeOutsideClient DEF SkipChunk
<1>3. CASE RecvFin(s, m)
  <2>1. SessionTypeOK' /\ listener' \in ListenerStates
    BY <1>3 DEF RecvFin, TypeOK, SessionTypeOK, SessionStates, Reads
  <2>2. \A t \in Sessions : SessionStateOK(t)'
    BY <1>3 DEF RecvFin, TypeOK, SessionTypeOK, SessionStateOK, Live, SessionStates, Reads
  <2>3. DiskTypeOK'
    BY <1>3 DEF RecvFin, TypeOK, DiskTypeOK
  <2>4. net' \subseteq Messages
    BY <1>3, DeliverLemma DEF RecvFin, TypeOK
  <2>. QED
    BY <1>3, <2>1, <2>2, <2>3, <2>4, TypeOutsideClient DEF RecvFin
<1>4. CASE RecvOutOfBounds(s, m)
  <2>1. SessionTypeOK' /\ listener' \in ListenerStates
    BY <1>4 DEF RecvOutOfBounds, TypeOK, SessionTypeOK, Close, SessionStates, NoChunk
  <2>2. \A t \in Sessions : SessionStateOK(t)'
    BY <1>4 DEF RecvOutOfBounds, TypeOK, SessionTypeOK, SessionStateOK, Live, Close, SessionStates, NoChunk
  <2>3. DiskTypeOK'
    BY <1>4 DEF RecvOutOfBounds, TypeOK, DiskTypeOK, diskVars
  <2>4. net' \subseteq Messages
    BY <1>4, DeliverLemma DEF RecvOutOfBounds, TypeOK
  <2>. QED
    BY <1>4, <2>1, <2>2, <2>3, <2>4, TypeOutsideClient DEF RecvOutOfBounds
<1>5. CASE IgnoreInShutdown(s, m)
  <2>1. ClientTypeOK'
    BY <1>5 DEF IgnoreInShutdown, TypeOK, ClientTypeOK, clientVars
  <2>. QED
    BY <1>5, <2>1, DeliverLemma, TypeOutsideServer DEF IgnoreInShutdown, TypeOK
<1>. QED
  BY <1>1, <1>2, <1>3, <1>4, <1>5

\* The bits that BitMap::set stores are bits of the bitmap.
LEMMA StoredBitsType ==
    ASSUME TypeOK, NEW s \in Sessions, st[s] = "Marking"
    PROVE  inode[s] \in Sessions /\ StoredBits(s) \subseteq Chunks
BY DEF TypeOK, SessionStateOK, Live, SessionTypeOK, DiskTypeOK, StoredBits, ByteOf

\* The steps of a session that write, count, send and end.
LEMMA TypeWork ==
    ASSUME TypeOK, NEW s \in Sessions,
           \/ WriteChunk(s) \/ MarkChunk(s) \/ MarkChunkUnderflow(s)
           \/ PeriodicStatus(s) \/ SendStatus(s) \/ SessionError(s)
    PROVE  TypeOK'
<1>. USE NumChunksAssumption, MaxQueueAssumption, NoneAssumption
<1>1. CASE WriteChunk(s)
  <2>1. SessionTypeOK' /\ listener' \in ListenerStates
    BY <1>1 DEF WriteChunk, TypeOK, SessionTypeOK, SessionStates, DiskTypeOK,
                SessionStateOK, Live
  <2>2. \A t \in Sessions : SessionStateOK(t)'
    BY <1>1 DEF WriteChunk, TypeOK, SessionTypeOK, SessionStateOK, Live, SessionStates, DiskTypeOK
  <2>3. DiskTypeOK'
    BY <1>1 DEF WriteChunk, TypeOK, DiskTypeOK, SessionTypeOK, SessionStateOK
  <2>4. net' \subseteq Messages
    BY <1>1 DEF WriteChunk, TypeOK
  <2>. QED
    BY <1>1, <2>1, <2>2, <2>3, <2>4, TypeOutsideClient DEF WriteChunk
<1>2. CASE MarkChunk(s)
  <2>1. SessionTypeOK' /\ listener' \in ListenerStates
    BY <1>2 DEF MarkChunk, TypeOK, SessionTypeOK, SessionStates, ZeroesAfter, NoChunk
  <2>2. \A t \in Sessions : SessionStateOK(t)'
    BY <1>2 DEF MarkChunk, TypeOK, SessionTypeOK, SessionStateOK, Live, SessionStates, ZeroesAfter, NoChunk
  <2>3. DiskTypeOK'
    BY <1>2, StoredBitsType DEF MarkChunk, TypeOK, DiskTypeOK
  <2>4. net' \subseteq Messages
    BY <1>2 DEF MarkChunk, TypeOK
  <2>. QED
    BY <1>2, <2>1, <2>2, <2>3, <2>4, TypeOutsideClient DEF MarkChunk
<1>3. CASE MarkChunkUnderflow(s)
  <2>1. SessionTypeOK' /\ listener' \in ListenerStates
    BY <1>3 DEF MarkChunkUnderflow, TypeOK, SessionTypeOK, Close, SessionStates, NoChunk
  <2>2. \A t \in Sessions : SessionStateOK(t)'
    BY <1>3 DEF MarkChunkUnderflow, TypeOK, SessionTypeOK, SessionStateOK, Live, Close, SessionStates, NoChunk
  <2>3. DiskTypeOK'
    BY <1>3, StoredBitsType DEF MarkChunkUnderflow, TypeOK, DiskTypeOK
  <2>4. net' \subseteq Messages
    BY <1>3 DEF MarkChunkUnderflow, TypeOK
  <2>. QED
    BY <1>3, <2>1, <2>2, <2>3, <2>4, TypeOutsideClient DEF MarkChunkUnderflow
<1>4. CASE PeriodicStatus(s)
  <2>1. SessionTypeOK' /\ listener' \in ListenerStates
    BY <1>4 DEF PeriodicStatus, TypeOK, SessionTypeOK, SessionStates
  <2>2. \A t \in Sessions : SessionStateOK(t)'
    BY <1>4 DEF PeriodicStatus, TypeOK, SessionTypeOK, SessionStateOK, Live, SessionStates
  <2>3. DiskTypeOK'
    BY <1>4 DEF PeriodicStatus, TypeOK, DiskTypeOK, diskVars
  <2>4. net' \subseteq Messages
    BY <1>4 DEF PeriodicStatus, TypeOK
  <2>. QED
    BY <1>4, <2>1, <2>2, <2>3, <2>4, TypeOutsideClient DEF PeriodicStatus
<1>5. CASE SendStatus(s)
  <2>0. Status(flow[s], Reported(Chunks \ bitmap[inode[s]])) \in Messages
    <3>1. Reported(Chunks \ bitmap[inode[s]]) \in SUBSET Chunks
      BY ReportedLemma
    <3>2. flow[s] \in Flows
      BY <1>5 DEF SendStatus, TypeOK, SessionStateOK
    <3>. QED
      BY <3>1, <3>2 DEF Status, Messages, StatusMsg
  <2>1. SessionTypeOK' /\ listener' \in ListenerStates
    BY <1>5 DEF SendStatus, TypeOK, SessionTypeOK, SessionStates
  <2>2. \A t \in Sessions : SessionStateOK(t)'
    BY <1>5 DEF SendStatus, TypeOK, SessionTypeOK, SessionStateOK, Live, SessionStates
  <2>3. DiskTypeOK'
    BY <1>5 DEF SendStatus, TypeOK, DiskTypeOK, diskVars
  <2>4. net' \subseteq Messages
    BY <1>5, <2>0 DEF SendStatus, TypeOK
  <2>. QED
    BY <1>5, <2>1, <2>2, <2>3, <2>4, TypeOutsideClient DEF SendStatus
<1>6. CASE SessionError(s)
  <2>1. SessionTypeOK' /\ listener' \in ListenerStates
    BY <1>6 DEF SessionError, TypeOK, SessionTypeOK, Close, SessionStates, NoChunk
  <2>2. \A t \in Sessions : SessionStateOK(t)'
    BY <1>6 DEF SessionError, TypeOK, SessionTypeOK, SessionStateOK, Live, Close, SessionStates, NoChunk
  <2>3. DiskTypeOK'
    BY <1>6 DEF SessionError, TypeOK, DiskTypeOK, diskVars
  <2>4. net' \subseteq Messages
    BY <1>6 DEF SessionError, TypeOK
  <2>. QED
    BY <1>6, <2>1, <2>2, <2>3, <2>4, TypeOutsideClient DEF SessionError
<1>. QED
  BY <1>1, <1>2, <1>3, <1>4, <1>5, <1>6

\* The server process as a whole, and the network.
LEMMA TypeRest ==
    ASSUME TypeOK,
           \/ ServerCrash
           \/ \E m \in net : LateChunk(m) \/ Lose(m)
    PROVE  TypeOK'
<1>. USE NumChunksAssumption, MaxQueueAssumption, NoneAssumption
<1>1. CASE ServerCrash
  <2>1. SessionTypeOK' /\ listener' \in ListenerStates
    BY <1>1 DEF ServerCrash, TypeOK, SessionTypeOK, SessionStates, ListenerStates,
                NoChunk
  <2>2. \A t \in Sessions : SessionStateOK(t)'
    BY <1>1 DEF ServerCrash, TypeOK, SessionTypeOK, SessionStateOK, Live
  <2>3. DiskTypeOK'
    BY <1>1 DEF ServerCrash, TypeOK, DiskTypeOK, diskVars
  <2>4. net' \subseteq Messages
    BY <1>1 DEF ServerCrash, TypeOK
  <2>. QED
    BY <1>1, <2>1, <2>2, <2>3, <2>4, TypeOutsideClient DEF ServerCrash
<1>2. ASSUME NEW m \in net, LateChunk(m)
      PROVE  TypeOK'
  <2>1. ClientTypeOK'
    BY <1>2 DEF LateChunk, TypeOK, ClientTypeOK, clientVars
  <2>2. listener' \in ListenerStates
    BY <1>2 DEF LateChunk, ListenerStates
  <2>. QED
    BY <1>2, <2>1, <2>2, DeliverLemma, TypeOutsideServer DEF LateChunk, TypeOK
<1>3. ASSUME NEW m \in net, Lose(m)
      PROVE  TypeOK'
  <2>1. ClientTypeOK'
    BY <1>3 DEF Lose, TypeOK, ClientTypeOK, clientVars
  <2>. QED
    BY <1>3, <2>1, TypeOutsideServer DEF Lose, TypeOK
<1>. QED
  BY <1>1, <1>2, <1>3

\* No step takes a variable out of its type.
LEMMA TypeStep == TypeOK /\ [Next]_vars => TypeOK'
<1>. SUFFICES ASSUME TypeOK, [Next]_vars PROVE TypeOK'
  OBVIOUS
<1>1. CASE \E f \in Flows : ClientStep(f)
  BY <1>1, TypeClient
<1>2. CASE \E s \in Sessions : SessionStep(s)
  BY <1>2, TypeOpen, TypeRead, TypeWork DEF SessionStep
<1>3. CASE ServerCrash \/ \E m \in net : LateChunk(m) \/ Lose(m)
  BY <1>3, TypeRest
<1>4. CASE UNCHANGED vars
  <2>1. ClientTypeOK'
    BY <1>4 DEF vars, TypeOK, ClientTypeOK, clientVars
  <2>. QED
    BY <1>4, <2>1, TypeOutsideServer DEF vars, TypeOK
<1>. QED
  BY <1>1, <1>2, <1>3, <1>4 DEF Next

\* Client, listener, sessions and disk are always in a state the code's types
\* describe: in particular a session that writes has a chunk, and one that
\* reads a bitmap has mapped one.
THEOREM TypeCorrect == Spec => []TypeOK
<1>1. Init => TypeOK
  BY TypeInit
<1>2. TypeOK /\ [Next]_vars => TypeOK'
  BY TypeStep
<1>. QED
  BY <1>1, <1>2, PTL DEF Spec

-----------------------------------------------------------------------------
(***************************************************************************)
(* The upload never claims more than was written.                          *)
(***************************************************************************)

\* A step that writes and marks nothing.
Calm ==
    /\ UNCHANGED <<file, appended, bitmap>>
    /\ \A t \in Sessions : byte'[t] \subseteq byte[t]
    /\ \A t \in Sessions :
          st'[t] = "Marking" => st[t] = "Marking" /\ chunk'[t] = chunk[t]

\* A step that announces the end only if everything is written.
Honest ==
    /\ \A m \in net' : Announces(m) => m \in net \/ Written = Chunks
    /\ \A f \in Flows : phase'[f] = "done" => phase[f] = "done" \/ Written = Chunks

LEMMA UploadInvInit == Init => UploadInv
<1>. SUFFICES ASSUME Init PROVE UploadInv
  OBVIOUS
<1>1. TypeOK
  BY TypeInit
<1>2. ReceivedIsWritten
  BY DEF Init, ReceivedIsWritten
<1>3. DoneIsWritten
  BY DEF Init, DoneIsWritten
<1>. QED
  BY <1>1, <1>2, <1>3 DEF UploadInv, Init

\* A calm and honest step keeps the invariant.
LEMMA CalmStep ==
    ASSUME UploadInv, TypeOK', Calm, Honest
    PROVE  UploadInv' /\ Written' = Written
<1>1. Written' = Written
  BY DEF Calm, Written
<1>2. ReceivedIsWritten'
  BY <1>1 DEF UploadInv, ReceivedIsWritten, Calm
<1>3. \A s \in Sessions : st'[s] = "Marking" => chunk'[s].index \in Written'
  BY <1>1 DEF UploadInv, Calm
<1>4. \A m \in net' : Announces(m) => Written' = Chunks
  BY <1>1 DEF UploadInv, Honest
<1>5. DoneIsWritten'
  BY <1>1 DEF UploadInv, DoneIsWritten, Honest
<1>. QED
  BY <1>1, <1>2, <1>3, <1>4, <1>5 DEF UploadInv, Announces

\* The steps of a client are calm and honest: it sends FIN only because an
\* empty status has announced that everything is written.
LEMMA ClientHonest ==
    ASSUME UploadInv, NEW f \in Flows, ClientStep(f)
    PROVE  Calm /\ Honest
<1>1. TypeOK
  BY DEF UploadInv
<1>2. ASSUME UNCHANGED <<sessionVars, diskVars>>
      PROVE  Calm
  BY <1>2 DEF Calm, sessionVars, diskVars
<1>3. CASE StartClient(f)
  <2>1. Honest
    BY <1>1, <1>3 DEF StartClient, Honest, Announces, Login, TypeOK, ClientTypeOK
  <2>. QED
    BY <1>2, <1>3, <2>1 DEF StartClient
<1>4. CASE ChunkSent(f)
  <2>1. sending[f] # NumChunks
    BY <1>1, <1>4, NumChunksAssumption
       DEF ChunkSent, TypeOK, ClientTypeOK, Chunks
  <2>2. \A m \in net' : Announces(m) => m \in net
    BY <1>4, <2>1 DEF ChunkSent, Announces, Chunk
  <2>3. \A g \in Flows : phase'[g] = "done" => phase[g] = "done"
    BY <1>1, <1>4 DEF ChunkSent, DoChunk, TypeOK, ClientTypeOK
  <2>. QED
    BY <1>2, <1>4, <2>2, <2>3 DEF ChunkSent, Honest
<1>5. ASSUME NEW m \in net, StatusEmpty(f, m)
      PROVE  Calm /\ Honest
  <2>1. Written = Chunks
    BY <1>5 DEF StatusEmpty, UploadInv, Announces
  <2>. QED
    BY <1>2, <1>5, <2>1 DEF StatusEmpty, Honest
<1>6. ASSUME NEW m \in net, StatusWhileSending(f, m)
      PROVE  Calm /\ Honest
  <2>1. Honest
    BY <1>6, DeliverLemma DEF StatusWhileSending, Honest
  <2>. QED
    BY <1>2, <1>6, <2>1 DEF StatusWhileSending
<1>7. ASSUME NEW m \in net, StatusWhileSleeping(f, m)
      PROVE  Calm /\ Honest
  <2>1. \A g \in Flows : phase'[g] = "done" => phase[g] = "done"
    BY <1>1, <1>7 DEF StatusWhileSleeping, DoChunk, TypeOK, ClientTypeOK
  <2>2. Honest
    BY <1>7, <2>1, DeliverLemma DEF StatusWhileSleeping, Honest
  <2>. QED
    BY <1>2, <1>7, <2>2 DEF StatusWhileSleeping
<1>8. CASE ClientCrash(f)
  <2>1. Honest
    BY <1>1, <1>8 DEF ClientCrash, Honest, TypeOK, ClientTypeOK
  <2>. QED
    BY <1>2, <1>8, <2>1 DEF ClientCrash
<1>. QED
  BY <1>3, <1>4, <1>5, <1>6, <1>7, <1>8 DEF ClientStep

\* A step of the server that sends nothing is honest.
LEMMA SilentHonest ==
    ASSUME UNCHANGED clientVars, net' \subseteq net
    PROVE  Honest
BY DEF Honest, clientVars

\* The steps of a session other than writing and marking are calm, and honest:
\* a status is empty only if the bitmap is full.
LEMMA SessionHonest ==
    ASSUME UploadInv, NEW s \in Sessions, SessionStep(s),
           ~WriteChunk(s), ~MarkChunk(s), ~MarkChunkUnderflow(s)
    PROVE  Calm /\ Honest
<1>1. TypeOK
  BY DEF UploadInv
<1>2. ASSUME NEW m \in net, RecvLogin(s, m)
      PROVE  Calm /\ net' \subseteq net
  BY <1>1, <1>2, DeliverLemma DEF RecvLogin, Calm, TypeOK, SessionTypeOK, diskVars
<1>3. ASSUME CreateBitmap(s)
      PROVE  Calm /\ net' \subseteq net
  BY <1>1, <1>3 DEF CreateBitmap, Calm, TypeOK, SessionTypeOK
<1>4. ASSUME MapBitmap(s)
      PROVE  Calm /\ net' \subseteq net
  BY <1>1, <1>4 DEF MapBitmap, Calm, TypeOK, SessionTypeOK
<1>5. ASSUME MapBitmapFails(s)
      PROVE  Calm /\ net' \subseteq net
  BY <1>1, <1>5 DEF MapBitmapFails, Calm, TypeOK, SessionTypeOK, Close
<1>6. ASSUME NEW m \in net, RecvChunk(s, m)
      PROVE  Calm /\ net' \subseteq net
  BY <1>1, <1>6, DeliverLemma DEF RecvChunk, Calm, TypeOK, SessionTypeOK, diskVars
<1>7. ASSUME NEW m \in net, SkipChunk(s, m)
      PROVE  Calm /\ net' \subseteq net
  BY <1>1, <1>7, DeliverLemma DEF SkipChunk, Calm, TypeOK, SessionTypeOK, diskVars
<1>8. ASSUME NEW m \in net, RecvFin(s, m)
      PROVE  Calm /\ net' \subseteq net
  BY <1>1, <1>8, DeliverLemma DEF RecvFin, Calm, TypeOK, SessionTypeOK
<1>9. ASSUME NEW m \in net, RecvOutOfBounds(s, m)
      PROVE  Calm /\ net' \subseteq net
  BY <1>1, <1>9, DeliverLemma DEF RecvOutOfBounds, Calm, TypeOK, SessionTypeOK, Close, diskVars
<1>10. ASSUME NEW m \in net, IgnoreInShutdown(s, m)
      PROVE  Calm /\ net' \subseteq net
  BY <1>1, <1>10, DeliverLemma DEF IgnoreInShutdown, Calm, TypeOK, SessionTypeOK, sessionVars, diskVars
<1>11. ASSUME PeriodicStatus(s)
      PROVE  Calm /\ net' \subseteq net
  BY <1>1, <1>11 DEF PeriodicStatus, Calm, TypeOK, SessionTypeOK, diskVars
<1>12. ASSUME SessionError(s)
      PROVE  Calm /\ net' \subseteq net
  BY <1>1, <1>12 DEF SessionError, Calm, TypeOK, SessionTypeOK, Close, diskVars
<1>13. CASE SendStatus(s)
  <2>1. Calm
    BY <1>1, <1>13 DEF SendStatus, Calm, diskVars
  <2>2. ASSUME Running(flow[s]), Reported(Chunks \ bitmap[inode[s]]) = {}
        PROVE  Written = Chunks
    <3>1. inode[s] \in Sessions
      <4>1. tx[s] > 0 /\ Live(s)
        BY <1>13 DEF SendStatus
      <4>2. st[s] # "checked"
        BY <1>1, <4>1 DEF TypeOK, SessionStateOK
      <4>. QED
        BY <1>1, <4>1, <4>2 DEF TypeOK, SessionStateOK
    <3>2. Chunks \subseteq bitmap[inode[s]]
      BY <2>2, ReportedLemma
    <3>. QED
      BY <3>1, <3>2 DEF UploadInv, ReceivedIsWritten, Written
  <2>3. ASSUME NEW m \in net', Announces(m), m \notin net
        PROVE  Written = Chunks
    <3>1. /\ Running(flow[s])
          /\ m = Status(flow[s], Reported(Chunks \ bitmap[inode[s]]))
      BY <1>13, <2>3 DEF SendStatus
    <3>2. Reported(Chunks \ bitmap[inode[s]]) = {}
      BY <2>3, <3>1 DEF Announces, Status
    <3>. QED
      BY <2>2, <3>1, <3>2
  <2>. QED
    BY <1>13, <2>1, <2>3 DEF SendStatus, Honest, clientVars
<1>14. ASSUME Calm, net' \subseteq net
       PROVE  Calm /\ Honest
  <2>1. UNCHANGED clientVars
    BY <1>13, <1>14 DEF SessionStep, RecvLogin, CreateBitmap, MapBitmap,
       MapBitmapFails, RecvChunk, SkipChunk, RecvFin, RecvOutOfBounds,
       IgnoreInShutdown, PeriodicStatus, SessionError, SendStatus
  <2>. QED
    BY <1>14, <2>1, SilentHonest
<1>. QED
  BY <1>2, <1>3, <1>4, <1>5, <1>6, <1>7, <1>8, <1>9, <1>10, <1>11, <1>12, <1>13,
     <1>14 DEF SessionStep

\* Writing comes first: the chunk counts as written when its bit is set, even
\* if another session has changed the same byte of the bitmap meanwhile.
LEMMA WriteStep ==
    ASSUME UploadInv, TypeOK', NEW s \in Sessions, WriteChunk(s)
    PROVE  UploadInv' /\ Written' = Written \cup {chunk[s].index}
<1>1. TypeOK
  BY DEF UploadInv
<1>2. /\ chunk[s].index \in Chunks
      /\ chunk[s].data \in {"data", "junk"}
      /\ inode[s] \in Sessions
  BY <1>1 DEF WriteChunk, TypeOK, SessionTypeOK, SessionStateOK, Live
<1>3. Written' = Written \cup {chunk[s].index}
  BY <1>1, <1>2 DEF WriteChunk, Written, TypeOK, DiskTypeOK, EmptyChunk
<1>4. ReceivedIsWritten'
  <2>1. \A t \in Sessions : bitmap'[t] \subseteq Written'
    BY <1>3 DEF WriteChunk, UploadInv, ReceivedIsWritten
  <2>2. \A t \in Sessions : byte'[t] \subseteq Written'
    BY <1>1, <1>2, <1>3
       DEF WriteChunk, UploadInv, ReceivedIsWritten, TypeOK, SessionTypeOK
  <2>. QED
    BY <2>1, <2>2 DEF ReceivedIsWritten
<1>5. \A t \in Sessions : st'[t] = "Marking" => chunk'[t].index \in Written'
  BY <1>1, <1>3 DEF WriteChunk, UploadInv, TypeOK, SessionTypeOK
<1>6. Written = Chunks => Written' = Chunks
  BY <1>2, <1>3
<1>7. \A m \in net' : Announces(m) => Written' = Chunks
  BY <1>6 DEF WriteChunk, UploadInv
<1>8. DoneIsWritten'
  BY <1>6 DEF WriteChunk, UploadInv, DoneIsWritten, clientVars
<1>. QED
  BY <1>3, <1>4, <1>5, <1>7, <1>8 DEF UploadInv, Announces

\* Storing the byte, with or without the panic that may follow, marks only
\* what is written.
LEMMA MarkStep ==
    ASSUME UploadInv, TypeOK', NEW s \in Sessions,
           MarkChunk(s) \/ MarkChunkUnderflow(s)
    PROVE  UploadInv' /\ Written' = Written
<1>1. TypeOK
  BY DEF UploadInv
<1>2. st[s] = "Marking" /\ inode[s] \in Sessions
  BY <1>1, StoredBitsType DEF MarkChunk, MarkChunkUnderflow
<1>3. /\ bitmap' = [bitmap EXCEPT ![inode[s]] = StoredBits(s)]
      /\ UNCHANGED <<clientVars, file, appended, net>>
  BY DEF MarkChunk, MarkChunkUnderflow
<1>4. /\ \A t \in Sessions : byte'[t] \subseteq byte[t]
      /\ \A t \in Sessions :
            st'[t] = "Marking" => st[t] = "Marking" /\ chunk'[t] = chunk[t]
  <2>1. CASE MarkChunk(s)
    BY <1>1, <2>1 DEF MarkChunk, TypeOK, SessionTypeOK
  <2>2. CASE MarkChunkUnderflow(s)
    BY <1>1, <2>2 DEF MarkChunkUnderflow, Close, TypeOK, SessionTypeOK
  <2>. QED
    BY <2>1, <2>2
<1>5. Written' = Written
  BY <1>3 DEF Written
<1>6. StoredBits(s) \subseteq Written
  BY <1>2 DEF StoredBits, UploadInv, ReceivedIsWritten
<1>7. ReceivedIsWritten'
  BY <1>1, <1>3, <1>4, <1>5, <1>6
     DEF UploadInv, ReceivedIsWritten, TypeOK, DiskTypeOK
<1>8. \A t \in Sessions : st'[t] = "Marking" => chunk'[t].index \in Written'
  BY <1>4, <1>5 DEF UploadInv
<1>9. \A m \in net' : Announces(m) => Written' = Chunks
  BY <1>3, <1>5 DEF UploadInv
<1>10. DoneIsWritten'
  BY <1>3, <1>5 DEF UploadInv, DoneIsWritten, clientVars
<1>. QED
  BY <1>5, <1>7, <1>8, <1>9, <1>10 DEF UploadInv, Announces

\* The server process as a whole, and the network.
LEMMA RestHonest ==
    ASSUME UploadInv,
           \/ ServerCrash
           \/ \E m \in net : LateChunk(m) \/ Lose(m)
           \/ UNCHANGED vars
    PROVE  Calm /\ Honest
<1>1. CASE ServerCrash
  <2>1. Calm
    BY <1>1 DEF ServerCrash, Calm, Live, diskVars
  <2>. QED
    BY <1>1, <2>1, SilentHonest DEF ServerCrash
<1>2. ASSUME NEW m \in net, LateChunk(m)
      PROVE  Calm /\ Honest
  BY <1>2, DeliverLemma, SilentHonest DEF LateChunk, Calm, sessionVars, diskVars
<1>3. ASSUME NEW m \in net, Lose(m)
      PROVE  Calm /\ Honest
  BY <1>3, SilentHonest DEF Lose, Calm, sessionVars, diskVars
<1>4. CASE UNCHANGED vars
  BY <1>4, SilentHonest DEF vars, Calm, sessionVars, diskVars
<1>. QED
  BY <1>1, <1>2, <1>3, <1>4

LEMMA UploadInvStep == UploadInv /\ [Next]_vars => UploadInv'
<1>. SUFFICES ASSUME UploadInv, [Next]_vars PROVE UploadInv'
  OBVIOUS
<1>1. TypeOK'
  BY TypeStep DEF UploadInv
<1>2. ASSUME NEW f \in Flows, ClientStep(f)
      PROVE  UploadInv'
  BY <1>1, <1>2, ClientHonest, CalmStep
<1>3. ASSUME NEW s \in Sessions, SessionStep(s)
      PROVE  UploadInv'
  BY <1>1, <1>3, SessionHonest, CalmStep, WriteStep, MarkStep
<1>4. CASE \/ ServerCrash
           \/ \E m \in net : LateChunk(m) \/ Lose(m)
           \/ UNCHANGED vars
  BY <1>1, <1>4, RestHonest, CalmStep
<1>. QED
  BY <1>2, <1>3, <1>4 DEF Next

\* UploadInv holds in every reachable state.
THEOREM UploadInvariant == Spec => []UploadInv
<1>1. Init => UploadInv
  BY UploadInvInit
<1>2. UploadInv /\ [Next]_vars => UploadInv'
  BY UploadInvStep
<1>. QED
  BY <1>1, <1>2, PTL DEF Spec

\* A bit in a bitmap on disk stands for a written chunk, whatever crashes, is
\* lost, is delivered twice or runs at the same time.
THEOREM ReceivedIsWrittenAlways == Spec => []ReceivedIsWritten
<1>1. UploadInv => ReceivedIsWritten
  BY DEF UploadInv
<1>. QED
  BY <1>1, UploadInvariant, PTL

\* A client that exits successfully has had every chunk written.
THEOREM DoneIsWrittenAlways == Spec => []DoneIsWritten
<1>1. UploadInv => DoneIsWritten
  BY DEF UploadInv
<1>. QED
  BY <1>1, UploadInvariant, PTL

-----------------------------------------------------------------------------
(***************************************************************************)
(* What removes the bitmap.                                                *)
(***************************************************************************)

\* Only FIN removes the bitmap.
LEMMA RemovedByFin ==
    ASSUME TypeOK, [Next]_vars, path # None, path' = None
    PROVE  \E s \in Sessions : \E m \in net : RecvFin(s, m)
<1>1. ASSUME NEW f \in Flows, ClientStep(f)
      PROVE  path' = path
  BY <1>1 DEF ClientStep, StartClient, ChunkSent, StatusEmpty,
     StatusWhileSending, StatusWhileSleeping, ClientCrash, diskVars
<1>2. ASSUME NEW s \in Sessions, SessionStep(s)
      PROVE  path' = path \/ \E m \in net : RecvFin(s, m)
  BY <1>2 DEF SessionStep, CreateBitmap, MapBitmap, MapBitmapFails, WriteChunk,
     MarkChunk, MarkChunkUnderflow, PeriodicStatus, SendStatus, SessionError,
     RecvLogin, RecvChunk, SkipChunk, RecvOutOfBounds, IgnoreInShutdown, diskVars
<1>3. CASE \/ ServerCrash
           \/ \E m \in net : LateChunk(m) \/ Lose(m)
           \/ UNCHANGED vars
  BY <1>3 DEF ServerCrash, LateChunk, Lose, vars, diskVars
<1>. QED
  BY <1>1, <1>2, <1>3 DEF Next

\* Unless a Login happens to read as FIN, the record of a file's upload only
\* disappears from disk when every chunk of the file has been written.
THEOREM RemovedIsWrittenAlways ==
    ASSUME LoginIndex # NumChunks
    PROVE  Spec => RemovedIsWritten
<1>1. ASSUME UploadInv, [Next]_vars
      PROVE  [path # None /\ path' = None => Written = Chunks]_vars
  <2>. SUFFICES ASSUME path # None, path' = None
                PROVE  Written = Chunks
    OBVIOUS
  <2>1. PICK s \in Sessions, m \in net : RecvFin(s, m)
    BY <1>1, RemovedByFin DEF UploadInv
  <2>2. m.type = "chunk" /\ m.index = NumChunks
    BY <2>1 DEF RecvFin, Reads, Index
  <2>. QED
    BY <1>1, <2>2 DEF UploadInv, Announces
<1>. QED
  BY <1>1, UploadInvariant, PTL DEF Spec, RemovedIsWritten

-----------------------------------------------------------------------------
(***************************************************************************)
(* The set-up of a session.  upload_request asks whether the bitmap is     *)
(* there, opens it, gives it a length if it was not there, and maps it;    *)
(* other sessions run in between.                                          *)
(***************************************************************************)

\* The listener is in the handle_client of session s.
Opening(s) == st[s] \in {"checked", "created"}

\* The listener sets up one session at a time.
OneOpening ==
    \A s \in Sessions :
        Opening(s) => listener = "busy" /\ \A t \in Sessions : Opening(t) => t = s

\* A bitmap that exists() has found is there until every chunk is written.
FoundIsThere ==
    \A s \in Sessions :
        st[s] = "checked" /\ append[s] /\ path = None => Written = Chunks

\* The bitmap on disk was made by a session that has not given it a length
\* yet, has done so, or was cut off.
PathIsMade ==
    path # None =>
        /\ st[path] \notin {"free", "checked"}
        /\ path \notin sized => st[path] \in {"created", "closed"}
        /\ st[path] = "created" => inode[path] = path

\* The inductive invariant behind SetUpAgrees.
AgreedInv ==
    /\ OneOpening
    /\ FoundIsThere
    /\ PathIsMade
    /\ \A s \in Sessions :
          st[s] = "created" /\ append[s] /\ inode[s] \notin sized =>
              Written = Chunks \/ st[inode[s]] = "closed"

\* A step that sets up no session: at most it removes a bitmap that is
\* complete, or moves sessions on which are past their set-up.
Aside ==
    /\ UNCHANGED sized
    /\ listener' = listener \/ \A s \in Sessions : ~Opening(s)
    /\ path' = path \/ (path' = None /\ Written = Chunks)
    /\ \A s \in Sessions : Opening(s) => UNCHANGED <<inode[s], append[s]>>
    /\ \A s \in Sessions :
          \/ st'[s] = st[s]
          \/ st[s] \notin {"free", "checked", "created", "closed"} /\
             st'[s] \notin {"free", "checked", "created"}

\* What has been written stays written.
LEMMA WrittenGrows ==
    ASSUME TypeOK, [Next]_vars
    PROVE  Written \subseteq Written'
<1>1. ASSUME UNCHANGED <<file, appended>>
      PROVE  Written \subseteq Written'
  BY <1>1 DEF Written
<1>2. ASSUME NEW f \in Flows, ClientStep(f)
      PROVE  UNCHANGED <<file, appended>>
  BY <1>2 DEF ClientStep, StartClient, ChunkSent, StatusEmpty,
     StatusWhileSending, StatusWhileSleeping, ClientCrash, diskVars
<1>3. ASSUME NEW s \in Sessions, SessionStep(s), ~WriteChunk(s)
      PROVE  UNCHANGED <<file, appended>>
  BY <1>3 DEF SessionStep, CreateBitmap, MapBitmap, MapBitmapFails, MarkChunk,
     MarkChunkUnderflow, PeriodicStatus, SendStatus, SessionError, RecvLogin,
     RecvChunk, SkipChunk, RecvFin, RecvOutOfBounds, IgnoreInShutdown, diskVars
<1>4. ASSUME NEW s \in Sessions, WriteChunk(s)
      PROVE  Written \subseteq Written'
  <2>1. appended \subseteq appended'
    BY <1>4 DEF WriteChunk
  <2>2. \A i \in Chunks : file[i] # "hole" => file'[i] # "hole"
    BY <1>4 DEF WriteChunk, TypeOK, DiskTypeOK, SessionTypeOK
  <2>. QED
    BY <2>1, <2>2 DEF Written
<1>5. CASE \/ ServerCrash
           \/ \E m \in net : LateChunk(m) \/ Lose(m)
           \/ UNCHANGED vars
  BY <1>1, <1>5 DEF ServerCrash, LateChunk, Lose, vars, diskVars
<1>. QED
  BY <1>1, <1>2, <1>3, <1>4, <1>5 DEF Next

LEMMA AsideStep ==
    ASSUME TypeOK, AgreedInv, Aside, Written \subseteq Written'
    PROVE  AgreedInv'
<1>. USE DEF Aside
<1>1. Written = Chunks => Written' = Chunks
  BY DEF Written
<1>2. \A s \in Sessions : Opening(s)' <=> Opening(s)
  BY DEF Opening
<1>3. OneOpening'
  BY <1>2 DEF AgreedInv, OneOpening
<1>4. FoundIsThere'
  BY <1>1, <1>2 DEF AgreedInv, FoundIsThere, Opening
<1>5. PathIsMade'
  BY DEF AgreedInv, PathIsMade, Opening, TypeOK, DiskTypeOK
<1>6. ASSUME NEW s \in Sessions,
             st'[s] = "created" /\ append'[s] /\ inode'[s] \notin sized'
      PROVE  Written' = Chunks \/ st'[inode'[s]] = "closed"
  <2>1. st[s] = "created" /\ append[s] /\ inode[s] \notin sized /\ inode'[s] = inode[s]
    BY <1>6 DEF Opening
  <2>2. inode[s] \in Sessions
    BY <2>1 DEF TypeOK, SessionStateOK, Live
  <2>. QED
    BY <1>1, <2>1, <2>2 DEF AgreedInv
<1>. QED
  BY <1>3, <1>4, <1>5, <1>6 DEF AgreedInv

\* The steps that set up a session.
LEMMA AgreedOpening ==
    ASSUME TypeOK, AgreedInv, NEW s \in Sessions, Written \subseteq Written',
           \/ \E m \in net : RecvLogin(s, m)
           \/ CreateBitmap(s) \/ MapBitmap(s) \/ MapBitmapFails(s)
    PROVE  AgreedInv'
<1>. USE NoneAssumption DEF TypeOK, SessionTypeOK, DiskTypeOK
<1>1. Written = Chunks => Written' = Chunks
  BY DEF Written
<1>2. CASE \E m \in net : RecvLogin(s, m)
  <2>1. /\ listener = "ready" /\ listener' = "busy" /\ st[s] = "free"
        /\ st' = [st EXCEPT ![s] = "checked"] /\ append' = [append EXCEPT ![s] = path # None]
        /\ UNCHANGED <<inode, path, sized>>
    BY <1>2 DEF RecvLogin, diskVars
  <2>2. \A t \in Sessions : Opening(t)' <=> t = s
    BY <2>1 DEF AgreedInv, OneOpening, Opening
  <2>3. OneOpening' /\ FoundIsThere'
    BY <2>1, <2>2 DEF OneOpening, FoundIsThere, Opening
  <2>4. PathIsMade'
    BY <2>1 DEF AgreedInv, PathIsMade
  <2>. QED
    BY <2>1, <2>2, <2>3, <2>4 DEF AgreedInv, Opening
<1>3. Opening(s) => \A t \in Sessions \ {s} : ~Opening(t)
  BY DEF AgreedInv, OneOpening
<1>4. CASE CreateBitmap(s)
  <2>1. /\ st[s] = "checked" /\ st' = [st EXCEPT ![s] = "created"]
        /\ path' = IF path = None THEN s ELSE path
        /\ inode' = [inode EXCEPT ![s] = path']
        /\ UNCHANGED <<listener, append, sized>>
    BY <1>4 DEF CreateBitmap
  <2>2. \A t \in Sessions : Opening(t)' <=> t = s
    BY <1>3, <2>1 DEF Opening
  <2>3. OneOpening' /\ FoundIsThere'
    BY <2>1, <2>2 DEF AgreedInv, OneOpening, FoundIsThere, Opening
  <2>4. PathIsMade'
    BY <2>1 DEF AgreedInv, PathIsMade
  <2>5. append[s] /\ path' \notin sized => Written = Chunks \/ st'[path'] = "closed"
    <3>1. CASE path = None
      BY <2>1, <3>1 DEF AgreedInv, FoundIsThere
    <3>2. CASE path # None
      BY <1>3, <2>1, <3>2 DEF AgreedInv, PathIsMade, Opening
    <3>. QED
      BY <3>1, <3>2
  <2>. QED
    BY <1>1, <2>1, <2>2, <2>3, <2>4, <2>5 DEF AgreedInv, Opening
<1>5. CASE MapBitmap(s)
  <2>1. /\ st[s] = "created" /\ st' = [st EXCEPT ![s] = "WaitForChunk"]
        /\ sized' = SizedAfter(s) /\ inode[s] \in SizedAfter(s)
        /\ UNCHANGED <<inode, append, path>>
    BY <1>5 DEF MapBitmap, Mappable
  <2>2. \A t \in Sessions : ~Opening(t)'
    BY <1>3, <2>1 DEF Opening
  <2>3. PathIsMade'
    BY <2>1 DEF AgreedInv, PathIsMade, SizedAfter
  <2>. QED
    BY <2>2, <2>3 DEF AgreedInv, OneOpening, FoundIsThere, Opening
<1>6. CASE MapBitmapFails(s)
  <2>1. /\ st[s] = "created" /\ st' = [st EXCEPT ![s] = "closed"]
        /\ sized' = SizedAfter(s) /\ inode' = [inode EXCEPT ![s] = None]
        /\ UNCHANGED path
    BY <1>6 DEF MapBitmapFails, Close
  <2>2. \A t \in Sessions : ~Opening(t)'
    BY <1>3, <2>1 DEF Opening
  <2>3. PathIsMade'
    BY <2>1 DEF AgreedInv, PathIsMade, SizedAfter
  <2>. QED
    BY <2>2, <2>3 DEF AgreedInv, OneOpening, FoundIsThere, Opening
<1>. QED
  BY <1>2, <1>4, <1>5, <1>6

\* The steps of a session that is set up.
LEMMA AgreedRunning ==
    ASSUME LoginIndex # NumChunks, UploadInv, NEW s \in Sessions,
           \/ WriteChunk(s) \/ MarkChunk(s) \/ MarkChunkUnderflow(s)
           \/ PeriodicStatus(s) \/ SendStatus(s) \/ SessionError(s)
           \/ \E m \in net : \/ RecvChunk(s, m) \/ SkipChunk(s, m) \/ RecvFin(s, m)
                             \/ RecvOutOfBounds(s, m) \/ IgnoreInShutdown(s, m)
    PROVE  Aside
<1>1. TypeOK
  BY DEF UploadInv
<1>. USE <1>1 DEF TypeOK, SessionTypeOK, Aside, Opening
<1>2. CASE WriteChunk(s) \/ MarkChunk(s)
  BY <1>2 DEF WriteChunk, MarkChunk
<1>3. CASE PeriodicStatus(s) \/ SendStatus(s)
  BY <1>3 DEF PeriodicStatus, SendStatus, diskVars
<1>4. CASE MarkChunkUnderflow(s) \/ SessionError(s)
  BY <1>4 DEF MarkChunkUnderflow, SessionError, Close, diskVars
<1>5. CASE \E m \in net : RecvChunk(s, m) \/ SkipChunk(s, m) \/ IgnoreInShutdown(s, m)
  BY <1>5 DEF RecvChunk, SkipChunk, IgnoreInShutdown, Reads, diskVars, sessionVars
<1>6. CASE \E m \in net : RecvOutOfBounds(s, m)
  BY <1>6 DEF RecvOutOfBounds, Reads, Close, diskVars
<1>7. ASSUME NEW m \in net, RecvFin(s, m)
      PROVE  Aside
  <2>1. m.type = "chunk" /\ m.index = NumChunks
    BY <1>7 DEF RecvFin, Reads, Index
  <2>2. Written = Chunks
    BY <2>1 DEF UploadInv, Announces
  <2>. QED
    BY <1>7, <2>2 DEF RecvFin, Reads
<1>. QED
  BY <1>2, <1>3, <1>4, <1>5, <1>6, <1>7

LEMMA AgreedStep ==
    ASSUME LoginIndex # NumChunks, UploadInv, AgreedInv, [Next]_vars
    PROVE  AgreedInv'
<1>1. TypeOK /\ Written \subseteq Written'
  BY WrittenGrows DEF UploadInv
<1>2. ASSUME NEW f \in Flows, ClientStep(f)
      PROVE  AgreedInv'
  <2>1. UNCHANGED <<listener, sessionVars, diskVars>>
    BY <1>2 DEF ClientStep, StartClient, ChunkSent, StatusEmpty,
       StatusWhileSending, StatusWhileSleeping, ClientCrash
  <2>. QED
    BY <1>1, <2>1, AsideStep DEF Aside, sessionVars, diskVars
<1>3. ASSUME NEW s \in Sessions, SessionStep(s)
      PROVE  AgreedInv'
  BY <1>1, <1>3, AgreedOpening, AgreedRunning, AsideStep DEF SessionStep
<1>4. CASE ServerCrash
  <2>1. /\ UNCHANGED <<path, sized>>
        /\ \A t \in Sessions : st'[t] = IF Live(t) THEN "closed" ELSE st[t]
    BY <1>4 DEF ServerCrash, diskVars
  <2>2. \A t \in Sessions : ~Opening(t)'
    BY <2>1 DEF Opening, Live
  <2>3. PathIsMade'
    BY <1>1, <2>1 DEF AgreedInv, PathIsMade, Live, TypeOK, DiskTypeOK
  <2>. QED
    BY <2>2, <2>3 DEF AgreedInv, OneOpening, FoundIsThere, Opening
<1>5. CASE \E m \in net : LateChunk(m)
  <2>1. listener = "ready" /\ UNCHANGED <<sessionVars, diskVars>>
    BY <1>5 DEF LateChunk
  <2>2. \A t \in Sessions : ~Opening(t)
    BY <2>1 DEF AgreedInv, OneOpening
  <2>. QED
    BY <1>1, <2>1, <2>2, AsideStep DEF Aside, sessionVars, diskVars
<1>6. CASE UNCHANGED vars \/ \E m \in net : Lose(m)
  BY <1>1, <1>6, AsideStep DEF Aside, vars, Lose, sessionVars, diskVars
<1>. QED
  BY <1>2, <1>3, <1>4, <1>5, <1>6 DEF Next

\* Whatever happens, the set-up of a session only panics over a bitmap whose
\* maker was cut off, or when a FIN has overtaken it and every chunk has been
\* written: no half-made bitmap of a session that lives is ever used.
THEOREM SetUpAgreesAlways ==
    ASSUME LoginIndex # NumChunks
    PROVE  Spec => []SetUpAgrees
<1>1. Init => AgreedInv
  BY DEF Init, AgreedInv, OneOpening, FoundIsThere, PathIsMade, Opening
<1>2. UploadInv /\ AgreedInv /\ [Next]_vars => AgreedInv'
  BY AgreedStep
<1>3. TypeOK /\ AgreedInv => SetUpAgrees
  <2>. SUFFICES ASSUME TypeOK, AgreedInv, NEW s \in Sessions,
                       st[s] = "created", ~Mappable(s)
                PROVE  Written = Chunks \/ st[inode[s]] = "closed"
    BY DEF SetUpAgrees
  <2>1. CASE NumChunks > 0
    BY <2>1 DEF AgreedInv, Mappable, SizedAfter
  <2>2. CASE ~(NumChunks > 0)
    <3>1. Chunks = {}
      BY <2>2, NumChunksAssumption DEF Chunks
    <3>. QED
      BY <3>1 DEF Written
  <2>. QED
    BY <2>1, <2>2
<1>. QED
  BY <1>1, <1>2, <1>3, TypeCorrect, UploadInvariant, PTL DEF Spec

-----------------------------------------------------------------------------
(***************************************************************************)
(* The refinement of UploadSpec.                                           *)
(***************************************************************************)

\* The initial states map to the abstract ones.
LEMMA RefinementInit == Init => Abstract!Init
BY DEF Init, Abstract!Init, Written, Recorded, Finished

\* What the next login is told was written.
LEMMA RecordedIsWritten ==
    ASSUME UploadInv
    PROVE  Recorded \subseteq Written
BY DEF UploadInv, TypeOK, DiskTypeOK, ReceivedIsWritten, Recorded

\* A step that writes nothing and finishes no client changes the record at most.
LEMMA RecordStep ==
    ASSUME UploadInv', Written' = Written, UNCHANGED phase
    PROVE  Abstract!Record
<1>1. Recorded' \subseteq Written'
  BY DEF UploadInv, TypeOK, DiskTypeOK, ReceivedIsWritten, Recorded
<1>2. Finished' = Finished
  BY DEF Finished
<1>. QED
  BY <1>1, <1>2 DEF Abstract!Record

\* Every step maps to a step of the abstract upload, or to none.
LEMMA RefinementStep ==
    ASSUME UploadInv, UploadInv', [Next]_vars
    PROVE  [Abstract!Next]_(Abstract!vars)
<1>1. TypeOK /\ TypeOK'
  BY DEF UploadInv
<1>2. ASSUME NEW f \in Flows, ClientStep(f)
      PROVE  [Abstract!Next]_(Abstract!vars)
  <2>1. Written' = Written /\ Honest
    BY <1>1, <1>2, ClientHonest, CalmStep
  <2>2. Recorded' = Recorded
    BY <1>2 DEF ClientStep, StartClient, ChunkSent, StatusEmpty,
       StatusWhileSending, StatusWhileSleeping, ClientCrash, diskVars, Recorded
  <2>3. \A g \in Flows \ {f} : phase'[g] = phase[g]
    BY <1>1, <1>2 DEF ClientStep, StartClient, ChunkSent, DoChunk, StatusEmpty,
       StatusWhileSending, StatusWhileSleeping, ClientCrash, TypeOK, ClientTypeOK
  <2>4. phase[f] = "done" => phase'[f] = "done"
    BY <1>1, <1>2 DEF ClientStep, StartClient, ChunkSent, StatusEmpty,
       StatusWhileSending, StatusWhileSleeping, ClientCrash, Running
  <2>5. CASE phase'[f] = "done" /\ phase[f] # "done"
    <3>1. Written = Chunks
      BY <2>1, <2>5 DEF Honest
    <3>2. Finished' = Finished \cup {f}
      BY <2>3, <2>5 DEF Finished
    <3>. QED
      BY <2>1, <2>2, <3>1, <3>2 DEF Abstract!Next, Abstract!Finish
  <2>6. CASE phase'[f] = "done" <=> phase[f] = "done"
    <3>1. Finished' = Finished
      BY <2>3, <2>6 DEF Finished
    <3>. QED
      BY <2>1, <2>2, <3>1 DEF Abstract!vars
  <2>. QED
    BY <2>4, <2>5, <2>6
<1>3. ASSUME NEW s \in Sessions, SessionStep(s)
      PROVE  [Abstract!Next]_(Abstract!vars)
  <2>1. UNCHANGED phase
    BY <1>3 DEF SessionStep, CreateBitmap, MapBitmap, MapBitmapFails, WriteChunk,
       MarkChunk, MarkChunkUnderflow, PeriodicStatus, SendStatus, SessionError,
       RecvLogin, RecvChunk, SkipChunk, RecvFin, RecvOutOfBounds,
       IgnoreInShutdown, clientVars
  <2>2. CASE WriteChunk(s)
    <3>1. Written' = Written \cup {chunk[s].index} /\ chunk[s].index \in Chunks
      BY <1>1, <2>2, WriteStep DEF WriteChunk, TypeOK, SessionStateOK
    <3>2. Recorded' = Recorded /\ Finished' = Finished
      BY <2>1, <2>2 DEF WriteChunk, Recorded, Finished
    <3>. QED
      BY <3>1, <3>2 DEF Abstract!Next, Abstract!Write
  <2>3. CASE ~WriteChunk(s)
    <3>1. Written' = Written
      BY <1>1, <1>3, <2>3, SessionHonest, CalmStep, MarkStep
    <3>. QED
      BY <2>1, <3>1, RecordStep DEF Abstract!Next
  <2>. QED
    BY <2>2, <2>3
<1>4. CASE \/ ServerCrash
           \/ \E m \in net : LateChunk(m) \/ Lose(m)
           \/ UNCHANGED vars
  <2>1. Written' = Written
    BY <1>1, <1>4, RestHonest, CalmStep
  <2>2. UNCHANGED phase
    BY <1>4 DEF ServerCrash, LateChunk, Lose, vars, clientVars
  <2>. QED
    BY <2>1, <2>2, RecordStep DEF Abstract!Next
<1>. QED
  BY <1>2, <1>3, <1>4 DEF Next

\* The code's protocol, over any network and with any faults, implements the
\* abstract upload.
THEOREM Refinement == Spec => ImplementsUploadSpec
<1>1. Init => Abstract!Init
  BY RefinementInit
<1>2. UploadInv /\ UploadInv' /\ [Next]_vars => [Abstract!Next]_(Abstract!vars)
  BY RefinementStep
<1>. QED
  BY <1>1, <1>2, UploadInvariant, PTL
     DEF Spec, ImplementsUploadSpec, Abstract!Spec

=============================================================================
