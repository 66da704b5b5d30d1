------------------------------- MODULE Upload -------------------------------
(***************************************************************************)
(* The upload of one file with csync (v1): every run of the client, the    *)
(* server's listener, its sessions, the disk they share and the UDP        *)
(* network between them.                                                   *)
(*                                                                         *)
(* A flow is one run of client_once: it binds its own UDP port, so the     *)
(* server tells runs of the client apart by their address.  All runs send  *)
(* the same file, under the same hard-coded client token and path.         *)
(*                                                                         *)
(* The server runs on a thread pool.  The listener's closure and each      *)
(* session (receiver and sender joined by select) is a task; tasks         *)
(* interleave, and share the disk: the file, and the bitmap which every    *)
(* session maps into memory.  A bitmap file is identified by its inode,    *)
(* named here after the session that created it.                           *)
(***************************************************************************)
EXTENDS Integers, FiniteSets

CONSTANTS
    NumChunks,      \* chunk_info.num_chunks
    LastChunkSize,  \* chunk_info.last_chunk_size
    Flows,          \* the runs of the client
    Sessions,       \* the runs of handle_client
    None,           \* no flow, no inode: bitmap_path does not exist
    MaxRanges,      \* missing ranges that fit into one status datagram
    MaxQueue,       \* bound on the UploadStatus messages queued in a session
    LoginIndex,     \* the chunk index Chunk::decode reads out of a Login
    Duplicable,     \* types of message the network may deliver twice
    Faults          \* what may go wrong, see FaultKinds

MsgTypes == {"login", "chunk", "status"}

FaultKinds ==
    {"lose",         \* the network drops a datagram
     "timeout",      \* a TimeoutStream of a session fires
     "refused",      \* a status sent to a closed port comes back as an error
     "clientCrash",  \* a client is killed
     "serverCrash",  \* the server process dies and is started again
     "earlyRestart", \* a client is started while an old session still runs
     "overlap"}      \* a client is started while another one still runs

ASSUME NumChunksAssumption == NumChunks \in Nat
ASSUME LastChunkSizeAssumption == LastChunkSize \in Nat
ASSUME NoneAssumption == None \notin Sessions \cup Flows
ASSUME MaxRangesAssumption == MaxRanges \in Nat \ {0}
ASSUME MaxQueueAssumption == MaxQueue \in Nat \ {0}
ASSUME LoginIndexAssumption == LoginIndex \in Nat
ASSUME DuplicableAssumption == Duplicable \subseteq MsgTypes
ASSUME FaultsAssumption == Faults \subseteq FaultKinds

Chunks == 0 .. NumChunks - 1
NoChunk == -1

VARIABLES
    phase,      \* the client: "idle", "sleeping", "sending", "done", "dead"
    missing,    \* the client: MissingRanges::missing, as the set of its chunks
    cursor,     \* the client: MissingRanges::cursor
    sending,    \* the client: the chunk of the chunk_send future
    listener,   \* the listener task, see ListenerStates
    st,         \* the session: how far it is, see SessionStates
    flow,       \* the session: the client its sockets are connected to
    inode,      \* the session: the bitmap it has mapped
    append,     \* the session: the file was opened with append(true)
    zeroes,     \* the session: BitMap::zeroes, the cached count of zero bits
    chunk,      \* the session: the chunk being written
    byte,       \* the session: the bits BitMap::set has loaded
    tx,         \* the session: UploadStatus messages queued for the Sender
    packets,    \* the session: chunks ipt_packet has seen, at most 2
    file,       \* the disk: what is stored at each chunk's position
    tail,       \* the disk: chunks stored behind the end of the file
    appended,   \* history: chunks that were ever written by appending
    bitmap,     \* the disk: the bits set in each bitmap inode
    sized,      \* the disk: the bitmap inodes that have been given a length
    path,       \* the disk: the inode bitmap_path names
    net         \* the datagrams in flight

clientVars == <<phase, missing, cursor, sending>>
sessionVars == <<st, flow, inode, append, zeroes, chunk, byte, tx, packets>>
diskVars == <<file, tail, appended, bitmap, sized, path>>
vars == <<clientVars, listener, sessionVars, diskVars, net>>

ListenerStates ==
    {"ready",         \* waiting for a datagram
     "busy",          \* in the handle_client of a new session
     "down"}          \* panicked: nobody accepts a login any more

SessionStates ==
    {"free",          \* not started
     "checked",       \* upload_request has evaluated bitmap_path.exists()
     "created",       \* the bitmap file is open, not sized or mapped yet
     "WaitForChunk",
     "WritingChunk",
     "Marking",       \* the chunk is written, BitMap::set has loaded the byte
     "Shutdown",
     "closed"}        \* the task has ended

LoginMsg == [type : {"login"}, flow : Flows]
ChunkMsg == [type : {"chunk"}, flow : Flows, index : 0 .. NumChunks]
StatusMsg == [type : {"status"}, flow : Flows, missing : SUBSET Chunks]
Messages == LoginMsg \cup ChunkMsg \cup StatusMsg

Login(f) == [type |-> "login", flow |-> f]
Chunk(f, i) == [type |-> "chunk", flow |-> f, index |-> i]
\* Mutant of Fin: the index one past the extension message.
FinOffByOne(f) == Chunk(f, NumChunks + 1)

Fin(f) == Chunk(f, NumChunks)
Status(f, M) == [type |-> "status", flow |-> f, missing |-> M]

\* The session's connected sockets exist, and take its flow's datagrams.
Live(s) == st[s] \notin {"free", "closed"}

\* Chunk::decode takes the index from the first bytes of whatever arrives.
Index(m) == IF m.type = "login" THEN LoginIndex ELSE m.index
Payload(m) == IF m.type = "login" THEN "junk" ELSE "data"

\* The client reads last_chunk_size bytes for the last chunk.
EmptyChunk(i) == i = NumChunks - 1 /\ LastChunkSize = 0

\* The client's socket is open.
Running(f) == phase[f] \in {"sending", "sleeping"}

\* What is in flight to a client is discarded when its socket closes.
StatusesTo(f) == {m \in net : m.type = "status" /\ m.flow = f}

\* A datagram is delivered, and sent ones join the network.
Deliver(m, sent) ==
    \/ net' = (net \ {m}) \cup sent
    \/ m.type \in Duplicable /\ net' = net \cup sent

(***************************************************************************)
(* A status datagram carries the run-length encoded bitmap, truncated to   *)
(* whole numbers that fit: the client reads the first MaxRanges ranges of  *)
(* missing chunks out of it (module StatusUpdate checks this).             *)
(***************************************************************************)
RangeStarts(M) == {i \in M : i - 1 \notin M}
\* Mutant of Reported: the last range that fits is dropped.
ReportedOneShort(M) ==
    {i \in M : Cardinality({j \in RangeStarts(M) : j <= i}) < MaxRanges}

Reported(M) ==
    {i \in M : Cardinality({j \in RangeStarts(M) : j <= i}) <= MaxRanges}

IsPowerOfTwo(n) == \E k \in 0 .. n : n = 2 ^ k

-----------------------------------------------------------------------------
Init ==
    /\ phase = [f \in Flows |-> "idle"]
    /\ missing = [f \in Flows |-> {}]
    /\ cursor = [f \in Flows |-> 0]
    /\ sending = [f \in Flows |-> NoChunk]
    /\ listener = "ready"
    /\ st = [s \in Sessions |-> "free"]
    /\ flow = [s \in Sessions |-> None]
    /\ inode = [s \in Sessions |-> None]
    /\ append = [s \in Sessions |-> FALSE]
    /\ zeroes = [s \in Sessions |-> 0]
    /\ chunk = [s \in Sessions |-> [index |-> NoChunk, data |-> "data"]]
    /\ byte = [s \in Sessions |-> {}]
    /\ tx = [s \in Sessions |-> 0]
    /\ packets = [s \in Sessions |-> 0]
    /\ file = [i \in Chunks |-> "hole"]
    /\ tail = {}
    /\ appended = {}
    /\ bitmap = [s \in Sessions |-> {}]
    /\ sized = {}
    /\ path = None
    /\ net = {}

-----------------------------------------------------------------------------
(***************************************************************************)
(* The client.                                                             *)
(***************************************************************************)

\* No session runs or is about to: the old connection is over.
NoConnection ==
    /\ \A s \in Sessions : ~Live(s)
    /\ \A m \in net : m.type # "login"

\* client_once sends the Login.  MissingRanges is empty, so the first
\* do_chunk finds nothing to send and the client waits for a status.
StartClient(f) ==
    /\ phase[f] = "idle"
    /\ \/ "overlap" \in Faults
       \/ "earlyRestart" \in Faults /\ \A g \in Flows : ~Running(g)
       \/ NoConnection
    /\ phase' = [phase EXCEPT ![f] = "sleeping"]
    /\ net' = net \cup {Login(f)}
    /\ UNCHANGED <<missing, cursor, sending, listener, sessionVars, diskVars>>

IsNextChunk(M, c, i) ==
    /\ i \in M /\ i >= c
    /\ \A j \in M : j >= c => i <= j

\* do_chunk: take the next missing chunk, or go to sleep.
DoChunk(f, M, c) ==
    \/ \E i \in M :
        /\ IsNextChunk(M, c, i)
        /\ phase' = [phase EXCEPT ![f] = "sending"]
        /\ sending' = [sending EXCEPT ![f] = i]
        /\ cursor' = [cursor EXCEPT ![f] = i + 1]
    \/ /\ \A i \in M : i < c
       /\ phase' = [phase EXCEPT ![f] = "sleeping"]
       /\ sending' = [sending EXCEPT ![f] = NoChunk]
       /\ cursor' = [cursor EXCEPT ![f] = c]

\* The chunk_send future is done: go send another.
ChunkSent(f) ==
    /\ phase[f] = "sending"
    /\ net' = net \cup {Chunk(f, sending[f])}
    /\ DoChunk(f, missing[f], cursor[f])
    /\ UNCHANGED <<missing, listener, sessionVars, diskVars>>

\* An empty status ends the loop: the client sends FIN and exits.
StatusEmpty(f, m) ==
    /\ Running(f)
    /\ m \in net /\ m.type = "status" /\ m.flow = f /\ m.missing = {}
    /\ net' = (net \ StatusesTo(f)) \cup {Fin(f)}
    /\ phase' = [phase EXCEPT ![f] = "done"]
    /\ missing' = [missing EXCEPT ![f] = {}]
    /\ cursor' = [cursor EXCEPT ![f] = 0]
    /\ sending' = [sending EXCEPT ![f] = NoChunk]
    /\ UNCHANGED <<listener, sessionVars, diskVars>>

\* A status while sending: the future in progress is kept.
StatusWhileSending(f, m) ==
    /\ phase[f] = "sending"
    /\ m \in net /\ m.type = "status" /\ m.flow = f /\ m.missing # {}
    /\ Deliver(m, {})
    /\ missing' = [missing EXCEPT ![f] = m.missing]
    /\ cursor' = [cursor EXCEPT ![f] = 0]
    /\ UNCHANGED <<phase, sending, listener, sessionVars, diskVars>>

\* Mutant of StatusWhileSleeping: the update is parsed, do_chunk not called.
StatusWhileSleepingStays(f, m) ==
    /\ phase[f] = "sleeping"
    /\ m \in net /\ m.type = "status" /\ m.flow = f /\ m.missing # {}
    /\ Deliver(m, {})
    /\ missing' = [missing EXCEPT ![f] = m.missing]
    /\ UNCHANGED <<phase, cursor, sending, listener, sessionVars, diskVars>>

\* A status while sleeping: start sending again.
StatusWhileSleeping(f, m) ==
    /\ phase[f] = "sleeping"
    /\ m \in net /\ m.type = "status" /\ m.flow = f /\ m.missing # {}
    /\ Deliver(m, {})
    /\ missing' = [missing EXCEPT ![f] = m.missing]
    /\ DoChunk(f, m.missing, 0)
    /\ UNCHANGED <<listener, sessionVars, diskVars>>

\* The user kills the client; running it again is another flow.
ClientCrash(f) ==
    /\ "clientCrash" \in Faults
    /\ Running(f)
    /\ net' = net \ StatusesTo(f)
    /\ phase' = [phase EXCEPT ![f] = "dead"]
    /\ missing' = [missing EXCEPT ![f] = {}]
    /\ cursor' = [cursor EXCEPT ![f] = 0]
    /\ sending' = [sending EXCEPT ![f] = NoChunk]
    /\ UNCHANGED <<listener, sessionVars, diskVars>>

-----------------------------------------------------------------------------
(***************************************************************************)
(* The listener.  handle_client runs inside the listener's closure, up to  *)
(* the end of Receiver::new; its file system calls interleave with those   *)
(* of the running sessions.                                                *)
(***************************************************************************)

\* Mutant of RecvLogin: handle_client is spawned, so that the listener does
\* not wait for its end.
RecvLoginSpawned(s, m) ==
    /\ listener # "down"
    /\ st[s] = "free"
    /\ m \in net /\ m.type = "login"
    /\ Deliver(m, {})
    /\ listener' = "busy"
    /\ st' = [st EXCEPT ![s] = "checked"]
    /\ flow' = [flow EXCEPT ![s] = m.flow]
    /\ append' = [append EXCEPT ![s] = path # None]
    /\ UNCHANGED <<clientVars, inode, zeroes, chunk, byte, tx, packets, diskVars>>

\* A Login reaches the listener (also a second copy that was queued at the
\* listener's socket before the session's own was connected).
RecvLogin(s, m) ==
    /\ listener = "ready"
    /\ st[s] = "free"
    /\ m \in net /\ m.type = "login"
    /\ Deliver(m, {})
    /\ listener' = "busy"
    /\ st' = [st EXCEPT ![s] = "checked"]
    /\ flow' = [flow EXCEPT ![s] = m.flow]
    /\ append' = [append EXCEPT ![s] = path # None]
    /\ UNCHANGED <<clientVars, inode, zeroes, chunk, byte, tx, packets, diskVars>>

\* OpenOptions::create opens the file bitmap_path names now, or makes one.
CreateBitmap(s) ==
    /\ st[s] = "checked"
    /\ path' = IF path = None THEN s ELSE path
    /\ inode' = [inode EXCEPT ![s] = path']
    /\ st' = [st EXCEPT ![s] = "created"]
    /\ UNCHANGED <<clientVars, listener, flow, append, zeroes, chunk, byte, tx,
                   packets, file, tail, appended, bitmap, sized, net>>

\* set_len gives a new bitmap its length; mapping a file without one fails.
SizedAfter(s) == IF append[s] THEN sized ELSE sized \cup {inode[s]}
Mappable(s) == inode[s] \in SizedAfter(s) /\ NumChunks > 0

\* Mutant of MapBitmap: zeroes starts as the number of bits, as if every
\* bitmap were new.
MapBitmapUncounted(s) ==
    /\ st[s] = "created"
    /\ Mappable(s)
    /\ sized' = SizedAfter(s)
    /\ zeroes' = [zeroes EXCEPT ![s] = NumChunks]
    /\ tail' = {}
    /\ tx' = [tx EXCEPT ![s] = 1]
    /\ st' = [st EXCEPT ![s] = "WaitForChunk"]
    /\ listener' = "ready"
    /\ UNCHANGED <<clientVars, flow, inode, append, chunk, byte, packets, file,
                   appended, bitmap, path, net>>

\* The rest of upload_request and of Receiver::new: count the zeroes, cut
\* the file to its length, queue the first status.
MapBitmap(s) ==
    /\ st[s] = "created"
    /\ Mappable(s)
    /\ sized' = SizedAfter(s)
    /\ zeroes' = [zeroes EXCEPT ![s] = Cardinality(Chunks \ bitmap[inode[s]])]
    /\ tail' = {}
    /\ tx' = [tx EXCEPT ![s] = 1]
    /\ st' = [st EXCEPT ![s] = "WaitForChunk"]
    /\ listener' = "ready"
    /\ UNCHANGED <<clientVars, flow, inode, append, chunk, byte, packets, file,
                   appended, bitmap, path, net>>

\* Everything a session held is dropped with its task.
Close(s) ==
    /\ st' = [st EXCEPT ![s] = "closed"]
    /\ append' = [append EXCEPT ![s] = FALSE]
    /\ zeroes' = [zeroes EXCEPT ![s] = 0]
    /\ chunk' = [chunk EXCEPT ![s] = [index |-> NoChunk, data |-> "data"]]
    /\ byte' = [byte EXCEPT ![s] = {}]
    /\ tx' = [tx EXCEPT ![s] = 0]
    /\ packets' = [packets EXCEPT ![s] = 0]
    /\ flow' = [flow EXCEPT ![s] = None]
    /\ inode' = [inode EXCEPT ![s] = None]

\* map_mut(..).unwrap() panics inside the listener's closure.
MapBitmapFails(s) ==
    /\ st[s] = "created"
    /\ ~Mappable(s)
    /\ sized' = SizedAfter(s)
    /\ Close(s)
    /\ listener' = "down"
    /\ UNCHANGED <<clientVars, file, tail, appended, bitmap, path, net>>

\* A chunk whose session has ended goes to the listener and is decoded as
\* a Login: depending on its bytes that is an error or a panic.  (Bytes that
\* spell a Login would begin an upload of the file they name; other files are
\* not modelled.)
LateChunk(m) ==
    /\ listener = "ready"
    /\ m \in net /\ m.type = "chunk"
    /\ \A s \in Sessions : Live(s) => flow[s] # m.flow
    /\ Deliver(m, {})
    /\ listener' \in {"ready", "down"}
    /\ UNCHANGED <<clientVars, sessionVars, diskVars>>

-----------------------------------------------------------------------------
(***************************************************************************)
(* A session: the Receiver.                                                *)
(***************************************************************************)

\* The datagram m is the next one the session's Receiver reads.
Reads(s, m) ==
    /\ st[s] = "WaitForChunk"
    /\ m \in net /\ m.type \in {"login", "chunk"} /\ m.flow = flow[s]

\* Mutant of CountPacket: every chunk is treated as the first one.
CountPacketFirst(s) == packets' = [packets EXCEPT ![s] = 1]

\* ipt_packet only needs to know whether it has seen a chunk before.
CountPacket(s) ==
    packets' = [packets EXCEPT ![s] = IF @ = 2 THEN 2 ELSE @ + 1]

\* Mutant of RecvChunk: the bit is set when the chunk arrives.
RecvChunkMarksFirst(s, m) ==
    /\ Reads(s, m)
    /\ Index(m) \in Chunks \ bitmap[inode[s]]
    /\ Deliver(m, {})
    /\ CountPacket(s)
    /\ chunk' = [chunk EXCEPT ![s] = [index |-> Index(m), data |-> Payload(m)]]
    /\ st' = [st EXCEPT ![s] = "WritingChunk"]
    /\ bitmap' = [bitmap EXCEPT ![inode[s]] = @ \cup {Index(m)}]
    /\ UNCHANGED <<clientVars, listener, flow, inode, append, zeroes, byte, tx,
                   file, tail, appended, sized, path>>

\* Receiver::chunk for a chunk whose bit is clear: seek and start writing.
RecvChunk(s, m) ==
    /\ Reads(s, m)
    /\ Index(m) \in Chunks \ bitmap[inode[s]]
    /\ Deliver(m, {})
    /\ CountPacket(s)
    /\ chunk' = [chunk EXCEPT ![s] = [index |-> Index(m), data |-> Payload(m)]]
    /\ st' = [st EXCEPT ![s] = "WritingChunk"]
    /\ UNCHANGED <<clientVars, listener, flow, inode, append, zeroes, byte, tx,
                   diskVars>>

\* Receiver::chunk for a chunk that is marked as received: skip it.
SkipChunk(s, m) ==
    /\ Reads(s, m)
    /\ Index(m) \in Chunks \cap bitmap[inode[s]]
    /\ Deliver(m, {})
    /\ CountPacket(s)
    /\ UNCHANGED <<clientVars, listener, st, flow, inode, append, zeroes, chunk,
                   byte, tx, diskVars>>

\* The index is num_chunks: FIN.  A full bitmap is removed.
RecvFin(s, m) ==
    /\ Reads(s, m)
    /\ Index(m) = NumChunks
    /\ Deliver(m, {})
    /\ path' = IF zeroes[s] = 0 THEN None ELSE path
    /\ st' = [st EXCEPT ![s] = "Shutdown"]
    /\ UNCHANGED <<clientVars, listener, flow, inode, append, zeroes, chunk, byte,
                   tx, packets, file, tail, appended, bitmap, sized>>

\* Any larger index is out of the bitmap's bounds: BitMap::get panics.
RecvOutOfBounds(s, m) ==
    /\ Reads(s, m)
    /\ Index(m) > NumChunks
    /\ Deliver(m, {})
    /\ Close(s)
    /\ UNCHANGED <<clientVars, listener, diskVars>>

\* In Shutdown everything is read and ignored.
IgnoreInShutdown(s, m) ==
    /\ st[s] = "Shutdown"
    /\ m \in net /\ m.type \in {"login", "chunk"} /\ m.flow = flow[s]
    /\ Deliver(m, {})
    /\ UNCHANGED <<clientVars, listener, sessionVars, diskVars>>

\* Mutant of WriteChunk: the write_all future is dropped without being polled.
WriteChunkUnpolled(s) ==
    /\ st[s] = "WritingChunk"
    /\ byte' = [byte EXCEPT ![s] = bitmap[inode[s]]]
    /\ st' = [st EXCEPT ![s] = "Marking"]
    /\ UNCHANGED <<clientVars, listener, flow, inode, append, zeroes, chunk, tx,
                   packets, diskVars, net>>

\* write_all is done.  A file opened for appending takes the data at its
\* end, wherever seek went.  Then BitMap::set loads the byte with the bit.
WriteChunk(s) ==
    LET i == chunk[s].index
        empty == chunk[s].data = "data" /\ EmptyChunk(i)
    IN  /\ st[s] = "WritingChunk"
        /\ file' = IF empty \/ append[s] THEN file
                   ELSE [file EXCEPT ![i] = chunk[s].data]
        /\ tail' = IF ~empty /\ append[s] THEN tail \cup {i} ELSE tail
        /\ appended' = IF ~empty /\ append[s] THEN appended \cup {i} ELSE appended
        /\ byte' = [byte EXCEPT ![s] = bitmap[inode[s]]]
        /\ st' = [st EXCEPT ![s] = "Marking"]
        /\ UNCHANGED <<clientVars, listener, flow, inode, append, zeroes, chunk, tx,
                       packets, bitmap, sized, path, net>>

\* The bits that share a byte with bit i.
ByteOf(i) == {j \in Chunks : j \div 8 = i \div 8}

\* The bitmap after set(i, true) has stored the byte it loaded: the bits
\* another session has set in that byte since then are lost.
StoredBits(s) ==
    LET i == chunk[s].index
        b == bitmap[inode[s]]
    IN  IF i \in byte[s] THEN b
        ELSE (b \ ByteOf(i)) \cup (byte[s] \cap ByteOf(i)) \cup {i}

\* Mutant of ZeroesAfter: set does not maintain the count.
ZeroesAfterUnchanged(s) == zeroes[s]

ZeroesAfter(s) == IF chunk[s].index \in byte[s] THEN zeroes[s] ELSE zeroes[s] - 1

\* BitMap::set stores the byte and counts; a status is queued when the
\* number of zeroes is a power of two or zero.
MarkChunk(s) ==
    /\ st[s] = "Marking"
    /\ ZeroesAfter(s) >= 0
    /\ bitmap' = [bitmap EXCEPT ![inode[s]] = StoredBits(s)]
    /\ zeroes' = [zeroes EXCEPT ![s] = ZeroesAfter(s)]
    /\ IF ZeroesAfter(s) = 0 \/ IsPowerOfTwo(ZeroesAfter(s))
       THEN tx[s] < MaxQueue /\ tx' = [tx EXCEPT ![s] = @ + 1]
       ELSE tx' = tx
    /\ chunk' = [chunk EXCEPT ![s] = [index |-> NoChunk, data |-> "data"]]
    /\ byte' = [byte EXCEPT ![s] = {}]
    /\ st' = [st EXCEPT ![s] = "WaitForChunk"]
    /\ UNCHANGED <<clientVars, listener, flow, inode, append, packets, file, tail,
                   appended, sized, path, net>>

\* zeroes -= 1 below zero panics (debug build), after the byte is stored.
MarkChunkUnderflow(s) ==
    /\ st[s] = "Marking"
    /\ ZeroesAfter(s) < 0
    /\ bitmap' = [bitmap EXCEPT ![inode[s]] = StoredBits(s)]
    /\ Close(s)
    /\ UNCHANGED <<clientVars, listener, file, tail, appended, sized, path, net>>

\* Mutant of PeriodicStatus: no more updates once the bitmap is full.
PeriodicStatusWhileMissing(s) ==
    /\ st[s] \in {"WaitForChunk", "WritingChunk"}
    /\ packets[s] = 2 /\ zeroes[s] > 0
    /\ tx[s] < MaxQueue
    /\ tx' = [tx EXCEPT ![s] = @ + 1]
    /\ UNCHANGED <<clientVars, listener, st, flow, inode, append, zeroes, chunk,
                   byte, packets, diskVars, net>>

\* CongestionInfo::poll is ready: only once a second chunk has armed its
\* delay, and not after shutdown.
PeriodicStatus(s) ==
    /\ st[s] \in {"WaitForChunk", "WritingChunk"}
    /\ packets[s] = 2
    /\ tx[s] < MaxQueue
    /\ tx' = [tx EXCEPT ![s] = @ + 1]
    /\ UNCHANGED <<clientVars, listener, st, flow, inode, append, zeroes, chunk,
                   byte, packets, diskVars, net>>

(***************************************************************************)
(* A session: the Sender, and the end of the task.                         *)
(***************************************************************************)

\* Sender::start_send encodes the bitmap as it is now, poll_complete sends.
SendStatus(s) ==
    /\ Live(s) /\ tx[s] > 0
    /\ tx' = [tx EXCEPT ![s] = @ - 1]
    /\ net' = IF Running(flow[s])
              THEN net \cup {Status(flow[s], Reported(Chunks \ bitmap[inode[s]]))}
              ELSE net
    /\ UNCHANGED <<clientVars, listener, st, flow, inode, append, zeroes, chunk,
                   byte, packets, diskVars>>

\* One of the two streams ends with an error and select drops the other: a
\* TimeoutStream fires, or the socket reports that the client's is closed.
SessionError(s) ==
    /\ st[s] \in {"WaitForChunk", "WritingChunk", "Shutdown"}
    /\ \/ "timeout" \in Faults
       \/ "refused" \in Faults /\ ~Running(flow[s])
    /\ Close(s)
    /\ UNCHANGED <<clientVars, listener, diskVars, net>>

\* The process dies between any two steps; what the bitmap's mapping and
\* the file hold survives.  It is then started again.
ServerCrash ==
    /\ "serverCrash" \in Faults
    /\ st' = [s \in Sessions |-> IF Live(s) THEN "closed" ELSE st[s]]
    /\ append' = [s \in Sessions |-> FALSE]
    /\ zeroes' = [s \in Sessions |-> 0]
    /\ chunk' = [s \in Sessions |-> [index |-> NoChunk, data |-> "data"]]
    /\ byte' = [s \in Sessions |-> {}]
    /\ tx' = [s \in Sessions |-> 0]
    /\ packets' = [s \in Sessions |-> 0]
    /\ flow' = [s \in Sessions |-> None]
    /\ inode' = [s \in Sessions |-> None]
    /\ listener' = "ready"
    /\ UNCHANGED <<clientVars, diskVars, net>>

\* The network drops a datagram.
Lose(m) ==
    /\ "lose" \in Faults
    /\ m \in net
    /\ net' = net \ {m}
    /\ UNCHANGED <<clientVars, listener, sessionVars, diskVars>>

-----------------------------------------------------------------------------
ClientStep(f) ==
    \/ StartClient(f)
    \/ ChunkSent(f)
    \/ \E m \in net : \/ StatusEmpty(f, m)
                      \/ StatusWhileSending(f, m)
                      \/ StatusWhileSleeping(f, m)
    \/ ClientCrash(f)

SessionStep(s) ==
    \/ CreateBitmap(s) \/ MapBitmap(s) \/ MapBitmapFails(s)
    \/ WriteChunk(s) \/ MarkChunk(s) \/ MarkChunkUnderflow(s)
    \/ PeriodicStatus(s) \/ SendStatus(s) \/ SessionError(s)
    \/ \E m \in net : \/ RecvLogin(s, m)
                      \/ RecvChunk(s, m) \/ SkipChunk(s, m)
                      \/ RecvFin(s, m) \/ RecvOutOfBounds(s, m)
                      \/ IgnoreInShutdown(s, m)

Next ==
    \/ \E f \in Flows : ClientStep(f)
    \/ \E s \in Sessions : SessionStep(s)
    \/ ServerCrash
    \/ \E m \in net : LateChunk(m) \/ Lose(m)

Spec == Init /\ [][Next]_vars

-----------------------------------------------------------------------------
(***************************************************************************)
(* Properties.                                                             *)
(***************************************************************************)

ClientTypeOK ==
    /\ phase \in [Flows -> {"idle", "sleeping", "sending", "done", "dead"}]
    /\ missing \in [Flows -> SUBSET Chunks]
    /\ cursor \in [Flows -> 0 .. NumChunks]
    /\ sending \in [Flows -> Chunks \cup {NoChunk}]
    /\ \A f \in Flows : phase[f] = "sending" => sending[f] \in Chunks

SessionTypeOK ==
    /\ st \in [Sessions -> SessionStates]
    /\ flow \in [Sessions -> Flows \cup {None}]
    /\ inode \in [Sessions -> Sessions \cup {None}]
    /\ append \in [Sessions -> BOOLEAN]
    /\ zeroes \in [Sessions -> Nat]
    /\ chunk \in [Sessions -> [index : Chunks \cup {NoChunk}, data : {"data", "junk"}]]
    /\ byte \in [Sessions -> SUBSET Chunks]
    /\ tx \in [Sessions -> 0 .. MaxQueue]
    /\ packets \in [Sessions -> 0 .. 2]

\* A session has what its state needs: a client from the login on, a bitmap
\* once it has opened one, a chunk while it is writing one.
SessionStateOK(s) ==
    /\ Live(s) => flow[s] \in Flows
    /\ Live(s) /\ st[s] # "checked" => inode[s] \in Sessions
    /\ st[s] \in {"WritingChunk", "Marking"} => chunk[s].index \in Chunks
    /\ st[s] \in {"free", "checked", "created"} => tx[s] = 0

DiskTypeOK ==
    /\ file \in [Chunks -> {"hole", "data", "junk"}]
    /\ tail \subseteq Chunks
    /\ appended \subseteq Chunks
    /\ bitmap \in [Sessions -> SUBSET Chunks]
    /\ sized \subseteq Sessions
    /\ path \in Sessions \cup {None}

\* Every variable has its type, every session what its state needs.
TypeOK ==
    /\ ClientTypeOK
    /\ listener \in ListenerStates
    /\ SessionTypeOK
    /\ \A s \in Sessions : SessionStateOK(s)
    /\ DiskTypeOK
    /\ net \subseteq Messages

\* The chunks some session has written out, wherever the data went.
Written == {i \in Chunks : file[i] # "hole" \/ i \in appended \/ EmptyChunk(i)}

\* A bit set in a bitmap, or loaded by a session that is about to store it,
\* stands for a chunk that was written before: the order of WriteChunk and
\* MarkChunk survives crashes, duplicates and sessions that share a bitmap.
ReceivedIsWritten ==
    \A s \in Sessions : bitmap[s] \subseteq Written /\ byte[s] \subseteq Written

\* A client only exits successfully after every chunk has been written: no
\* stale, truncated or reordered status makes it leave early.
DoneIsWritten ==
    \A f \in Flows : phase[f] = "done" => Written = Chunks

\* A datagram that says the upload is over: an empty status, or FIN.
Announces(m) ==
    \/ m.type = "status" /\ m.missing = {}
    \/ m.type = "chunk" /\ m.index = NumChunks

\* The inductive invariant behind DoneIsWritten: what is marked, or about to
\* be, is written; what is announced is true whenever it arrives.
UploadInv ==
    /\ TypeOK
    /\ ReceivedIsWritten
    /\ \A s \in Sessions : st[s] = "Marking" => chunk[s].index \in Written
    /\ \A m \in net : Announces(m) => Written = Chunks
    /\ DoneIsWritten

\* A chunk marked as received is at its own position in the file.
ReceivedInPlace ==
    \A s \in Sessions : \A i \in bitmap[s] : file[i] = "data" \/ EmptyChunk(i)

\* When a client has finished, the server's file is the client's file.
DoneIsComplete ==
    (\E f \in Flows : phase[f] = "done") =>
        tail = {} /\ \A i \in Chunks : file[i] = "data"

\* The count of zeroes a session has cached is that of the bitmap it shares
\* with the disk.
ZeroesExact ==
    \A s \in Sessions :
        st[s] \in {"WaitForChunk", "WritingChunk", "Marking"} =>
            zeroes[s] = Cardinality(Chunks \ bitmap[inode[s]])

\* Receiver::poll logs an error when FIN arrives and the bitmap is not full
\* ("???"): its author takes the case for impossible.
FinFindsBitmapFull ==
    [][\A s \in Sessions :
         st[s] = "WaitForChunk" /\ st'[s] = "Shutdown" => zeroes[s] = 0]_vars

\* The bitmap on disk is only removed when every chunk has been written: the
\* next login starts the upload over only after a complete one.
RemovedIsWritten ==
    [][path # None /\ path' = None => Written = Chunks]_vars

\* A new session's bitmap file has no length, and cannot be mapped, only if
\* the session that made the file was cut off before it gave it one, or if a
\* FIN removed the file that exists() had found; then every chunk has been
\* written.  No upload is disturbed by another session that is being set up.
SetUpAgrees ==
    \A s \in Sessions :
        st[s] = "created" /\ ~Mappable(s) =>
            Written = Chunks \/ st[inode[s]] = "closed"

-----------------------------------------------------------------------------
(***************************************************************************)
(* Liveness.  Tasks that can run are run by tokio, futures that are ready  *)
(* are polled and an armed delay fires: weak fairness.  Of the network it  *)
(* is assumed that it does not lose every one of infinitely many datagrams *)
(* of a kind: strong fairness.                                             *)
(***************************************************************************)
RecvStatus(f) ==
    \E m \in net : \/ StatusEmpty(f, m)
                   \/ StatusWhileSending(f, m)
                   \/ StatusWhileSleeping(f, m)

RecvNewChunk(s) == \E m \in net : RecvChunk(s, m)

RecvOther(s) ==
    \E m \in net : SkipChunk(s, m) \/ RecvFin(s, m) \/ RecvLogin(s, m)

Fairness ==
    /\ \A f \in Flows :
        /\ WF_vars(StartClient(f))
        /\ WF_vars(ChunkSent(f))
        /\ SF_vars(RecvStatus(f))
    /\ \A s \in Sessions :
        /\ WF_vars(CreateBitmap(s))
        /\ WF_vars(MapBitmap(s))
        /\ WF_vars(WriteChunk(s))
        /\ WF_vars(MarkChunk(s))
        /\ WF_vars(PeriodicStatus(s))
        /\ WF_vars(SendStatus(s))
        /\ SF_vars(RecvNewChunk(s))
        /\ WF_vars(RecvOther(s))

FairSpec == Spec /\ Fairness

\* Every client has exited, the server has the file and no bitmap any more.
Complete ==
    /\ \A f \in Flows : phase[f] = "done"
    /\ path = None
    /\ \A i \in Chunks : file[i] = "data"

\* A session that knows every chunk to be received.
KnowsAll(s, f) == st[s] = "WaitForChunk" /\ flow[s] = f /\ zeroes[s] = 0

\* A session whose second chunk has armed the periodic status updates gets
\* its client to the end, whatever single datagrams are lost.
ArmedCompletes ==
    \A f \in Flows : \A s \in Sessions :
        (flow[s] = f /\ packets[s] = 2) ~> (phase[f] = "done")

\* A session that has received every chunk gets its client to the end: if
\* the last status is lost, a periodic one takes its place.
LastStatusRepeats ==
    \A f \in Flows : \A s \in Sessions :
        KnowsAll(s, f) ~> (phase[f] = "done")

=============================================================================
