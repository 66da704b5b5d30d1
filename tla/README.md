# Verification of das-protokoll

TLA+ specifications of *Das PROTOKOLL*: a UDP protocol to upload files (v1, the
crates `csync` and `bitte-ein-bit`) and to synchronise folders (v2, `scsync`).
The modules are translated from the Rust code; the documents under `v1/` and
`v2/` are used to state what the code is supposed to do.

Contents: [inventory](#1-inventory), [plan](#2-plan),
[modules](#3-modules-and-code), [runs](#4-runs), [fairness](#5-fairness),
[proofs](#6-proofs), [findings](#7-findings), [limits](#8-limits).

## 1. Inventory

### v1: uploading files

| part | state | operations | interacts with |
|---|---|---|---|
| client (`client.rs`) | `MissingRanges` (ranges, cursor), the `chunk_send` and `update_recv` futures | login, `do_chunk`, status while sending, status while sleeping, FIN | server, over UDP |
| listener (`server/mod.rs`, `server/listener.rs`) | the unconnected socket | accept a login, `handle_client` | creates sessions; its closure runs `Receiver::new` |
| receiver (`server/receiver.rs`) | `State`, the open file, the mapped bitmap, `CongestionInfo` | `upload_request`, `chunk`, write, mark, FIN, shutdown | disk (shared with other sessions), sender (channel and mutex) |
| sender (`server/sender.rs`) | the encoded status, the bitmap | `start_send`, `poll_complete` | client |
| congestion (`server/congestion.rs`) | inter-packet times, the delay | `ipt_packet`, `poll`, `shutdown` | decides when the receiver queues a status |
| timeouts (`timeout.rs`) | `got_something`, an interval | `poll` | end a session |
| codec (`codec.rs`) | none | chunk layout, run-length encoding, missing ranges, login | client and server |
| bitmap (`bitte-ein-bit`) | bits, cached number of zeroes | `get`, `set`, `flip_bit`, `reset` | mapped from disk by the receiver |

A client sends a Login with path and length. The server maps (or resumes) a
bitmap of received chunks and answers with a status: the run-length encoded
bitmap, cut to a datagram. The client sends the chunks of the ranges it reads
out of the status, lowest first, and restarts with every new status. The server
writes a chunk to its position and then sets its bit. Statuses are sent when the
number of zeroes is a power of two or zero, and periodically. An empty status
makes the client send FIN (the chunk index `num_chunks`) and exit; on FIN the
server removes the bitmap.

What is hard: datagrams are lost, duplicated and reordered; client and server
die and the upload is resumed from the bitmap; sessions of one file run on
several threads and share bitmap and file without a lock; the listener's own
task does file system work; whoever waits has to be woken by somebody.

What makes it correct: a bit stands for a chunk on disk; a client that exits has
uploaded all of its file; an abort can be resumed; the listener survives; an
upload comes to an end; the codec loses nothing.

### v2: synchronising folders

| part | state | operations | interacts with |
|---|---|---|---|
| handler (`handler.rs`) | per peer: pending block requests, `TransferOut` (allocated chunk ids, cursor, todo), `TransferIn` (transfers, channel to the status loop) | one handler per message, `request_retry`, the status loop, the sender loop | block database; peers, over UDP |
| block database (`blockdb.rs`) | root, pending root, full and partial blocks | `add`, `try_promote`, `set_pending_root`, `apply_pending` | behind a mutex, shared by handler and status loop |
| frontend (`frontend/`) | none | folder to tree of blocks and back, `resolve`, `verify` | block database, file system |
| codec (`codec.rs`) | none | messages, ranges of a status | `send_task`, `recv_task` |
| dispatch (`main.rs`) | the socket | `send_task`, `recv_task`: known or unknown peer, then the handler | handler |

A client announces the root of its folder's tree. The server, unless it has that
root or another upload is pending, requests the root block and, as directory
blocks become full, the blocks they name. The client allocates chunk ids for a
block and says so; the server sends, after every payload, the ranges of chunk
ids it still misses, and the client sends those. When the pending tree is
complete it becomes the root and is written to the server's folder.

What is hard: requests, responses, statuses and payloads cross each other; the
tree is discovered while it is transferred; a second client, or an old
datagram, arrives at any time; handlers and tasks share two mutexes; the
handlers `unwrap` what they expect to be there.

What makes it correct: a full block holds what the client sent; the folder is
never written from an incomplete tree; no block is forgotten; one client at a
time; server and clients survive; an upload comes to an end.

Not worth modelling: option parsing and logging (`main.rs` of v1), and
`udp-multiplex-test`, an experiment with connected sockets on one port.

## 2. Plan

In order of importance; all but the last are done.

1. `Upload`: clients, listener, sessions, disk and network of v1.
2. `UploadSpec`, `UploadRefinement`: what an upload promises, and the mapping.
3. `UploadProofs`: types, the inductive invariant, safety, refinement.
4. `ChunkInfo`, `BitMap`, `StatusUpdate` and, composed of them, `Codec`: the
   codec against reference definitions; proofs of the count of zeroes.
5. `TimeoutStream` and its proofs: when a silent stream ends.
6. `Congestion` and, with two timeout streams, `Session`: the moving average,
   the periodic status, and the timers of a session; their proofs.
7. `BlockTree`, `Sync` (v2): root updates, block requests, transfers.
8. `SyncSpec`, `SyncRefinement`, `SyncProofs`: what the server promises, that it
   keeps it, and v2's safety for every tree and every network.
9. `Locks` (v2): the order in which tasks take the two mutexes.
10. `UploadSessionProofs`: what holds of v1's sessions only in part of the
    environments (`ZeroesExact`, `FinFindsBitmapFull`, a set-up that succeeds,
    `ReceivedInPlace`, `DoneIsComplete`), with that part as the hypothesis.
11. `SyncClientProofs`: the types of `Sync`, and that no client panics.
12. `CodecProofs`: the chunk layout and the status codec, for every length,
    bitmap and size of a datagram.
13. `SyncServerProofs`: the folders and networks that v2's server survives.
14. `LocksProofs`: that the deadlock found in `Locks` is the only one.
15. Left: a second file and another length of the same file in `Upload`.

## 3. Modules and code

`PROJECT.json` maps every definition to its lines.

### Upload

A *flow* is one run of `client_once` (it has its own port), a *session* one run
of `handle_client`; a bitmap file is an inode named after the session that
created it. All runs of the client send the same file. Per chunk the file holds
`"hole"`, `"data"` or `"junk"` (a login written as a chunk); `tail` are chunks
appended behind the end, `appended` is history.

| code | model |
|---|---|
| `client_once`, up to the login | `StartClient` |
| `do_chunk`, `next_chunk` | `DoChunk`, `IsNextChunk` |
| select loop: A, B, sleeping branch | `ChunkSent`, `StatusWhileSending`, `StatusWhileSleeping` |
| `Loop::Break` and FIN | `StatusEmpty` |
| `handle_client`, `bitmap_path.exists()` | `RecvLogin` |
| `open` with `create(true)` | `CreateBitmap` |
| `set_len`, `map_mut`, `with_length`, file `set_len`, first status | `MapBitmap`, `MapBitmapFails` |
| `Receiver::chunk` | `RecvChunk`, `SkipChunk`, `RecvOutOfBounds` (panic) |
| extension message 0 | `RecvFin` |
| `WritingChunk`: `write_all` | `WriteChunk` |
| `BitMap::set`, power-of-two status | `MarkChunk`, `MarkChunkUnderflow` (panic) |
| `CongestionInfo::poll` ready | `PeriodicStatus`, guarded by `packets = 2` |
| `Sender` | `SendStatus` |
| `State::Shutdown` | `IgnoreInShutdown` |
| `TimeoutStream` or a refused datagram ends `select` | `SessionError` |
| a datagram no connected socket takes | `LateChunk` |

Points that need care:

* **Grain.** A task's step is what runs between two things other tasks can
  see. Two sessions' `BitMap::set` on one mapped octet is a data race, so the
  load (in `WriteChunk`) and the store (`MarkChunk`) are separate, and the store
  writes back the octet that was loaded.
* **Network.** A set of datagrams, so the order is lost. Two identical
  datagrams in flight are one (the other is lost). `Duplicable` are the types
  that may be delivered twice. A datagram that is never delivered is lost; the
  action `Lose` matters for liveness, where it removes the datagram.
* **Closed sockets.** Statuses to a client that has exited are discarded; the
  kernel's answer to them may end the session (`"refused"`).
* **Login as chunk.** `Chunk::decode` reads the index out of any datagram. The
  first octet of a login is the length of the token `roflcopter`, 10, hence
  `LoginIndex = 10`.
* **Build.** The README builds with `cargo build`, so `zeroes -= 1` below zero
  panics.
* **Appending.** A file opened with `append(true)` takes every write at its
  end; `MapBitmap`'s `set_len` cuts that off again.
* `Faults` selects what may go wrong, so a run can say which fault breaks what.
  `"earlyRestart"` starts a client while the old session still lives,
  `"overlap"` while another client still runs; without them a client starts
  only when the old connection is over.

`UploadSpec` is the contract: written chunks stay written, the record for the
next login names only written chunks, clients finish only when all are written.
`UploadRefinement` maps `Recorded` to the bitmap that `bitmap_path` names.
`MCUpload` adds the symmetry of clients and sessions. `UploadHistory` adds the
history variable `lost`: whether a datagram was lost so far.

### The codec of v1

* `Numbers`: powers and partial sums, as recursive functions, which both TLC and
  the provers can unfold.
* `ChunkInfo`: the loop of `index_field_size`, with the radix of an octet and
  the octets of a `u64` as constants, and what client and server derive from it.
* `BitMap`: `buf` is the set of one bits of the whole buffer, padding included.
  `set` keeps the check as it is in the code, which lets `num_bits` itself pass;
  csync never calls it so, because that index is FIN.
* `StatusUpdate`: one status from a `BitMap` to sent chunks, one action per
  branch of the encoder's loop; varints are numbers with a length.
  `Upload!Reported` is the result that `SendsFirstRanges` establishes here.
* `Codec` composes the three: a length is laid out; if it has as many chunks as
  the bitmap has bits, the bitmap is filled, sent, parsed and worked off, and
  what is sent goes through the index field again.

### The timers of v1

* `TimeoutStream`: times relative to now. `Stall` is how late an expired
  interval is polled: `Receiver::poll` does not look at its socket while a chunk
  is being written, and a ready stream hides the interval.
* `Congestion`: `CongestionInfo`. `ipts` is the queue of the last packet times,
  `ipt` the incremental average with its rounding. `num_packets()` is a formula
  in floating point, x / ln(1 + x) of the rate x: the model lets it be 1, or any
  number up to `MaxPackets` with which `ipt * num_packets` is at most `Horizon`
  (in the code it is 2 or more only above about 2.5 packets a second, so these
  packets take less than a second). The delay is always at
  `last_notify + time_left`. `start_rtt` is called once and `stop_rtt` only by
  `ack`, which nothing reaches, so the RTT is zero. `shares` is history: the
  partial sums of `ipts[i] / Window`.
* `Session` joins them as `handle_client` does: the receiver's stream, whose
  items are datagrams, and the sender's, whose items are statuses, each in a
  `TimeoutStream` (the second by `INSTANCE`), and the session ends with the
  first one that does. `GapAssumption` says that two packets are at least
  `Window` time units apart, 10 ns in the code.

| code | model |
|---|---|
| `handle_client`: both streams and `select` | `SessionInit`, `Running`, `PollReceiver`, `PollSender` |
| `ipt_packet`, and the poll of the stream after it | `FirstChunk`, `LaterChunk` (`first_packet`, `later_packet`) |
| `CongestionInfo::poll`, delay over | `PeriodicStatus` (`delay_over`) |
| status after a chunk was marked | `ChunkStatus` |
| FIN, `shutdown`; datagrams after it | `FinChunk`, `InShutdown` |

### Sync

A *client* is one run of `scsync` that uploads its folder; all of them talk to
one server. A block is a value of its own (its id is the hash of data encrypted
under a random key), and chunk `i` of block `b` is the pair `<<b, i>>`, which is
also its content: a payload stored at the wrong place is visible. `BlockTree`
holds the tree: `Visited(r, full)` is what `traverse` visits from `r`, given the
blocks that are full, `verify` and `CanResolve` are what the two visitors do.

| code | model |
|---|---|
| `connect` | `connect` |
| `recv_task`, dispatch | `ServerTakes`, `ClientTakes`, `recv_ignored` |
| `unconnected_root_update` | `root_update_same`, `root_update_busy`, `root_update_accept` |
| `needs_update` | `recv_root_update_response`; it is false, see `OneUploader` |
| `send_block_request`, `request_retry` | `requests`, `request_retry` |
| `block_request` | `block_request`, `Allocation` |
| `block_request_response` | `block_request_response` |
| status loop, and the codec of its message | `send_status`, `status_loop_panics`, `encode_underflow` |
| `transfer_status`, sender loop | `transfer_status`, `send_payload`, `end_loop` |
| `transfer_payload` | `store_chunk`, `complete_block`, `complete_tree`, `payload_panics` |
| a poisoned mutex | `recv_poisoned` |

Points that need care:

* **Grain.** A handler runs with the mutexes it needs, and what it changes is
  seen by others when it returns; the model takes it as one step. That tasks
  wait for each other there is the subject of `Locks`.
* **Network.** Per client and direction a sequence of datagrams: in order
  (`Reorder = FALSE`) or not, `Losable` and `Duplicable` types. A datagram that
  finds `MaxNet` others is dropped.
* **Chunk ids** start at a random number in the code, at zero in the model:
  only their order and distance matter. As in the code a block gets as many ids
  as it has octets and uses one per chunk.
* **Queued statuses.** `ticks` counts what is queued for the status loops of a
  client, old and new: a loop whose channel was replaced works off its queue and
  ends, and what it sends does not depend on which loop it is.
* **Panics.** In `recv_task` or `send_task` they end the process's work
  (`server = "dead"`); in the status loop, which has both mutexes, they poison
  them, and the next handler panics. What happens after that is left out.
* **Timely** says that an answer to a request arrives within the second that
  `request_retry` waits. Without it a server may be answered twice.

`SyncSpec` is the contract: clients announce, one at a time is accepted, and the
folder is replaced as a whole by that client's. `SyncRefinement` maps the
accepted client to the one the server has an entry for. `MCSync` holds the
folders of the runs.

### Locks

Two tasks, `recv_task` and the status loop; a handler is the sequence of sets of
mutexes it holds, read off the scopes of the guards (a guard made in the head of
an `if let` or `for` lives to the end of the statement). Of the rest of the
state it keeps whether an upload is pending, whether it has transfers, and what
is queued.

## 4. Runs

| run | instance | shows |
|---|---|---|
| `upload_single` | 3 chunks, 1 client, 1 session; loss, every datagram may be duplicated, timeouts, crashes of both sides | `TypeOK`, `ReceivedInPlace`, `DoneIsComplete` |
| `upload_sequential` | 2 chunks, 2 clients, 2 sessions, one after the other; duplicated chunks, timeouts, crashes of both sides | `ReceivedIsWritten`, `DoneIsWritten`, `ZeroesExact`, `FinFindsBitmapFull` |
| `upload_restart` | 2 chunks, 2 clients, 2 sessions; clients are killed, the second starts while the first session lives, the server is killed at any step | `UploadInv`, `SetUpAgrees`, `RemovedIsWritten`, `ImplementsUploadSpec` |
| `upload_lossy` | 3 chunks, loss, fair | `UploadCompletes`, `ArmedCompletes`, `LastStatusRepeats` |
| `codec` | every length of an 8-bit number, MTU 11; for files of 7 chunks every bitmap that sets and resets reach, 3 octets of 3 bits, datagrams of 4, 5 and 7 octets, varints of base 4 | `ZeroesCount`, `ShiftInRange`, `IndexSurvives`, `IndexFieldMinimal`, `EmptyMeansComplete`, `SendsFirstRanges`, `TruncatesLate`, `AsksForZeroes`, `WorkedOff` |
| `session_timers` | window 2, at most 2 packets per status, period 7, polled up to 1 late, gaps of 2 to 6, fair | `TimeoutNotEarly`, `SilenceDetected`, `AverageUsable`, `AverageTracksWindow`, `StatusesKeepSession`, `FinEndsSession` |
| `sync_one_file` | 1 client, a folder with a file of 3 chunks; requests and responses are lost, fair | `TypeOK`, `FullIsFaithful`, `ServerUp`, `SyncCompletes` |
| `sync_unreliable` | 2 clients, one with a file and one with an empty folder; everything overtakes everything, responses are repeated | `SyncInv`, `FolderIsWhole`, `OneUploader`, `NothingForgotten`, `ClientsUp`, `ImplementsSyncSpec` |

Operators commented as *Mutant of* a definition are wrong versions of it, as a
plausible bug would make them. `PROJECT.json` lists one for every property of
every run: with the mutant in place of the definition TLC finds the property
violated, so no property holds by the shape of the model.

The four runs expected to find a violation are in [section 7](#7-findings).

**Bounds.** Two chunks are enough for one to be written and one missing, for
bits of one octet to race and for the count to be wrong; three make the power of
two statuses (at 2, 1 and 0 zeroes) and the second chunk that arms the periodic
ones distinct from the last. Two sessions are enough for any race of two; a
third adds no new pair of steps. `MaxRanges = 1` makes every status with two
ranges a truncated one. `MaxQueue` bounds the statuses waiting in a session: at
the bound the receiver waits, which it does not in the code, but the sender can
always go on, so no behaviour is blocked for good. The scaled constants of
`ChunkInfo` keep what matters in the code (MTU 1460, radix 256, 8 octets): the
number of chunks of the largest file fits an index field shorter than a `u64`.
Those of `StatusUpdate` keep a datagram that holds at least one range and make
varints of two lengths.

`session_timers` has a window that fills and then slides, both values of
`num_packets`, and gaps on either side of `Horizon`; the period exceeds
`Horizon` and twice the delay, as ten seconds do. `sync_one_file` has a
directory and a leaf (so a tree that grows), a block of one chunk and one of
several, and enough room (`MaxNet`, `MaxTicks`, `MaxTransfers`, `MaxLoops`) that
no bound is what stops it. `sync_unreliable` has two clients, so that one finds
the other's upload pending, finished or not begun, and `MaxTransfers = 2`, so
that a repeated response makes a second transfer of the same block, and a root
block of two chunks, so that a payload is sent twice and finds its transfer
gone: all panics of the server happen in it. `MaxLoops = 2` lets two sender
loops advance one cursor. Its small
`MaxNet` and `MaxTicks` bound what is in flight at a time, not what happens one
after the other. `Losable` is empty there since a datagram that is never
delivered is as good as lost for safety; repeated root updates, requests,
statuses and payloads are left to the theorems, which allow all of them. At
`MaxTicks`, `MaxTransfers` and `MaxLoops` a handler waits, which it does not in
the code; safety is proved for every value of them. `locks` has a queue of
two, enough for the status loop to run while `recv_task` handles the next
message.

**Deadlock** checking is off where the system may stop: all clients have exited
or died, or wait for a status that was lost (the client has no timeout), the
stream or loop that is modelled has ended, an upload is done, or a server has
panicked.

## 5. Fairness

`FairSpec` of `Upload` assumes weak fairness of what tokio runs once it can:
sending a chunk, opening and mapping the bitmap, writing, marking, sending a
status, and the periodic status once its delay is armed. Of the network it
assumes that not every one of infinitely many datagrams is lost: strong fairness
of receiving a status and of receiving a chunk that is not yet received. There
is none for crashes, timeouts or losses. `UploadHistory` adds the history variable
`lost`, so that `UploadCompletes` can speak of the behaviours in which nothing is
lost. `StartClient` is fair: somebody runs
the client. `Codec` assumes that the loops of encoder and client go on.

`FairSession` assumes that time passes and that a task is polled once a timer of
it is over. It assumes nothing of the client.

`FairSpec` of `Sync` assumes weak fairness of the tasks that wait for nobody:
`connect`, the sender loop, the status loop, and `request_retry`, whose timer
fires every second. Receiving is strongly fair: a loss may disable it, but of
requests that are repeated not all are lost. `Timely` is what one second against
the round trip of a network means. `Locks` assumes that a mutex that is free
again and again is taken at last, the most a scheduler can give; the deadlock
found there does not depend on it.

`ArmedCompletes` and `LastStatusRepeats` hold without timeouts only: the spec's
ten seconds without any packet end a session also in the code.

## 6. Proofs

All checked by TLAPS, for every value of the constants.

`UploadProofs`

* `TypeCorrect`: `Spec => []TypeOK`, action by action. `TypeOK` includes that a
  session has the bitmap, client and chunk that its state needs.
* `UploadInvariant`: `Spec => []UploadInv`. `DoneIsWritten` is not inductive: a
  client exits because of a datagram, the datagram was made from a bitmap, the
  bitmap from a chunk written earlier, possibly by a session that has crashed
  since. `UploadInv` says each link: bits in a bitmap, and in an octet that a
  session has loaded and will store, are of written chunks; so is the chunk a
  session is about to mark; a datagram in flight that announces the end (an
  empty status, FIN) is true; and written chunks stay written. The link from
  bitmap to status is the lemma `ReportedLemma`: `Reported(M)` is empty only if
  `M` is.
* `ReceivedIsWrittenAlways`, `DoneIsWrittenAlways`: its parts.
* `RemovedIsWrittenAlways`: assuming `LoginIndex # NumChunks`. Without it a
  login read as a chunk is a FIN.
* `SetUpAgreesAlways`, assuming `LoginIndex # NumChunks`: `exists()`, `open()` and
  `set_len()` of a login are separate steps, between which other sessions remove
  the bitmap and the server may be killed. `AgreedInv` says that the listener
  sets up one session at a time (`OneOpening`), that a bitmap which `exists()`
  found is only gone when every chunk is written (`FoundIsThere`, by
  `RemovedIsWritten`'s argument), and that a bitmap on disk without a length
  belongs to the session being set up or to one that was cut off (`PathIsMade`).
  So a set-up panics only after such a crash or after a complete upload.
* `Refinement`: `Spec => ImplementsUploadSpec`. Every step maps to `Write`,
  `Record`, `Finish` or a stutter.

These hold under every combination of faults, overlapping sessions included.
They say that data was *written*; that it is in its place and still there is the
subject of the last theorems of the next module.

`UploadSessionProofs`, each theorem with the part of the environment it needs as
its hypothesis; what happens outside of it is in [section 7](#7-findings)

* `ZeroesExactSequential`, `FinFindsBitmapFullSequential`, assuming `Sequential`:
  clients run one after the other and no login is delivered twice, while all
  else may crash, time out, be lost, overtaken or delivered twice. The count of
  a session is right as long as nobody else sets bits in its bitmap, which needs
  `OneConnection` (one session, or one login in flight, or neither) and
  `LoadedIsStored` (the octet `set` loaded is still the one on disk). That a FIN
  finds the bitmap full needs `AnnouncedIsMarked`: an empty status in flight to a
  session's client, and its FIN, were made from that session's own bitmap. A
  status of an older session would break this, so `QuietAtFirst` says that a
  client has received and sent nothing before its own session is set up.
* `SetUpSucceedsOrderly`, assuming `Orderly`: moreover the server does not crash
  and the file is not empty. `SetUpInv` says that outside a set-up the bitmap on
  disk has its length, and that what `exists()` said is still so at `open()`.
* `ReceivedInPlaceUnlessResumed`, `DoneIsCompleteUnlessResumed`: in every
  behaviour in which no session resumes an upload (`FirstUpload`), under any
  faults. (A login that finds a bitmap resumes, so two sessions overlap in such a
  behaviour only if the first one's bitmap has been removed.) `InPlaceInv` says
  that nothing is appended and nothing is overwritten with a login; the rest is
  `UploadInv`. The first assumes
  that a login does not read as a chunk of the file, the second also that the
  last chunk is not empty. `OneSessionIsFirst` shows that a server which has had
  one session only is such a behaviour. With a resumed session both are false
  (the run `resume_appends`).

`CodecProofs`, for every MTU, radix, width, bitmap and datagram size within the
assumptions: a chunk beside the widest index field has at least twice as many
octets as an octet has values (`MTU - (U64 - 1) >= 2 * Radix`; the code has 1460,
256 and 8), and a status has room for two numbers. Where induction is needed it
is over sets of numbers (`LeastNat`, `InductiveSet`), which the provers can
instantiate, instead of over operators; `RecursionExists` gives the recursive
functions of `Numbers` their values.

* `ZeroesExactAlways`, of `BitMap`, with the cardinality theorems of the library.
* `ShiftInRangeAlways`, `IndexFieldMinimalAlways`:
  `LayoutInv` says that `index_field_size` stays below the octets of a `u64`,
  and, for a field the loop has made larger, that the smaller one was too small
  for the chunks of its size.
* `IndexSurvivesAlways`: an index that the field can hold is the sum of its
  digits, so what `decode` shifts together is what `encode` took apart.
* `AsksForZeroesAlways`, `EmptyMeansCompleteAlways`: `StatusInv` says at every
  bit of the encoder's loop that the runs written so far tile the bitmap up to
  where the count began (`Encoded`, `Encoding`), after the loop that they cover
  the bitmap or the next bit is of the other kind (`Ended`), and in the client
  that the chunks sent are the lowest of those wanted, in order (`Sending`).
* `SendsFirstRangesAlways`: the ranges that the client reads are the first
  maximal ranges of zeroes of the bitmap, by counting the starts of
  ranges up to each bit.
* `TruncatesLateAlways`: `CutInv` says that a status which does not cover the
  bitmap was cut where the next number did not fit, and `AllWritten` that the
  octets written are those of its numbers. The reference encoding writes the
  same numbers, so one more range does not fit in it either.

`SessionProofs`, for every window, rate and period within the assumptions

* `NotEarlyAlways` and `SilenceDetectedAlways`, of one `TimeoutStream`, for
  `Stall < Timeout`; `TimeoutInv` relates the silence to the deadline and to
  `got_something`.
* `AverageUsableAlways`, `AverageTracksWindowAlways`. That `ipt` is at least the
  share of the oldest time is not inductive: it needs a bound on all that is in
  the window. `WindowInv` says that `shares` are the partial sums of
  `ipts[i] / Window`, that every time adds at least one to them, and that
  `n * ipt` differs from `Window * shares[n]` by at most `n * (n - 1)` below and
  `n * (Window - 1)` above while the window fills; when it is full the difference
  of `ipt` and `shares[Window]` does not change any more, because what is
  subtracted is exactly what was added.
* `StatusesKeepSessionAlways`. `StatusInv` says that the sender's silence is at
  most the time since the last periodic status, which is at most
  `time_left + Stall`, and that with `num_packets = 1` it is at most the
  client's own silence. Then either `time_left <= Horizon`, too short for a
  timeout, or the client was silent itself.

`SyncProofs`, for every tree, every number of clients and every network

* `SyncInvariant`: `Spec => []SyncInv`, with the types of what it talks about.
  `FolderIsWhole` is not inductive: that a folder written at the end is right
  needs that each of its chunks is, which needs that payloads of any age name
  the chunk they hold (`MessagesTrue`), that chunk ids are allocated apart
  (`AllocationsApart`), and that a response, first or repeated, says what was
  allocated. That the tree is whole needs `TreeGrows`: a full block's children
  are full or awaited, so a pending tree cannot lose a branch, and blocks outside
  of it are complete, so that a tree which shares one with an older upload does
  not inherit a gap.
* `FullIsFaithfulAlways`, `FolderIsWholeAlways`, `OneUploaderAlways`: its parts.
  The last one shows that `needs_update` is false whenever it is called, so that
  `root_update_response` is dead code.
* `NothingForgottenAlways`: from `TreeGrows`, by the definition of `Visited` as
  the least closed set.
* `Refinement`: `Spec => ImplementsSyncSpec`. `connect`, `root_update_accept` and
  `complete_tree` map to `Announce`, `Accept` and `Replace`, all else stutters.

`SyncClientProofs`, for every tree, every number of clients and every network

* `TypesAlways`: `Spec => []TypeOK`, which includes that nothing is left of a
  connection the server has removed.
* `ClientsUpAlways`. It is not inductive: a client panics when it is asked for a
  block it does not have or a chunk id outside its allocations, and what it is
  asked for comes out of the server's state by way of datagrams of any age.
  `AskedForOwn`, proved as `AskedForOwnAlways`, says of all of these (requests,
  block requests and statuses in flight, the ranges and the cursor of the sender
  loops) that they are within what that client has or has allocated. It rests on
  `SyncInv` for the transfers, which come from responses.

`SyncServerProofs`, for any number of clients, assuming `Modest`, the conjunction
of `OwnTrees` (folders have no block in common), `OneFile` (a folder is a single
block, or a directory block of one chunk with one file of any size) and
`NoRepeats` (`Timely`, and nothing but a `RootUpdateResponse` is delivered
twice). Datagrams of every type may be lost and overtake one another. The run
`sync_one_file` is such an instance.

* `ServerUpModest`: `Spec => []ServerUp`. The handlers `unwrap` what they expect,
  so the server survives if no message comes once too often. `PeerInv(c)` says
  so of each client: it announces itself once, and there is nothing of it before
  it is accepted (`AnnouncedOnce`); of request and response one at most is under
  way, for a block that is awaited (`AskedOnce`); a block is requested or the
  only one transferred (`Awaiting`, `Receiving`), and all that the client has
  been told to send is of that transfer (`Sends`). A payload for a block that is
  complete panics, so a directory must be ordered once: `OneOrder` says that
  there is a single token, which is a queued status, a status under way, a chunk
  id to be sent, or a payload under way. For the file no such thing holds, nor
  is it needed: with its last chunk the upload is over and the server has no
  entry for the client any more, so that what is still under way is ignored.
* `LossToleratedModest`: `Spec => []LostResponseTolerated`, the property that the
  run `lost_response` refutes for a folder with two files. With one transfer at a
  time the ranges of a status ascend, whatever is lost and sent again.

`OwnTrees` is what the code gives: a block's id is the hash of its data encrypted
under a random key. The other two are needed: TLC finds `ServerUp` violated for
two files, for a directory block of two chunks, for a directory in a directory,
for repeated responses, and without `Timely` (section 7 has the ways).

`LocksProofs`, for every `MaxTicks`

* `MutualExclusionAlways`: a mutex has one holder. What the status loop takes
  depends on whether there is a transfer, which `recv_task` changes; it does so
  with `clients` locked, when the loop has nothing (`ReturnsKeeps`).
* `OneDeadlockAlways`: `recv_task` and the status loop wait for each other only
  when `recv_task` is in `unconnected_root_update`, with `blockdb` locked. All
  other handlers take the mutexes in the order of the loop.

Only model-checked: liveness (`UploadCompletes`, `ArmedCompletes`,
`LastStatusRepeats`, `WorkedOff`, `FinEndsSession`, `SyncCompletes`), which is out
of the reach of the proof system.

## 7. Findings

Each is a run in which TLC finds a property violated that the repository states.

| run | what happens | where |
|---|---|---|
| `whole_chunks` | a file whose length is a multiple of the chunk size: its last chunk is taken to be empty, sent, written and marked without data | `v1 codec.rs:173` |
| `resume_appends` | a resumed upload appends instead of writing to the chunk's position | `v1 receiver.rs:127` |
| `lost_response` | a response is lost, so the two of a folder with two files arrive in the other order; the ranges of the next status do not ascend and the codec's difference underflows | `v2 codec.rs:94` |
| `locks` | a root update during an upload waits for `clients` with `blockdb` locked, the status loop the other way round | `v2 handler.rs:145` |

Two theorems bound them: `lost_response` does not happen to folders of at most one
file and a directory block of one chunk (`LossToleratedModest`), and that of `locks`
is the only deadlock of the two mutexes (`OneDeadlockAlways`).

The model also reaches the following; the properties above are stated so that
they do not deny them, and each can be seen by adding the invariant or the
constants given here to a configuration of `MCUpload` or `MCSync`.

In v1:

* **A file of one chunk** gets no periodic status (`congestion.rs:71`): the first
  chunk only starts the measurement. `specification.md:319` says of the status
  after the last chunk "If that update is lost, the next one will be triggered by
  the timeout of periodic status updates"; `LastStatusRepeats` fails under
  `FairSpec` with `NumChunks = 1` and `Faults = {"lose"}`.
* **FIN with a stale count** (`receiver.rs:249`): two sessions share the mapped
  bits but each counts zeroes for itself. `FinFindsBitmapFull` fails with
  `Faults = {"clientCrash", "earlyRestart"}`; the bitmap is then kept.
* **A duplicated login is stored as a chunk** (`receiver.rs:246`):
  `ReceivedInPlace` fails with 11 chunks and `Duplicable = {"login"}`.
* **A crash between creating and sizing the bitmap** (`receiver.rs:110`) leaves
  an empty one; the next login panics in the listener. This is the second case
  of `SetUpAgrees`: in `upload_restart`, `ServerCrash` between `CreateBitmap` and
  `MapBitmap`, then `MapBitmapFails`.
* **FIN removes the bitmap between `exists()` and `open()`** of the next login
  (`receiver.rs:98`), which then maps a file without length and panics in the
  listener; the first case of `SetUpAgrees`. `listener # "down"` fails with
  `Faults = {"earlyRestart"}` and two sessions.
* **A datagram after its session's end** (`server/mod.rs:71`) is decoded as a
  login by the listener, which can panic: `listener # "down"` fails with
  `Faults = {"timeout"}`. Every session ends by its timeout, so this is open to
  any chunk that is late enough; `specification.md:379` asks to drop such packets
  with SHOULD only.
* **A timeout after less than the period** (`timeout.rs:45`): the bound of
  `TimeoutNotEarly` is reached, an item that arrives while an expired interval
  has not been polled counts for the period that is already over.

In v2:

* **A second copy of a payload** (`handler.rs:78`): a status that was sent before
  a payload arrived makes the client send that payload again; if its transfer
  has ended by then, `unwrap` panics. With the folder `TwoFiles` of `MCSync`, one
  client and a network without any fault `ServerUp` and `SyncCompletes` fail,
  while `READMEv2.1.md:9` lists the upload of a whole directory tree as
  implemented.
* **A second response** for a block (`handler.rs:220`) adds a second transfer;
  once the block is full the status loop panics at `partial()` and poisons both
  mutexes. `ServerUp` fails with `Duplicable = {"BlockRequestResponse"}`, or with
  `Timely = FALSE`; `specification-v2.md:700` says that such responses "are ignored
  unless the peer has specifically requested this block and is still waiting for
  a response".
* **An old root update** that is delivered after another client's upload makes
  the old root pending again (`handler.rs:153`): its blocks are there, nothing is
  promoted any more, and the response to the request runs into the same panic.
* **A lost status or payload** stalls an upload for good (`handler.rs:380`): only
  payloads lead to statuses and only statuses to payloads. `SyncCompletes` fails
  with `"TransferStatus"` or `"TransferPayload"` in `Losable`.
* **Two sender loops** (`handler.rs:390`): a status that arrives while a loop
  waits after its last chunk starts a second one, and the client sends at twice
  its rate. `loops` goes above 1 in `sync_one_file`.

Read off the code, not modelled: `BitMap::flip_bit` (not called by csync)
computes the new value as `*byte == bitmask`, which is wrong in an octet with
other bits set, and so is the count it keeps.

## 8. Limits

* A second file, or the same path with another length, is not modelled; nor are
  write errors and a full disk. In particular a stray chunk whose octets happen
  to spell a login of another path or length would make the listener set up a
  session for that file, which then takes its flow's datagrams and answers with
  the statuses of another bitmap; `LateChunk` keeps only the error and the panic.
* `exists()` and `remove_file` of FIN are one step, so two FINs of one file
  that race there (one `unwrap` would panic in its session) are not seen.
* Which socket of the port takes a datagram is the kernel's choice; the model
  gives it to the connected one, and to the listener if there is none. The gap
  between `bind` and `connect` of a new session's socket is left out.
* A server crash is a crash of the process: what was written to the file and to
  the mapped bitmap survives, in the order it was written.
* A login that the client sends again is not modelled, because the client does
  not send it again.
* In `Upload` `CongestionInfo` is reduced to whether its delay is armed, and a
  timeout may happen at any time; the arithmetic and the clock are in `Session`,
  which in turn does not know which chunks were received.
* v2's `write_to_dir` is one step: a crash after `remove_dir_all`, or an error of
  the file system, is not modelled, and nothing in the code recovers from it.
* v2's encryption, hashing and serialisation are not modelled: a block that is
  full can be read. A malformed datagram, and one of somebody who is not a
  client, are left out, and so is a status longer than the send buffer, which
  depends on the buffer of the UDP library.
* v2's clients do not die, and the server is not restarted: the code keeps no
  state for either case. The pending root of a client that has gone is never
  cleared.
* v2's `root_update_response` has no action, because it is not reached.
