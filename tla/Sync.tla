-------------------------------- MODULE Sync --------------------------------
(***************************************************************************)
(* scsync: clients that upload their folder's tree of blocks to a server,  *)
(* which replaces its own folder by it.                                    *)
(*                                                                         *)
(* A client announces its root (RootUpdate).  The server requests the      *)
(* blocks it lacks, parents first; the client answers a request with the   *)
(* chunk ids it allocates for the block; the server reports the chunk ids  *)
(* it misses (TransferStatus), the client sends them (TransferPayload).    *)
(* When the tree is complete the server makes it its root and writes it to *)
(* its folder.                                                             *)
(*                                                                         *)
(* A handler runs with both mutexes, or with one and then the other, so    *)
(* it is one step (the module Locks is about the mutexes).  A panic in     *)
(* recv_task or send_task ends both of them; one in a task of its own      *)
(* poisons the mutexes it holds, and the next handler panics.              *)
(***************************************************************************)
EXTENDS BlockTree, SequencesExt

CONSTANTS
    Clients,
    Root,           \* the root of a client's folder
    ServerRoot,     \* the root of the server's folder at the start
    None,
    MaxRanges,      \* ranges of a status that fit into a datagram
    MaxNet,         \* datagrams in flight between two peers in one direction
    MaxTicks,       \* status updates the server has still to send
    MaxTransfers,   \* entries of TransferIn::transfers
    MaxLoops,       \* sender loops of a client that run at a time
    Timely,         \* the answer to a block request takes less than a second
    Losable,        \* the messages that may be lost
    Duplicable,     \* the messages that may be delivered more than once
    Reorder         \* messages may overtake one another

ASSUME RootAssumption == Root \in [Clients -> Blocks] /\ ServerRoot \in Blocks
ASSUME NoneAssumption ==
    None \notin Blocks /\ None \notin Nat /\ None \notin Blocks \X Nat /\ None \notin Clients
ASSUME BoundsAssumption ==
    /\ MaxRanges \in Nat \ {0} /\ MaxNet \in Nat /\ MaxTicks \in Nat
    /\ MaxTransfers \in Nat /\ MaxLoops \in Nat

VARIABLES
    \* a client, about its connection to the server
    connected,  \* it has sent its RootUpdate
    clientUp,   \* it has not panicked
    alloc,      \* TransferOut::transfers
    next,       \* TransferOut::transfer_cursor
    cursor,     \* TransferOut::cursor
    todo,       \* TransferOut::todo
    loops,      \* the sender loops that transfer_status has launched
    \* the server's BlockDb and folder
    root, pending_root,
    have,       \* the blocks it contains, full or partial
    full,       \* those that are full
    data,       \* the chunks that are available, and their content
    folder,     \* what write_to_dir has written last
    \* the server, about its connection to a client
    known,      \* the clients it has an entry for
    requests,   \* pending_block_requests
    transfers,  \* TransferIn::transfers
    status_tx,  \* TransferIn::status_tx is there
    ticks,      \* what is queued for the status loops
    server,     \* "up", "poisoned", "dead"
    \* the network
    up,         \* from a client to the server
    down        \* from the server to a client

sendVars == <<alloc, next, cursor, todo, loops>>
clientVars == <<connected, clientUp, sendVars>>
dbVars == <<root, pending_root, have, full, data, folder>>
connVars == <<known, requests, transfers, status_tx, ticks>>
serverVars == <<dbVars, connVars, server>>
vars == <<clientVars, serverVars, up, down>>

\* The folder with root r: every chunk of its blocks, and what it holds.
Folder(r, content) == {<<x, content[x]>> : x \in {y \in Chunks : y[1] \in Tree[r]}}

\* The folder with root r as its owner has it.
Original == [r \in Blocks |-> Folder(r, [x \in Chunks |-> x])]

\* blockdb_from_folder, at both sides.
Init ==
    /\ connected = [c \in Clients |-> FALSE]
    /\ clientUp = [c \in Clients |-> TRUE]
    /\ alloc = [c \in Clients |-> <<>>]
    /\ next = [c \in Clients |-> 0]
    /\ cursor = [c \in Clients |-> None]
    /\ todo = [c \in Clients |-> <<>>]
    /\ loops = [c \in Clients |-> 0]
    /\ root = ServerRoot
    /\ pending_root = None
    /\ have = Tree[ServerRoot]
    /\ full = Tree[ServerRoot]
    /\ data = [x \in Chunks |-> IF x[1] \in Tree[ServerRoot] THEN x ELSE None]
    /\ folder = Original[ServerRoot]
    /\ known = {}
    /\ requests = [c \in Clients |-> {}]
    /\ transfers = [c \in Clients |-> <<>>]
    /\ status_tx = [c \in Clients |-> FALSE]
    /\ ticks = [c \in Clients |-> 0]
    /\ server = "up"
    /\ up = [c \in Clients |-> <<>>]
    /\ down = [c \in Clients |-> <<>>]

-----------------------------------------------------------------------------
(***************************************************************************)
(* Messages and the network.  A datagram that finds MaxNet others in its   *)
(* direction is dropped.                                                   *)
(***************************************************************************)
RootUpdate(r) == [type |-> "RootUpdate", block |-> r]
RootUpdateResponse(r) == [type |-> "RootUpdateResponse", block |-> r]
BlockRequest(b) == [type |-> "BlockRequest", block |-> b]
BlockRequestResponse(b, from, to) ==
    [type |-> "BlockRequestResponse", block |-> b, from |-> from, to |-> to]
TransferPayload(id, x) == [type |-> "TransferPayload", chunkid |-> id, data |-> x]
TransferStatus(ranges) == [type |-> "TransferStatus", missing_ranges |-> ranges]

Post(net, c, m) ==
    IF Len(net[c]) < MaxNet THEN [net EXCEPT ![c] = Append(@, m)] ELSE net

Without(s, i) == [j \in 1 .. Len(s) - 1 |-> IF j < i THEN s[j] ELSE s[j + 1]]

\* Where in a direction the message is that arrives next.
Arriving(s) == IF Reorder THEN DOMAIN s ELSE DOMAIN s \cap {1}

\* The network, once a message has been taken from it.
Taken(net, c, i) ==
    {[net EXCEPT ![c] = Without(@, i)]}
        \cup (IF net[c][i].type \in Duplicable THEN {net} ELSE {})

Lose(c) ==
    \/ /\ \E i \in DOMAIN up[c] :
            up[c][i].type \in Losable /\ up' = [up EXCEPT ![c] = Without(@, i)]
       /\ UNCHANGED <<clientVars, serverVars, down>>
    \/ /\ \E i \in DOMAIN down[c] :
            down[c][i].type \in Losable /\ down' = [down EXCEPT ![c] = Without(@, i)]
       /\ UNCHANGED <<clientVars, serverVars, up>>

-----------------------------------------------------------------------------
(***************************************************************************)
(* A client.                                                               *)
(***************************************************************************)

\* connect; the RootUpdate is not sent again.
connect(c) ==
    /\ clientUp[c] /\ ~connected[c]
    /\ connected' = [connected EXCEPT ![c] = TRUE]
    /\ up' = Post(up, c, RootUpdate(Root[c]))
    /\ UNCHANGED <<clientUp, sendVars, serverVars, down>>

\* A client takes a message of type t.
ClientTakes(c, i, t) ==
    /\ clientUp[c] /\ connected[c]
    /\ i \in Arriving(down[c]) /\ down[c][i].type = t
    /\ down' \in Taken(down, c, i)

\* needs_update is false, always: see OneUploader.
recv_root_update_response(c) ==
    /\ \E i \in DOMAIN down[c] : ClientTakes(c, i, "RootUpdateResponse")
    /\ UNCHANGED <<clientVars, serverVars, up>>

\* Mutant of Allocation: the ids of the next block overlap with this one's.
AllocationOverlaps(c, b) ==
    IF \E k \in DOMAIN alloc[c] : alloc[c][k].block = b THEN alloc[c]
    ELSE Append(alloc[c], [block |-> b, from |-> Len(alloc[c]), to |-> Len(alloc[c]) + BlockLen[b]])

\* TransferOut::transfers once block b has its chunk ids.
Allocation(c, b) ==
    IF \E k \in DOMAIN alloc[c] : alloc[c][k].block = b THEN alloc[c]
    ELSE Append(alloc[c], [block |-> b, from |-> next[c], to |-> next[c] + BlockLen[b]])

\* block_request; blockdb.get panics if the client does not have the block.
block_request(c) ==
    /\ \E i \in DOMAIN down[c] :
        LET b == down[c][i].block
        IN  /\ ClientTakes(c, i, "BlockRequest")
            /\ IF b \in Tree[Root[c]]
               THEN /\ alloc' = [alloc EXCEPT ![c] = Allocation(c, b)]
                    /\ next' = [next EXCEPT ![c] =
                                    IF alloc'[c] = alloc[c] THEN @ ELSE @ + BlockLen[b]]
                    /\ \E k \in DOMAIN alloc'[c] :
                        /\ alloc'[c][k].block = b
                        /\ \A j \in 1 .. k - 1 : alloc'[c][j].block # b
                        /\ up' = Post(up, c, BlockRequestResponse(b, alloc'[c][k].from, alloc'[c][k].to))
                    /\ UNCHANGED clientUp
               ELSE /\ clientUp' = [clientUp EXCEPT ![c] = FALSE]
                    /\ UNCHANGED <<alloc, next, up>>
    /\ UNCHANGED <<connected, cursor, todo, loops, serverVars>>

\* transfer_status: the ranges replace the old ones; a sender loop is
\* launched if the transfer was idle.
transfer_status(c) ==
    /\ \E i \in DOMAIN down[c] :
        LET ranges == down[c][i].missing_ranges
        IN  /\ ClientTakes(c, i, "TransferStatus")
            /\ todo' = [todo EXCEPT ![c] = ranges]
            /\ cursor' = [cursor EXCEPT ![c] = IF ranges = <<>> THEN None ELSE ranges[1][1]]
            /\ loops' = [loops EXCEPT ![c] =
                            IF cursor[c] = None /\ ranges # <<>> THEN @ + 1 ELSE @]
            /\ loops'[c] <= MaxLoops
    /\ UNCHANGED <<connected, clientUp, alloc, next, serverVars, up>>

\* Mutant of NextTodo: the end of a range belongs to it.
NextTodoInclusive(c) ==
    LET after == cursor[c] + 1
        k == SelectInSeq(todo[c], LAMBDA r : after <= r[2])
    IN  IF k = 0 THEN None
        ELSE IF todo[c][k][1] < after THEN after ELSE todo[c][k][1]

\* The next chunk id that is to do, after the cursor.
NextTodo(c) ==
    LET after == cursor[c] + 1
        k == SelectInSeq(todo[c], LAMBDA r : after < r[2])
    IN  IF k = 0 THEN None
        ELSE IF todo[c][k][1] < after THEN after ELSE todo[c][k][1]

Covers(t, id) == id \in t.from .. t.to - 1

\* One turn of a sender loop with an active cursor.  The transfer is the first
\* one with that id; without one the client panics.
send_payload(c) ==
    /\ clientUp[c] /\ loops[c] > 0 /\ cursor[c] # None
    /\ LET covers(k) == Covers(alloc[c][k], cursor[c])
       IN  IF \E k \in DOMAIN alloc[c] : covers(k)
           THEN \E k \in DOMAIN alloc[c] :
                /\ covers(k) /\ \A j \in 1 .. k - 1 : ~covers(j)
                /\ up' = Post(up, c, TransferPayload(cursor[c],
                                        <<alloc[c][k].block, cursor[c] - alloc[c][k].from>>))
                /\ cursor' = [cursor EXCEPT ![c] = NextTodo(c)]
                /\ UNCHANGED clientUp
           ELSE /\ clientUp' = [clientUp EXCEPT ![c] = FALSE]
                /\ UNCHANGED <<up, cursor>>
    /\ UNCHANGED <<connected, alloc, next, todo, loops, serverVars, down>>

\* The transfer is idle: the loop ends, after its delay.
end_loop(c) ==
    /\ clientUp[c] /\ loops[c] > 0 /\ cursor[c] = None
    /\ loops' = [loops EXCEPT ![c] = @ - 1]
    /\ UNCHANGED <<connected, clientUp, alloc, next, cursor, todo, serverVars, up, down>>

-----------------------------------------------------------------------------
(***************************************************************************)
(* The server: root updates.                                               *)
(***************************************************************************)

\* recv_task takes a message of type t, with the mutexes in order.
ServerTakes(c, i, t) ==
    /\ server = "up"
    /\ i \in Arriving(up[c]) /\ up[c][i].type = t
    /\ up' \in Taken(up, c, i)

\* A client the server does not know is only heard when it connects, and one
\* that it knows is not heard when it connects again.
recv_ignored(c) ==
    /\ \E i \in DOMAIN up[c] :
        /\ ServerTakes(c, i, up[c][i].type)
        /\ (c \in known) = (up[c][i].type = "RootUpdate")
    /\ UNCHANGED <<clientVars, serverVars, down>>

\* The client's root is the server's: it is told so.
root_update_same(c) ==
    /\ c \notin known
    /\ \E i \in DOMAIN up[c] :
        /\ ServerTakes(c, i, "RootUpdate")
        /\ up[c][i].block = root
    /\ down' = Post(down, c, RootUpdateResponse(root))
    /\ UNCHANGED <<clientVars, serverVars>>

\* Another upload is not done: the update is ignored.
root_update_busy(c) ==
    /\ c \notin known
    /\ \E i \in DOMAIN up[c] :
        /\ ServerTakes(c, i, "RootUpdate")
        /\ up[c][i].block # root
    /\ pending_root # None
    /\ UNCHANGED <<clientVars, serverVars, down>>

\* Mutant of Entry: the channel to the status loop is kept.
EntryKeepsSender(c, R) ==
    /\ requests' = [requests EXCEPT ![c] = R]
    /\ transfers' = [transfers EXCEPT ![c] = <<>>]
    /\ UNCHANGED status_tx

\* Client::default, with the requests R; and what is left of an entry that is
\* removed.
Entry(c, R) ==
    /\ requests' = [requests EXCEPT ![c] = R]
    /\ transfers' = [transfers EXCEPT ![c] = <<>>]
    /\ status_tx' = [status_tx EXCEPT ![c] = FALSE]

\* Mutant of root_update_accept: an update replaces the pending one.
root_update_always(c) ==
    /\ c \notin known
    /\ \E i \in DOMAIN up[c] :
        LET r == up[c][i].block
        IN  /\ ServerTakes(c, i, "RootUpdate")
            /\ r # root
            /\ pending_root' = r
            /\ known' = known \cup {c}
            /\ Entry(c, {r})
    /\ UNCHANGED <<clientVars, root, have, full, data, folder, ticks, server, down>>

\* A new root is pending, and its block requested: send_block_request only
\* registers the request, a task of its own sends it.
root_update_accept(c) ==
    /\ c \notin known
    /\ pending_root = None
    /\ \E i \in DOMAIN up[c] :
        LET r == up[c][i].block
        IN  /\ ServerTakes(c, i, "RootUpdate")
            /\ r # root
            /\ pending_root' = r
            /\ known' = known \cup {c}
            /\ Entry(c, {r})
    /\ UNCHANGED <<clientVars, root, have, full, data, folder, ticks, server, down>>

-----------------------------------------------------------------------------
(***************************************************************************)
(* The server: block requests.                                             *)
(***************************************************************************)
InFlight(s, t, b) == \E i \in DOMAIN s : s[i].type = t /\ s[i].block = b

\* The second that request_retry waits has passed: an answer that is going to
\* come has come, if the network is timely.
RetryDue(c, b) ==
    Timely => ~InFlight(down[c], "BlockRequest", b) /\ ~InFlight(up[c], "BlockRequestResponse", b)

\* Mutant of request_retry: a request that was answered is not sent again.
request_once(c, b) ==
    /\ server # "dead"
    /\ b \in requests[c]
    /\ RetryDue(c, b)
    /\ \A k \in DOMAIN alloc[c] : alloc[c][k].block # b
    /\ down' = Post(down, c, BlockRequest(b))
    /\ UNCHANGED <<clientVars, serverVars, up>>

\* request_retry sends a request, and again every second until the handler of
\* the response ends it.
request_retry(c, b) ==
    /\ server # "dead"
    /\ b \in requests[c]
    /\ RetryDue(c, b)
    /\ down' = Post(down, c, BlockRequest(b))
    /\ UNCHANGED <<clientVars, serverVars, up>>

\* Mutant of Unanswered: there is one request at a time.
UnansweredNone(c, b) == {}

\* The requests that a response for block b leaves.
Unanswered(c, b) == requests[c] \ {b}

\* block_request_response: the transfer is added whether or not it is waited
\* for, the block unless it is there; the first transfer launches a status
\* loop.  An older loop still works off what is queued for it.
block_request_response(c) ==
    /\ c \in known
    /\ Len(transfers[c]) < MaxTransfers
    /\ \E i \in DOMAIN up[c] :
        LET m == up[c][i]
        IN  /\ ServerTakes(c, i, "BlockRequestResponse")
            /\ requests' = [requests EXCEPT ![c] = Unanswered(c, m.block)]
            /\ transfers' = [transfers EXCEPT ![c] =
                    Append(@, [block |-> m.block, from |-> m.from, to |-> m.to])]
            /\ have' = have \cup {m.block}
    /\ IF transfers[c] = <<>>
       THEN /\ ticks[c] < MaxTicks
            /\ ticks' = [ticks EXCEPT ![c] = @ + 1]
            /\ status_tx' = [status_tx EXCEPT ![c] = TRUE]
       ELSE UNCHANGED <<ticks, status_tx>>
    /\ UNCHANGED <<clientVars, root, pending_root, full, data, folder, known, server, down>>

-----------------------------------------------------------------------------
(***************************************************************************)
(* The server: status updates, sent by a task of its own.                  *)
(***************************************************************************)

\* The numbers of a set, from the least one on.
Sorted(S) ==
    [k \in 1 .. Cardinality(S) |-> CHOOSE i \in S : Cardinality({j \in S : j < i}) = k - 1]

\* The ranges of chunk ids that are missing of a transfer.
MissingRanges(t) ==
    LET M == {i \in 0 .. NumChunks(t.block) - 1 : data[<<t.block, i>>] = None}
        End(i) == Min({j \in i .. NumChunks(t.block) : j \notin M})
        starts == Sorted({i \in M : i - 1 \notin M})
    IN  [k \in DOMAIN starts |-> <<t.from + starts[k], t.from + End(starts[k])>>]

\* What a status reports: transfer by transfer, in the order of the responses.
Missing(c) ==
    IF c \notin known THEN <<>>
    ELSE FlattenSeq([k \in DOMAIN transfers[c] |-> MissingRanges(transfers[c][k])])

\* Block::partial panics in the status loop if a transfer's block is full.
FullTransfer(c) ==
    c \in known /\ \E k \in DOMAIN transfers[c] : transfers[c][k].block \in full

\* The codec writes differences of consecutive numbers, as u64.
Ascending(ranges) == \A k \in 2 .. Len(ranges) : ranges[k - 1][2] <= ranges[k][1]

Truncated(ranges) == SubSeq(ranges, 1, Min({MaxRanges, Len(ranges)}))

StatusTurn(c) ==
    /\ server = "up" /\ ticks[c] > 0
    /\ ticks' = [ticks EXCEPT ![c] = @ - 1]
    /\ UNCHANGED <<clientVars, dbVars, known, requests, transfers, status_tx, up>>

send_status(c) ==
    /\ StatusTurn(c)
    /\ ~FullTransfer(c) /\ Ascending(Missing(c))
    /\ down' = Post(down, c, TransferStatus(Truncated(Missing(c))))
    /\ UNCHANGED server

\* The difference is negative: send_task panics.
encode_underflow(c) ==
    /\ StatusTurn(c)
    /\ ~FullTransfer(c) /\ ~Ascending(Missing(c))
    /\ server' = "dead"
    /\ UNCHANGED down

\* The status loop panics, holding both mutexes.
status_loop_panics(c) ==
    /\ StatusTurn(c)
    /\ FullTransfer(c)
    /\ server' = "poisoned"
    /\ UNCHANGED down

\* The next message finds the mutexes poisoned.
recv_poisoned(c) ==
    /\ server = "poisoned" /\ up[c] # <<>>
    /\ server' = "dead"
    /\ UNCHANGED <<clientVars, dbVars, connVars, up, down>>

-----------------------------------------------------------------------------
(***************************************************************************)
(* The server: transfer_payload.                                           *)
(***************************************************************************)

\* TransferIn::transfer finds the first transfer with the chunk id.
IsTransfer(c, k, id) ==
    /\ k \in DOMAIN transfers[c] /\ Covers(transfers[c][k], id)
    /\ \A j \in 1 .. k - 1 : ~Covers(transfers[c][j], id)

\* The chunk of the database that a payload belongs to.
Target(t, id) == <<t.block, id - t.from>>

\* try_promote succeeds once the chunk x is there.
Promotes(x) == \A y \in ChunksOf(x[1]) \ {x} : data[y] # None

\* The payload can be stored, and the block, if that makes it full, be
\* resolved below the pending root.
Expected(c, k, id) ==
    /\ status_tx[c] /\ IsTransfer(c, k, id)
    /\ LET x == Target(transfers[c][k], id)
       IN  /\ x[1] \notin full /\ x \in Chunks
           /\ Promotes(x) =>
                /\ pending_root # None
                /\ CanResolve(x[1], pending_root, full \cup {x[1]})

\* The server stores a payload in chunk x of transfer k.
Stores(c, k, x) ==
    /\ c \in known /\ ticks[c] < MaxTicks
    /\ \E i \in DOMAIN up[c] :
        /\ ServerTakes(c, i, "TransferPayload")
        /\ Expected(c, k, up[c][i].chunkid)
        /\ x = Target(transfers[c][k], up[c][i].chunkid)
        /\ data' = [data EXCEPT ![x] = up[c][i].data]
    /\ ticks' = [ticks EXCEPT ![c] = @ + 1]
    /\ UNCHANGED <<clientVars, server>>

\* Unwrapping what is not there, or not as expected.
payload_panics(c) ==
    /\ c \in known
    /\ \E i \in DOMAIN up[c] :
        /\ ServerTakes(c, i, "TransferPayload")
        /\ \A k \in DOMAIN transfers[c] : ~Expected(c, k, up[c][i].chunkid)
    /\ server' = "dead"
    /\ UNCHANGED <<clientVars, dbVars, connVars, down>>

\* The block is not complete.
store_chunk(c, k, x) ==
    /\ Stores(c, k, x)
    /\ ~Promotes(x)
    /\ UNCHANGED <<root, pending_root, have, full, folder, known, requests,
                   transfers, status_tx, down>>

\* The block is complete, the tree is not: what the block names is requested.
complete_block(c, k, x) ==
    /\ Stores(c, k, x)
    /\ Promotes(x)
    /\ full' = full \cup {x[1]}
    /\ ~verify(pending_root, full')
    /\ transfers' = [transfers EXCEPT ![c] = Without(@, k)]
    /\ requests' = [requests EXCEPT ![c] = @ \cup (Children[x[1]] \ have)]
    /\ UNCHANGED <<root, pending_root, have, folder, known, status_tx, down>>

\* The tree is complete: apply_pending, write_to_dir, a RootUpdateResponse to
\* every client; the uploader is forgotten.
complete_tree(c, k, x) ==
    /\ Stores(c, k, x)
    /\ Promotes(x)
    /\ full' = full \cup {x[1]}
    /\ verify(pending_root, full')
    /\ root' = pending_root
    /\ pending_root' = None
    /\ folder' = Folder(root', data')
    /\ down' = [d \in Clients |->
                    IF d \in known THEN Post(down, d, RootUpdateResponse(root'))[d] ELSE down[d]]
    /\ known' = known \ {c}
    /\ Entry(c, {})
    /\ UNCHANGED have

transfer_payload(c) ==
    \E k \in DOMAIN transfers[c], x \in Chunks :
        store_chunk(c, k, x) \/ complete_block(c, k, x) \/ complete_tree(c, k, x)

-----------------------------------------------------------------------------
ClientNext(c) ==
    \/ connect(c) \/ recv_root_update_response(c) \/ block_request(c)
    \/ transfer_status(c) \/ send_payload(c) \/ end_loop(c)

ServerNext(c) ==
    \/ recv_ignored(c) \/ root_update_same(c) \/ root_update_busy(c)
    \/ root_update_accept(c) \/ block_request_response(c)
    \/ \E b \in Blocks : request_retry(c, b)
    \/ send_status(c) \/ encode_underflow(c) \/ status_loop_panics(c)
    \/ recv_poisoned(c) \/ payload_panics(c) \/ transfer_payload(c)

\* What clients do after the death of the server is left out.
Next ==
    /\ server # "dead"
    /\ \E c \in Clients : ClientNext(c) \/ ServerNext(c) \/ Lose(c)

Spec == Init /\ [][Next]_vars

(***************************************************************************)
(* Fairness.  The tasks of both sides go on while they can, and of the     *)
(* messages that keep being sent not all are lost.                         *)
(***************************************************************************)
ClientRecv(c) ==
    recv_root_update_response(c) \/ block_request(c) \/ transfer_status(c)

ServerRecv(c) ==
    \/ recv_ignored(c) \/ root_update_same(c) \/ root_update_busy(c)
    \/ root_update_accept(c) \/ block_request_response(c)
    \/ transfer_payload(c) \/ payload_panics(c)

Fairness ==
    \A c \in Clients :
        /\ WF_vars(connect(c))
        /\ SF_vars(ClientRecv(c))
        /\ SF_vars(ServerRecv(c))
        /\ WF_vars(send_payload(c) \/ end_loop(c))
        /\ WF_vars(send_status(c))
        /\ \A b \in Blocks : WF_vars(request_retry(c, b))

FairSpec == Spec /\ Fairness

-----------------------------------------------------------------------------
(***************************************************************************)
(* Types.                                                                  *)
(***************************************************************************)
Messages ==
         [type : {"RootUpdate", "RootUpdateResponse", "BlockRequest"}, block : Blocks]
    \cup [type : {"BlockRequestResponse"}, block : Blocks, from : Nat, to : Nat]
    \cup [type : {"TransferPayload"}, chunkid : Nat, data : Blocks \X Nat]
    \cup [type : {"TransferStatus"}, missing_ranges : Seq(Nat \X Nat)]

Transfers == [block : Blocks, from : Nat, to : Nat]

\* The variables have their types; a connection the server has forgotten has
\* nothing of it left but the status updates that are queued.
TypeOK ==
    /\ connected \in [Clients -> BOOLEAN]
    /\ clientUp \in [Clients -> BOOLEAN]
    /\ alloc \in [Clients -> Seq(Transfers)]
    /\ next \in [Clients -> Nat]
    /\ cursor \in [Clients -> Nat \cup {None}]
    /\ todo \in [Clients -> Seq(Nat \X Nat)]
    /\ loops \in [Clients -> Nat]
    /\ root \in Blocks
    /\ pending_root \in Blocks \cup {None}
    /\ have \subseteq Blocks
    /\ full \subseteq Blocks
    /\ data \in [Chunks -> (Blocks \X Nat) \cup {None}]
    /\ known \subseteq Clients
    /\ requests \in [Clients -> SUBSET Blocks]
    /\ transfers \in [Clients -> Seq(Transfers)]
    /\ status_tx \in [Clients -> BOOLEAN]
    /\ ticks \in [Clients -> Nat]
    /\ server \in {"up", "poisoned", "dead"}
    /\ up \in [Clients -> Seq(Messages)]
    /\ down \in [Clients -> Seq(Messages)]
    /\ \A c \in Clients \ known :
        requests[c] = {} /\ transfers[c] = <<>> /\ status_tx[c] = FALSE

-----------------------------------------------------------------------------
(***************************************************************************)
(* Safety.                                                                 *)
(***************************************************************************)

\* A block that was promoted holds its own chunks, each in its place, however
\* requests, responses and payloads were lost, repeated or overtook another.
FullIsFaithful == \A x \in Chunks : x[1] \in full => data[x] = x

\* The folder is, at any time, an exact and complete copy of the folder of the
\* server itself or of one client: it is never written from a tree of which
\* a block is missing, partial or wrong.
FolderIsWhole ==
    /\ folder = Original[root]
    /\ Tree[root] \subseteq full

\* One client uploads at a time, its root is the pending one, and nobody is
\* told of a root that is not its own.  So needs_update is never true, and
\* root_update_response, which requests a block without a pending root, does
\* not run.
OneUploader ==
    /\ IF pending_root = None THEN known = {}
       ELSE \E c \in Clients : known = {c} /\ pending_root = Root[c]
    /\ \A c \in Clients : \A m \in ToSet(down[c]) :
        m.type = "RootUpdateResponse" => m.block = Root[c]

\* Every block that the pending tree still lacks is either being requested or
\* in a transfer: no order of responses and payloads makes the server forget
\* one.
NothingForgotten ==
    pending_root # None =>
        \A b \in Visited(pending_root, full) \ full : \E c \in known :
            \/ b \in requests[c]
            \/ \E k \in DOMAIN transfers[c] : transfers[c][k].block = b

(***************************************************************************)
(* The inductive invariant of the proofs.                                  *)
(***************************************************************************)

\* Chunk ids are allocated once, to blocks of the client's own folder; what
\* the server has of a client's transfers is what the client allocated.
AllocationsApart ==
    \A c \in Clients :
        /\ ToSet(transfers[c]) \subseteq ToSet(alloc[c])
        /\ \A e \in ToSet(alloc[c]) :
            /\ e.to <= next[c] /\ e.block \in Tree[Root[c]]
            /\ \A f \in ToSet(alloc[c]) : e = f \/ e.to <= f.from \/ f.to <= e.from

\* What is on its way to the server is true, however old it is.
IsTrue(c, m) ==
    /\ m.type = "RootUpdate" => connected[c] /\ m.block = Root[c]
    /\ m.type = "BlockRequestResponse" =>
        [block |-> m.block, from |-> m.from, to |-> m.to] \in ToSet(alloc[c])
    /\ m.type = "TransferPayload" =>
        \E e \in ToSet(alloc[c]) : Covers(e, m.chunkid) /\ m.data = Target(e, m.chunkid)

MessagesTrue == \A c \in Clients : \A m \in ToSet(up[c]) : IsTrue(c, m)

\* A chunk holds nothing or its own data; a full block lacks none.
DataInPlace ==
    \A x \in Chunks : data[x] \in {None, x} /\ (x[1] \in full => data[x] = x)

\* The blocks that are transferred, and those that are awaited.
Transferred == UNION {{t.block : t \in ToSet(transfers[c])} : c \in known}
Outstanding == Transferred \cup UNION {requests[c] : c \in known}

\* What a full block names is full or awaited, and full if the block is not
\* of the pending tree; what is partial is being transferred.
TreeGrows ==
    /\ pending_root # None => pending_root \in full \cup Outstanding
    /\ have \subseteq full \cup Transferred
    /\ \A b \in full :
        /\ Children[b] \subseteq full \cup Outstanding
        /\ \/ Children[b] \subseteq full
           \/ pending_root # None /\ b \in Visited(pending_root, full)

\* Everything the server has, has been told and will be told fits together:
\* a folder that was replaced, a tree that grows below a pending root, chunks
\* in their places, and messages of any age that cannot put one elsewhere.
SyncInv ==
    /\ AllocationsApart /\ MessagesTrue /\ DataInPlace /\ TreeGrows
    /\ FolderIsWhole /\ OneUploader

\* The ids of the range r are of one allocation.
Allocated(c, r) ==
    \E e \in ToSet(alloc[c]) : e.from <= r[1] /\ r[1] < r[2] /\ r[2] <= e.to

\* A message asks a client for what is its own.
AsksForOwn(c, m) ==
    /\ m.type = "BlockRequest" => m.block \in Tree[Root[c]]
    /\ m.type = "TransferStatus" => \A r \in ToSet(m.missing_ranges) : Allocated(c, r)

\* What the server asks a client for, and what the client has still to do for
\* it, is the client's own: blocks of its folder, and chunk ids out of one
\* allocation, however old the request or the status is.
AskedForOwn ==
    \A c \in Clients :
        /\ requests[c] \subseteq Tree[Root[c]]
        /\ \A e \in ToSet(alloc[c]) : e.to = e.from + BlockLen[e.block]
        /\ \A m \in ToSet(down[c]) : AsksForOwn(c, m)
        /\ \A r \in ToSet(todo[c]) : Allocated(c, r)
        /\ cursor[c] # None => \E e \in ToSet(alloc[c]) : Covers(e, cursor[c])

\* A client is never asked for a block it does not have, nor for a chunk id it
\* has not allocated: the server's status, however old, keeps its sender loop
\* from panicking.
ClientsUp == \A c \in Clients : clientUp[c]

\* A response that is lost does not matter, for the request is sent again: the
\* ranges of every status are such that the codec can write them.
LostResponseTolerated == \A c \in Clients : Ascending(Missing(c))

\* The server is not brought down by what its clients send.
ServerUp == server = "up"

-----------------------------------------------------------------------------
(***************************************************************************)
(* Liveness.                                                               *)
(***************************************************************************)

\* A client's folder reaches the server.
SyncCompletes ==
    \A c \in Clients : connected[c] ~> (folder = Original[Root[c]])
=============================================================================
