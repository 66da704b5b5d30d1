------------------------------- MODULE Locks -------------------------------
(***************************************************************************)
(* The two mutexes of scsync's server, blockdb and clients, and the tasks  *)
(* that take them: recv_task, which runs one handler after the other, and  *)
(* the status loop, which block_request_response spawns.  The executor has *)
(* several threads.  (A client spawns no task that takes a mutex.)         *)
(*                                                                         *)
(* A handler is the sequence of the sets of mutexes that it holds; what it *)
(* changes it changes under both, so others see it when it returns.        *)
(***************************************************************************)
EXTENDS Integers, Sequences

CONSTANTS
    MaxTicks    \* what may be queued for the status loop

Tasks == {"recv_task", "status_task"}

\* client_state comes before every handler, and returns the mutex.
client_state == <<{"clients"}, {}>>

\* unconnected_root_update, of the root that the server has.
same_root == client_state \o <<{"blockdb"}>>

\* unconnected_root_update, of another root.
unconnected_root_update == client_state \o <<{"blockdb"}, {"blockdb", "clients"}>>

\* blockdb is locked for one statement.
block_request_response == client_state \o <<{"clients"}, {"clients", "blockdb"}, {"clients"}>>

transfer_payload == client_state \o <<{"clients"}, {"clients", "blockdb"}>>

\* blockdb is locked for every transfer of the client; one is enough here.
status_loop(transferring) ==
    IF transferring THEN <<{"clients"}, {"clients", "blockdb"}, {"clients"}>> ELSE <<{"clients"}>>

VARIABLES
    runs,           \* the handler that a task runs, or "none"
    at,             \* how many sets of it the task has held
    pending,        \* a client uploads
    transferring,   \* it has a transfer
    ticks           \* what is queued for the status loop

vars == <<runs, at, pending, transferring, ticks>>

Init ==
    /\ runs = [t \in Tasks |-> "none"]
    /\ at = [t \in Tasks |-> 0]
    /\ pending = FALSE
    /\ transferring = FALSE
    /\ ticks = 0

Handler(t) ==
    CASE runs[t] = "unconnected_root_update" -> unconnected_root_update
      [] runs[t] = "same_root" -> same_root
      [] runs[t] = "block_request_response" -> block_request_response
      [] runs[t] = "transfer_payload" -> transfer_payload
      [] runs[t] = "status_loop" -> status_loop(transferring)
      [] OTHER -> <<>>

Held(t) == IF at[t] = 0 THEN {} ELSE Handler(t)[at[t]]

Call(t, handler) ==
    /\ runs[t] = "none"
    /\ runs' = [runs EXCEPT ![t] = handler]
    /\ UNCHANGED <<at, pending, transferring, ticks>>

\* A datagram arrives; of the uploading client only while there is one.
Recv ==
    /\ ticks < MaxTicks
    /\ \/ Call("recv_task", "unconnected_root_update")
       \/ Call("recv_task", "same_root")
       \/ pending /\ Call("recv_task", "block_request_response")
       \/ transferring /\ Call("recv_task", "transfer_payload")

Status ==
    /\ ticks > 0
    /\ Call("status_task", "status_loop")

\* A task goes on, if no other holds the mutex it takes.
Advance(t) ==
    /\ at[t] < Len(Handler(t))
    /\ \A u \in Tasks \ {t} : Handler(t)[at[t] + 1] \cap Held(u) = {}
    /\ at' = [at EXCEPT ![t] = @ + 1]
    /\ UNCHANGED <<runs, pending, transferring, ticks>>

\* A handler returns, and releases what it holds.
Returns(t, handler) ==
    /\ runs[t] = handler /\ at[t] = Len(Handler(t))
    /\ runs' = [runs EXCEPT ![t] = "none"]
    /\ at' = [at EXCEPT ![t] = 0]

\* The root is pending now, or another one was.
RootUpdateDone ==
    /\ Returns("recv_task", "unconnected_root_update")
    /\ pending' = TRUE
    /\ UNCHANGED <<transferring, ticks>>

SameRootDone ==
    /\ Returns("recv_task", "same_root")
    /\ UNCHANGED <<pending, transferring, ticks>>

\* The first transfer launches the status loop.
ResponseDone ==
    /\ Returns("recv_task", "block_request_response")
    /\ transferring' = TRUE
    /\ ticks' = IF transferring THEN ticks ELSE ticks + 1
    /\ UNCHANGED pending

\* A payload may be the last one of its transfer, or of the upload.
PayloadDone ==
    /\ Returns("recv_task", "transfer_payload")
    /\ ticks' = ticks + 1
    /\ transferring' \in BOOLEAN
    /\ pending' \in {TRUE, transferring'}

StatusDone ==
    /\ Returns("status_task", "status_loop")
    /\ ticks' = ticks - 1
    /\ UNCHANGED <<pending, transferring>>

Return == RootUpdateDone \/ SameRootDone \/ ResponseDone \/ PayloadDone \/ StatusDone

Next == Recv \/ Status \/ Return \/ \E t \in Tasks : Advance(t)

\* Every task that can go on again and again does.
Spec ==
    /\ Init /\ [][Next]_vars
    /\ WF_vars(Return)
    /\ \A t \in Tasks : SF_vars(Advance(t))

-----------------------------------------------------------------------------
\* First come, first served: a root update that comes while another client
\* uploads is ignored until that is done.  The server has a look at it and
\* goes on.
RootUpdateIgnored ==
    runs["recv_task"] = "unconnected_root_update" ~> runs["recv_task"] = "none"
=============================================================================
