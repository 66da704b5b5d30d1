---------------------------- MODULE LocksProofs -----------------------------
(***************************************************************************)
(* The deadlock of scsync's server has one form: whatever is queued for    *)
(* the status loop, the two tasks wait for each other only when recv_task  *)
(* is in unconnected_root_update.  The other handlers take the mutexes in  *)
(* the order of the status loop.                                           *)
(***************************************************************************)
EXTENDS Locks, SequenceTheorems, TLAPS

Recvs == {"unconnected_root_update", "same_root", "block_request_response", "transfer_payload"}

\* Task t waits for a mutex that task u holds.
WaitsFor(t, u) ==
    /\ at[t] < Len(Handler(t))
    /\ Handler(t)[at[t] + 1] \cap Held(u) # {}

Deadlocked == WaitsFor("recv_task", "status_task") /\ WaitsFor("status_task", "recv_task")

\* The tasks wait for each other only as unconnected_root_update, which has
\* blockdb and wants clients, and the status loop, which has clients and wants
\* blockdb.
OneDeadlock ==
    Deadlocked =>
        /\ runs["recv_task"] = "unconnected_root_update" /\ Held("recv_task") = {"blockdb"}
        /\ runs["status_task"] = "status_loop" /\ Held("status_task") = {"clients"}

\* A mutex has one holder.
MutualExclusion == Held("recv_task") \cap Held("status_task") = {}

LocksInv ==
    /\ runs \in [Tasks -> Recvs \cup {"status_loop", "none"}]
    /\ at \in [Tasks -> Nat]
    /\ \A t \in Tasks : at[t] # 0 => at[t] <= Len(Handler(t))
    /\ runs["recv_task"] # "status_loop" /\ runs["status_task"] \notin Recvs
    /\ transferring \in BOOLEAN
    /\ MutualExclusion

-----------------------------------------------------------------------------
\* A handler that follows client_state.
LEMMA AfterClientState ==
    ASSUME NEW s \in Seq(SUBSET {"blockdb", "clients"})
    PROVE  /\ client_state \o s \in Seq(SUBSET {"blockdb", "clients"})
           /\ Len(client_state \o s) = Len(s) + 2
           /\ (client_state \o s)[1] = {"clients"}
           /\ (client_state \o s)[2] = {}
           /\ Len(s) >= 1 => (client_state \o s)[3] = s[1]
           /\ Len(s) >= 2 => (client_state \o s)[4] = s[2]
           /\ Len(s) >= 3 => (client_state \o s)[5] = s[3]
<1>1. client_state \in Seq(SUBSET {"blockdb", "clients"})
  BY DEF client_state
<1>2. Len(client_state) = 2 /\ client_state[1] = {"clients"} /\ client_state[2] = {}
  BY DEF client_state
<1>3. /\ client_state \o s \in Seq(SUBSET {"blockdb", "clients"})
      /\ Len(client_state \o s) = Len(client_state) + Len(s)
      /\ \A i \in 1 .. Len(client_state) + Len(s) : (client_state \o s)[i] =
            IF i <= Len(client_state) THEN client_state[i] ELSE s[i - Len(client_state)]
  BY <1>1, ConcatProperties, Zenon
<1>4. Len(s) \in Nat
  OBVIOUS
<1>5. (client_state \o s)[1] = {"clients"} /\ (client_state \o s)[2] = {}
  BY <1>2, <1>3, <1>4
<1>6. /\ Len(s) >= 1 => (client_state \o s)[3] = s[1]
      /\ Len(s) >= 2 => (client_state \o s)[4] = s[2]
      /\ Len(s) >= 3 => (client_state \o s)[5] = s[3]
  BY <1>2, <1>3, <1>4
<1> QED
  BY <1>2, <1>3, <1>4, <1>5, <1>6

\* What each handler holds, one set after the other.
LEMMA SameRootSets ==
    /\ Len(same_root) = 3
    /\ same_root[1] = {"clients"} /\ same_root[2] = {} /\ same_root[3] = {"blockdb"}
<1> DEFINE s == <<{"blockdb"}>>
<1>1. s \in Seq(SUBSET {"blockdb", "clients"}) /\ Len(s) = 1 /\ s[1] = {"blockdb"}
  OBVIOUS
<1> HIDE DEF s
<1>2. same_root = client_state \o s
  BY DEF same_root, s
<1>3. /\ Len(client_state \o s) = Len(s) + 2
      /\ (client_state \o s)[1] = {"clients"} /\ (client_state \o s)[2] = {}
      /\ Len(s) >= 1 => (client_state \o s)[3] = s[1]
      /\ Len(s) >= 2 => (client_state \o s)[4] = s[2]
      /\ Len(s) >= 3 => (client_state \o s)[5] = s[3]
  BY <1>1, AfterClientState, Zenon
<1> QED
  BY <1>1, <1>2, <1>3

LEMMA RootUpdateSets ==
    /\ Len(unconnected_root_update) = 4
    /\ unconnected_root_update[1] = {"clients"} /\ unconnected_root_update[2] = {}
    /\ unconnected_root_update[3] = {"blockdb"}
    /\ unconnected_root_update[4] = {"blockdb", "clients"}
<1> DEFINE s == <<{"blockdb"}, {"blockdb", "clients"}>>
<1>1. /\ s \in Seq(SUBSET {"blockdb", "clients"}) /\ Len(s) = 2
      /\ s[1] = {"blockdb"} /\ s[2] = {"blockdb", "clients"}
  OBVIOUS
<1> HIDE DEF s
<1>2. unconnected_root_update = client_state \o s
  BY DEF unconnected_root_update, s
<1>3. /\ Len(client_state \o s) = Len(s) + 2
      /\ (client_state \o s)[1] = {"clients"} /\ (client_state \o s)[2] = {}
      /\ Len(s) >= 1 => (client_state \o s)[3] = s[1]
      /\ Len(s) >= 2 => (client_state \o s)[4] = s[2]
      /\ Len(s) >= 3 => (client_state \o s)[5] = s[3]
  BY <1>1, AfterClientState, Zenon
<1> QED
  BY <1>1, <1>2, <1>3

LEMMA ResponseSets ==
    /\ Len(block_request_response) = 5
    /\ block_request_response[1] = {"clients"} /\ block_request_response[2] = {}
    /\ block_request_response[3] = {"clients"}
    /\ block_request_response[4] = {"clients", "blockdb"}
    /\ block_request_response[5] = {"clients"}
<1> DEFINE s == <<{"clients"}, {"clients", "blockdb"}, {"clients"}>>
<1>1. /\ s \in Seq(SUBSET {"blockdb", "clients"}) /\ Len(s) = 3
      /\ s[1] = {"clients"} /\ s[2] = {"clients", "blockdb"} /\ s[3] = {"clients"}
  OBVIOUS
<1> HIDE DEF s
<1>2. block_request_response = client_state \o s
  BY DEF block_request_response, s
<1>3. /\ Len(client_state \o s) = Len(s) + 2
      /\ (client_state \o s)[1] = {"clients"} /\ (client_state \o s)[2] = {}
      /\ Len(s) >= 1 => (client_state \o s)[3] = s[1]
      /\ Len(s) >= 2 => (client_state \o s)[4] = s[2]
      /\ Len(s) >= 3 => (client_state \o s)[5] = s[3]
  BY <1>1, AfterClientState, Zenon
<1> QED
  BY <1>1, <1>2, <1>3

LEMMA PayloadSets ==
    /\ Len(transfer_payload) = 4
    /\ transfer_payload[1] = {"clients"} /\ transfer_payload[2] = {}
    /\ transfer_payload[3] = {"clients"} /\ transfer_payload[4] = {"clients", "blockdb"}
<1> DEFINE s == <<{"clients"}, {"clients", "blockdb"}>>
<1>1. /\ s \in Seq(SUBSET {"blockdb", "clients"}) /\ Len(s) = 2
      /\ s[1] = {"clients"} /\ s[2] = {"clients", "blockdb"}
  OBVIOUS
<1> HIDE DEF s
<1>2. transfer_payload = client_state \o s
  BY DEF transfer_payload, s
<1>3. /\ Len(client_state \o s) = Len(s) + 2
      /\ (client_state \o s)[1] = {"clients"} /\ (client_state \o s)[2] = {}
      /\ Len(s) >= 1 => (client_state \o s)[3] = s[1]
      /\ Len(s) >= 2 => (client_state \o s)[4] = s[2]
      /\ Len(s) >= 3 => (client_state \o s)[5] = s[3]
  BY <1>1, AfterClientState, Zenon
<1> QED
  BY <1>1, <1>2, <1>3

LEMMA StatusSets ==
    /\ status_loop(FALSE) = <<{"clients"}>>
    /\ status_loop(TRUE) = <<{"clients"}, {"clients", "blockdb"}, {"clients"}>>
BY DEF status_loop

\* Where recv_task is, by what it holds.
LEMMA RecvHolds ==
    ASSUME LocksInv
    PROVE  /\ Len(Handler("recv_task")) \in Nat
           /\ runs["recv_task"] = "none" => at["recv_task"] = 0
           /\ Held("recv_task") # {} =>
                "blockdb" \in Held("recv_task") \/ "clients" \in Held("recv_task")
           /\ runs["recv_task"] \in {"block_request_response", "transfer_payload"}
                /\ at["recv_task"] = Len(Handler("recv_task"))
              => "clients" \in Held("recv_task")
           /\ /\ at["recv_task"] < Len(Handler("recv_task"))
              /\ "blockdb" \in Held("recv_task") /\ "clients" \notin Held("recv_task")
              => runs["recv_task"] = "unconnected_root_update" /\ Held("recv_task") = {"blockdb"}
<1>1. /\ at["recv_task"] \in Nat
      /\ at["recv_task"] # 0 => at["recv_task"] <= Len(Handler("recv_task"))
      /\ runs["recv_task"] \in Recvs \cup {"none"}
  BY DEF LocksInv, Tasks
<1>2. CASE runs["recv_task"] = "none"
  BY <1>1, <1>2 DEF Handler, Held
<1>3. CASE runs["recv_task"] = "same_root"
  <2>1. Handler("recv_task") = same_root
    BY <1>3 DEF Handler
  <2>2. Len(Handler("recv_task")) = 3
    BY <2>1, SameRootSets, Zenon
  <2>3. at["recv_task"] \in 0 .. 3
    <3>1. at["recv_task"] # 0 => at["recv_task"] <= 3
      BY <1>1, <2>2, Zenon
    <3>2. at["recv_task"] \in Nat
      BY <1>1
    <3> QED
      BY <3>1, <3>2
  <2>4. CASE at["recv_task"] = 0
    BY <1>3, <2>2, <2>4 DEF Held
  <2>5. CASE at["recv_task"] = 1
    BY <1>3, <2>1, <2>2, <2>5, SameRootSets DEF Held
  <2>6. CASE at["recv_task"] = 2
    BY <1>3, <2>1, <2>2, <2>6, SameRootSets DEF Held
  <2>7. CASE at["recv_task"] = 3
    <3>1. ~(3 < 3)
      OBVIOUS
    <3>2. ~(at["recv_task"] < Len(Handler("recv_task")))
      BY <2>2, <2>7, <3>1, Zenon
    <3>3. "blockdb" \in Held("recv_task")
      BY <2>1, <2>7, SameRootSets DEF Held
    <3> QED
      BY <1>3, <2>2, <3>2, <3>3
  <2> QED
    BY <2>3, <2>4, <2>5, <2>6, <2>7
<1>4. CASE runs["recv_task"] = "unconnected_root_update"
  <2>1. Handler("recv_task") = unconnected_root_update
    BY <1>4 DEF Handler
  <2>2. Len(Handler("recv_task")) = 4
    BY <2>1, RootUpdateSets, Zenon
  <2>3. at["recv_task"] \in 0 .. 4
    <3>1. at["recv_task"] # 0 => at["recv_task"] <= 4
      BY <1>1, <2>2, Zenon
    <3>2. at["recv_task"] \in Nat
      BY <1>1
    <3> QED
      BY <3>1, <3>2
  <2>4. CASE at["recv_task"] = 0
    BY <1>4, <2>2, <2>4 DEF Held
  <2>5. CASE at["recv_task"] = 1
    BY <1>4, <2>1, <2>2, <2>5, RootUpdateSets DEF Held
  <2>6. CASE at["recv_task"] = 2
    BY <1>4, <2>1, <2>2, <2>6, RootUpdateSets DEF Held
  <2>7. CASE at["recv_task"] = 3
    BY <1>4, <2>1, <2>2, <2>7, RootUpdateSets DEF Held
  <2>8. CASE at["recv_task"] = 4
    BY <1>4, <2>1, <2>2, <2>8, RootUpdateSets DEF Held
  <2> QED
    BY <2>3, <2>4, <2>5, <2>6, <2>7, <2>8
<1>5. CASE runs["recv_task"] = "block_request_response"
  <2>1. Handler("recv_task") = block_request_response
    BY <1>5 DEF Handler
  <2>2. Len(Handler("recv_task")) = 5
    BY <2>1, ResponseSets, Zenon
  <2>3. at["recv_task"] \in 0 .. 5
    <3>1. at["recv_task"] # 0 => at["recv_task"] <= 5
      BY <1>1, <2>2, Zenon
    <3>2. at["recv_task"] \in Nat
      BY <1>1
    <3> QED
      BY <3>1, <3>2
  <2>4. CASE at["recv_task"] = 0
    <3>1. Held("recv_task") = {}
      BY <2>4 DEF Held
    <3> QED
      BY <1>5, <2>2, <2>4, <3>1
  <2>5. CASE at["recv_task"] = 1
    <3>1. Held("recv_task") = {"clients"}
      BY <2>1, <2>5, ResponseSets DEF Held
    <3> QED
      BY <1>5, <2>2, <2>5, <3>1
  <2>6. CASE at["recv_task"] = 2
    <3>1. Held("recv_task") = {}
      BY <2>1, <2>6, ResponseSets DEF Held
    <3> QED
      BY <1>5, <2>2, <2>6, <3>1
  <2>7. CASE at["recv_task"] = 3
    <3>1. Held("recv_task") = {"clients"}
      BY <2>1, <2>7, ResponseSets DEF Held
    <3> QED
      BY <1>5, <2>2, <2>7, <3>1
  <2>8. CASE at["recv_task"] = 4
    <3>1. Held("recv_task") = {"clients", "blockdb"}
      BY <2>1, <2>8, ResponseSets DEF Held
    <3> QED
      BY <1>5, <2>2, <2>8, <3>1
  <2>9. CASE at["recv_task"] = 5
    <3>1. Held("recv_task") = {"clients"}
      BY <2>1, <2>9, ResponseSets DEF Held
    <3> QED
      BY <1>5, <2>2, <2>9, <3>1
  <2> QED
    BY <2>3, <2>4, <2>5, <2>6, <2>7, <2>8, <2>9
<1>6. CASE runs["recv_task"] = "transfer_payload"
  <2>1. Handler("recv_task") = transfer_payload
    BY <1>6 DEF Handler
  <2>2. Len(Handler("recv_task")) = 4
    BY <2>1, PayloadSets, Zenon
  <2>3. at["recv_task"] \in 0 .. 4
    <3>1. at["recv_task"] # 0 => at["recv_task"] <= 4
      BY <1>1, <2>2, Zenon
    <3>2. at["recv_task"] \in Nat
      BY <1>1
    <3> QED
      BY <3>1, <3>2
  <2>4. CASE at["recv_task"] = 0
    <3>1. Held("recv_task") = {}
      BY <2>4 DEF Held
    <3> QED
      BY <1>6, <2>2, <2>4, <3>1
  <2>5. CASE at["recv_task"] = 1
    <3>1. Held("recv_task") = {"clients"}
      BY <2>1, <2>5, PayloadSets DEF Held
    <3> QED
      BY <1>6, <2>2, <2>5, <3>1
  <2>6. CASE at["recv_task"] = 2
    <3>1. Held("recv_task") = {}
      BY <2>1, <2>6, PayloadSets DEF Held
    <3> QED
      BY <1>6, <2>2, <2>6, <3>1
  <2>7. CASE at["recv_task"] = 3
    <3>1. Held("recv_task") = {"clients"}
      BY <2>1, <2>7, PayloadSets DEF Held
    <3> QED
      BY <1>6, <2>2, <2>7, <3>1
  <2>8. CASE at["recv_task"] = 4
    <3>1. Held("recv_task") = {"clients", "blockdb"}
      BY <2>1, <2>8, PayloadSets DEF Held
    <3> QED
      BY <1>6, <2>2, <2>8, <3>1
  <2> QED
    BY <2>3, <2>4, <2>5, <2>6, <2>7, <2>8
<1> QED
  BY <1>1, <1>2, <1>3, <1>4, <1>5, <1>6 DEF Recvs

\* The status loop has clients whenever it has anything, and only the second
\* of its three sets has blockdb.
LEMMA StatusHolds ==
    ASSUME LocksInv
    PROVE  /\ Len(Handler("status_task")) \in Nat
           /\ runs["status_task"] = "none" => at["status_task"] = 0
           /\ at["status_task"] # 0 =>
                /\ runs["status_task"] = "status_loop"
                /\ "clients" \in Held("status_task")
           /\ at["status_task"] < Len(Handler("status_task"))
                /\ at["status_task"] # 0 /\ "blockdb" \notin Held("status_task")
              => Held("status_task") = {"clients"}
<1>1. /\ at["status_task"] \in Nat
      /\ at["status_task"] # 0 => at["status_task"] <= Len(Handler("status_task"))
      /\ runs["status_task"] \in {"status_loop", "none"}
      /\ transferring \in BOOLEAN
  BY DEF LocksInv, Tasks
<1>2. CASE runs["status_task"] = "none"
  BY <1>1, <1>2 DEF Handler, Held
<1>3. CASE runs["status_task"] = "status_loop"
  <2>1. Handler("status_task") = status_loop(transferring)
    BY <1>3 DEF Handler
  <2>2. CASE transferring = TRUE
    <3>1. Handler("status_task") = <<{"clients"}, {"clients", "blockdb"}, {"clients"}>>
      BY <2>1, <2>2, StatusSets
    <3> QED
      BY <1>1, <1>3, <3>1 DEF Held
  <2>3. CASE transferring = FALSE
    <3>1. Handler("status_task") = <<{"clients"}>>
      BY <2>1, <2>3, StatusSets
    <3> QED
      BY <1>1, <1>3, <3>1 DEF Held
  <2> QED
    BY <1>1, <2>2, <2>3
<1> QED
  BY <1>1, <1>2, <1>3

-----------------------------------------------------------------------------
\* The tasks that wait for each other are the two of OneDeadlock.
LEMMA InvOneDeadlock ==
    ASSUME LocksInv
    PROVE  OneDeadlock
<1> SUFFICES ASSUME Deadlocked
             PROVE  /\ runs["recv_task"] = "unconnected_root_update"
                    /\ Held("recv_task") = {"blockdb"}
                    /\ runs["status_task"] = "status_loop"
                    /\ Held("status_task") = {"clients"}
  BY DEF OneDeadlock
<1>1. /\ at["recv_task"] < Len(Handler("recv_task"))
      /\ at["status_task"] < Len(Handler("status_task"))
      /\ Held("recv_task") # {} /\ Held("status_task") # {}
  BY DEF Deadlocked, WaitsFor
<1>2. at["status_task"] # 0
  BY <1>1 DEF Held
<1>3. "clients" \in Held("status_task") /\ runs["status_task"] = "status_loop"
  BY <1>2, StatusHolds
<1>4. "clients" \notin Held("recv_task")
  BY <1>3 DEF LocksInv, MutualExclusion
<1>5. "blockdb" \in Held("recv_task")
  BY <1>1, <1>4, RecvHolds
<1>6. "blockdb" \notin Held("status_task")
  BY <1>5 DEF LocksInv, MutualExclusion
<1> QED
  BY <1>1, <1>2, <1>3, <1>4, <1>5, <1>6, RecvHolds, StatusHolds

LEMMA InitLocks ==
    Init => LocksInv
<1> SUFFICES ASSUME Init
             PROVE  LocksInv
  OBVIOUS
<1>1. \A t \in Tasks : runs[t] = "none" /\ at[t] = 0
  BY DEF Init
<1>2. MutualExclusion
  BY <1>1 DEF MutualExclusion, Held, Tasks
<1> QED
  BY <1>1, <1>2 DEF Init, LocksInv, Tasks, Recvs

\* A task that does not move has what it had, also when transferring changes
\* while it has nothing.
LEMMA Stays ==
    ASSUME LocksInv, NEW u \in Tasks, runs'[u] = runs[u], at'[u] = at[u],
           transferring' = transferring \/ at[u] = 0 \/ u = "recv_task"
    PROVE  /\ Held(u)' = Held(u)
           /\ at[u] # 0 => at'[u] <= Len(Handler(u)')
<1>1. CASE at[u] = 0
  BY <1>1 DEF Held
<1>2. CASE transferring' = transferring
  <2>1. Handler(u)' = Handler(u)
    BY <1>2 DEF Handler
  <2> QED
    BY <2>1 DEF Held, LocksInv
<1>3. CASE u = "recv_task"
  <2>1. runs[u] # "status_loop"
    BY <1>3 DEF LocksInv
  <2>2. Handler(u)' = Handler(u)
    BY <2>1 DEF Handler
  <2> QED
    BY <2>2 DEF Held, LocksInv
<1> QED
  BY <1>1, <1>2, <1>3

LEMMA CallKeeps ==
    ASSUME LocksInv, NEW t \in Tasks, NEW h \in Recvs \cup {"status_loop"}, Call(t, h),
           t = "recv_task" => h \in Recvs, t = "status_task" => h = "status_loop"
    PROVE  LocksInv'
<1>1. /\ runs[t] = "none" /\ runs' = [runs EXCEPT ![t] = h]
      /\ at' = at /\ transferring' = transferring
  BY DEF Call
<1>2. at[t] = 0
  BY <1>1, RecvHolds, StatusHolds DEF Tasks
<1>3. \A u \in Tasks : Held(u)' = Held(u) /\ (at'[u] # 0 => at'[u] <= Len(Handler(u)'))
  <2> SUFFICES ASSUME NEW u \in Tasks
               PROVE  Held(u)' = Held(u) /\ (at'[u] # 0 => at'[u] <= Len(Handler(u)'))
    OBVIOUS
  <2>1. CASE u = t
    BY <1>1, <1>2, <2>1 DEF Held
  <2>2. CASE u # t
    <3>1. runs'[u] = runs[u] /\ at'[u] = at[u]
      BY <1>1, <2>2 DEF LocksInv
    <3> QED
      BY <1>1, <3>1, Stays
  <2> QED
    BY <2>1, <2>2
<1>4. MutualExclusion'
  BY <1>3 DEF LocksInv, MutualExclusion, Tasks
<1>5. /\ runs' \in [Tasks -> Recvs \cup {"status_loop", "none"}]
      /\ runs'["recv_task"] # "status_loop" /\ runs'["status_task"] \notin Recvs
  BY <1>1 DEF LocksInv, Tasks, Recvs
<1> QED
  BY <1>1, <1>3, <1>4, <1>5 DEF LocksInv

LEMMA AdvanceKeeps ==
    ASSUME LocksInv, NEW t \in Tasks, Advance(t)
    PROVE  LocksInv'
<1>1. /\ at[t] < Len(Handler(t))
      /\ \A u \in Tasks \ {t} : Handler(t)[at[t] + 1] \cap Held(u) = {}
      /\ at' = [at EXCEPT ![t] = @ + 1]
      /\ runs' = runs /\ transferring' = transferring
  BY DEF Advance
<1>2. at \in [Tasks -> Nat] /\ Len(Handler(t)) \in Nat
  BY RecvHolds, StatusHolds DEF LocksInv, Tasks
<1>3. at' \in [Tasks -> Nat] /\ at'[t] = at[t] + 1 /\ at'[t] # 0
  BY <1>1, <1>2
<1>4. \A u \in Tasks : Handler(u)' = Handler(u)
  BY <1>1 DEF Handler
<1>5. Held(t)' = Handler(t)[at[t] + 1] /\ at'[t] <= Len(Handler(t)')
  BY <1>1, <1>2, <1>3, <1>4 DEF Held
<1>6. \A u \in Tasks \ {t} : Held(u)' = Held(u) /\ (at'[u] # 0 => at'[u] <= Len(Handler(u)'))
  <2> SUFFICES ASSUME NEW u \in Tasks \ {t}
               PROVE  Held(u)' = Held(u) /\ (at'[u] # 0 => at'[u] <= Len(Handler(u)'))
    OBVIOUS
  <2>1. runs'[u] = runs[u] /\ at'[u] = at[u]
    BY <1>1, <1>2
  <2> QED
    BY <1>1, <2>1, Stays
<1>7. MutualExclusion'
  <2>1. \A u \in Tasks \ {t} : Held(t)' \cap Held(u)' = {}
    BY <1>1, <1>5, <1>6
  <2>2. "status_task" # "recv_task"
    OBVIOUS
  <2> QED
    BY <2>1, <2>2 DEF MutualExclusion, Tasks
<1> QED
  BY <1>1, <1>3, <1>5, <1>6, <1>7 DEF LocksInv

\* Only two handlers of recv_task change transferring.
Changes(t, h) ==
    \/ transferring' = transferring
    \/ t = "recv_task" /\ h \in {"block_request_response", "transfer_payload"}

\* A handler returns; if it changes transferring it has clients, and then the
\* status loop has nothing.
LEMMA ReturnsKeeps ==
    ASSUME LocksInv, NEW t \in Tasks, NEW h, Returns(t, h), transferring' \in BOOLEAN,
           Changes(t, h)
    PROVE  LocksInv'
<1>1. /\ runs[t] = h /\ at[t] = Len(Handler(t))
      /\ runs' = [runs EXCEPT ![t] = "none"] /\ at' = [at EXCEPT ![t] = 0]
  BY DEF Returns
<1>2. /\ at' \in [Tasks -> Nat] /\ at'[t] = 0
      /\ runs' \in [Tasks -> Recvs \cup {"status_loop", "none"}]
      /\ runs'["recv_task"] # "status_loop" /\ runs'["status_task"] \notin Recvs
  BY <1>1 DEF LocksInv, Tasks, Recvs
<1>3. Held(t)' = {}
  BY <1>2 DEF Held
<1>4. transferring' = transferring \/ at["status_task"] = 0
  <2> SUFFICES ASSUME t = "recv_task", h \in {"block_request_response", "transfer_payload"}
               PROVE  at["status_task"] = 0
    BY DEF Changes
  <2>1. "clients" \in Held("recv_task")
    BY <1>1, RecvHolds
  <2>2. "clients" \notin Held("status_task")
    BY <2>1 DEF LocksInv, MutualExclusion
  <2> QED
    BY <2>2, StatusHolds
<1>5. \A u \in Tasks : at'[u] # 0 => at'[u] <= Len(Handler(u)')
  <2> SUFFICES ASSUME NEW u \in Tasks, at'[u] # 0
               PROVE  at'[u] <= Len(Handler(u)')
    OBVIOUS
  <2>1. u # t
    BY <1>2
  <2>2. runs'[u] = runs[u] /\ at'[u] = at[u]
    BY <1>1, <2>1 DEF LocksInv
  <2> QED
    BY <1>4, <2>2, Stays DEF Tasks
<1>6. MutualExclusion'
  BY <1>3 DEF MutualExclusion, Tasks
<1> QED
  BY <1>2, <1>5, <1>6 DEF LocksInv

LEMMA NextLocks ==
    LocksInv /\ [Next]_vars => LocksInv'
<1> SUFFICES ASSUME LocksInv, [Next]_vars
             PROVE  LocksInv'
  OBVIOUS
<1>0. transferring \in BOOLEAN
  BY DEF LocksInv
<1>1. CASE UNCHANGED vars
  BY <1>1 DEF vars, LocksInv, MutualExclusion, Held, Handler
<1>2. CASE Recv
  <2>1. PICK h \in Recvs : Call("recv_task", h)
    BY <1>2 DEF Recv, Recvs
  <2>2. "recv_task" \in Tasks /\ "recv_task" # "status_task"
    BY DEF Tasks
  <2>3. h \in Recvs \cup {"status_loop"}
    OBVIOUS
  <2> QED
    BY <2>1, <2>2, <2>3, CallKeeps
<1>3. CASE Status
  <2>1. Call("status_task", "status_loop")
    BY <1>3 DEF Status
  <2>2. "status_task" \in Tasks /\ "recv_task" # "status_task"
    BY DEF Tasks
  <2>3. "status_loop" \in Recvs \cup {"status_loop"}
    OBVIOUS
  <2> QED
    BY <2>1, <2>2, <2>3, CallKeeps
<1>4. CASE RootUpdateDone
  <2>1. Returns("recv_task", "unconnected_root_update") /\ transferring' = transferring
    BY <1>4 DEF RootUpdateDone
  <2>2. "recv_task" \in Tasks
    BY DEF Tasks
  <2>3. transferring' \in BOOLEAN
    BY <1>0, <2>1, Zenon
  <2>4. Changes("recv_task", "unconnected_root_update")
    BY <2>1 DEF Changes
  <2> QED
    BY <2>1, <2>2, <2>3, <2>4, ReturnsKeeps
<1>5. CASE SameRootDone
  <2>1. Returns("recv_task", "same_root") /\ transferring' = transferring
    BY <1>5 DEF SameRootDone
  <2>2. "recv_task" \in Tasks
    BY DEF Tasks
  <2>3. transferring' \in BOOLEAN
    BY <1>0, <2>1, Zenon
  <2>4. Changes("recv_task", "same_root")
    BY <2>1 DEF Changes
  <2> QED
    BY <2>1, <2>2, <2>3, <2>4, ReturnsKeeps
<1>6. CASE ResponseDone
  BY <1>6, ReturnsKeeps DEF ResponseDone, Tasks, Changes
<1>7. CASE PayloadDone
  BY <1>7, ReturnsKeeps DEF PayloadDone, Tasks, Changes
<1>8. CASE StatusDone
  <2>1. Returns("status_task", "status_loop") /\ transferring' = transferring
    BY <1>8 DEF StatusDone
  <2>2. "status_task" \in Tasks
    BY DEF Tasks
  <2>3. transferring' \in BOOLEAN
    BY <1>0, <2>1, Zenon
  <2>4. Changes("status_task", "status_loop")
    BY <2>1 DEF Changes
  <2> QED
    BY <2>1, <2>2, <2>3, <2>4, ReturnsKeeps
<1>9. CASE \E t \in Tasks : Advance(t)
  BY <1>9, AdvanceKeeps
<1> QED
  BY <1>1, <1>2, <1>3, <1>4, <1>5, <1>6, <1>7, <1>8, <1>9 DEF Next, Return

LEMMA LocksInvariant ==
    Spec => []LocksInv
BY InitLocks, NextLocks, PTL DEF Spec

-----------------------------------------------------------------------------
\* No mutex of the server ever has two holders.
THEOREM MutualExclusionAlways == Spec => []MutualExclusion
<1>1. LocksInv => MutualExclusion
  BY DEF LocksInv
<1> QED
  BY <1>1, LocksInvariant, PTL

\* The finding of the run locks is the only deadlock of the two mutexes: when
\* recv_task and the status loop wait for each other, recv_task is in
\* unconnected_root_update, between its two locks.
THEOREM OneDeadlockAlways == Spec => []OneDeadlock
<1>1. LocksInv => OneDeadlock
  BY InvOneDeadlock
<1> QED
  BY <1>1, LocksInvariant, PTL
=============================================================================
