----------------------------- MODULE SyncProofs -----------------------------
(***************************************************************************)
(* For any folders, any number of clients and any network: the server's    *)
(* folder is always one whole folder, made of blocks in which every chunk  *)
(* is in its place, no block that is needed is forgotten, and uploads are  *)
(* served one at a time (Sync implements SyncSpec).                        *)
(***************************************************************************)
EXTENDS SyncRefinement, TLAPS

-----------------------------------------------------------------------------
(***************************************************************************)
(* Trees.                                                                  *)
(***************************************************************************)

\* The traversal visits the root, and the entries of what it can read.
LEMMA VisitedClosed ==
    ASSUME NEW r \in Blocks, NEW F
    PROVE  /\ Visited(r, F) \subseteq Blocks
           /\ r \in Visited(r, F)
           /\ Closed(Visited(r, F), F)
<1>1. Visited(r, F) \subseteq Blocks /\ r \in Visited(r, F)
  BY DEF Visited
<1>2. ASSUME NEW x \in Visited(r, F) \cap F, NEW y \in Children[x]
      PROVE  y \in Visited(r, F)
  <2>1. x \in Blocks /\ y \in Blocks
    BY <1>1, ChildrenAssumption
  <2>2. ASSUME NEW S \in SUBSET Blocks, r \in S, Closed(S, F)
        PROVE  y \in S
    BY <2>2, <2>1 DEF Visited, Closed
  <2> QED
    BY <2>1, <2>2 DEF Visited
<1> QED
  BY <1>1, <1>2 DEF Closed

\* It visits nothing that a closed set with the root does not hold.
LEMMA VisitedLeast ==
    ASSUME NEW r \in Blocks, NEW F, NEW S \in SUBSET Blocks, r \in S, Closed(S, F)
    PROVE  Visited(r, F) \subseteq S
BY DEF Visited

\* With more blocks it visits no less.
LEMMA VisitedMonotone ==
    ASSUME NEW r \in Blocks, NEW F, NEW G, F \subseteq G
    PROVE  Visited(r, F) \subseteq Visited(r, G)
<1>1. Closed(Visited(r, G), F)
  BY VisitedClosed DEF Closed
<1> QED
  BY <1>1, VisitedClosed, VisitedLeast

\* A tree that verify accepts is there as a whole.
LEMMA VerifiedTree ==
    ASSUME NEW r \in Blocks, NEW F \in SUBSET Blocks, verify(r, F)
    PROVE  Tree[r] \subseteq F
<1>1. Closed(Visited(r, F), Blocks)
  BY VisitedClosed DEF verify, Closed
<1>2. Visited(r, Blocks) \subseteq Visited(r, F)
  BY <1>1, VisitedClosed, VisitedLeast
<1> QED
  BY <1>2 DEF Tree, verify

-----------------------------------------------------------------------------
(***************************************************************************)
(* Sequences and the network.                                              *)
(***************************************************************************)
IsSeq(s) == \E S : s \in Seq(S)
IsNet(net) == net = [c \in Clients |-> net[c]] /\ \A c \in Clients : IsSeq(net[c])

LEMMA AppendSet ==
    ASSUME NEW S, NEW s \in Seq(S), NEW m
    PROVE  /\ Append(s, m) \in Seq(S \cup {m})
           /\ ToSet(Append(s, m)) = ToSet(s) \cup {m}
<1>1. s \in Seq(S \cup {m})
  OBVIOUS
<1>2. Append(s, m) \in Seq(S \cup {m}) /\ DOMAIN Append(s, m) = 1 .. Len(s) + 1
  BY <1>1
<1>3. \A i \in 1 .. Len(s) + 1 : Append(s, m)[i] = IF i = Len(s) + 1 THEN m ELSE s[i]
  BY <1>1
<1>4. DOMAIN s = 1 .. Len(s) /\ Len(s) \in Nat
  OBVIOUS
<1>5. ToSet(Append(s, m)) \subseteq ToSet(s) \cup {m}
  BY <1>2, <1>3, <1>4 DEF ToSet
<1>6. ToSet(s) \cup {m} \subseteq ToSet(Append(s, m))
  BY <1>2, <1>3, <1>4 DEF ToSet
<1> QED
  BY <1>2, <1>5, <1>6
\* Removing an element leaves the others.
LEMMA WithoutSet ==
    ASSUME NEW S, NEW s \in Seq(S), NEW i \in DOMAIN s
    PROVE  /\ Without(s, i) \in Seq(S)
           /\ ToSet(Without(s, i)) \subseteq ToSet(s)
           /\ ToSet(s) \subseteq ToSet(Without(s, i)) \cup {s[i]}
<1> DEFINE w == Without(s, i)
<1>1. DOMAIN s = 1 .. Len(s) /\ Len(s) \in Nat /\ i \in 1 .. Len(s)
  OBVIOUS
<1>2. w = [j \in 1 .. Len(s) - 1 |-> IF j < i THEN s[j] ELSE s[j + 1]]
  BY DEF Without
<1>3. \A j \in 1 .. Len(s) - 1 : w[j] \in S
  BY <1>1, <1>2
<1>4. w \in Seq(S)
  BY <1>1, <1>2, <1>3
<1>5. ToSet(w) \subseteq ToSet(s)
  BY <1>1, <1>2 DEF ToSet
<1>6. ASSUME NEW j \in DOMAIN s, j # i
      PROVE  s[j] \in ToSet(w)
  <2>1. CASE j < i
    <3>1. j \in DOMAIN w /\ w[j] = s[j]
      BY <1>1, <1>2, <2>1
    <3> QED
      BY <3>1 DEF ToSet
  <2>2. CASE j > i
    <3>1. j - 1 \in DOMAIN w /\ w[j - 1] = s[j]
      BY <1>1, <1>2, <2>2
    <3> QED
      BY <3>1 DEF ToSet
  <2> QED
    BY <1>1, <1>6, <2>1, <2>2
<1>7. ToSet(s) \subseteq ToSet(w) \cup {s[i]}
  BY <1>6 DEF ToSet
<1> QED
  BY <1>4, <1>5, <1>7

\* What is posted to c is all that can be new on the network.
LEMMA PostSet ==
    ASSUME NEW net, IsNet(net), NEW c \in Clients, NEW m
    PROVE  /\ IsNet(Post(net, c, m))
           /\ \A d \in Clients : ToSet(Post(net, c, m)[d]) \subseteq ToSet(net[d]) \cup {m}
           /\ \A d \in Clients \ {c} : Post(net, c, m)[d] = net[d]
<1>1. PICK S : net[c] \in Seq(S)
  BY DEF IsNet, IsSeq
<1>2. /\ Append(net[c], m) \in Seq(S \cup {m})
      /\ ToSet(Append(net[c], m)) = ToSet(net[c]) \cup {m}
  BY <1>1, AppendSet
<1>3. CASE Len(net[c]) < MaxNet
  <2> DEFINE n == [net EXCEPT ![c] = Append(@, m)]
  <2>1. Post(net, c, m) = n
    BY <1>3 DEF Post
  <2>2. /\ n = [d \in Clients |-> n[d]]
        /\ n[c] = Append(net[c], m)
        /\ \A d \in Clients \ {c} : n[d] = net[d]
    BY DEF IsNet
  <2>3. IsSeq(n[c])
    BY <1>2, <2>2 DEF IsSeq
  <2>4. IsNet(n)
    BY <2>2, <2>3 DEF IsNet
  <2> HIDE DEF n
  <2> QED
    BY <1>2, <2>1, <2>2, <2>4
<1>4. CASE ~(Len(net[c]) < MaxNet)
  BY <1>4 DEF Post
<1> QED
  BY <1>3, <1>4

\* Taking, duplicating and losing bring nothing new.
LEMMA WithoutNet ==
    ASSUME NEW net, IsNet(net), NEW c \in Clients, NEW i \in DOMAIN net[c]
    PROVE  /\ IsNet([net EXCEPT ![c] = Without(@, i)])
           /\ \A d \in Clients :
                ToSet([net EXCEPT ![c] = Without(@, i)][d]) \subseteq ToSet(net[d])
<1> DEFINE n == [net EXCEPT ![c] = Without(@, i)]
<1>1. PICK S : net[c] \in Seq(S)
  BY DEF IsNet, IsSeq
<1>2. Without(net[c], i) \in Seq(S) /\ ToSet(Without(net[c], i)) \subseteq ToSet(net[c])
  BY <1>1, WithoutSet
<1>3. /\ n = [d \in Clients |-> n[d]]
      /\ n[c] = Without(net[c], i)
      /\ \A d \in Clients \ {c} : n[d] = net[d]
  BY DEF IsNet
<1>4. IsSeq(n[c])
  BY <1>2, <1>3 DEF IsSeq
<1>5. IsNet(n)
  BY <1>3, <1>4 DEF IsNet
<1> HIDE DEF n
<1>6. \A d \in Clients : ToSet(n[d]) \subseteq ToSet(net[d])
  BY <1>2, <1>3
<1> QED
  BY <1>5, <1>6 DEF n

LEMMA TakenSet ==
    ASSUME NEW net, IsNet(net), NEW c \in Clients, NEW i \in DOMAIN net[c],
           NEW n \in Taken(net, c, i)
    PROVE  /\ IsNet(n)
           /\ \A d \in Clients : ToSet(n[d]) \subseteq ToSet(net[d])
<1>1. n = [net EXCEPT ![c] = Without(@, i)] \/ n = net
  BY DEF Taken
<1>2. CASE n = [net EXCEPT ![c] = Without(@, i)]
  BY <1>2, WithoutNet
<1>3. CASE n = net
  BY <1>3
<1> QED
  BY <1>1, <1>2, <1>3

-----------------------------------------------------------------------------
(***************************************************************************)
(* The inductive invariant, and what most steps leave alone.               *)
(***************************************************************************)
SyncTypes ==
    /\ connected \in [Clients -> BOOLEAN]
    /\ alloc \in [Clients -> Seq(Transfers)]
    /\ next \in [Clients -> Nat]
    /\ root \in Blocks
    /\ pending_root \in Blocks \cup {None}
    /\ have \subseteq Blocks
    /\ full \subseteq Blocks
    /\ data = [x \in Chunks |-> data[x]]
    /\ known \subseteq Clients
    /\ requests \in [Clients -> SUBSET Blocks]
    /\ transfers \in [Clients -> Seq(Transfers)]
    /\ IsNet(up)
    /\ IsNet(down)

IInv == SyncTypes /\ SyncInv

coreVars == <<connected, alloc, next, root, pending_root, have, full, data, folder,
              known, requests, transfers>>

LEMMA TreeType == Tree \in [Blocks -> SUBSET Blocks]
BY DEF Tree, Visited

\* The server starts with a whole folder and knows nobody.
LEMMA InitIInv == Init => IInv
<1> SUFFICES ASSUME Init PROVE IInv
  OBVIOUS
<1> USE DEF Init
<1>1. \A c \in Clients : IsSeq(up[c]) /\ IsSeq(down[c])
  BY DEF IsSeq
<1>2. SyncTypes
  BY <1>1, RootAssumption, TreeType DEF SyncTypes, IsNet
<1>3. \A c \in Clients : ToSet(up[c]) = {} /\ ToSet(down[c]) = {} /\ ToSet(alloc[c]) = {}
                         /\ ToSet(transfers[c]) = {}
  BY DEF ToSet
<1>4. AllocationsApart /\ MessagesTrue
  BY <1>3 DEF AllocationsApart, MessagesTrue
<1>5. OneUploader
  BY <1>3 DEF OneUploader
<1>6. DataInPlace
  BY DEF DataInPlace
<1>7. FolderIsWhole
  BY DEF FolderIsWhole
<1>8. Closed(Tree[ServerRoot], Blocks)
  BY VisitedClosed, RootAssumption DEF Tree
<1>9. \A b \in full : Children[b] \subseteq full
  BY <1>8, TreeType, RootAssumption DEF Closed
<1>10. TreeGrows
  BY <1>9 DEF TreeGrows
<1> QED
  BY <1>2, <1>4, <1>5, <1>6, <1>7, <1>10 DEF IInv, SyncInv

LEMMA TreeFrame ==
    ASSUME TreeGrows, UNCHANGED <<pending_root, have, full, known, requests, transfers>>
    PROVE  TreeGrows'
BY DEF TreeGrows, Outstanding, Transferred

\* A step that takes messages away, or posts one the invariant is not about.
LEMMA NetworkStep ==
    ASSUME IInv, UNCHANGED coreVars, IsNet(up'), IsNet(down'),
           \A d \in Clients : ToSet(up'[d]) \subseteq ToSet(up[d]),
           \A d \in Clients : \A m \in ToSet(down'[d]) :
                m \in ToSet(down[d]) \/ (m.type = "RootUpdateResponse" => m.block = Root[d])
    PROVE  IInv'
<1> USE DEF coreVars, IInv, SyncInv
<1>1. SyncTypes'
  BY DEF SyncTypes
<1>2. AllocationsApart'
  BY DEF AllocationsApart
<1>3. MessagesTrue'
  BY DEF MessagesTrue, IsTrue
<1>4. DataInPlace'
  BY DEF DataInPlace
<1>5. TreeGrows'
  BY TreeFrame
<1>6. FolderIsWhole'
  BY DEF FolderIsWhole
<1>7. OneUploader'
  BY DEF OneUploader
<1> QED
  BY <1>1, <1>2, <1>3, <1>4, <1>5, <1>6, <1>7

\* The steps of which that is all that matters.
LEMMA QuietSteps ==
    ASSUME IInv, NEW c \in Clients,
           \/ recv_root_update_response(c) \/ transfer_status(c) \/ end_loop(c)
           \/ recv_ignored(c) \/ root_update_same(c) \/ root_update_busy(c)
           \/ (\E b \in Blocks : request_retry(c, b))
           \/ send_status(c) \/ encode_underflow(c) \/ status_loop_panics(c)
           \/ recv_poisoned(c) \/ payload_panics(c) \/ Lose(c)
    PROVE  IInv'
<1> USE DEF clientVars, sendVars, serverVars, dbVars, connVars
<1>1. IsNet(up) /\ IsNet(down)
  BY DEF IInv, SyncTypes
<1>2. ASSUME NEW i \in DOMAIN up[c], NEW n \in Taken(up, c, i)
      PROVE  IsNet(n) /\ \A d \in Clients : ToSet(n[d]) \subseteq ToSet(up[d])
  BY <1>1, TakenSet
<1>3. ASSUME NEW i \in DOMAIN down[c], NEW n \in Taken(down, c, i)
      PROVE  IsNet(n) /\ \A d \in Clients : ToSet(n[d]) \subseteq ToSet(down[d])
  BY <1>1, TakenSet
<1>4. ASSUME NEW m
      PROVE  /\ IsNet(Post(down, c, m))
             /\ \A d \in Clients \ {c} : Post(down, c, m)[d] = down[d]
             /\ ToSet(Post(down, c, m)[c]) \subseteq ToSet(down[c]) \cup {m}
  BY <1>1, PostSet
<1>5. CASE recv_root_update_response(c)
  BY <1>1, <1>3, <1>5, NetworkStep DEF recv_root_update_response, ClientTakes, coreVars
<1>6. CASE transfer_status(c)
  BY <1>1, <1>3, <1>6, NetworkStep DEF transfer_status, ClientTakes, coreVars
<1>7. CASE end_loop(c)
  BY <1>1, <1>7, NetworkStep DEF end_loop, coreVars
<1>8. CASE recv_ignored(c)
  BY <1>1, <1>2, <1>8, NetworkStep DEF recv_ignored, ServerTakes, coreVars
<1>9. CASE root_update_busy(c)
  BY <1>1, <1>2, <1>9, NetworkStep DEF root_update_busy, ServerTakes, coreVars
<1>10. CASE root_update_same(c)
  <2>1. PICK i \in DOMAIN up[c] : ServerTakes(c, i, "RootUpdate") /\ up[c][i].block = root
    BY <1>10 DEF root_update_same
  <2>2. root = Root[c]
    BY <2>1 DEF ServerTakes, IInv, SyncInv, MessagesTrue, IsTrue, ToSet
  <2>3. down' = Post(down, c, RootUpdateResponse(root)) /\ UNCHANGED coreVars
    BY <1>10 DEF root_update_same, coreVars
  <2>4. \A d \in Clients : \A m \in ToSet(down'[d]) :
            m \in ToSet(down[d]) \/ (m.type = "RootUpdateResponse" => m.block = Root[d])
    BY <1>4, <2>2, <2>3 DEF RootUpdateResponse
  <2>5. IsNet(up') /\ \A d \in Clients : ToSet(up'[d]) \subseteq ToSet(up[d])
    BY <1>2, <2>1 DEF ServerTakes
  <2> QED
    BY <1>4, <2>3, <2>4, <2>5, NetworkStep
<1>11. CASE \E b \in Blocks : request_retry(c, b)
  <2>1. PICK b \in Blocks : request_retry(c, b)
    BY <1>11
  <2>2. down' = Post(down, c, BlockRequest(b)) /\ UNCHANGED <<coreVars, up>>
    BY <2>1 DEF request_retry, coreVars
  <2> QED
    BY <1>1, <1>4, <2>2, NetworkStep DEF BlockRequest
<1>12. CASE send_status(c)
  <2> DEFINE m == TransferStatus(Truncated(Missing(c)))
  <2>1. down' = Post(down, c, m) /\ UNCHANGED <<coreVars, up>>
    BY <1>12 DEF send_status, StatusTurn, coreVars
  <2>2. m.type # "RootUpdateResponse"
    BY DEF TransferStatus
  <2> HIDE DEF m
  <2> QED
    BY <1>1, <1>4, <2>1, <2>2, NetworkStep
<1>13. CASE encode_underflow(c) \/ status_loop_panics(c)
  BY <1>1, <1>13, NetworkStep DEF encode_underflow, status_loop_panics, StatusTurn, coreVars
<1>14. CASE recv_poisoned(c)
  BY <1>1, <1>14, NetworkStep DEF recv_poisoned, coreVars
<1>15. CASE payload_panics(c)
  BY <1>1, <1>2, <1>15, NetworkStep DEF payload_panics, ServerTakes, coreVars
<1>16. CASE Lose(c)
  <2>1. CASE \E i \in DOMAIN up[c] : up' = [up EXCEPT ![c] = Without(@, i)] /\ UNCHANGED <<coreVars, down>>
    <3>1. PICK i \in DOMAIN up[c] : up' = [up EXCEPT ![c] = Without(@, i)]
      BY <2>1
    <3>2. IsNet(up') /\ \A d \in Clients : ToSet(up'[d]) \subseteq ToSet(up[d])
      BY <1>1, <3>1, WithoutNet
    <3> QED
      BY <1>1, <2>1, <3>2, NetworkStep
  <2>2. CASE \E i \in DOMAIN down[c] : down' = [down EXCEPT ![c] = Without(@, i)] /\ UNCHANGED <<coreVars, up>>
    <3>1. PICK i \in DOMAIN down[c] : down' = [down EXCEPT ![c] = Without(@, i)]
      BY <2>2
    <3>2. IsNet(down') /\ \A d \in Clients : ToSet(down'[d]) \subseteq ToSet(down[d])
      BY <1>1, <3>1, WithoutNet
    <3> QED
      BY <1>1, <2>2, <3>2, NetworkStep
  <2> QED
    BY <1>16, <2>1, <2>2 DEF Lose, coreVars
<1> QED
  BY <1>5, <1>6, <1>7, <1>8, <1>9, <1>10, <1>11, <1>12, <1>13, <1>14, <1>15, <1>16

-----------------------------------------------------------------------------
(***************************************************************************)
(* The steps of a client: what they post is true.                          *)
(***************************************************************************)
dbAndConnVars == <<root, pending_root, have, full, data, folder, known, requests, transfers>>

LEMMA PostUp ==
    ASSUME IInv, NEW c \in Clients, NEW m, up' = Post(up, c, m)
    PROVE  /\ IsNet(up')
           /\ \A d \in Clients \ {c} : up'[d] = up[d]
           /\ ToSet(up'[c]) \subseteq ToSet(up[c]) \cup {m}
<1>1. IsNet(up)
  BY DEF IInv, SyncTypes
<1>2. /\ IsNet(Post(up, c, m))
      /\ \A d \in Clients : ToSet(Post(up, c, m)[d]) \subseteq ToSet(up[d]) \cup {m}
      /\ \A d \in Clients \ {c} : Post(up, c, m)[d] = up[d]
  BY <1>1, PostSet
<1> QED
  BY <1>2

LEMMA ClientStep ==
    ASSUME IInv, NEW c \in Clients, NEW m, UNCHANGED dbAndConnVars,
           connected' \in [Clients -> BOOLEAN],
           \A d \in Clients : connected[d] => connected'[d],
           alloc' \in [Clients -> Seq(Transfers)],
           \A d \in Clients : ToSet(alloc[d]) \subseteq ToSet(alloc'[d]),
           next' \in [Clients -> Nat],
           AllocationsApart',
           up' = Post(up, c, m), IsTrue(c, m)',
           IsNet(down'), \A d \in Clients : ToSet(down'[d]) \subseteq ToSet(down[d])
    PROVE  IInv'
<1> USE DEF dbAndConnVars, IInv, SyncInv
<1>1. /\ IsNet(up')
      /\ \A d \in Clients \ {c} : up'[d] = up[d]
      /\ ToSet(up'[c]) \subseteq ToSet(up[c]) \cup {m}
  BY PostUp
<1>2. SyncTypes'
  BY <1>1 DEF SyncTypes
<1>3. ASSUME NEW d \in Clients, NEW n \in ToSet(up[d])
      PROVE  IsTrue(d, n)'
  BY <1>3 DEF MessagesTrue, IsTrue
<1>4. MessagesTrue'
  BY <1>1, <1>3 DEF MessagesTrue
<1>5. DataInPlace'
  BY DEF DataInPlace
<1>6. TreeGrows'
  BY TreeFrame
<1>7. FolderIsWhole'
  BY DEF FolderIsWhole
<1>8. OneUploader'
  BY DEF OneUploader
<1> QED
  BY <1>2, <1>4, <1>5, <1>6, <1>7, <1>8

LEMMA ConnectStep ==
    ASSUME IInv, NEW c \in Clients, connect(c)
    PROVE  IInv'
<1> DEFINE m == RootUpdate(Root[c])
<1> USE DEF connect, clientVars, sendVars, serverVars, dbVars, connVars
<1>1. UNCHANGED <<dbAndConnVars, alloc, next, down>> /\ up' = Post(up, c, m)
  BY DEF dbAndConnVars
<1>2. /\ connected' \in [Clients -> BOOLEAN]
      /\ connected'[c]
      /\ \A d \in Clients : connected[d] => connected'[d]
  BY DEF IInv, SyncTypes
<1>3. IsTrue(c, m)'
  BY <1>2 DEF IsTrue, RootUpdate
<1>4. AllocationsApart'
  BY <1>1 DEF IInv, SyncInv, AllocationsApart, dbAndConnVars
<1> HIDE DEF m
<1> QED
  BY <1>1, <1>2, <1>3, <1>4, ClientStep DEF IInv, SyncTypes

\* A payload carries the chunk of the allocation that has its id.
LEMMA PayloadStep ==
    ASSUME IInv, NEW c \in Clients, send_payload(c)
    PROVE  IInv'
<1> USE DEF send_payload, clientVars, sendVars, serverVars, dbVars, connVars
<1>1. UNCHANGED <<dbAndConnVars, connected, alloc, next, down>>
  BY DEF dbAndConnVars
<1>2. IsNet(up) /\ IsNet(down)
  BY DEF IInv, SyncTypes
<1>3. CASE \E k \in DOMAIN alloc[c] : Covers(alloc[c][k], cursor[c])
  <2>1. PICK k \in DOMAIN alloc[c] :
            /\ Covers(alloc[c][k], cursor[c])
            /\ up' = Post(up, c, TransferPayload(cursor[c],
                                    <<alloc[c][k].block, cursor[c] - alloc[c][k].from>>))
    BY <1>3
  <2>2. PICK m : m = TransferPayload(cursor[c], Target(alloc[c][k], cursor[c]))
    OBVIOUS
  <2>3. m.type = "TransferPayload" /\ m.chunkid = cursor[c] /\ m.data = Target(alloc[c][k], cursor[c])
    BY <2>2 DEF TransferPayload
  <2>4. up' = Post(up, c, m) /\ IsTrue(c, m)'
    <3>1. up' = Post(up, c, m) /\ alloc[c][k] \in ToSet(alloc[c])
      BY <2>1, <2>2 DEF Target, ToSet
    <3>2. \E e \in ToSet(alloc'[c]) : Covers(e, m.chunkid) /\ m.data = Target(e, m.chunkid)
      BY <1>1, <2>1, <2>3, <3>1
    <3> QED
      BY <2>3, <3>1, <3>2 DEF IsTrue
  <2>5. AllocationsApart'
    BY <1>1 DEF IInv, SyncInv, AllocationsApart, dbAndConnVars
  <2>6. /\ connected \in [Clients -> BOOLEAN]
        /\ alloc \in [Clients -> Seq(Transfers)]
        /\ next \in [Clients -> Nat]
    BY DEF IInv, SyncTypes
  <2> QED
    BY <1>1, <1>2, <2>4, <2>5, <2>6, ClientStep
<1>4. CASE ~\E k \in DOMAIN alloc[c] : Covers(alloc[c][k], cursor[c])
  <2>1. UNCHANGED <<coreVars, up, down>>
    BY <1>4 DEF coreVars
  <2> QED
    BY <1>2, <2>1, NetworkStep
<1> QED
  BY <1>3, <1>4

\* The ids of a block follow those that are taken.
LEMMA AllocationStep ==
    ASSUME IInv, NEW c \in Clients, NEW b \in Tree[Root[c]],
           alloc' = [alloc EXCEPT ![c] = Allocation(c, b)],
           next' = [next EXCEPT ![c] = IF alloc'[c] = alloc[c] THEN @ ELSE @ + BlockLen[b]],
           UNCHANGED transfers
    PROVE  /\ alloc' \in [Clients -> Seq(Transfers)]
           /\ next' \in [Clients -> Nat]
           /\ \A d \in Clients : ToSet(alloc[d]) \subseteq ToSet(alloc'[d])
           /\ AllocationsApart'
<1> DEFINE e == [block |-> b, from |-> next[c], to |-> next[c] + BlockLen[b]]
<1>1. /\ alloc \in [Clients -> Seq(Transfers)]
      /\ next \in [Clients -> Nat]
      /\ b \in Blocks /\ BlockLen[b] \in Nat \ {0}
  BY TreeType, RootAssumption, BlockLenAssumption DEF IInv, SyncTypes
<1>2. CASE \E k \in DOMAIN alloc[c] : alloc[c][k].block = b
  <2>1. alloc' = alloc /\ next' = next
    BY <1>1, <1>2 DEF Allocation
  <2> QED
    BY <1>1, <2>1 DEF IInv, SyncInv, AllocationsApart
<1>3. CASE ~\E k \in DOMAIN alloc[c] : alloc[c][k].block = b
  <2>1. alloc'[c] = Append(alloc[c], e) /\ \A d \in Clients \ {c} : alloc'[d] = alloc[d]
    BY <1>1, <1>3 DEF Allocation
  <2>2. e \in Transfers /\ e.from = next[c] /\ e.to = next[c] + BlockLen[b] /\ e.block = b
    BY <1>1 DEF Transfers
  <2> HIDE DEF e
  <2>3. /\ Append(alloc[c], e) \in Seq(Transfers)
        /\ ToSet(Append(alloc[c], e)) = ToSet(alloc[c]) \cup {e}
    BY <1>1, <2>2, AppendSet
  <2>4. Append(alloc[c], e) # alloc[c]
    BY <1>1, <2>2
  <2>5. /\ next'[c] = next[c] + BlockLen[b]
        /\ \A d \in Clients \ {c} : next'[d] = next[d]
        /\ next' \in [Clients -> Nat]
    BY <1>1, <2>1, <2>4
  <2>6. alloc' \in [Clients -> Seq(Transfers)]
    BY <1>1, <2>1, <2>3
  <2>7. \A f \in ToSet(alloc[c]) : f \in Transfers
    BY <1>1 DEF ToSet
  <2>8. ASSUME NEW d \in Clients, NEW f \in ToSet(alloc'[d])
        PROVE  /\ f.to <= next'[d] /\ f.block \in Tree[Root[d]]
               /\ \A g \in ToSet(alloc'[d]) : f = g \/ f.to <= g.from \/ g.to <= f.from
    <3>1. CASE d # c
      BY <2>1, <2>5, <3>1 DEF IInv, SyncInv, AllocationsApart
    <3>2. CASE d = c
      <4>1. \A g \in ToSet(alloc[c]) :
                /\ g.to <= next[c] /\ g.block \in Tree[Root[c]]
                /\ \A h \in ToSet(alloc[c]) : g = h \/ g.to <= h.from \/ h.to <= g.from
        BY DEF IInv, SyncInv, AllocationsApart
      <4>2. \A g \in ToSet(alloc[c]) : g.to \in Nat /\ g.from \in Nat
        BY <2>7 DEF Transfers
      <4>3. ToSet(alloc'[d]) = ToSet(alloc[c]) \cup {e}
        BY <2>1, <2>3, <3>2
      <4> QED
        BY <1>1, <2>2, <2>5, <3>2, <4>1, <4>2, <4>3
    <3> QED
      BY <3>1, <3>2
  <2>9. \A d \in Clients : ToSet(alloc[d]) \subseteq ToSet(alloc'[d])
    BY <2>1, <2>3
  <2>10. \A d \in Clients : ToSet(transfers'[d]) \subseteq ToSet(alloc'[d])
    BY <2>9 DEF IInv, SyncInv, AllocationsApart
  <2> QED
    BY <2>5, <2>6, <2>8, <2>9, <2>10 DEF AllocationsApart
<1> QED
  BY <1>2, <1>3

\* A response names the ids that are allocated.
LEMMA BlockRequestStep ==
    ASSUME IInv, NEW c \in Clients, block_request(c)
    PROVE  IInv'
<1> USE DEF clientVars, sendVars, serverVars, dbVars, connVars
<1>1. IsNet(up) /\ IsNet(down)
  BY DEF IInv, SyncTypes
<1>2. UNCHANGED <<dbAndConnVars, connected>>
  BY DEF block_request, dbAndConnVars
<1>3. PICK i \in DOMAIN down[c] :
        /\ ClientTakes(c, i, "BlockRequest")
        /\ IF down[c][i].block \in Tree[Root[c]]
           THEN /\ alloc' = [alloc EXCEPT ![c] = Allocation(c, down[c][i].block)]
                /\ next' = [next EXCEPT ![c] =
                        IF alloc'[c] = alloc[c] THEN @ ELSE @ + BlockLen[down[c][i].block]]
                /\ \E k \in DOMAIN alloc'[c] :
                    /\ alloc'[c][k].block = down[c][i].block
                    /\ up' = Post(up, c, BlockRequestResponse(down[c][i].block,
                                            alloc'[c][k].from, alloc'[c][k].to))
           ELSE UNCHANGED <<alloc, next, up>>
  BY DEF block_request
<1>4. IsNet(down') /\ \A d \in Clients : ToSet(down'[d]) \subseteq ToSet(down[d])
  BY <1>1, <1>3, TakenSet DEF ClientTakes
<1>5. PICK b : b = down[c][i].block
  OBVIOUS
<1>6. CASE b \in Tree[Root[c]]
  <2>1. /\ alloc' = [alloc EXCEPT ![c] = Allocation(c, b)]
        /\ next' = [next EXCEPT ![c] = IF alloc'[c] = alloc[c] THEN @ ELSE @ + BlockLen[b]]
    BY <1>3, <1>5, <1>6
  <2>2. PICK k \in DOMAIN alloc'[c] :
            /\ alloc'[c][k].block = b
            /\ up' = Post(up, c, BlockRequestResponse(b, alloc'[c][k].from, alloc'[c][k].to))
    BY <1>3, <1>5, <1>6
  <2>3. /\ alloc' \in [Clients -> Seq(Transfers)]
        /\ next' \in [Clients -> Nat]
        /\ \A d \in Clients : ToSet(alloc[d]) \subseteq ToSet(alloc'[d])
        /\ AllocationsApart'
    BY <1>2, <1>6, <2>1, AllocationStep DEF dbAndConnVars
  <2>4. PICK e : e = alloc'[c][k]
    OBVIOUS
  <2>5. e \in Transfers /\ e \in ToSet(alloc'[c]) /\ e.block = b
    BY <2>2, <2>3, <2>4 DEF ToSet
  <2>6. PICK m : m = BlockRequestResponse(b, e.from, e.to)
    OBVIOUS
  <2>7. m.type = "BlockRequestResponse" /\ m.block = b /\ m.from = e.from /\ m.to = e.to
    BY <2>6 DEF BlockRequestResponse
  <2>8. e = [block |-> m.block, from |-> m.from, to |-> m.to]
    BY <2>5, <2>7 DEF Transfers
  <2>9. up' = Post(up, c, m) /\ IsTrue(c, m)'
    BY <2>2, <2>4, <2>5, <2>6, <2>7, <2>8 DEF IsTrue
  <2>10. connected \in [Clients -> BOOLEAN]
    BY DEF IInv, SyncTypes
  <2> QED
    BY <1>2, <1>4, <2>3, <2>9, <2>10, ClientStep
<1>7. CASE b \notin Tree[Root[c]]
  <2>1. UNCHANGED <<coreVars, up>>
    BY <1>2, <1>3, <1>5, <1>7 DEF coreVars, dbAndConnVars
  <2> QED
    BY <1>1, <1>4, <2>1, NetworkStep
<1> QED
  BY <1>6, <1>7

-----------------------------------------------------------------------------
(***************************************************************************)
(* The steps of the server.                                                *)
(***************************************************************************)

\* What is left of up when a message is taken is true, and so was the message.
LEMMA ServerTakesStep ==
    ASSUME IInv, NEW c \in Clients, NEW i \in DOMAIN up[c], NEW t, ServerTakes(c, i, t),
           UNCHANGED <<connected, alloc>>
    PROVE  IsNet(up') /\ MessagesTrue' /\ IsTrue(c, up[c][i]) /\ up[c][i].type = t
<1>1. IsNet(up)
  BY DEF IInv, SyncTypes
<1>2. IsNet(up') /\ \A d \in Clients : ToSet(up'[d]) \subseteq ToSet(up[d])
  BY <1>1, TakenSet DEF ServerTakes
<1>3. up[c][i] \in ToSet(up[c])
  BY DEF ToSet
<1>4. MessagesTrue'
  BY <1>2 DEF IInv, SyncInv, MessagesTrue, IsTrue
<1> QED
  BY <1>2, <1>3, <1>4 DEF IInv, SyncInv, MessagesTrue, ServerTakes

\* Nobody uploads, so every tree the server has part of is whole.
LEMMA AcceptStep ==
    ASSUME IInv, NEW c \in Clients, root_update_accept(c)
    PROVE  IInv'
<1> USE DEF clientVars, sendVars
<1>1. PICK i \in DOMAIN up[c] :
        /\ ServerTakes(c, i, "RootUpdate")
        /\ pending_root' = up[c][i].block
        /\ known' = known \cup {c}
        /\ requests' = [requests EXCEPT ![c] = {up[c][i].block}]
        /\ transfers' = [transfers EXCEPT ![c] = <<>>]
  BY DEF root_update_accept, Entry
<1>2. /\ UNCHANGED <<connected, alloc, next, root, have, full, data, folder, down>>
      /\ pending_root = None
  BY DEF root_update_accept
<1>3. IsNet(up') /\ MessagesTrue' /\ up[c][i].block = Root[c]
  BY <1>1, <1>2, ServerTakesStep DEF IsTrue
<1>4. SyncTypes'
  <2>1. Root[c] \in Blocks
    BY RootAssumption
  <2>2. requests' \in [Clients -> SUBSET Blocks]
    BY <1>1, <1>3, <2>1 DEF IInv, SyncTypes
  <2>3. transfers' \in [Clients -> Seq(Transfers)]
    BY <1>1 DEF IInv, SyncTypes
  <2> QED
    BY <1>1, <1>2, <1>3, <2>1, <2>2, <2>3 DEF IInv, SyncTypes
<1>5. known = {} /\ known' = {c} /\ pending_root' = Root[c]
  BY <1>1, <1>2, <1>3 DEF IInv, SyncInv, OneUploader
<1>6. ToSet(transfers'[c]) = {} /\ \A d \in Clients \ {c} : transfers'[d] = transfers[d]
  <2>1. transfers'[c] = <<>> /\ \A d \in Clients \ {c} : transfers'[d] = transfers[d]
    BY <1>1 DEF IInv, SyncTypes
  <2> QED
    BY <2>1 DEF ToSet
<1>7. AllocationsApart'
  BY <1>2, <1>6 DEF IInv, SyncInv, AllocationsApart
<1>8. DataInPlace' /\ FolderIsWhole'
  BY <1>2 DEF IInv, SyncInv, DataInPlace, FolderIsWhole
<1>9. OneUploader'
  <2>1. Root[c] \in Blocks /\ Root[c] # None
    BY RootAssumption, NoneAssumption
  <2> QED
    BY <1>2, <1>5, <2>1 DEF IInv, SyncInv, OneUploader
<1>10. TreeGrows'
  <2>1. Transferred = {} /\ Outstanding = {}
    BY <1>5 DEF Transferred, Outstanding
  <2>2. Transferred' = {} /\ Outstanding' = {Root[c]}
    <3>1. Transferred' = {}
      BY <1>5, <1>6 DEF Transferred
    <3>2. requests'[c] = {Root[c]}
      BY <1>1, <1>3 DEF IInv, SyncTypes
    <3> QED
      BY <1>5, <3>1, <3>2 DEF Outstanding
  <2>3. have \subseteq full /\ \A b \in full : Children[b] \subseteq full
    BY <1>2, <2>1 DEF IInv, SyncInv, TreeGrows
  <2> QED
    BY <1>2, <1>5, <2>2, <2>3 DEF TreeGrows
<1> QED
  BY <1>3, <1>4, <1>7, <1>8, <1>9, <1>10 DEF IInv, SyncInv

\* A request that is answered becomes a transfer.
LEMMA ResponseStep ==
    ASSUME IInv, NEW c \in Clients, block_request_response(c)
    PROVE  IInv'
<1> USE DEF clientVars, sendVars
<1>1. PICK i \in DOMAIN up[c] :
        /\ ServerTakes(c, i, "BlockRequestResponse")
        /\ requests' = [requests EXCEPT ![c] = Unanswered(c, up[c][i].block)]
        /\ transfers' = [transfers EXCEPT ![c] =
                Append(@, [block |-> up[c][i].block, from |-> up[c][i].from, to |-> up[c][i].to])]
        /\ have' = have \cup {up[c][i].block}
  BY DEF block_request_response
<1>2. /\ UNCHANGED <<connected, alloc, next, root, pending_root, full, data, folder, known, down>>
      /\ c \in known
  BY DEF block_request_response
<1>3. PICK t : t = [block |-> up[c][i].block, from |-> up[c][i].from, to |-> up[c][i].to]
  OBVIOUS
<1>4. IsNet(up') /\ MessagesTrue' /\ t \in ToSet(alloc[c]) /\ t.block = up[c][i].block
  BY <1>1, <1>2, <1>3, ServerTakesStep DEF IsTrue
<1>5. /\ transfers \in [Clients -> Seq(Transfers)]
      /\ alloc \in [Clients -> Seq(Transfers)]
      /\ requests \in [Clients -> SUBSET Blocks]
  BY DEF IInv, SyncTypes
<1>6. t \in Transfers /\ t.block \in Blocks
  <2>1. alloc[c] \in Seq(Transfers)
    BY <1>5
  <2>2. t \in Transfers
    BY <1>4, <2>1 DEF ToSet
  <2> QED
    BY <2>2 DEF Transfers
<1>7. /\ requests'[c] = requests[c] \ {t.block}
      /\ \A d \in Clients \ {c} : requests'[d] = requests[d]
      /\ requests' \in [Clients -> SUBSET Blocks]
  <2>1. requests' = [requests EXCEPT ![c] = requests[c] \ {t.block}]
    BY <1>1, <1>4 DEF Unanswered
  <2>2. requests[c] \ {t.block} \in SUBSET Blocks
    BY <1>5
  <2> QED
    BY <1>5, <2>1, <2>2
<1>8. /\ Append(transfers[c], t) \in Seq(Transfers)
      /\ ToSet(Append(transfers[c], t)) = ToSet(transfers[c]) \cup {t}
  BY <1>5, <1>6, AppendSet
<1>9. /\ ToSet(transfers'[c]) = ToSet(transfers[c]) \cup {t}
      /\ \A d \in Clients \ {c} : transfers'[d] = transfers[d]
      /\ transfers' \in [Clients -> Seq(Transfers)]
  BY <1>1, <1>3, <1>5, <1>8
<1>10. SyncTypes'
  BY <1>1, <1>2, <1>4, <1>6, <1>7, <1>9 DEF IInv, SyncTypes
<1>11. AllocationsApart'
  BY <1>2, <1>4, <1>9 DEF IInv, SyncInv, AllocationsApart
<1>12. DataInPlace' /\ FolderIsWhole' /\ OneUploader'
  BY <1>2 DEF IInv, SyncInv, DataInPlace, FolderIsWhole, OneUploader
<1>13. TreeGrows'
  <2>1. Transferred \cup {t.block} \subseteq Transferred'
    <3>1. ASSUME NEW d \in known, NEW u \in ToSet(transfers[d]) PROVE u.block \in Transferred'
      <4>1. d \in known' /\ d \in Clients /\ u \in ToSet(transfers'[d])
        BY <1>2, <1>9 DEF IInv, SyncTypes
      <4> QED
        BY <4>1 DEF Transferred
    <3>2. t.block \in Transferred'
      BY <1>2, <1>9 DEF Transferred
    <3> QED
      BY <3>1, <3>2 DEF Transferred
  <2>2. Outstanding \subseteq Outstanding'
    <3>1. ASSUME NEW d \in known, NEW b \in requests[d] PROVE b \in Outstanding'
      <4>1. d \in known' /\ d \in Clients
        BY <1>2 DEF IInv, SyncTypes
      <4>2. CASE b \in requests'[d]
        BY <4>1, <4>2 DEF Outstanding
      <4>3. CASE b = t.block
        BY <2>1, <4>3 DEF Outstanding
      <4> QED
        BY <1>7, <4>1, <4>2, <4>3
    <3> QED
      BY <2>1, <3>1 DEF Outstanding
  <2>3. have' = have \cup {t.block}
    BY <1>1, <1>4
  <2> QED
    BY <1>2, <2>1, <2>2, <2>3 DEF IInv, SyncInv, TreeGrows
<1> QED
  BY <1>4, <1>10, <1>11, <1>12, <1>13 DEF IInv, SyncInv

\* Two allocations do not have an id in common.
LEMMA OneAllocation ==
    ASSUME IInv, NEW c \in Clients, NEW e \in ToSet(alloc[c]), NEW f \in ToSet(alloc[c]),
           NEW id, Covers(e, id), Covers(f, id)
    PROVE  e = f
<1>1. e \in Transfers /\ f \in Transfers
  BY DEF IInv, SyncTypes, ToSet
<1>2. /\ e.from \in Nat /\ e.to \in Nat /\ f.from \in Nat /\ f.to \in Nat
  BY <1>1 DEF Transfers
<1>3. e = f \/ e.to <= f.from \/ f.to <= e.from
  BY DEF IInv, SyncInv, AllocationsApart
<1>4. id \in Int /\ e.from <= id /\ id < e.to /\ f.from <= id /\ id < f.to
  BY <1>2 DEF Covers
<1> QED
  BY <1>2, <1>3, <1>4

\* A payload is stored in the chunk that it holds.
LEMMA StoredInPlace ==
    ASSUME IInv, NEW c \in Clients, NEW k \in DOMAIN transfers[c], NEW x \in Chunks,
           Stores(c, k, x)
    PROVE  /\ IsNet(up') /\ MessagesTrue'
           /\ data' = [data EXCEPT ![x] = x]
           /\ x[1] = transfers[c][k].block
           /\ c \in known
           /\ UNCHANGED <<connected, alloc, next>>
           /\ Promotes(x) => /\ pending_root # None
                             /\ CanResolve(x[1], pending_root, full \cup {x[1]})
<1> USE DEF clientVars, sendVars
<1>1. UNCHANGED <<connected, alloc, next>> /\ c \in known
  BY DEF Stores
<1>2. PICK i \in DOMAIN up[c] :
        /\ ServerTakes(c, i, "TransferPayload")
        /\ Expected(c, k, up[c][i].chunkid)
        /\ x = Target(transfers[c][k], up[c][i].chunkid)
        /\ data' = [data EXCEPT ![x] = up[c][i].data]
  BY DEF Stores
<1>3. IsNet(up') /\ MessagesTrue' /\ IsTrue(c, up[c][i]) /\ up[c][i].type = "TransferPayload"
  BY <1>1, <1>2, ServerTakesStep
<1>4. PICK e \in ToSet(alloc[c]) :
        Covers(e, up[c][i].chunkid) /\ up[c][i].data = Target(e, up[c][i].chunkid)
  BY <1>3 DEF IsTrue
<1>5. transfers[c][k] \in ToSet(alloc[c]) /\ Covers(transfers[c][k], up[c][i].chunkid)
  BY <1>2 DEF Expected, IsTransfer, IInv, SyncInv, AllocationsApart, ToSet
<1>6. e = transfers[c][k]
  BY <1>4, <1>5, OneAllocation
<1>7. x = up[c][i].data
  BY <1>2, <1>4, <1>6
<1>8. x[1] = transfers[c][k].block
  BY <1>2 DEF Target
<1>9. Promotes(x) => pending_root # None /\ CanResolve(x[1], pending_root, full \cup {x[1]})
  BY <1>2 DEF Expected
<1> QED
  BY <1>1, <1>2, <1>3, <1>7, <1>8, <1>9

LEMMA StoreStep ==
    ASSUME IInv, NEW c \in Clients, NEW k \in DOMAIN transfers[c], NEW x \in Chunks,
           store_chunk(c, k, x)
    PROVE  IInv'
<1>1. Stores(c, k, x) /\ UNCHANGED <<root, pending_root, have, full, folder, known,
                                     requests, transfers, down>>
  BY DEF store_chunk
<1>2. /\ IsNet(up') /\ MessagesTrue'
      /\ data' = [data EXCEPT ![x] = x]
      /\ UNCHANGED <<connected, alloc, next>>
  BY <1>1, StoredInPlace
<1>3. SyncTypes'
  BY <1>1, <1>2 DEF IInv, SyncTypes
<1>4. DataInPlace'
  BY <1>1, <1>2 DEF IInv, SyncTypes, SyncInv, DataInPlace
<1>5. AllocationsApart' /\ FolderIsWhole' /\ OneUploader'
  BY <1>1, <1>2 DEF IInv, SyncInv, AllocationsApart, FolderIsWhole, OneUploader
<1>6. TreeGrows'
  BY <1>1, TreeFrame DEF IInv, SyncInv
<1> QED
  BY <1>2, <1>3, <1>4, <1>5, <1>6 DEF IInv, SyncInv

\* A block that is promoted has all of its chunks, and is of the pending tree.
LEMMA PromotedBlock ==
    ASSUME IInv, NEW c \in Clients, NEW k \in DOMAIN transfers[c], NEW x \in Chunks,
           Stores(c, k, x), Promotes(x), full' = full \cup {x[1]}
    PROVE  /\ DataInPlace'
           /\ data' = [y \in Chunks |-> data'[y]]
           /\ x[1] \in Blocks /\ full' \subseteq Blocks
           /\ pending_root \in Blocks
           /\ x[1] \in Visited(pending_root, full')
<1>1. /\ data' = [data EXCEPT ![x] = x]
      /\ pending_root # None /\ CanResolve(x[1], pending_root, full \cup {x[1]})
  BY StoredInPlace
<1>2. data = [y \in Chunks |-> data[y]] /\ full \subseteq Blocks /\ pending_root \in Blocks \cup {None}
  BY DEF IInv, SyncTypes
<1>3. x[1] \in Blocks
  BY DEF Chunks, ChunksOf
<1>4. ASSUME NEW y \in Chunks, y[1] = x[1], y # x
      PROVE  data[y] = y
  <2>1. y \in ChunksOf(x[1])
    BY <1>4 DEF Chunks, ChunksOf
  <2>2. data[y] # None
    BY <1>4, <2>1 DEF Promotes
  <2> QED
    BY <2>2 DEF IInv, SyncInv, DataInPlace
<1>5. \A y \in Chunks : data'[y] = IF y = x THEN x ELSE data[y]
  BY <1>1, <1>2
<1>6. DataInPlace'
  <2>1. \A y \in Chunks : data[y] \in {None, y} /\ (y[1] \in full => data[y] = y)
    BY DEF IInv, SyncInv, DataInPlace
  <2> QED
    BY <1>4, <1>5, <2>1 DEF DataInPlace
<1>7. x[1] \in Visited(pending_root, full')
  BY <1>1 DEF CanResolve
<1> QED
  BY <1>1, <1>2, <1>3, <1>6, <1>7

\* The entries of a block that is complete are requested, unless they are
\* there already, full or in a transfer.
LEMMA CompleteBlockStep ==
    ASSUME IInv, NEW c \in Clients, NEW k \in DOMAIN transfers[c], NEW x \in Chunks,
           complete_block(c, k, x)
    PROVE  IInv'
<1> DEFINE b == x[1]
<1>1. /\ Stores(c, k, x) /\ Promotes(x) /\ full' = full \cup {b}
      /\ transfers' = [transfers EXCEPT ![c] = Without(@, k)]
      /\ requests' = [requests EXCEPT ![c] = @ \cup (Children[b] \ have)]
      /\ UNCHANGED <<root, pending_root, have, folder, known, down>>
  BY DEF complete_block
<1>2. /\ IsNet(up') /\ MessagesTrue' /\ c \in known
      /\ b = transfers[c][k].block
      /\ UNCHANGED <<connected, alloc, next>>
  BY <1>1, StoredInPlace
<1>3. /\ DataInPlace' /\ data' = [y \in Chunks |-> data'[y]]
      /\ b \in Blocks /\ full' \subseteq Blocks
      /\ pending_root \in Blocks /\ b \in Visited(pending_root, full')
  BY <1>1, PromotedBlock
<1> HIDE DEF b
<1>4. /\ transfers \in [Clients -> Seq(Transfers)]
      /\ requests \in [Clients -> SUBSET Blocks]
      /\ known \subseteq Clients
  BY DEF IInv, SyncTypes
<1>5. /\ Without(transfers[c], k) \in Seq(Transfers)
      /\ ToSet(Without(transfers[c], k)) \subseteq ToSet(transfers[c])
      /\ ToSet(transfers[c]) \subseteq ToSet(Without(transfers[c], k)) \cup {transfers[c][k]}
  BY <1>4, WithoutSet
<1>6. /\ transfers' \in [Clients -> Seq(Transfers)]
      /\ transfers'[c] = Without(transfers[c], k)
      /\ \A d \in Clients \ {c} : transfers'[d] = transfers[d]
  BY <1>1, <1>4, <1>5
<1>7. Children[b] \subseteq Blocks
  BY <1>3, ChildrenAssumption
<1>8. /\ requests' \in [Clients -> SUBSET Blocks]
      /\ requests'[c] = requests[c] \cup (Children[b] \ have)
      /\ \A d \in Clients \ {c} : requests'[d] = requests[d]
  BY <1>1, <1>4, <1>7
<1>9. SyncTypes'
  BY <1>1, <1>2, <1>3, <1>6, <1>8 DEF IInv, SyncTypes
<1>10. AllocationsApart'
  BY <1>2, <1>5, <1>6 DEF IInv, SyncInv, AllocationsApart
<1>11. FolderIsWhole' /\ OneUploader'
  BY <1>1 DEF IInv, SyncInv, FolderIsWhole, OneUploader
<1>12. TreeGrows'
  <2>1. Transferred \subseteq Transferred' \cup {b}
    <3>1. ASSUME NEW d \in known, NEW u \in ToSet(transfers[d]), u.block # b
          PROVE  u.block \in Transferred'
      <4>1. d \in known' /\ u \in ToSet(transfers'[d])
        BY <1>1, <1>2, <1>4, <1>5, <1>6, <3>1
      <4> QED
        BY <4>1 DEF Transferred
    <3> QED
      BY <3>1 DEF Transferred
  <2>2. Outstanding \subseteq Outstanding' \cup {b}
    <3>1. ASSUME NEW d \in known, NEW r \in requests[d] PROVE r \in Outstanding'
      <4>1. d \in known' /\ r \in requests'[d]
        BY <1>1, <1>4, <1>8
      <4> QED
        BY <4>1 DEF Outstanding
    <3> QED
      BY <2>1, <3>1 DEF Outstanding
  <2>3. Children[b] \ have \subseteq Outstanding'
    BY <1>1, <1>2, <1>8 DEF Outstanding
  <2>4. Transferred' \subseteq Outstanding'
    BY DEF Outstanding
  <2>5. have \subseteq full' \cup Transferred'
    BY <1>1, <2>1 DEF IInv, SyncInv, TreeGrows
  <2>6. Children[b] \subseteq full' \cup Outstanding'
    BY <2>3, <2>4, <2>5
  <2>7. Visited(pending_root, full) \subseteq Visited(pending_root, full')
    BY <1>1, <1>3, VisitedMonotone
  <2>8. ASSUME NEW y \in full'
        PROVE  /\ Children[y] \subseteq full' \cup Outstanding'
               /\ Children[y] \subseteq full' \/ y \in Visited(pending_root, full')
    <3>1. CASE y = b
      BY <1>3, <2>6, <3>1
    <3>2. CASE y \in full
      BY <1>1, <2>2, <2>7, <3>2 DEF IInv, SyncInv, TreeGrows
    <3> QED
      BY <1>1, <3>1, <3>2
  <2>9. pending_root # None
    BY <1>3, NoneAssumption
  <2>10. pending_root \in full' \cup Outstanding'
    BY <1>1, <2>2, <2>9 DEF IInv, SyncInv, TreeGrows
  <2> QED
    BY <1>1, <2>5, <2>8, <2>9, <2>10 DEF TreeGrows
<1> QED
  BY <1>2, <1>3, <1>9, <1>10, <1>11, <1>12 DEF IInv, SyncInv

\* The tree is whole: it becomes the folder, and nothing is awaited any more.
LEMMA CompleteTreeStep ==
    ASSUME IInv, NEW c \in Clients, NEW k \in DOMAIN transfers[c], NEW x \in Chunks,
           complete_tree(c, k, x)
    PROVE  /\ IInv'
           /\ known = {c} /\ known' = {} /\ folder' = Original[Root[c]]
           /\ UNCHANGED connected
<1>1. /\ Stores(c, k, x) /\ Promotes(x) /\ full' = full \cup {x[1]}
      /\ verify(pending_root, full')
      /\ root' = pending_root /\ pending_root' = None
      /\ folder' = Folder(root', data')
      /\ down' = [d \in Clients |->
                    IF d \in known THEN Post(down, d, RootUpdateResponse(root'))[d] ELSE down[d]]
      /\ known' = known \ {c}
      /\ requests' = [requests EXCEPT ![c] = {}]
      /\ transfers' = [transfers EXCEPT ![c] = <<>>]
      /\ UNCHANGED have
  BY DEF complete_tree, Entry
<1>2. /\ IsNet(up') /\ MessagesTrue' /\ c \in known
      /\ UNCHANGED <<connected, alloc, next>>
  BY <1>1, StoredInPlace
<1>3. /\ DataInPlace' /\ data' = [y \in Chunks |-> data'[y]]
      /\ x[1] \in Blocks /\ full' \subseteq Blocks
      /\ pending_root \in Blocks /\ x[1] \in Visited(pending_root, full')
  BY <1>1, PromotedBlock
<1>4. pending_root # None
  BY <1>3, NoneAssumption
<1>5. known = {c} /\ known' = {} /\ pending_root = Root[c]
  BY <1>1, <1>2, <1>4 DEF IInv, SyncInv, OneUploader
<1>6. Tree[pending_root] \subseteq full'
  BY <1>1, <1>3, VerifiedTree
<1>7. folder' = Original[pending_root]
  <2>1. \A y \in Chunks : y[1] \in Tree[pending_root] => data'[y] = y
    BY <1>3, <1>6 DEF DataInPlace
  <2>2. Folder(pending_root, data') = Folder(pending_root, [y \in Chunks |-> y])
    BY <2>1 DEF Folder
  <2> QED
    BY <1>1, <1>3, <2>2 DEF Original
<1>8. FolderIsWhole'
  BY <1>1, <1>6, <1>7 DEF FolderIsWhole
<1>9. /\ IsNet(down')
      /\ \A d \in Clients : \A m \in ToSet(down'[d]) :
            m.type = "RootUpdateResponse" => m.block = Root[d]
  <2>1. IsNet(down)
    BY DEF IInv, SyncTypes
  <2>2. PICK p : p = RootUpdateResponse(Root[c])
    OBVIOUS
  <2>3. p.block = Root[c]
    BY <2>2 DEF RootUpdateResponse
  <2>4. IsNet(Post(down, c, p)) /\ ToSet(Post(down, c, p)[c]) \subseteq ToSet(down[c]) \cup {p}
    BY <2>1, PostSet
  <2>5. /\ down' = [d \in Clients |-> down'[d]]
        /\ down'[c] = Post(down, c, p)[c]
        /\ \A d \in Clients \ {c} : down'[d] = down[d]
    BY <1>1, <1>5, <2>2
  <2>6. \A d \in Clients : \A m \in ToSet(down[d]) :
            m.type = "RootUpdateResponse" => m.block = Root[d]
    BY DEF IInv, SyncInv, OneUploader
  <2> QED
    BY <2>1, <2>3, <2>4, <2>5, <2>6 DEF IsNet
<1>10. OneUploader'
  BY <1>1, <1>5, <1>9 DEF OneUploader
<1>11. /\ transfers' \in [Clients -> Seq(Transfers)]
       /\ transfers'[c] = <<>> /\ \A d \in Clients \ {c} : transfers'[d] = transfers[d]
       /\ requests' \in [Clients -> SUBSET Blocks]
  BY <1>1 DEF IInv, SyncTypes
<1>12. SyncTypes'
  BY <1>1, <1>2, <1>3, <1>5, <1>9, <1>11 DEF IInv, SyncTypes
<1>13. AllocationsApart'
  <2>1. ToSet(transfers'[c]) = {}
    BY <1>11 DEF ToSet
  <2> QED
    BY <1>2, <1>11, <2>1 DEF IInv, SyncInv, AllocationsApart
<1>14. TreeGrows'
  <2>1. Transferred \subseteq full'
    <3>1. ASSUME NEW t \in ToSet(transfers[c]) PROVE t.block \in full'
      BY <1>5, <1>6 DEF IInv, SyncInv, AllocationsApart
    <3> QED
      BY <1>5, <3>1 DEF Transferred
  <2>2. have' \subseteq full'
    BY <1>1, <2>1 DEF IInv, SyncInv, TreeGrows
  <2>3. Closed(Visited(pending_root, full'), full')
    BY <1>3, VisitedClosed
  <2>4. Visited(pending_root, full) \subseteq Visited(pending_root, full')
    BY <1>1, <1>3, VisitedMonotone
  <2>5. ASSUME NEW y \in full' PROVE Children[y] \subseteq full'
    <3>1. CASE y \in Visited(pending_root, full')
      <4>1. Children[y] \subseteq Visited(pending_root, full')
        BY <2>3, <3>1 DEF Closed
      <4> QED
        BY <1>1, <4>1 DEF verify
    <3>2. CASE y \notin Visited(pending_root, full')
      <4>1. y \in full
        BY <1>1, <1>3, <3>2
      <4>2. Children[y] \subseteq full
        BY <2>4, <3>2, <4>1 DEF IInv, SyncInv, TreeGrows
      <4> QED
        BY <1>1, <4>2
    <3> QED
      BY <3>1, <3>2
  <2> QED
    BY <1>1, <2>2, <2>5 DEF TreeGrows
<1> QED
  BY <1>2, <1>3, <1>5, <1>7, <1>8, <1>10, <1>12, <1>13, <1>14 DEF IInv, SyncInv

-----------------------------------------------------------------------------
(***************************************************************************)
(* The theorems.                                                           *)
(***************************************************************************)
LEMMA NextIInv == IInv /\ [Next]_vars => IInv'
<1> SUFFICES ASSUME IInv, [Next]_vars PROVE IInv'
  OBVIOUS
<1>1. CASE UNCHANGED vars
  <2>1. UNCHANGED <<coreVars, up, down>>
    BY <1>1 DEF vars, clientVars, sendVars, serverVars, dbVars, connVars, coreVars
  <2> QED
    BY <2>1, NetworkStep DEF IInv, SyncTypes
<1>2. ASSUME NEW c \in Clients, ClientNext(c)
      PROVE  IInv'
  BY <1>2, ConnectStep, BlockRequestStep, PayloadStep, QuietSteps DEF ClientNext
<1>3. ASSUME NEW c \in Clients, ServerNext(c)
      PROVE  IInv'
  <2>1. CASE transfer_payload(c)
    BY <2>1, StoreStep, CompleteBlockStep, CompleteTreeStep DEF transfer_payload
  <2> QED
    BY <1>3, <2>1, AcceptStep, ResponseStep, QuietSteps DEF ServerNext
<1>4. ASSUME NEW c \in Clients, Lose(c)
      PROVE  IInv'
  BY <1>4, QuietSteps
<1> QED
  BY <1>1, <1>2, <1>3, <1>4 DEF Next

\* The handlers of both sides keep the inductive invariant, whatever the
\* network loses, repeats or reorders, and whoever panics.
THEOREM SyncInvariant == Spec => []SyncInv
<1>1. IInv => SyncInv
  BY DEF IInv
<1> QED
  BY <1>1, InitIInv, NextIInv, PTL DEF Spec

\* No chunk of a block that was promoted is missing or another's.
THEOREM FullIsFaithfulAlways == Spec => []FullIsFaithful
<1>1. SyncInv => FullIsFaithful
  BY DEF SyncInv, DataInPlace, FullIsFaithful
<1> QED
  BY <1>1, SyncInvariant, PTL

\* What write_to_dir writes is a whole folder.
THEOREM FolderIsWholeAlways == Spec => []FolderIsWhole
<1>1. SyncInv => FolderIsWhole
  BY DEF SyncInv
<1> QED
  BY <1>1, SyncInvariant, PTL

\* Uploads are served one at a time, and needs_update is never true.
THEOREM OneUploaderAlways == Spec => []OneUploader
<1>1. SyncInv => OneUploader
  BY DEF SyncInv
<1> QED
  BY <1>1, SyncInvariant, PTL

\* The requests and transfers of the server reach every block that verify
\* finds missing.
THEOREM NothingForgottenAlways == Spec => []NothingForgotten
<1>1. IInv => NothingForgotten
  <2> SUFFICES ASSUME IInv, pending_root # None,
                      NEW b \in Visited(pending_root, full) \ full
               PROVE  \E c \in known : \/ b \in requests[c]
                                       \/ \E k \in DOMAIN transfers[c] : transfers[c][k].block = b
    BY DEF NothingForgotten
  <2>1. pending_root \in Blocks /\ full \subseteq Blocks /\ known \subseteq Clients
    BY DEF IInv, SyncTypes
  <2>2. Outstanding \subseteq Blocks
    <3>1. ASSUME NEW c \in known PROVE requests[c] \subseteq Blocks
      BY <2>1 DEF IInv, SyncTypes
    <3>2. ASSUME NEW c \in known, NEW t \in ToSet(transfers[c]) PROVE t.block \in Blocks
      <4>1. transfers[c] \in Seq(Transfers)
        BY <2>1 DEF IInv, SyncTypes
      <4>2. t \in Transfers
        BY <4>1 DEF ToSet
      <4> QED
        BY <4>2 DEF Transfers
    <3> QED
      BY <3>1, <3>2 DEF Outstanding, Transferred
  <2> DEFINE W == full \cup Outstanding
  <2>3. pending_root \in W /\ Closed(W, full)
    BY DEF IInv, SyncInv, TreeGrows, Closed
  <2>4. W \in SUBSET Blocks
    BY <2>1, <2>2
  <2> HIDE DEF W
  <2>5. Visited(pending_root, full) \subseteq W
    BY <2>1, <2>3, <2>4, VisitedLeast
  <2>6. b \in Outstanding
    BY <2>5 DEF W
  <2> QED
    BY <2>6 DEF Outstanding, Transferred, ToSet
<1> QED
  BY <1>1, InitIInv, NextIInv, PTL DEF Spec

-----------------------------------------------------------------------------
(***************************************************************************)
(* Refinement.                                                             *)
(***************************************************************************)
LEMMA AcceptedIs ==
    ASSUME NEW c \in Clients, known = {c}
    PROVE  Accepted = c
BY DEF Accepted

\* What the abstract specification sees of a step.
seenVars == <<connected, known, folder>>

LEMMA SeenFrame ==
    ASSUME UNCHANGED seenVars
    PROVE  UNCHANGED <<Announced, Accepted, folder>>
BY DEF seenVars, Announced, Accepted

\* Every step is one of Announce, Accept, Replace, or a stutter.
LEMMA RefinementStep ==
    ASSUME IInv, NEW c \in Clients, ClientNext(c) \/ ServerNext(c) \/ Lose(c)
    PROVE  Contract!Next \/ UNCHANGED <<Announced, Accepted, folder>>
<1> USE DEF clientVars, sendVars, serverVars, dbVars, connVars
<1>1. CASE connect(c)
  <2>1. /\ connected' = [connected EXCEPT ![c] = TRUE]
        /\ UNCHANGED <<known, folder>>
    BY <1>1 DEF connect
  <2>2. Announced' = Announced \cup {c}
    BY <2>1 DEF Announced, IInv, SyncTypes
  <2>3. UNCHANGED <<Accepted, folder>>
    BY <2>1 DEF Accepted
  <2> QED
    BY <2>2, <2>3 DEF Contract!Next, Contract!Announce
<1>2. CASE root_update_accept(c)
  <2>1. /\ UNCHANGED <<connected, folder>>
        /\ pending_root = None /\ known' = known \cup {c}
    BY <1>2 DEF root_update_accept
  <2>2. PICK i \in DOMAIN up[c] : ServerTakes(c, i, "RootUpdate")
    BY <1>2 DEF root_update_accept
  <2>3. UNCHANGED alloc
    BY <1>2 DEF root_update_accept
  <2>4. connected[c]
    BY <2>1, <2>2, <2>3, ServerTakesStep DEF IsTrue
  <2>5. known = {} /\ known' = {c}
    BY <2>1 DEF IInv, SyncInv, OneUploader
  <2>6. Accepted = None
    BY <2>5 DEF Accepted
  <2>7. Accepted' = c
    BY <2>5 DEF Accepted
  <2>8. c \in Announced /\ UNCHANGED Announced
    BY <2>1, <2>4 DEF Announced
  <2> QED
    BY <2>1, <2>6, <2>7, <2>8 DEF Contract!Next, Contract!Accept
<1>3. CASE \E k \in DOMAIN transfers[c], x \in Chunks : complete_tree(c, k, x)
  <2>1. known = {c} /\ known' = {} /\ folder' = Original[Root[c]] /\ UNCHANGED connected
    BY <1>3, CompleteTreeStep
  <2>2. Accepted = c /\ c # None
    BY <2>1, AcceptedIs, NoneAssumption
  <2>3. Accepted' = None
    BY <2>1 DEF Accepted
  <2>4. folder' = FolderOf[Accepted]
    BY <2>1, <2>2 DEF FolderOf
  <2>5. UNCHANGED Announced
    BY <2>1 DEF Announced
  <2> QED
    BY <2>2, <2>3, <2>4, <2>5 DEF Contract!Next, Contract!Replace
<1>4. CASE \E k \in DOMAIN transfers[c], x \in Chunks : store_chunk(c, k, x) \/ complete_block(c, k, x)
  <2>1. UNCHANGED seenVars
    BY <1>4 DEF store_chunk, complete_block, Stores, seenVars
  <2> QED
    BY <2>1, SeenFrame
<1>5. CASE \/ recv_root_update_response(c) \/ block_request(c) \/ transfer_status(c)
           \/ send_payload(c) \/ end_loop(c)
  <2>1. UNCHANGED seenVars
    BY <1>5 DEF recv_root_update_response, block_request, transfer_status, send_payload,
                end_loop, seenVars
  <2> QED
    BY <2>1, SeenFrame
<1>6. CASE \/ recv_ignored(c) \/ root_update_same(c) \/ root_update_busy(c)
           \/ block_request_response(c) \/ (\E b \in Blocks : request_retry(c, b))
  <2>1. UNCHANGED seenVars
    BY <1>6 DEF recv_ignored, root_update_same, root_update_busy, block_request_response,
                request_retry, seenVars
  <2> QED
    BY <2>1, SeenFrame
<1>7. CASE \/ send_status(c) \/ encode_underflow(c) \/ status_loop_panics(c)
           \/ recv_poisoned(c) \/ payload_panics(c) \/ Lose(c)
  <2>1. UNCHANGED seenVars
    BY <1>7 DEF send_status, encode_underflow, status_loop_panics, StatusTurn, recv_poisoned,
                payload_panics, Lose, seenVars
  <2> QED
    BY <2>1, SeenFrame
<1> QED
  BY <1>1, <1>2, <1>3, <1>4, <1>5, <1>6, <1>7 DEF ClientNext, ServerNext, transfer_payload

\* The server serves one client after the other and replaces its folder as a
\* whole, for any number of clients and any network.
THEOREM Refinement == Spec => ImplementsSyncSpec
<1>1. Init => Contract!Init
  BY DEF Init, Contract!Init, Announced, Accepted
<1>2. IInv /\ [Next]_vars => [Contract!Next]_(Contract!vars)
  <2> SUFFICES ASSUME IInv, [Next]_vars PROVE [Contract!Next]_(Contract!vars)
    OBVIOUS
  <2>1. CASE UNCHANGED vars
    <3>1. UNCHANGED seenVars
      BY <2>1 DEF vars, clientVars, sendVars, serverVars, dbVars, connVars, seenVars
    <3> QED
      BY <3>1, SeenFrame DEF Contract!vars
  <2>2. ASSUME NEW c \in Clients, ClientNext(c) \/ ServerNext(c) \/ Lose(c)
        PROVE  [Contract!Next]_(Contract!vars)
    BY <2>2, RefinementStep DEF Contract!vars
  <2> QED
    BY <2>1, <2>2 DEF Next
<1> QED
  BY <1>1, <1>2, InitIInv, NextIInv, PTL DEF Spec, ImplementsSyncSpec, Contract!Spec

=============================================================================
