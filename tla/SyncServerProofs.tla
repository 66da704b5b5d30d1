-------------------------- MODULE SyncServerProofs --------------------------
(***************************************************************************)
(* When scsync's server survives.  Its handlers unwrap what they expect to *)
(* be there, so every message that comes once too often ends it: a second  *)
(* response for a block, a second payload for a block that is complete.    *)
(* With a folder of two files the protocol itself makes such messages.     *)
(* With a folder of at most one file it does not, on any network that does *)
(* not repeat messages and answers within the second of request_retry; it  *)
(* may lose them, and they may overtake one another.                       *)
(***************************************************************************)
EXTENDS SyncClientProofs

\* Folders have no block in common: its id is the hash of what was encrypted
\* under a key of its own.
OwnTrees ==
    \A c \in Clients :
        /\ Tree[Root[c]] \cap Tree[ServerRoot] = {}
        /\ \A d \in Clients \ {c} : Tree[Root[c]] \cap Tree[Root[d]] = {}

Leaf(b) == Children[b] = {}

\* A folder is empty, or has one file and a directory block of one chunk.
OneFile ==
    \A c \in Clients :
        \/ Leaf(Root[c])
        \/ /\ NumChunks(Root[c]) = 1
           /\ \E a \in Blocks : Children[Root[c]] = {a} /\ Leaf(a)

\* What is repeated is harmless, and a request is not sent again while it or
\* the answer to it is under way.
NoRepeats == Timely /\ Duplicable \subseteq {"RootUpdateResponse"}

Modest == OwnTrees /\ OneFile /\ NoRepeats

-----------------------------------------------------------------------------
(***************************************************************************)
(* The inductive invariant.                                                *)
(***************************************************************************)
Of(t) == {m \in Messages : m.type = t}
Updates == Of("RootUpdate")
Requests == Of("BlockRequest")
Responses == Of("BlockRequestResponse")
Payloads == Of("TransferPayload")

\* The statuses that make a client send something.
Orders == {m \in Of("TransferStatus") : m.missing_ranges # <<>>}

\* Of the messages X one is in s, at most.
AtMostOne(s, X) == \A i, j \in DOMAIN s : s[i] \in X /\ s[j] \in X => i = j
Absent(s, X) == ToSet(s) \cap X = {}

\* What the server has of a client's folder, in part and in full.
Holds(c) == have \cap Tree[Root[c]]
Done(c) == full \cap Tree[Root[c]]

\* The client may still be accepted.
Fresh(c) == ~connected[c] \/ ~Absent(up[c], Updates)

\* A client announces itself once, and until it is accepted there is nothing
\* of it anywhere.
AnnouncedOnce(c) ==
    /\ AtMostOne(up[c], Updates)
    /\ ~connected[c] => ToSet(up[c]) = {}
    /\ Fresh(c) =>
        /\ c \notin known
        /\ ToSet(up[c]) \subseteq Updates /\ ToSet(down[c]) = {}
        /\ ticks[c] = 0 /\ cursor[c] = None
        /\ Holds(c) = {} /\ Done(c) = {}

\* One request or one response is under way, for a block that is awaited.
AskedOnce(c) ==
    /\ AtMostOne(down[c], Requests)
    /\ AtMostOne(up[c], Responses)
    /\ Absent(down[c], Requests) \/ Absent(up[c], Responses)
    /\ \A m \in ToSet(down[c]) \cap Requests : m.block \in requests[c]
    /\ \A m \in ToSet(up[c]) \cap Responses : m.block \in requests[c]

\* The client has nothing to send.
Idle(c) ==
    /\ Absent(down[c], Orders)
    /\ cursor[c] = None
    /\ Absent(up[c], Payloads)

\* The chunk ids that stand for a chunk of transfer t.
Ids(t) == t.from .. t.from + NumChunks(t.block) - 1

\* All that the client sends and has to send is of transfer t.
Sends(c, t) ==
    /\ \A m \in ToSet(down[c]) \cap Orders : \A r \in ToSet(m.missing_ranges) : Within(t, r)
    /\ cursor[c] # None => cursor[c] \in Ids(t) /\ \A r \in ToSet(todo[c]) : Within(t, r)
    /\ \A m \in ToSet(up[c]) \cap Payloads : m.chunkid \in Ids(t)

\* Of a status that is queued, one under way, a chunk id to be sent and a
\* payload under way there is at most one.
OneOrder(c) ==
    /\ ticks[c] <= 1
    /\ AtMostOne(down[c], Orders)
    /\ AtMostOne(up[c], Payloads)
    /\ ticks[c] > 0 => Idle(c)
    /\ Absent(down[c], Orders) \/ (cursor[c] = None /\ Absent(up[c], Payloads))
    /\ cursor[c] = None \/ Absent(up[c], Payloads)

\* Block b is requested, or it is the only one that is transferred.
Awaiting(c, b) ==
    /\ requests[c] = {b}
    /\ transfers[c] = <<>>
    /\ Idle(c)

Receiving(c, b) ==
    /\ requests[c] = {}
    /\ Len(transfers[c]) = 1 /\ transfers[c][1].block = b
    /\ status_tx[c]
    /\ Sends(c, transfers[c][1])

\* First comes the root, of which a directory's only payload is sent once, and
\* then the file.
FirstBlock(c) ==
    /\ Done(c) = {} /\ Holds(c) \subseteq {Root[c]}
    /\ \/ Awaiting(c, Root[c]) /\ ticks[c] = 0
       \/ Receiving(c, Root[c]) /\ (Leaf(Root[c]) \/ OneOrder(c))

SecondBlock(c) ==
    /\ Root[c] \in Done(c)
    /\ \E a \in Children[Root[c]] : a \notin Done(c) /\ (Awaiting(c, a) \/ Receiving(c, a))

\* All that the server's survival takes of one client.
PeerInv(c) ==
    /\ AnnouncedOnce(c) /\ AskedOnce(c)
    /\ c \in known => FirstBlock(c) \/ SecondBlock(c)

ModestInv == ServerUp /\ \A c \in Clients : PeerInv(c)

-----------------------------------------------------------------------------
(***************************************************************************)
(* The network, as the invariant sees it.                                  *)
(***************************************************************************)

\* s2 is s with messages removed, the message m among them.
Fewer(s, s2) == ToSet(s2) \subseteq ToSet(s) /\ \A X : AtMostOne(s, X) => AtMostOne(s2, X)
Removed(s, s2, m) ==
    /\ m \in ToSet(s) /\ Fewer(s, s2)
    /\ \A X : m \in X /\ AtMostOne(s, X) => Absent(s2, X)

\* s2 is s, or s with message m.
Posted(s, s2, m) ==
    /\ ToSet(s2) \subseteq ToSet(s) \cup {m}
    /\ \A X : AtMostOne(s, X) /\ (m \in X => Absent(s, X)) => AtMostOne(s2, X)

LEMMA WithoutRemoves ==
    ASSUME NEW S, NEW s \in Seq(S), NEW i \in DOMAIN s
    PROVE  Removed(s, Without(s, i), s[i])
<1> DEFINE w == Without(s, i)
           old(j) == IF j < i THEN j ELSE j + 1
<1>1. DOMAIN s = 1 .. Len(s) /\ Len(s) \in Nat /\ i \in 1 .. Len(s)
  OBVIOUS
<1>2. w = [j \in 1 .. Len(s) - 1 |-> IF j < i THEN s[j] ELSE s[j + 1]]
  BY DEF Without
<1>3. DOMAIN w = 1 .. Len(s) - 1
  BY <1>2
<1>4. ASSUME NEW j \in DOMAIN w
      PROVE  w[j] = s[old(j)] /\ old(j) \in DOMAIN s /\ old(j) # i
  BY <1>1, <1>2, <1>3
<1>5. ASSUME NEW j \in DOMAIN w, NEW k \in DOMAIN w, old(j) = old(k)
      PROVE  j = k
  BY <1>1, <1>3, <1>5
<1> HIDE DEF w, old
<1>6. ToSet(w) \subseteq ToSet(s) /\ s[i] \in ToSet(s)
  BY <1>4 DEF ToSet
<1>7. ASSUME NEW X, AtMostOne(s, X) PROVE AtMostOne(w, X)
  BY <1>4, <1>5, <1>7 DEF AtMostOne
<1>8. ASSUME NEW X, s[i] \in X, AtMostOne(s, X) PROVE Absent(w, X)
  BY <1>4, <1>8 DEF AtMostOne, Absent, ToSet
<1> QED
  BY <1>6, <1>7, <1>8 DEF Removed, Fewer, w

LEMMA AppendPosts ==
    ASSUME NEW S, NEW s \in Seq(S), NEW m
    PROVE  Posted(s, Append(s, m), m)
<1> DEFINE a == Append(s, m)
<1>1. DOMAIN a = 1 .. Len(s) + 1 /\ DOMAIN s = 1 .. Len(s) /\ Len(s) \in Nat
  OBVIOUS
<1>2. \A j \in 1 .. Len(s) + 1 : a[j] = IF j = Len(s) + 1 THEN m ELSE s[j]
  OBVIOUS
<1>3. ToSet(a) = ToSet(s) \cup {m}
  BY AppendSet
<1> HIDE DEF a
<1>4. ASSUME NEW X, AtMostOne(s, X), m \in X => Absent(s, X)
      PROVE  AtMostOne(a, X)
  <2> SUFFICES ASSUME NEW i \in DOMAIN a, NEW j \in DOMAIN a, a[i] \in X, a[j] \in X
               PROVE  i = j
    BY DEF AtMostOne
  <2>1. ASSUME NEW k \in DOMAIN a
        PROVE  (k = Len(s) + 1 /\ a[k] = m) \/ (k \in DOMAIN s /\ a[k] = s[k])
    <3>1. k \in 1 .. Len(s) + 1
      BY <1>1
    <3>2. k # Len(s) + 1 => k \in DOMAIN s
      BY <1>1, <3>1
    <3> QED
      BY <1>2, <3>1, <3>2
  <2>2. m \in X => \A k \in DOMAIN s : s[k] \notin X
    BY <1>4 DEF Absent, ToSet
  <2>3. \A k, l \in DOMAIN s : s[k] \in X /\ s[l] \in X => k = l
    BY <1>4 DEF AtMostOne
  <2>4. CASE m \in X
    BY <2>1, <2>2, <2>4
  <2>5. CASE m \notin X
    BY <2>1, <2>3, <2>5
  <2> QED
    BY <2>4, <2>5
<1> QED
  BY <1>3, <1>4 DEF Posted, a

LEMMA PostPosts ==
    ASSUME NEW net \in Nets, NEW c \in Clients, NEW m
    PROVE  /\ Posted(net[c], Post(net, c, m)[c], m)
           /\ \A d \in Clients \ {c} : Post(net, c, m)[d] = net[d]
<1>1. net[c] \in Seq(Messages)
  BY DEF Nets
<1>2. Posted(net[c], Append(net[c], m), m)
  BY <1>1, AppendPosts
<1>3. Posted(net[c], net[c], m)
  BY DEF Posted
<1>4. /\ Post(net, c, m)[c] = Append(net[c], m) \/ Post(net, c, m)[c] = net[c]
      /\ \A d \in Clients \ {c} : Post(net, c, m)[d] = net[d]
  BY DEF Post, Nets
<1> QED
  BY <1>2, <1>3, <1>4

\* A message that is taken is gone, unless the network repeats it.
LEMMA TakenRemoves ==
    ASSUME NEW net \in Nets, NEW c \in Clients, NEW i \in DOMAIN net[c], NEW n \in Taken(net, c, i)
    PROVE  /\ Fewer(net[c], n[c])
           /\ net[c][i].type \notin Duplicable => Removed(net[c], n[c], net[c][i])
           /\ \A d \in Clients \ {c} : n[d] = net[d]
<1>1. net[c] \in Seq(Messages)
  BY DEF Nets
<1>2. Removed(net[c], Without(net[c], i), net[c][i])
  BY <1>1, WithoutRemoves
<1>3. CASE n = [net EXCEPT ![c] = Without(@, i)]
  <2>1. n[c] = Without(net[c], i) /\ \A d \in Clients \ {c} : n[d] = net[d]
    BY <1>3 DEF Nets
  <2> QED
    BY <1>2, <2>1 DEF Removed
<1>4. CASE n = net /\ net[c][i].type \in Duplicable
  BY <1>4 DEF Fewer
<1> QED
  BY <1>3, <1>4 DEF Taken

LEMMA ClientTakesRemoves ==
    ASSUME NoRepeats, RestTypes, NEW c \in Clients, NEW i \in DOMAIN down[c], NEW t,
           ClientTakes(c, i, t)
    PROVE  /\ Fewer(down[c], down'[c])
           /\ t # "RootUpdateResponse" => Removed(down[c], down'[c], down[c][i])
           /\ \A d \in Clients \ {c} : down'[d] = down[d]
           /\ down[c][i] \in Messages /\ down[c][i].type = t /\ down[c][i] \in ToSet(down[c])
           /\ connected[c]
<1>1. down \in Nets /\ down[c] \in Seq(Messages)
  BY DEF RestTypes, Nets
<1>2. down' \in Taken(down, c, i) /\ down[c][i].type = t /\ connected[c]
  BY DEF ClientTakes
<1>3. /\ Fewer(down[c], down'[c])
      /\ t \notin Duplicable => Removed(down[c], down'[c], down[c][i])
      /\ \A d \in Clients \ {c} : down'[d] = down[d]
  BY <1>1, <1>2, TakenRemoves
<1>4. down[c][i] \in Messages /\ down[c][i] \in ToSet(down[c])
  BY <1>1 DEF ToSet
<1> QED
  BY <1>2, <1>3, <1>4 DEF NoRepeats

LEMMA ServerTakesRemoves ==
    ASSUME NoRepeats, RestTypes, NEW c \in Clients, NEW i \in DOMAIN up[c], NEW t,
           ServerTakes(c, i, t)
    PROVE  /\ Fewer(up[c], up'[c])
           /\ t # "RootUpdateResponse" => Removed(up[c], up'[c], up[c][i])
           /\ \A d \in Clients \ {c} : up'[d] = up[d]
           /\ up[c][i] \in Messages /\ up[c][i].type = t /\ up[c][i] \in ToSet(up[c])
<1>1. up \in Nets /\ up[c] \in Seq(Messages)
  BY DEF RestTypes, Nets
<1>2. up' \in Taken(up, c, i) /\ up[c][i].type = t
  BY DEF ServerTakes
<1>3. /\ Fewer(up[c], up'[c])
      /\ t \notin Duplicable => Removed(up[c], up'[c], up[c][i])
      /\ \A d \in Clients \ {c} : up'[d] = up[d]
  BY <1>1, <1>2, TakenRemoves
<1>4. up[c][i] \in Messages /\ up[c][i] \in ToSet(up[c])
  BY <1>1 DEF ToSet
<1> QED
  BY <1>2, <1>3, <1>4 DEF NoRepeats

-----------------------------------------------------------------------------
(***************************************************************************)
(* What a step leaves alone.                                               *)
(***************************************************************************)

\* What the invariant sees of a client, but for the network.
State(c) ==
    <<connected[c], ticks[c], cursor[c], todo[c], requests[c], transfers[c], status_tx[c],
      Holds(c), Done(c)>>

LEMMA StateSame ==
    ASSUME NEW c, State(c)' = State(c)
    PROVE  /\ connected'[c] = connected[c] /\ ticks'[c] = ticks[c] /\ cursor'[c] = cursor[c]
           /\ todo'[c] = todo[c] /\ requests'[c] = requests[c] /\ transfers'[c] = transfers[c]
           /\ status_tx'[c] = status_tx[c] /\ Holds(c)' = Holds(c) /\ Done(c)' = Done(c)
BY DEF State

\* What is awaited or received stays so while nothing to do is added.
LEMMA CalmKeeps ==
    ASSUME NEW c \in Clients, FirstBlock(c) \/ SecondBlock(c), State(c)' = State(c),
           ToSet(down'[c]) \cap Orders \subseteq ToSet(down[c]),
           ToSet(up'[c]) \cap Payloads \subseteq ToSet(up[c]),
           AtMostOne(down[c], Orders) => AtMostOne(down'[c], Orders),
           AtMostOne(up[c], Payloads) => AtMostOne(up'[c], Payloads)
    PROVE  (FirstBlock(c) \/ SecondBlock(c))'
<1>1. /\ connected'[c] = connected[c] /\ ticks'[c] = ticks[c] /\ cursor'[c] = cursor[c]
      /\ todo'[c] = todo[c] /\ requests'[c] = requests[c] /\ transfers'[c] = transfers[c]
      /\ status_tx'[c] = status_tx[c] /\ Holds(c)' = Holds(c) /\ Done(c)' = Done(c)
  BY StateSame
<1>2. /\ Absent(down[c], Orders) => Absent(down'[c], Orders)
      /\ Absent(up[c], Payloads) => Absent(up'[c], Payloads)
  BY DEF Absent
<1>3. Idle(c) => Idle(c)'
  BY <1>1, <1>2 DEF Idle
<1>4. \A t : Sends(c, t) => Sends(c, t)'
  BY <1>1 DEF Sends
<1>5. \A b : Awaiting(c, b) => Awaiting(c, b)'
  BY <1>1, <1>3 DEF Awaiting
<1>6. \A b : Receiving(c, b) => Receiving(c, b)'
  BY <1>1, <1>4 DEF Receiving
<1>7. OneOrder(c) => OneOrder(c)'
  BY <1>1, <1>2, <1>3 DEF OneOrder
<1>8. FirstBlock(c) => FirstBlock(c)'
  BY <1>1, <1>5, <1>6, <1>7 DEF FirstBlock
<1>9. SecondBlock(c) => SecondBlock(c)'
  BY <1>1, <1>5, <1>6 DEF SecondBlock
<1> QED
  BY <1>8, <1>9

\* Losing messages does no harm.
LEMMA LossKeeps ==
    ASSUME NEW c \in Clients, PeerInv(c), State(c)' = State(c), c \in known' <=> c \in known,
           Fewer(up[c], up'[c]), Fewer(down[c], down'[c])
    PROVE  PeerInv(c)'
<1>1. /\ connected'[c] = connected[c] /\ ticks'[c] = ticks[c] /\ cursor'[c] = cursor[c]
      /\ requests'[c] = requests[c] /\ Holds(c)' = Holds(c) /\ Done(c)' = Done(c)
  BY StateSame
<1>2. /\ ToSet(up'[c]) \subseteq ToSet(up[c]) /\ ToSet(down'[c]) \subseteq ToSet(down[c])
      /\ \A X : /\ AtMostOne(up[c], X) => AtMostOne(up'[c], X)
                /\ AtMostOne(down[c], X) => AtMostOne(down'[c], X)
  BY DEF Fewer
<1>3. Fresh(c)' => Fresh(c)
  BY <1>1, <1>2 DEF Fresh, Absent
<1>4. AnnouncedOnce(c)'
  BY <1>1, <1>2, <1>3 DEF PeerInv, AnnouncedOnce
<1>5. AskedOnce(c)'
  BY <1>1, <1>2 DEF PeerInv, AskedOnce, Absent
<1>6. c \in known => (FirstBlock(c) \/ SecondBlock(c))'
  BY <1>2, CalmKeeps DEF PeerInv
<1> QED
  BY <1>4, <1>5, <1>6 DEF PeerInv

\* A step that is about client c adds no blocks but of its folder.
About(c) ==
    /\ \A d \in Clients \ {c} :
        /\ connected'[d] = connected[d] /\ ticks'[d] = ticks[d] /\ cursor'[d] = cursor[d]
        /\ todo'[d] = todo[d] /\ requests'[d] = requests[d] /\ transfers'[d] = transfers[d]
        /\ status_tx'[d] = status_tx[d] /\ up'[d] = up[d] /\ down'[d] = down[d]
        /\ d \in known' <=> d \in known
    /\ have \subseteq have' /\ have' \subseteq have \cup Tree[Root[c]]
    /\ full \subseteq full' /\ full' \subseteq full \cup Tree[Root[c]]

LEMMA OthersKeep ==
    ASSUME OwnTrees, NEW c \in Clients, \A d \in Clients : PeerInv(d), About(c), PeerInv(c)', ServerUp'
    PROVE  ModestInv'
<1>1. ASSUME NEW d \in Clients \ {c} PROVE PeerInv(d)'
  <2>1. Tree[Root[c]] \cap Tree[Root[d]] = {}
    BY DEF OwnTrees
  <2>2. Holds(d)' = Holds(d) /\ Done(d)' = Done(d)
    BY <2>1 DEF About, Holds, Done
  <2>3. State(d)' = State(d) /\ up'[d] = up[d] /\ down'[d] = down[d]
    BY <2>2 DEF About, State
  <2>4. Fewer(up[d], up'[d]) /\ Fewer(down[d], down'[d])
    BY <2>3 DEF Fewer
  <2> QED
    BY <2>3, <2>4, LossKeeps DEF About
<1> QED
  BY <1>1 DEF ModestInv

LEMMA QuietKeeps ==
    ASSUME OwnTrees, NEW c \in Clients, ModestInv, ServerUp',
           UNCHANGED <<connected, ticks, cursor, todo, requests, transfers, status_tx, known,
                       have, full>>,
           Fewer(up[c], up'[c]), Fewer(down[c], down'[c]),
           \A d \in Clients \ {c} : up'[d] = up[d] /\ down'[d] = down[d]
    PROVE  ModestInv'
<1>1. About(c)
  BY DEF About
<1>2. State(c)' = State(c)
  BY DEF State, Holds, Done
<1>3. PeerInv(c)'
  BY <1>2, LossKeeps DEF ModestInv
<1> QED
  BY <1>1, <1>3, OthersKeep DEF ModestInv

-----------------------------------------------------------------------------
(***************************************************************************)
(* The steps of a client.                                                  *)
(***************************************************************************)

\* There is one RootUpdate, because connect is called once.
LEMMA ConnectModest ==
    ASSUME Modest, IInv, ClientInv, ModestInv, NEW c \in Clients, connect(c)
    PROVE  ModestInv'
<1> USE DEF ClientInv, Modest
<1> DEFINE m == RootUpdate(Root[c])
<1>1. /\ ~connected[c] /\ connected' = [connected EXCEPT ![c] = TRUE]
      /\ up' = Post(up, c, m)
      /\ UNCHANGED <<ticks, cursor, todo, requests, transfers, status_tx, known, have, full,
                     down, server>>
  BY DEF connect, sendVars, serverVars, dbVars, connVars
<1>2. Posted(up[c], up'[c], m) /\ \A d \in Clients \ {c} : up'[d] = up[d]
  BY <1>1, PostPosts DEF RestTypes
<1>3. m \in Updates /\ m \notin Responses
  BY RootAssumption DEF RootUpdate, Updates, Responses, Of, Messages
<1> HIDE DEF m
<1>4. connected'[c] /\ \A d \in Clients \ {c} : connected'[d] = connected[d]
  BY <1>1 DEF IInv, SyncTypes
<1>5. Fresh(c) /\ PeerInv(c) /\ ToSet(up[c]) = {}
  BY <1>1 DEF ModestInv, Fresh, PeerInv, AnnouncedOnce
<1>6. /\ ToSet(up'[c]) \subseteq {m}
      /\ AtMostOne(up[c], Updates) => AtMostOne(up'[c], Updates)
      /\ AtMostOne(up[c], Responses) => AtMostOne(up'[c], Responses)
  BY <1>2, <1>3, <1>5 DEF Posted, Absent
<1>7. Holds(c)' = Holds(c) /\ Done(c)' = Done(c)
  BY <1>1 DEF Holds, Done
<1>8. AnnouncedOnce(c)'
  BY <1>1, <1>3, <1>4, <1>5, <1>6, <1>7 DEF PeerInv, AnnouncedOnce
<1>9. AskedOnce(c)'
  BY <1>1, <1>3, <1>5, <1>6 DEF PeerInv, AskedOnce, Absent
<1>10. PeerInv(c)'
  BY <1>1, <1>5, <1>8, <1>9 DEF PeerInv, AnnouncedOnce
<1>11. About(c)
  BY <1>1, <1>2, <1>4 DEF About
<1> QED
  BY <1>1, <1>10, <1>11, OthersKeep DEF ModestInv, ServerUp

LEMMA RootResponseModest ==
    ASSUME Modest, IInv, ClientInv, ModestInv, NEW c \in Clients, recv_root_update_response(c)
    PROVE  ModestInv'
<1> USE DEF ClientInv, Modest
<1>1. PICK i \in DOMAIN down[c] : ClientTakes(c, i, "RootUpdateResponse")
  BY DEF recv_root_update_response
<1>2. UNCHANGED <<connected, ticks, cursor, todo, requests, transfers, status_tx, known, have, full,
                  up, server>>
  BY DEF recv_root_update_response, clientVars, sendVars, serverVars, dbVars, connVars
<1>3. Fewer(down[c], down'[c]) /\ \A d \in Clients \ {c} : down'[d] = down[d]
  BY <1>1, ClientTakesRemoves
<1>4. Fewer(up[c], up'[c])
  BY <1>2 DEF Fewer
<1> QED
  BY <1>2, <1>3, <1>4, QuietKeeps DEF ModestInv, ServerUp

\* Something has come from the server, so the client is not about to be
\* accepted.
LEMMA NotFresh ==
    ASSUME NEW c \in Clients, PeerInv(c), connected'[c] = connected[c],
           \/ ToSet(down[c]) # {} \/ cursor[c] # None \/ ticks[c] > 0 \/ c \in known,
           ticks[c] \in Nat,
           ToSet(up'[c]) \cap Updates \subseteq ToSet(up[c])
    PROVE  ~Fresh(c) /\ ~Fresh(c)'
<1>1. ~Fresh(c)
  BY DEF PeerInv, AnnouncedOnce
<1> QED
  BY <1>1 DEF Fresh, Absent

\* One request is turned into one response.
LEMMA BlockRequestModest ==
    ASSUME Modest, IInv, ClientInv, ModestInv, NEW c \in Clients, block_request(c)
    PROVE  ModestInv'
<1> USE DEF ClientInv, Modest
<1>1. PICK i \in DOMAIN down[c] :
        /\ ClientTakes(c, i, "BlockRequest")
        /\ IF down[c][i].block \in Tree[Root[c]]
           THEN /\ alloc' = [alloc EXCEPT ![c] = Allocation(c, down[c][i].block)]
                /\ next' = [next EXCEPT ![c] =
                        IF alloc'[c] = alloc[c] THEN @ ELSE @ + BlockLen[down[c][i].block]]
                /\ \E k \in DOMAIN alloc'[c] :
                    up' = Post(up, c, BlockRequestResponse(down[c][i].block,
                                            alloc'[c][k].from, alloc'[c][k].to))
           ELSE TRUE
  BY DEF block_request
<1>2. UNCHANGED <<connected, ticks, cursor, todo, requests, transfers, status_tx, known, have, full,
                  server>>
  BY DEF block_request, serverVars, dbVars, connVars
<1>3. PICK m : m = down[c][i]
  OBVIOUS
<1>4. /\ Removed(down[c], down'[c], m) /\ \A d \in Clients \ {c} : down'[d] = down[d]
      /\ m \in Requests /\ m \in ToSet(down[c])
  BY <1>1, <1>3, ClientTakesRemoves DEF Requests, Of
<1>5. m.block \in Tree[Root[c]] /\ m.block \in Blocks
  <2>1. m.block \in Tree[Root[c]]
    BY <1>4 DEF AskedForOwn, AsksForOwn, Requests, Of
  <2> QED
    BY <2>1, TreeType, RootAssumption
<1>6. PICK k \in DOMAIN alloc'[c] :
        up' = Post(up, c, BlockRequestResponse(m.block, alloc'[c][k].from, alloc'[c][k].to))
  BY <1>1, <1>3, <1>5
<1>7. alloc'[c][k] \in Transfers
  <2>1. alloc' \in [Clients -> Seq(Transfers)]
    BY <1>1, <1>2, <1>3, <1>5, AllocationStep
  <2> QED
    BY <2>1
<1>8. PICK a : a = BlockRequestResponse(m.block, alloc'[c][k].from, alloc'[c][k].to)
  OBVIOUS
<1>9. a \in Responses /\ a.block = m.block /\ a \notin Updates /\ a \notin Payloads
  <2>1. PICK e \in Transfers : e = alloc'[c][k]
    BY <1>7
  <2>2. a = BlockRequestResponse(m.block, e.from, e.to) /\ e.from \in Nat /\ e.to \in Nat
    BY <1>8, <2>1 DEF Transfers
  <2>3. a \in Messages /\ a.type = "BlockRequestResponse" /\ a.block = m.block
    BY <1>5, <2>2 DEF BlockRequestResponse, Messages
  <2> QED
    BY <2>3 DEF Responses, Updates, Payloads, Of
<1>10. Posted(up[c], up'[c], a) /\ \A d \in Clients \ {c} : up'[d] = up[d]
  BY <1>6, <1>8, PostPosts DEF RestTypes
<1>11. /\ ToSet(down'[c]) \subseteq ToSet(down[c]) /\ Absent(down'[c], Requests)
       /\ \A X : AtMostOne(down[c], X) => AtMostOne(down'[c], X)
       /\ ToSet(up'[c]) \subseteq ToSet(up[c]) \cup {a}
       /\ \A X : a \notin X /\ AtMostOne(up[c], X) => AtMostOne(up'[c], X)
       /\ AtMostOne(up'[c], Responses)
  <2>1. AtMostOne(down[c], Requests) /\ Absent(up[c], Responses) /\ AtMostOne(up[c], Responses)
    BY <1>4 DEF ModestInv, PeerInv, AskedOnce, Absent
  <2> QED
    BY <1>4, <1>10, <2>1 DEF Removed, Fewer, Posted
<1>12. ~Fresh(c)' /\ PeerInv(c)
  <2>1. PeerInv(c) /\ ToSet(down[c]) # {} /\ ticks[c] \in Nat
    BY <1>4 DEF ModestInv, RestTypes
  <2> QED
    BY <1>2, <1>9, <1>11, <2>1, NotFresh
<1>13. AnnouncedOnce(c)'
  BY <1>9, <1>11, <1>12 DEF PeerInv, AnnouncedOnce, Fresh
<1>14. AskedOnce(c)'
  BY <1>2, <1>4, <1>9, <1>11, <1>12 DEF PeerInv, AskedOnce, Absent
<1>15. State(c)' = State(c)
  BY <1>2 DEF State, Holds, Done
<1>16. c \in known' => (FirstBlock(c) \/ SecondBlock(c))'
  BY <1>2, <1>9, <1>11, <1>12, <1>15, CalmKeeps DEF PeerInv
<1>17. About(c)
  BY <1>2, <1>4, <1>10 DEF About
<1> QED
  BY <1>2, <1>13, <1>14, <1>16, <1>17, OthersKeep DEF ModestInv, PeerInv, ServerUp

\* A status that orders something was the only thing to do.
LEMMA StatusModest ==
    ASSUME Modest, IInv, ClientInv, ModestInv, NEW c \in Clients, transfer_status(c)
    PROVE  ModestInv'
<1> USE DEF ClientInv, Modest
<1>1. PICK i \in DOMAIN down[c] :
        /\ ClientTakes(c, i, "TransferStatus")
        /\ todo' = [todo EXCEPT ![c] = down[c][i].missing_ranges]
        /\ cursor' = [cursor EXCEPT ![c] =
                IF down[c][i].missing_ranges = <<>> THEN None ELSE down[c][i].missing_ranges[1][1]]
  BY DEF transfer_status
<1>2. UNCHANGED <<connected, ticks, requests, transfers, status_tx, known, have, full, server, up>>
  BY DEF transfer_status, serverVars, dbVars, connVars
<1>3. PICK m : m = down[c][i]
  OBVIOUS
<1>4. /\ Removed(down[c], down'[c], m) /\ \A d \in Clients \ {c} : down'[d] = down[d]
      /\ m \in ToSet(down[c]) /\ m \in Of("TransferStatus")
      /\ m.missing_ranges \in Seq(Nat \X Nat)
  BY <1>1, <1>3, ClientTakesRemoves DEF Of, Messages
<1>5. /\ todo'[c] = m.missing_ranges
      /\ cursor'[c] = IF m.missing_ranges = <<>> THEN None ELSE m.missing_ranges[1][1]
      /\ \A d \in Clients \ {c} : todo'[d] = todo[d] /\ cursor'[d] = cursor[d]
  BY <1>1, <1>3 DEF RestTypes
<1>6. /\ ToSet(down'[c]) \subseteq ToSet(down[c])
      /\ \A X : AtMostOne(down[c], X) => AtMostOne(down'[c], X)
      /\ \A X : m \in X /\ AtMostOne(down[c], X) => Absent(down'[c], X)
  BY <1>4 DEF Removed, Fewer
<1>7. ~Fresh(c)' /\ PeerInv(c)
  <2>1. PeerInv(c) /\ ToSet(down[c]) # {} /\ ticks[c] \in Nat
    BY <1>4 DEF ModestInv, RestTypes
  <2> QED
    BY <1>2, <2>1, NotFresh
<1>8. AnnouncedOnce(c)' /\ AskedOnce(c)'
  BY <1>2, <1>6, <1>7 DEF PeerInv, AnnouncedOnce, AskedOnce, Fresh, Absent
<1>9. Idle(c) => Idle(c)' /\ m \notin Orders
  <2>1. Absent(down[c], Orders) => m \notin Orders /\ Absent(down'[c], Orders)
    BY <1>4, <1>6 DEF Absent
  <2> QED
    BY <1>2, <1>4, <1>5, <2>1 DEF Idle, Orders
<1>10. ASSUME NEW t \in Transfers, Sends(c, t)
       PROVE  Sends(c, t)'
  <2>1. CASE m.missing_ranges = <<>>
    BY <1>2, <1>5, <1>6, <1>10, <2>1 DEF Sends
  <2>2. CASE m.missing_ranges # <<>>
    <3>1. \A r \in ToSet(m.missing_ranges) : Within(t, r)
      BY <1>4, <1>10, <2>2 DEF Sends, Orders
    <3>2. PICK r \in Nat \X Nat : r = m.missing_ranges[1] /\ r \in ToSet(m.missing_ranges)
      BY <1>4, <2>2 DEF ToSet
    <3>3. t.from \in Nat /\ NumChunks(t.block) \in Nat
      BY NumChunksAssumption DEF Transfers
    <3>4. r[1] \in Ids(t)
      BY <3>1, <3>2, <3>3 DEF Within, Ids
    <3> QED
      BY <1>2, <1>5, <1>6, <1>10, <2>2, <3>1, <3>2, <3>4 DEF Sends
  <2> QED
    BY <2>1, <2>2
<1>11. OneOrder(c) => OneOrder(c)'
  <2> SUFFICES ASSUME OneOrder(c) PROVE OneOrder(c)'
    OBVIOUS
  <2>1. CASE m \in Orders
    <3>1. ~Absent(down[c], Orders) /\ Absent(down'[c], Orders)
      BY <1>4, <1>6, <2>1 DEF OneOrder, Absent
    <3>2. ~Idle(c) /\ Absent(up[c], Payloads)
      BY <3>1 DEF OneOrder, Idle
    <3> QED
      BY <1>2, <1>6, <3>1, <3>2 DEF OneOrder
  <2>2. CASE m \notin Orders
    <3>1. cursor'[c] = None
      BY <1>4, <1>5, <2>2 DEF Orders
    <3>2. Absent(down[c], Orders) => Absent(down'[c], Orders)
      BY <1>6 DEF Absent
    <3> QED
      BY <1>2, <1>6, <1>9, <3>1, <3>2 DEF OneOrder
  <2> QED
    BY <2>1, <2>2
<1>12. Holds(c)' = Holds(c) /\ Done(c)' = Done(c)
  BY <1>2 DEF Holds, Done
<1>13. \A b : Awaiting(c, b) => Awaiting(c, b)'
  BY <1>2, <1>9 DEF Awaiting
<1>14. \A b : Receiving(c, b) => Receiving(c, b)'
  <2>1. transfers[c] \in Seq(Transfers)
    BY DEF IInv, SyncTypes
  <2>2. Len(transfers[c]) = 1 => transfers[c][1] \in Transfers
    BY <2>1
  <2> QED
    BY <1>2, <1>10, <2>2 DEF Receiving
<1>15. c \in known' => (FirstBlock(c) \/ SecondBlock(c))'
  BY <1>2, <1>7, <1>11, <1>12, <1>13, <1>14 DEF PeerInv, FirstBlock, SecondBlock
<1>16. About(c)
  BY <1>2, <1>4, <1>5 DEF About
<1> QED
  BY <1>2, <1>8, <1>15, <1>16, OthersKeep DEF ModestInv, PeerInv, ServerUp

\* A directory has one chunk, so its only payload is followed by nothing.
LEMMA PayloadModest ==
    ASSUME Modest, IInv, ClientInv, ModestInv, NEW c \in Clients, send_payload(c)
    PROVE  ModestInv'
<1> USE DEF ClientInv, Modest
<1>1. /\ cursor[c] # None
      /\ UNCHANGED <<connected, ticks, todo, requests, transfers, status_tx, known, have, full,
                     server, down>>
  BY DEF send_payload, serverVars, dbVars, connVars
<1>2. /\ cursor[c] \in Nat /\ todo[c] \in Seq(Nat \X Nat)
      /\ alloc[c] \in Seq(Transfers) /\ \A r \in ToSet(todo[c]) : Allocated(c, r)
  BY <1>1 DEF RestTypes, IInv, SyncTypes, AskedForOwn
<1>3. \E k \in DOMAIN alloc[c] : Covers(alloc[c][k], cursor[c])
  BY <1>1 DEF AskedForOwn, ToSet
<1>4. PICK k \in DOMAIN alloc[c] :
        /\ Covers(alloc[c][k], cursor[c])
        /\ up' = Post(up, c, TransferPayload(cursor[c],
                                <<alloc[c][k].block, cursor[c] - alloc[c][k].from>>))
        /\ cursor' = [cursor EXCEPT ![c] = NextTodo(c)]
  BY <1>3 DEF send_payload
<1>5. PICK p : p = TransferPayload(cursor[c], <<alloc[c][k].block, cursor[c] - alloc[c][k].from>>)
  OBVIOUS
<1>6. p.type = "TransferPayload" /\ p.chunkid = cursor[c]
  BY <1>5 DEF TransferPayload
<1>7. p \notin Updates /\ p \notin Responses
  BY <1>6 DEF Updates, Responses, Of
<1>8. Posted(up[c], up'[c], p) /\ \A d \in Clients \ {c} : up'[d] = up[d]
  BY <1>4, <1>5, PostPosts DEF RestTypes
<1>9. cursor'[c] = NextTodo(c) /\ \A d \in Clients \ {c} : cursor'[d] = cursor[d]
  BY <1>4 DEF RestTypes
<1>10. /\ ToSet(up'[c]) \subseteq ToSet(up[c]) \cup {p}
       /\ \A X : AtMostOne(up[c], X) /\ (p \in X => Absent(up[c], X)) => AtMostOne(up'[c], X)
  BY <1>8 DEF Posted
<1>11. ~Fresh(c)' /\ PeerInv(c)
  <2>1. PeerInv(c) /\ ticks[c] \in Nat
    BY DEF ModestInv, RestTypes
  <2> QED
    BY <1>1, <1>7, <1>10, <2>1, NotFresh
<1>12. AnnouncedOnce(c)' /\ AskedOnce(c)'
  BY <1>1, <1>7, <1>10, <1>11 DEF PeerInv, AnnouncedOnce, AskedOnce, Fresh, Absent
<1>13. ASSUME NEW t \in Transfers, Sends(c, t)
       PROVE  /\ Sends(c, t)'
              /\ NumChunks(t.block) = 1 => cursor'[c] = None
  <2>1. cursor[c] \in Ids(t) /\ \A r \in ToSet(todo[c]) : Within(t, r)
    BY <1>1, <1>13 DEF Sends
  <2>2. t.from \in Nat /\ NumChunks(t.block) \in Nat
    BY NumChunksAssumption DEF Transfers
  <2>3. \A r \in ToSet(todo[c]) : r[1] < r[2]
    BY <2>1 DEF Within
  <2>4. PICK id : id = NextTodo(c)
    OBVIOUS
  <2>5. id # None => /\ id \in Nat /\ cursor[c] < id
                     /\ \E r \in ToSet(todo[c]) : r[1] <= id /\ id < r[2]
    BY <1>2, <2>3, <2>4, NextTodoAfter
  <2>6. id # None => id \in Ids(t)
    <3> SUFFICES ASSUME id # None PROVE id \in Ids(t)
      OBVIOUS
    <3>1. PICK r \in ToSet(todo[c]) : r[1] <= id /\ id < r[2]
      BY <2>5
    <3>2. r[1] \in Nat /\ r[2] \in Nat
      BY <1>2 DEF ToSet
    <3> QED
      BY <2>1, <2>2, <2>5, <3>1, <3>2 DEF Within, Ids
  <2>7. NumChunks(t.block) = 1 => id = None
    BY <1>2, <2>1, <2>2, <2>5, <2>6 DEF Ids
  <2> QED
    BY <1>1, <1>6, <1>9, <1>10, <1>13, <2>1, <2>4, <2>6, <2>7 DEF Sends
<1>14. Holds(c)' = Holds(c) /\ Done(c)' = Done(c)
  BY <1>1 DEF Holds, Done
<1>15. \A b : ~Awaiting(c, b)
  BY <1>1 DEF Awaiting, Idle
<1>16. \A b : Receiving(c, b) =>
            Receiving(c, b)' /\ (NumChunks(b) = 1 => cursor'[c] = None)
  <2>1. transfers[c] \in Seq(Transfers)
    BY DEF IInv, SyncTypes
  <2>2. Len(transfers[c]) = 1 => transfers[c][1] \in Transfers
    BY <2>1
  <2> QED
    BY <1>1, <1>13, <2>2 DEF Receiving
<1>17. OneOrder(c) /\ cursor'[c] = None => OneOrder(c)'
  BY <1>1, <1>10 DEF OneOrder, Idle
<1>18. FirstBlock(c) => FirstBlock(c)'
  BY <1>1, <1>14, <1>15, <1>16, <1>17 DEF FirstBlock, OneFile
<1>19. SecondBlock(c) => SecondBlock(c)'
  BY <1>14, <1>15, <1>16 DEF SecondBlock
<1>20. About(c)
  BY <1>1, <1>8, <1>9 DEF About
<1> QED
  BY <1>1, <1>11, <1>12, <1>18, <1>19, <1>20, OthersKeep DEF ModestInv, PeerInv, ServerUp

\* Steps that are not about what the invariant sees, or only take messages.
LEMMA QuietModest ==
    ASSUME Modest, IInv, ClientInv, ModestInv, NEW c \in Clients,
           end_loop(c) \/ recv_ignored(c) \/ root_update_busy(c) \/ Lose(c)
    PROVE  ModestInv'
<1> USE DEF ClientInv, Modest, clientVars, sendVars, serverVars, dbVars, connVars
<1>1. UNCHANGED <<connected, ticks, cursor, todo, requests, transfers, status_tx, known, have, full,
                  server>>
  BY DEF end_loop, recv_ignored, root_update_busy, Lose
<1>2. \A s : Fewer(s, s)
  BY DEF Fewer
<1>3. CASE end_loop(c)
  <2>1. up' = up /\ down' = down
    BY <1>3 DEF end_loop
  <2> QED
    BY <1>1, <1>2, <2>1, QuietKeeps DEF ModestInv, ServerUp
<1>4. CASE recv_ignored(c) \/ root_update_busy(c)
  <2>1. PICK i \in DOMAIN up[c] : \E t : ServerTakes(c, i, t)
    BY <1>4 DEF recv_ignored, root_update_busy
  <2>2. Fewer(up[c], up'[c]) /\ \A d \in Clients \ {c} : up'[d] = up[d]
    BY <2>1, ServerTakesRemoves
  <2>3. down' = down
    BY <1>4 DEF recv_ignored, root_update_busy
  <2> QED
    BY <1>1, <1>2, <2>2, <2>3, QuietKeeps DEF ModestInv, ServerUp
<1>5. CASE Lose(c)
  <2>1. ASSUME NEW net \in Nets, NEW i \in DOMAIN net[c]
        PROVE  /\ Fewer(net[c], [net EXCEPT ![c] = Without(@, i)][c])
               /\ \A d \in Clients \ {c} : [net EXCEPT ![c] = Without(@, i)][d] = net[d]
    <3>1. net[c] \in Seq(Messages)
      BY DEF Nets
    <3>2. Fewer(net[c], Without(net[c], i))
      BY <3>1, WithoutRemoves DEF Removed
    <3> QED
      BY <3>2 DEF Nets
  <2>2. up \in Nets /\ down \in Nets
    BY DEF RestTypes
  <2>3. CASE \E i \in DOMAIN up[c] : up' = [up EXCEPT ![c] = Without(@, i)] /\ down' = down
    <3>1. Fewer(up[c], up'[c]) /\ \A d \in Clients \ {c} : up'[d] = up[d]
      BY <2>1, <2>2, <2>3
    <3> QED
      BY <1>1, <1>2, <2>3, <3>1, QuietKeeps DEF ModestInv, ServerUp
  <2>4. CASE \E i \in DOMAIN down[c] : down' = [down EXCEPT ![c] = Without(@, i)] /\ up' = up
    <3>1. Fewer(down[c], down'[c]) /\ \A d \in Clients \ {c} : down'[d] = down[d]
      BY <2>1, <2>2, <2>4
    <3> QED
      BY <1>1, <1>2, <2>4, <3>1, QuietKeeps DEF ModestInv, ServerUp
  <2> QED
    BY <1>5, <2>3, <2>4 DEF Lose
<1> QED
  BY <1>3, <1>4, <1>5

-----------------------------------------------------------------------------
(***************************************************************************)
(* The server: root updates and block requests.                            *)
(***************************************************************************)

\* The client has announced itself, and will not do so again.
LEMMA UpdateTaken ==
    ASSUME Modest, IInv, ClientInv, ModestInv, NEW c \in Clients, NEW i \in DOMAIN up[c],
           ServerTakes(c, i, "RootUpdate"), UNCHANGED <<connected, alloc>>
    PROVE  /\ Fresh(c) /\ ~Fresh(c)' /\ AtMostOne(up'[c], Updates)
           /\ ToSet(up'[c]) \subseteq ToSet(up[c]) /\ ToSet(up[c]) \subseteq Updates
           /\ AtMostOne(up'[c], Responses)
           /\ \A d \in Clients \ {c} : up'[d] = up[d]
           /\ up[c][i].block = Root[c]
<1> USE DEF ClientInv, Modest
<1>1. PICK m : m = up[c][i]
  OBVIOUS
<1>2. /\ Removed(up[c], up'[c], m) /\ \A d \in Clients \ {c} : up'[d] = up[d]
      /\ m \in Updates /\ m \in ToSet(up[c])
  BY <1>1, ServerTakesRemoves DEF Updates, Of
<1>3. connected[c] /\ up[c][i].block = Root[c]
  BY ServerTakesStep DEF IsTrue
<1>4. /\ AtMostOne(up[c], Updates) /\ AtMostOne(up[c], Responses)
      /\ Fresh(c) /\ ToSet(up[c]) \subseteq Updates
  BY <1>2 DEF ModestInv, PeerInv, AnnouncedOnce, AskedOnce, Fresh, Absent
<1>5. /\ Absent(up'[c], Updates) /\ AtMostOne(up'[c], Updates) /\ AtMostOne(up'[c], Responses)
      /\ ToSet(up'[c]) \subseteq ToSet(up[c])
  BY <1>2, <1>4 DEF Removed, Fewer
<1>6. ~Fresh(c)'
  BY <1>3, <1>5 DEF Fresh
<1> QED
  BY <1>2, <1>3, <1>4, <1>5, <1>6

LEMMA SameModest ==
    ASSUME Modest, IInv, ClientInv, ModestInv, NEW c \in Clients, root_update_same(c)
    PROVE  ModestInv'
<1> USE DEF ClientInv, Modest, clientVars, sendVars, serverVars, dbVars, connVars
<1> DEFINE p == RootUpdateResponse(root)
<1>1. /\ c \notin known /\ down' = Post(down, c, p)
      /\ UNCHANGED <<connected, alloc, ticks, cursor, todo, requests, transfers, status_tx, known,
                     have, full, server>>
  BY DEF root_update_same
<1>2. PICK i \in DOMAIN up[c] : ServerTakes(c, i, "RootUpdate")
  BY DEF root_update_same
<1>3. /\ Fresh(c) /\ ~Fresh(c)' /\ AtMostOne(up'[c], Updates)
      /\ ToSet(up'[c]) \subseteq ToSet(up[c]) /\ ToSet(up[c]) \subseteq Updates
      /\ AtMostOne(up'[c], Responses)
      /\ \A d \in Clients \ {c} : up'[d] = up[d]
  BY <1>1, <1>2, UpdateTaken
<1>4. p \notin Requests
  BY DEF RootUpdateResponse, Requests, Of
<1> HIDE DEF p
<1>5. Posted(down[c], down'[c], p) /\ \A d \in Clients \ {c} : down'[d] = down[d]
  BY <1>1, PostPosts DEF RestTypes
<1>6. PeerInv(c) /\ ToSet(down[c]) = {}
  BY <1>3 DEF ModestInv, PeerInv, AnnouncedOnce
<1>7. ToSet(down'[c]) \subseteq {p} /\ AtMostOne(down'[c], Requests)
  BY <1>4, <1>5, <1>6 DEF Posted, PeerInv, AskedOnce
<1>8. AnnouncedOnce(c)'
  BY <1>3 DEF AnnouncedOnce, Fresh
<1>9. AskedOnce(c)'
  <2>1. \A m \in Updates : m \notin Responses
    BY DEF Updates, Responses, Of
  <2> QED
    BY <1>3, <1>4, <1>7, <2>1 DEF AskedOnce, Absent
<1>10. About(c)
  BY <1>1, <1>3, <1>5 DEF About
<1> QED
  BY <1>1, <1>8, <1>9, <1>10, OthersKeep DEF ModestInv, PeerInv, ServerUp

\* A client that is accepted has nothing on its way: its root is awaited.
LEMMA AcceptModest ==
    ASSUME Modest, IInv, ClientInv, ModestInv, NEW c \in Clients, root_update_accept(c)
    PROVE  ModestInv'
<1> USE DEF ClientInv, Modest, clientVars, sendVars
<1>1. UNCHANGED <<connected, alloc, ticks, cursor, todo, have, full, server, down>>
  BY DEF root_update_accept
<1>2. PICK i \in DOMAIN up[c] :
        /\ ServerTakes(c, i, "RootUpdate")
        /\ known' = known \cup {c}
        /\ requests' = [requests EXCEPT ![c] = {up[c][i].block}]
        /\ transfers' = [transfers EXCEPT ![c] = <<>>]
        /\ status_tx' = [status_tx EXCEPT ![c] = FALSE]
  BY DEF root_update_accept, Entry
<1>3. /\ Fresh(c) /\ ~Fresh(c)' /\ AtMostOne(up'[c], Updates)
      /\ ToSet(up'[c]) \subseteq ToSet(up[c]) /\ ToSet(up[c]) \subseteq Updates
      /\ AtMostOne(up'[c], Responses)
      /\ \A d \in Clients \ {c} : up'[d] = up[d]
      /\ up[c][i].block = Root[c]
  BY <1>1, <1>2, UpdateTaken
<1>4. /\ requests'[c] = {Root[c]} /\ transfers'[c] = <<>>
      /\ \A d \in Clients \ {c} : /\ requests'[d] = requests[d] /\ transfers'[d] = transfers[d]
                                  /\ status_tx'[d] = status_tx[d]
  BY <1>2, <1>3 DEF IInv, SyncTypes, RestTypes
<1>5. /\ ToSet(down[c]) = {} /\ ticks[c] = 0 /\ cursor[c] = None
      /\ Holds(c) = {} /\ Done(c) = {} /\ AtMostOne(down[c], Requests)
  BY <1>3 DEF ModestInv, PeerInv, AnnouncedOnce, AskedOnce
<1>6. \A m \in ToSet(up'[c]) : m \notin Responses /\ m \notin Payloads
  BY <1>3 DEF Updates, Responses, Payloads, Of
<1>7. AnnouncedOnce(c)' /\ AskedOnce(c)'
  BY <1>1, <1>3, <1>5, <1>6 DEF AnnouncedOnce, AskedOnce, Fresh, Absent
<1>8. Awaiting(c, Root[c])'
  BY <1>1, <1>4, <1>5, <1>6 DEF Awaiting, Idle, Absent
<1>9. Holds(c)' = {} /\ Done(c)' = {}
  BY <1>1, <1>5 DEF Holds, Done
<1>10. FirstBlock(c)'
  BY <1>1, <1>5, <1>8, <1>9 DEF FirstBlock
<1>11. About(c)
  BY <1>1, <1>2, <1>3, <1>4 DEF About
<1> QED
  BY <1>1, <1>7, <1>10, <1>11, OthersKeep DEF ModestInv, PeerInv, ServerUp

\* A request is sent when neither it nor its answer is under way.
LEMMA RetryModest ==
    ASSUME Modest, IInv, ClientInv, ModestInv, NEW c \in Clients, NEW b \in Blocks,
           request_retry(c, b)
    PROVE  ModestInv'
<1> USE DEF ClientInv, Modest, clientVars, sendVars, serverVars, dbVars, connVars
<1> DEFINE p == BlockRequest(b)
<1>1. /\ b \in requests[c] /\ RetryDue(c, b) /\ down' = Post(down, c, p)
      /\ UNCHANGED <<connected, ticks, cursor, todo, requests, transfers, status_tx, known, have,
                     full, server, up>>
  BY DEF request_retry
<1>2. p \in Requests /\ p.block = b /\ p \notin Orders
  BY DEF BlockRequest, Requests, Orders, Of, Messages
<1> HIDE DEF p
<1>3. Posted(down[c], down'[c], p) /\ \A d \in Clients \ {c} : down'[d] = down[d]
  BY <1>1, PostPosts DEF RestTypes
<1>4. c \in known /\ PeerInv(c)
  BY <1>1 DEF Forgotten, ModestInv
<1>5. requests[c] = {b}
  BY <1>1, <1>4 DEF PeerInv, FirstBlock, SecondBlock, Awaiting, Receiving
<1>6. Absent(down[c], Requests) /\ Absent(up[c], Responses)
  <2>1. /\ ~InFlight(down[c], "BlockRequest", b)
        /\ ~InFlight(up[c], "BlockRequestResponse", b)
    BY <1>1 DEF RetryDue, NoRepeats
  <2>2. /\ \A m \in ToSet(down[c]) \cap Requests : m.block = b /\ m.type = "BlockRequest"
        /\ \A m \in ToSet(up[c]) \cap Responses : m.block = b /\ m.type = "BlockRequestResponse"
    BY <1>4, <1>5 DEF PeerInv, AskedOnce, Requests, Responses, Of
  <2> QED
    BY <2>1, <2>2 DEF InFlight, Absent, ToSet
<1>7. /\ ToSet(down'[c]) \subseteq ToSet(down[c]) \cup {p} /\ AtMostOne(down'[c], Requests)
      /\ AtMostOne(down[c], Orders) => AtMostOne(down'[c], Orders)
  BY <1>2, <1>3, <1>4, <1>6 DEF Posted, PeerInv, AskedOnce
<1>8. ~Fresh(c)'
  <2>1. ticks[c] \in Nat
    BY DEF RestTypes
  <2> QED
    BY <1>1, <1>4, <2>1, NotFresh
<1>9. AnnouncedOnce(c)' /\ AskedOnce(c)'
  BY <1>1, <1>2, <1>4, <1>5, <1>6, <1>7, <1>8 DEF PeerInv, AnnouncedOnce, AskedOnce, Fresh, Absent
<1>10. State(c)' = State(c)
  BY <1>1 DEF State, Holds, Done
<1>11. (FirstBlock(c) \/ SecondBlock(c))'
  BY <1>1, <1>2, <1>4, <1>7, <1>10, CalmKeeps DEF PeerInv
<1>12. About(c)
  BY <1>1, <1>3 DEF About
<1> QED
  BY <1>1, <1>9, <1>11, <1>12, OthersKeep DEF ModestInv, PeerInv, ServerUp

\* The response is the one that is awaited, and makes the only transfer.
LEMMA ResponseModest ==
    ASSUME Modest, IInv, ClientInv, ModestInv, NEW c \in Clients, block_request_response(c)
    PROVE  ModestInv'
<1> USE DEF ClientInv, Modest, clientVars, sendVars
<1>1. PICK i \in DOMAIN up[c] :
        /\ ServerTakes(c, i, "BlockRequestResponse")
        /\ requests' = [requests EXCEPT ![c] = requests[c] \ {up[c][i].block}]
        /\ transfers' = [transfers EXCEPT ![c] =
                Append(@, [block |-> up[c][i].block, from |-> up[c][i].from, to |-> up[c][i].to])]
        /\ have' = have \cup {up[c][i].block}
  BY DEF block_request_response, Unanswered
<1>2. /\ c \in known
      /\ UNCHANGED <<connected, alloc, cursor, todo, full, known, server, down>>
  BY DEF block_request_response
<1>3. PICK m : m = up[c][i]
  OBVIOUS
<1>4. /\ Removed(up[c], up'[c], m) /\ \A d \in Clients \ {c} : up'[d] = up[d]
      /\ m \in Responses /\ m \in ToSet(up[c])
  BY <1>1, <1>3, ServerTakesRemoves DEF Responses, Of
<1>5. PICK e : e = [block |-> m.block, from |-> m.from, to |-> m.to]
  OBVIOUS
<1>6. PeerInv(c) /\ m.block \in requests[c] /\ Absent(down[c], Requests)
  BY <1>4 DEF ModestInv, PeerInv, AskedOnce, Absent
<1>7. Awaiting(c, m.block)
  BY <1>2, <1>6 DEF PeerInv, FirstBlock, SecondBlock, Awaiting, Receiving
<1>8. /\ requests'[c] = {} /\ transfers'[c] = Append(<<>>, e)
      /\ \A d \in Clients \ {c} : requests'[d] = requests[d] /\ transfers'[d] = transfers[d]
  BY <1>1, <1>3, <1>5, <1>7 DEF IInv, SyncTypes, Awaiting
<1>9. Len(transfers'[c]) = 1 /\ transfers'[c][1] = e /\ e.block = m.block
  BY <1>5, <1>8
<1>10. /\ ticks'[c] = ticks[c] + 1 /\ status_tx'[c]
       /\ \A d \in Clients \ {c} : ticks'[d] = ticks[d] /\ status_tx'[d] = status_tx[d]
  <2>1. ticks' = [ticks EXCEPT ![c] = @ + 1] /\ status_tx' = [status_tx EXCEPT ![c] = TRUE]
    BY <1>7 DEF block_request_response, Awaiting
  <2> QED
    BY <2>1 DEF RestTypes
<1>11. /\ ToSet(up'[c]) \subseteq ToSet(up[c]) /\ Absent(up'[c], Responses)
       /\ \A X : AtMostOne(up[c], X) => AtMostOne(up'[c], X)
  BY <1>4, <1>6 DEF Removed, Fewer, PeerInv, AskedOnce
<1>12. ~Fresh(c)'
  <2>1. ticks[c] \in Nat
    BY DEF RestTypes
  <2> QED
    BY <1>2, <1>6, <1>11, <2>1, NotFresh
<1>13. AnnouncedOnce(c)' /\ AskedOnce(c)'
  BY <1>2, <1>6, <1>11, <1>12 DEF PeerInv, AnnouncedOnce, AskedOnce, Fresh, Absent
<1>14. Idle(c)'
  BY <1>2, <1>7, <1>11 DEF Awaiting, Idle, Absent
<1>15. Receiving(c, m.block)'
  BY <1>8, <1>9, <1>10, <1>14 DEF Receiving, Sends, Idle, Absent
<1>16. m.block \in Tree[Root[c]] /\ Tree[Root[c]] \subseteq Blocks
  BY <1>6, TreeType, RootAssumption DEF AskedForOwn
<1>17. Done(c)' = Done(c) /\ Holds(c)' \subseteq Holds(c) \cup {m.block}
  BY <1>1, <1>2, <1>3 DEF Done, Holds
<1>18. FirstBlock(c) => FirstBlock(c)'
  <2> SUFFICES ASSUME FirstBlock(c) PROVE FirstBlock(c)'
    OBVIOUS
  <2>1. m.block = Root[c] /\ ticks[c] = 0
    BY <1>6 DEF FirstBlock, Awaiting, Receiving
  <2>2. OneOrder(c)'
    <3>1. ticks'[c] = 1
      BY <1>10, <2>1
    <3>2. AtMostOne(down'[c], Orders) /\ AtMostOne(up'[c], Payloads)
      <4>1. \A s, X : Absent(s, X) => AtMostOne(s, X)
        BY DEF Absent, AtMostOne, ToSet
      <4> QED
        BY <1>14, <4>1 DEF Idle
    <3> QED
      BY <1>14, <3>1, <3>2 DEF OneOrder, Idle
  <2> QED
    BY <1>15, <1>17, <2>1, <2>2 DEF FirstBlock
<1>19. SecondBlock(c) => SecondBlock(c)'
  <2> SUFFICES ASSUME SecondBlock(c) PROVE SecondBlock(c)'
    OBVIOUS
  <2>1. m.block \in Children[Root[c]] /\ m.block \notin Done(c)
    BY <1>6 DEF SecondBlock, Awaiting, Receiving
  <2> QED
    BY <1>15, <1>17, <2>1 DEF SecondBlock
<1>20. About(c)
  BY <1>1, <1>2, <1>3, <1>4, <1>8, <1>10, <1>16 DEF About
<1> QED
  BY <1>2, <1>6, <1>13, <1>18, <1>19, <1>20, OthersKeep DEF ModestInv, PeerInv, ServerUp

-----------------------------------------------------------------------------
(***************************************************************************)
(* The server: status updates.                                             *)
(***************************************************************************)
LEMMA TruncatedEmpty == Truncated(<<>>) = <<>>
<1>1. <<>> \in Seq({})
  OBVIOUS
<1>2. Truncated(<<>>) \in Seq({})
  BY <1>1, TruncatedType
<1>3. PICK s \in Seq({}) : s = Truncated(<<>>)
  BY <1>2
<1>4. Len(s) = 0
  <2>1. \A i \in 1 .. Len(s) : s[i] \in {}
    OBVIOUS
  <2>2. Len(s) \in Nat /\ (Len(s) # 0 => 1 \in 1 .. Len(s))
    OBVIOUS
  <2> QED
    BY <2>1, <2>2
<1> QED
  BY <1>3, <1>4

\* What a status reports while the client is served, or is not known.
LEMMA MissingModest ==
    ASSUME IInv, NEW c \in Clients, PeerInv(c)
    PROVE  /\ c \in known /\ Len(transfers[c]) = 1 =>
                Missing(c) = MissingRanges(transfers[c][1])
           /\ c \notin known \/ transfers[c] = <<>> => Missing(c) = <<>>
<1> DEFINE s == [k \in DOMAIN transfers[c] |-> MissingRanges(transfers[c][k])]
<1>1. transfers[c] \in Seq(Transfers)
  BY DEF IInv, SyncTypes
<1>2. c \in known => Missing(c) = FlattenSeq(s)
  BY DEF Missing
<1>3. ASSUME Len(transfers[c]) = 1
      PROVE  FlattenSeq(s) = MissingRanges(transfers[c][1])
  <2>1. DOMAIN transfers[c] = 1 .. 1 /\ transfers[c][1] \in Transfers
    BY <1>1, <1>3
  <2>2. PICK T : MissingRanges(transfers[c][1]) \in Seq(T)
    BY <2>1, MissingRangesOrdered
  <2>3. DOMAIN s = 1 .. 1 /\ s[1] = MissingRanges(transfers[c][1])
    BY <2>1
  <2>4. s \in [1 .. 1 -> Seq(T)]
    BY <2>1, <2>2
  <2> HIDE DEF s
  <2>4a. PICK n \in Nat : n = 1
    OBVIOUS
  <2>5. s \in Seq(Seq(T)) /\ Len(s) = 1
    <3>1. s \in [1 .. n -> Seq(T)]
      BY <2>4, <2>4a
    <3>2. s \in Seq(Seq(T)) /\ Len(s) = n
      BY <3>1
    <3> QED
      BY <2>4a, <3>2
  <2> QED
    BY <2>3, <2>5, FlattenOne
<1>4. ASSUME transfers[c] = <<>>
      PROVE  FlattenSeq(s) = <<>>
  <2>1. s = <<>>
    BY <1>4
  <2> HIDE DEF s
  <2> QED
    BY <2>1 DEF FlattenSeq
<1>5. c \notin known => Missing(c) = <<>>
  BY DEF Missing
<1> QED
  BY <1>2, <1>3, <1>4, <1>5

\* The status loop does not find a full block, and the codec no descent.
LEMMA StatusFits ==
    ASSUME IInv, ClientInv, ModestInv, NEW c \in Clients
    PROVE  ~FullTransfer(c) /\ Ascending(Missing(c))
<1>1. PeerInv(c) /\ transfers[c] \in Seq(Transfers)
  BY DEF ModestInv, IInv, SyncTypes
<1>2. CASE c \notin known \/ transfers[c] = <<>>
  <2>1. Missing(c) = <<>>
    BY <1>1, <1>2, MissingModest
  <2>2. Ascending(<<>>)
    BY DEF Ascending
  <2> QED
    BY <1>2, <2>1, <2>2 DEF FullTransfer
<1>3. CASE c \in known /\ transfers[c] # <<>>
  <2>1. \E b \in Tree[Root[c]] \ full : Receiving(c, b)
    <3>1. Root[c] \in Tree[Root[c]] /\ Children[Root[c]] \subseteq Tree[Root[c]]
      BY VisitedClosed, RootAssumption DEF Tree, Closed
    <3> QED
      BY <1>1, <1>3, <3>1 DEF PeerInv, FirstBlock, SecondBlock, Awaiting, Done
  <2>2. PICK b \in Tree[Root[c]] \ full : Receiving(c, b)
    BY <2>1
  <2>3. /\ Len(transfers[c]) = 1 /\ transfers[c][1].block = b /\ transfers[c][1] \in Transfers
        /\ DOMAIN transfers[c] = 1 .. 1
    BY <1>1, <2>2 DEF Receiving
  <2>4. ~FullTransfer(c)
    BY <2>2, <2>3 DEF FullTransfer
  <2>5. Ascending(Missing(c))
    BY <1>1, <1>3, <2>3, MissingModest, MissingRangesOrdered
  <2> QED
    BY <2>4, <2>5
<1> QED
  BY <1>2, <1>3

\* A status that was queued becomes one that is under way.
LEMMA SendStatusModest ==
    ASSUME Modest, IInv, ClientInv, ModestInv, NEW c \in Clients, send_status(c)
    PROVE  ModestInv'
<1> USE DEF ClientInv, Modest, clientVars, sendVars, dbVars
<1> DEFINE ranges == Truncated(Missing(c))
           p == TransferStatus(ranges)
<1>1. /\ ticks[c] > 0 /\ ticks' = [ticks EXCEPT ![c] = @ - 1]
      /\ down' = Post(down, c, p)
      /\ UNCHANGED <<connected, cursor, todo, requests, transfers, status_tx, known, have, full,
                     server, up>>
  BY DEF send_status, StatusTurn
<1>2. p.type = "TransferStatus" /\ p.missing_ranges = ranges
  BY DEF TransferStatus
<1>3. p \notin Requests
  BY <1>2 DEF Requests, Of
<1> HIDE DEF p
<1>4. Posted(down[c], down'[c], p) /\ \A d \in Clients \ {c} : down'[d] = down[d]
  BY <1>1, PostPosts DEF RestTypes
<1>5. ticks[c] \in Nat /\ ticks'[c] = ticks[c] - 1 /\ \A d \in Clients \ {c} : ticks'[d] = ticks[d]
  BY <1>1 DEF RestTypes
<1>6. /\ ToSet(down'[c]) \subseteq ToSet(down[c]) \cup {p}
      /\ \A X : AtMostOne(down[c], X) /\ (p \in X => Absent(down[c], X)) => AtMostOne(down'[c], X)
  BY <1>4 DEF Posted
<1>7. PeerInv(c) /\ ~Fresh(c)'
  <2>1. PeerInv(c)
    BY DEF ModestInv
  <2> QED
    BY <1>1, <1>5, <2>1, NotFresh
<1>8. AnnouncedOnce(c)' /\ AskedOnce(c)'
  BY <1>1, <1>3, <1>6, <1>7 DEF PeerInv, AnnouncedOnce, AskedOnce, Fresh, Absent
<1>9. Holds(c)' = Holds(c) /\ Done(c)' = Done(c)
  BY <1>1 DEF Holds, Done
<1>10. \A b : Awaiting(c, b) => Awaiting(c, b)'
  <2>1. transfers[c] = <<>> => ranges = <<>>
    BY <1>7, MissingModest, TruncatedEmpty
  <2>2. transfers[c] = <<>> => p \notin Orders
    BY <1>2, <2>1 DEF Orders
  <2> QED
    BY <1>1, <1>6, <2>2 DEF Awaiting, Idle, Absent
<1>11. \A b : Receiving(c, b) /\ c \in known => Receiving(c, b)'
  <2> SUFFICES ASSUME NEW b, Receiving(c, b), c \in known PROVE Receiving(c, b)'
    OBVIOUS
  <2>1. transfers[c] \in Seq(Transfers) /\ Len(transfers[c]) = 1
    BY DEF IInv, SyncTypes, Receiving
  <2>2. PICK t \in Transfers : t = transfers[c][1]
    BY <2>1
  <2>3. Missing(c) \in Seq(RangesOf(t))
    BY <1>7, <2>1, <2>2, MissingModest, MissingRangesOrdered
  <2>4. ranges \in Seq(RangesOf(t))
    BY <2>3, TruncatedType
  <2>5. \A r \in ToSet(ranges) : Within(t, r)
    <3> HIDE DEF ranges
    <3> QED
      BY <2>4 DEF ToSet, RangesOf
  <2> HIDE DEF ranges
  <2>6. Sends(c, t)'
    <3>1. Sends(c, t)
      BY <2>2 DEF Receiving
    <3> QED
      BY <1>1, <1>2, <1>6, <2>5, <3>1 DEF Sends
  <2> QED
    BY <1>1, <2>2, <2>6 DEF Receiving
<1> HIDE DEF ranges
<1>12. OneOrder(c) => OneOrder(c)'
  <2> SUFFICES ASSUME OneOrder(c) PROVE OneOrder(c)'
    OBVIOUS
  <2>1. ticks'[c] = 0 /\ Idle(c)
    BY <1>1, <1>5 DEF OneOrder
  <2>2. AtMostOne(down'[c], Orders)
    BY <1>6, <2>1 DEF OneOrder, Idle
  <2> QED
    BY <1>1, <2>1, <2>2 DEF OneOrder, Idle
<1>13. c \in known' => (FirstBlock(c) \/ SecondBlock(c))'
  <2>1. c \in known /\ FirstBlock(c) => FirstBlock(c)'
    BY <1>1, <1>9, <1>11, <1>12 DEF FirstBlock
  <2>2. c \in known /\ SecondBlock(c) => SecondBlock(c)'
    BY <1>9, <1>10, <1>11 DEF SecondBlock
  <2> QED
    BY <1>1, <1>7, <2>1, <2>2 DEF PeerInv
<1>14. About(c)
  BY <1>1, <1>4, <1>5 DEF About
<1> QED
  BY <1>1, <1>8, <1>13, <1>14, OthersKeep DEF ModestInv, PeerInv, ServerUp

-----------------------------------------------------------------------------
(***************************************************************************)
(* The server: payloads.                                                   *)
(***************************************************************************)

\* The block that is transferred is missing, and can be resolved once it is
\* not.
LEMMA ReceivedBlock ==
    ASSUME IInv, NEW c \in Clients, PeerInv(c), c \in known, requests[c] = {} \/ ~Idle(c)
    PROVE  /\ pending_root = Root[c]
           /\ \E b \in Tree[Root[c]] \ full :
                /\ Receiving(c, b)
                /\ CanResolve(b, Root[c], full \cup {b})
                /\ FirstBlock(c) => b = Root[c] /\ (Leaf(Root[c]) \/ OneOrder(c))
                /\ SecondBlock(c) => b \in Children[Root[c]] /\ Root[c] \in full
<1>1. pending_root = Root[c]
  BY DEF IInv, SyncInv, OneUploader
<1>2. /\ Root[c] \in Blocks
      /\ Root[c] \in Tree[Root[c]] /\ Children[Root[c]] \subseteq Tree[Root[c]]
  BY VisitedClosed, RootAssumption DEF Tree, Closed
<1>3. \A b : ~Awaiting(c, b)
  BY DEF Awaiting
<1>4. CASE FirstBlock(c)
  <2>1. Receiving(c, Root[c]) /\ Root[c] \notin full /\ (Leaf(Root[c]) \/ OneOrder(c))
    BY <1>2, <1>3, <1>4 DEF FirstBlock, Done
  <2>2. CanResolve(Root[c], Root[c], full \cup {Root[c]})
    BY <1>2, VisitedClosed DEF CanResolve
  <2>3. ~SecondBlock(c)
    BY <1>4 DEF FirstBlock, SecondBlock
  <2> QED
    BY <1>1, <1>2, <2>1, <2>2, <2>3
<1>5. CASE SecondBlock(c)
  <2>1. PICK b \in Children[Root[c]] : b \notin Done(c) /\ Receiving(c, b)
    BY <1>3, <1>5 DEF SecondBlock
  <2>2. Root[c] \in full /\ b \in Tree[Root[c]] \ full
    BY <1>2, <1>5, <2>1 DEF SecondBlock, Done
  <2>3. CanResolve(b, Root[c], full \cup {b})
    <3>1. /\ Root[c] \in Visited(Root[c], full \cup {b})
          /\ Closed(Visited(Root[c], full \cup {b}), full \cup {b})
      BY <1>2, VisitedClosed
    <3> QED
      BY <2>1, <2>2, <3>1 DEF CanResolve, Closed
  <2>4. ~FirstBlock(c)
    BY <1>5 DEF FirstBlock, SecondBlock
  <2> QED
    BY <1>1, <2>1, <2>2, <2>3, <2>4
<1> QED
  BY <1>4, <1>5 DEF PeerInv

\* A payload is of the transfer: nothing that is unwrapped is missing.
LEMMA PayloadExpected ==
    ASSUME IInv, ClientInv, NEW c \in Clients, PeerInv(c), c \in known,
           NEW m \in ToSet(up[c]) \cap Payloads
    PROVE  1 \in DOMAIN transfers[c] /\ Expected(c, 1, m.chunkid)
<1>1. ~Idle(c)
  BY DEF Idle, Absent
<1>2. pending_root = Root[c] /\ \E b \in Tree[Root[c]] \ full :
        Receiving(c, b) /\ CanResolve(b, Root[c], full \cup {b})
  BY <1>1, ReceivedBlock
<1>3. PICK b \in Tree[Root[c]] \ full : Receiving(c, b) /\ CanResolve(b, Root[c], full \cup {b})
  BY <1>2
<1>4. transfers[c] \in Seq(Transfers) /\ Len(transfers[c]) = 1 /\ transfers[c][1].block = b
  BY <1>3 DEF IInv, SyncTypes, Receiving
<1>5. PICK t \in Transfers : t = transfers[c][1] /\ t.block = b /\ 1 \in DOMAIN transfers[c]
  BY <1>4
<1>6. t \in ToSet(alloc[c])
  BY <1>5 DEF IInv, SyncInv, AllocationsApart, ToSet
<1>7. /\ t.to = t.from + BlockLen[b] /\ t.from \in Nat /\ b \in Blocks
  BY <1>5, <1>6 DEF ClientInv, AskedForOwn, Transfers
<1>8. NumChunks(b) \in Nat /\ NumChunks(b) <= BlockLen[b] /\ BlockLen[b] \in Nat
  BY <1>7, NumChunksAssumption, BlockLenAssumption
<1>9. m.chunkid \in t.from .. t.from + NumChunks(b) - 1
  BY <1>3, <1>5 DEF Receiving, Sends, Ids
<1>10. Covers(t, m.chunkid) /\ m.chunkid - t.from \in 0 .. NumChunks(b) - 1
  BY <1>7, <1>8, <1>9 DEF Covers
<1>11. IsTransfer(c, 1, m.chunkid) /\ status_tx[c]
  BY <1>3, <1>5, <1>10 DEF IsTransfer, Receiving
<1>12. PICK x : x = Target(transfers[c][1], m.chunkid)
  OBVIOUS
<1>13. x[1] = b /\ x \in Chunks
  BY <1>5, <1>7, <1>10, <1>12 DEF Target, Chunks, ChunksOf
<1>14. pending_root # None
  BY <1>2, RootAssumption, NoneAssumption
<1> QED
  BY <1>2, <1>3, <1>5, <1>11, <1>12, <1>13, <1>14 DEF Expected

\* What storing a payload changes, whatever comes of it.
LEMMA StoresModest ==
    ASSUME Modest, IInv, ClientInv, ModestInv, NEW c \in Clients, NEW k \in DOMAIN transfers[c],
           NEW x \in Chunks, Stores(c, k, x)
    PROVE  /\ UNCHANGED <<connected, cursor, todo, server>> /\ c \in known
           /\ ticks'[c] = ticks[c] + 1
           /\ \A d \in Clients \ {c} : up'[d] = up[d] /\ ticks'[d] = ticks[d]
           /\ Fewer(up[c], up'[c]) /\ ~Fresh(c)'
           /\ ~Absent(up[c], Payloads)
           /\ AtMostOne(up[c], Payloads) => Absent(up'[c], Payloads)
           /\ k = 1 /\ Len(transfers[c]) = 1 /\ x[1] = transfers[c][1].block
           /\ requests[c] = {}
           /\ pending_root = Root[c]
           /\ x[1] \in Tree[Root[c]] \ full /\ Receiving(c, x[1])
           /\ FirstBlock(c) => x[1] = Root[c] /\ (Leaf(Root[c]) \/ OneOrder(c))
           /\ SecondBlock(c) => x[1] \in Children[Root[c]] /\ Root[c] \in full
<1> USE DEF ClientInv, Modest, clientVars, sendVars
<1>1. /\ UNCHANGED <<connected, cursor, todo, server>> /\ c \in known
      /\ ticks' = [ticks EXCEPT ![c] = @ + 1]
  BY DEF Stores
<1>2. PICK i \in DOMAIN up[c] : ServerTakes(c, i, "TransferPayload")
  BY DEF Stores
<1>3. PICK m : m = up[c][i]
  OBVIOUS
<1>4. /\ Removed(up[c], up'[c], m) /\ Fewer(up[c], up'[c])
      /\ \A d \in Clients \ {c} : up'[d] = up[d]
      /\ m \in Payloads /\ m \in ToSet(up[c])
  BY <1>2, <1>3, ServerTakesRemoves DEF Payloads, Of
<1>5. ~Absent(up[c], Payloads) /\ (AtMostOne(up[c], Payloads) => Absent(up'[c], Payloads))
  BY <1>4 DEF Removed, Absent
<1>6. /\ ticks[c] \in Nat /\ ticks'[c] = ticks[c] + 1
      /\ \A d \in Clients \ {c} : ticks'[d] = ticks[d]
  BY <1>1 DEF RestTypes
<1>7. PeerInv(c) /\ ~Fresh(c)'
  <2>1. PeerInv(c) /\ ToSet(up'[c]) \cap Updates \subseteq ToSet(up[c])
    BY <1>4 DEF ModestInv, Fewer
  <2> QED
    BY <1>1, <1>6, <2>1, NotFresh
<1>8. ~Idle(c)
  BY <1>5 DEF Idle
<1>9. pending_root = Root[c] /\ \E b \in Tree[Root[c]] \ full :
        /\ Receiving(c, b)
        /\ FirstBlock(c) => b = Root[c] /\ (Leaf(Root[c]) \/ OneOrder(c))
        /\ SecondBlock(c) => b \in Children[Root[c]] /\ Root[c] \in full
  BY <1>1, <1>7, <1>8, ReceivedBlock
<1>10. PICK b \in Tree[Root[c]] \ full :
        /\ Receiving(c, b)
        /\ FirstBlock(c) => b = Root[c] /\ (Leaf(Root[c]) \/ OneOrder(c))
        /\ SecondBlock(c) => b \in Children[Root[c]] /\ Root[c] \in full
  BY <1>9
<1>11. /\ transfers[c] \in Seq(Transfers) /\ Len(transfers[c]) = 1 /\ transfers[c][1].block = b
       /\ requests[c] = {}
  BY <1>10 DEF IInv, SyncTypes, Receiving
<1>12. k = 1
  BY <1>11
<1>13. x[1] = b
  BY <1>11, <1>12, StoredInPlace
<1> QED
  BY <1>1, <1>4, <1>5, <1>6, <1>7, <1>9, <1>10, <1>11, <1>12, <1>13

LEMMA StoreChunkModest ==
    ASSUME Modest, IInv, ClientInv, ModestInv, NEW c \in Clients, NEW k \in DOMAIN transfers[c],
           NEW x \in Chunks, store_chunk(c, k, x)
    PROVE  ModestInv'
<1> USE DEF Modest
<1>1. /\ Stores(c, k, x) /\ ~Promotes(x)
      /\ UNCHANGED <<have, full, known, requests, transfers, status_tx, down>>
  BY DEF store_chunk
<1>2. /\ UNCHANGED <<connected, cursor, todo, server>> /\ c \in known
      /\ \A d \in Clients \ {c} : up'[d] = up[d] /\ ticks'[d] = ticks[d]
      /\ Fewer(up[c], up'[c]) /\ ~Fresh(c)'
      /\ Receiving(c, x[1])
      /\ FirstBlock(c) => x[1] = Root[c] /\ (Leaf(Root[c]) \/ OneOrder(c))
  BY <1>1, StoresModest
<1>3. PeerInv(c)
  BY DEF ModestInv
<1>4. AnnouncedOnce(c)' /\ AskedOnce(c)'
  BY <1>1, <1>2, <1>3 DEF PeerInv, AnnouncedOnce, AskedOnce, Fresh, Absent, Fewer
<1>5. Holds(c)' = Holds(c) /\ Done(c)' = Done(c)
  BY <1>1 DEF Holds, Done
<1>6. \A b : Receiving(c, b) => Receiving(c, b)'
  <2>1. \A t : Sends(c, t) => Sends(c, t)'
    BY <1>1, <1>2 DEF Sends, Fewer
  <2> QED
    BY <1>1, <2>1 DEF Receiving
<1>7. \A b : ~Awaiting(c, b)
  BY <1>2 DEF Awaiting, Receiving
<1>8. NumChunks(x[1]) # 1
  <2> SUFFICES ASSUME NumChunks(x[1]) = 1 PROVE FALSE
    OBVIOUS
  <2>1. x \in ChunksOf(x[1])
    BY DEF Chunks, ChunksOf
  <2>2. \A y \in ChunksOf(x[1]) : y = x
    BY <2>1 DEF ChunksOf
  <2> QED
    BY <1>1, <2>2 DEF Promotes
<1>9. FirstBlock(c) => FirstBlock(c)'
  BY <1>2, <1>5, <1>6, <1>7, <1>8 DEF FirstBlock, OneFile
<1>10. SecondBlock(c) => SecondBlock(c)'
  BY <1>5, <1>6, <1>7 DEF SecondBlock
<1>11. About(c)
  BY <1>1, <1>2 DEF About
<1> QED
  BY <1>1, <1>2, <1>3, <1>4, <1>9, <1>10, <1>11, OthersKeep DEF ModestInv, PeerInv, ServerUp

\* A directory that is complete has been ordered for the last time, and names
\* one file; with a file the tree is complete.
LEMMA CompleteBlockModest ==
    ASSUME Modest, IInv, ClientInv, ModestInv, NEW c \in Clients, NEW k \in DOMAIN transfers[c],
           NEW x \in Chunks, complete_block(c, k, x)
    PROVE  ModestInv'
<1> USE DEF Modest
<1>1. /\ Stores(c, k, x) /\ full' = full \cup {x[1]} /\ ~verify(pending_root, full')
      /\ transfers' = [transfers EXCEPT ![c] = Without(@, k)]
      /\ requests' = [requests EXCEPT ![c] = @ \cup (Children[x[1]] \ have)]
      /\ UNCHANGED <<have, known, status_tx, down>>
  BY DEF complete_block
<1>2. /\ UNCHANGED <<connected, cursor, todo, server>> /\ c \in known
      /\ \A d \in Clients \ {c} : up'[d] = up[d] /\ ticks'[d] = ticks[d]
      /\ Fewer(up[c], up'[c]) /\ ~Fresh(c)'
      /\ ~Absent(up[c], Payloads)
      /\ AtMostOne(up[c], Payloads) => Absent(up'[c], Payloads)
      /\ k = 1 /\ Len(transfers[c]) = 1
      /\ requests[c] = {}
      /\ pending_root = Root[c]
      /\ x[1] \in Tree[Root[c]] \ full
      /\ FirstBlock(c) => x[1] = Root[c] /\ (Leaf(Root[c]) \/ OneOrder(c))
      /\ SecondBlock(c) => x[1] \in Children[Root[c]] /\ Root[c] \in full
  BY <1>1, StoresModest
<1>3. PeerInv(c)
  BY DEF ModestInv
<1>4. Root[c] \in Blocks /\ Children \in [Blocks -> SUBSET Blocks]
  BY RootAssumption, ChildrenAssumption
<1>5. ASSUME NEW S \in SUBSET Blocks, S \subseteq full', Root[c] \in S, Closed(S, full')
      PROVE  FALSE
  <2>1. Visited(Root[c], full') \subseteq S
    BY <1>4, <1>5, VisitedLeast
  <2> QED
    BY <1>1, <1>2, <1>5, <2>1 DEF verify
<1>6. FirstBlock(c) /\ ~Leaf(Root[c])
  <2>1. CASE FirstBlock(c) /\ Leaf(Root[c])
    <3>1. Closed({Root[c]}, full')
      BY <2>1 DEF Closed, Leaf
    <3> QED
      BY <1>1, <1>2, <1>4, <1>5, <2>1, <3>1
  <2>2. CASE SecondBlock(c)
    <3>1. ~Leaf(Root[c])
      BY <1>2, <2>2 DEF Leaf
    <3>2. PICK a \in Blocks : Children[Root[c]] = {a} /\ Leaf(a)
      BY <3>1 DEF OneFile
    <3>3. a = x[1] /\ {Root[c], a} \subseteq full'
      BY <1>1, <1>2, <2>2, <3>2
    <3>4. Closed({Root[c], a}, full')
      BY <3>2 DEF Closed, Leaf
    <3> QED
      BY <1>4, <1>5, <3>3, <3>4
  <2> QED
    BY <1>2, <1>3, <2>1, <2>2 DEF PeerInv
<1>7. PICK a \in Blocks : Children[Root[c]] = {a} /\ Leaf(a)
  BY <1>6 DEF OneFile
<1>8. a # Root[c] /\ x[1] = Root[c] /\ OneOrder(c)
  BY <1>2, <1>6, <1>7
<1>9. Root[c] \in Tree[Root[c]] /\ a \in Tree[Root[c]]
  BY <1>4, <1>7, VisitedClosed DEF Tree, Closed
<1>10. a \notin have /\ a \notin full
  BY <1>6, <1>8, <1>9 DEF FirstBlock, Holds, Done
<1>11. /\ requests'[c] = {a} /\ transfers'[c] = <<>>
       /\ \A d \in Clients \ {c} : requests'[d] = requests[d] /\ transfers'[d] = transfers[d]
  <2>1. requests \in [Clients -> SUBSET Blocks] /\ transfers \in [Clients -> Seq(Transfers)]
    BY DEF IInv, SyncTypes
  <2>2. requests'[c] = {a}
    BY <1>1, <1>2, <1>7, <1>8, <1>10, <2>1
  <2>3. transfers'[c] = Without(transfers[c], 1)
    BY <1>1, <1>2, <2>1
  <2>4. Without(transfers[c], 1) = <<>>
    BY <1>2 DEF Without
  <2> QED
    BY <1>1, <2>1, <2>2, <2>3, <2>4
<1>12. Idle(c)'
  BY <1>1, <1>2, <1>8 DEF OneOrder, Idle
<1>13. AnnouncedOnce(c)' /\ AskedOnce(c)'
  BY <1>1, <1>2, <1>3 DEF PeerInv, AnnouncedOnce, AskedOnce, Fresh, Absent, Fewer
<1>14. Root[c] \in Done(c)' /\ a \notin Done(c)'
  BY <1>1, <1>8, <1>9, <1>10 DEF Done
<1>15. SecondBlock(c)'
  BY <1>7, <1>11, <1>12, <1>14 DEF SecondBlock, Awaiting
<1>16. About(c)
  BY <1>1, <1>2, <1>11 DEF About
<1> QED
  BY <1>2, <1>13, <1>15, <1>16, OthersKeep DEF ModestInv, PeerInv, ServerUp

\* A client whose folder is complete is not served again.
LEMMA CompleteTreeModest ==
    ASSUME Modest, IInv, ClientInv, ModestInv, NEW c \in Clients, NEW k \in DOMAIN transfers[c],
           NEW x \in Chunks, complete_tree(c, k, x)
    PROVE  ModestInv'
<1> USE DEF Modest
<1>1. /\ Stores(c, k, x) /\ full' = full \cup {x[1]}
      /\ down' = [d \in Clients |->
                    IF d \in known THEN Post(down, d, RootUpdateResponse(root'))[d] ELSE down[d]]
      /\ known' = known \ {c}
      /\ requests' = [requests EXCEPT ![c] = {}]
      /\ transfers' = [transfers EXCEPT ![c] = <<>>]
      /\ status_tx' = [status_tx EXCEPT ![c] = FALSE]
      /\ UNCHANGED have
  BY DEF complete_tree, Entry
<1>2. /\ UNCHANGED <<connected, cursor, todo, server>> /\ c \in known
      /\ \A d \in Clients \ {c} : up'[d] = up[d] /\ ticks'[d] = ticks[d]
      /\ Fewer(up[c], up'[c]) /\ ~Fresh(c)'
      /\ requests[c] = {}
      /\ x[1] \in Tree[Root[c]]
  BY <1>1, StoresModest
<1>3. known = {c}
  BY CompleteTreeStep
<1>4. PICK p : p = RootUpdateResponse(root')
  OBVIOUS
<1>5. p \notin Requests
  BY <1>4 DEF RootUpdateResponse, Requests, Of
<1>6. /\ down'[c] = Post(down, c, p)[c]
      /\ \A d \in Clients \ {c} : down'[d] = down[d]
  BY <1>1, <1>3, <1>4
<1>7. Posted(down[c], down'[c], p)
  BY <1>6, PostPosts DEF ClientInv, RestTypes
<1>8. /\ requests'[c] = {}
      /\ \A d \in Clients \ {c} : /\ requests'[d] = requests[d] /\ transfers'[d] = transfers[d]
                                  /\ status_tx'[d] = status_tx[d]
  BY <1>1 DEF IInv, SyncTypes, ClientInv, RestTypes
<1>9. PeerInv(c)
  BY DEF ModestInv
<1>10. AnnouncedOnce(c)'
  BY <1>2, <1>9 DEF PeerInv, AnnouncedOnce, Fresh, Fewer
<1>11. AskedOnce(c)'
  BY <1>2, <1>5, <1>7, <1>8, <1>9 DEF PeerInv, AskedOnce, Absent, Fewer, Posted
<1>12. About(c)
  BY <1>1, <1>2, <1>6, <1>8 DEF About
<1> QED
  BY <1>1, <1>2, <1>10, <1>11, <1>12, OthersKeep DEF ModestInv, PeerInv, ServerUp

-----------------------------------------------------------------------------
(***************************************************************************)
(* The theorem.                                                            *)
(***************************************************************************)
LEMMA InitModest ==
    ASSUME Modest, Init
    PROVE  ModestInv
<1> USE DEF Init, Modest
<1>1. ASSUME NEW c \in Clients PROVE PeerInv(c)
  <2>1. up[c] = <<>> /\ down[c] = <<>> /\ ToSet(up[c]) = {} /\ ToSet(down[c]) = {}
    BY DEF ToSet
  <2>2. \A X : AtMostOne(<<>>, X)
    BY DEF AtMostOne
  <2>3. Holds(c) = {} /\ Done(c) = {}
    BY DEF Holds, Done, OwnTrees
  <2>4. AnnouncedOnce(c)
    BY <2>1, <2>2, <2>3 DEF AnnouncedOnce
  <2>5. AskedOnce(c)
    BY <2>1, <2>2 DEF AskedOnce, Absent
  <2> QED
    BY <2>4, <2>5 DEF PeerInv
<1> QED
  BY <1>1 DEF ModestInv, ServerUp

\* The steps that would end the server are not taken.
LEMMA NoPanic ==
    ASSUME Modest, IInv, ClientInv, ModestInv, NEW c \in Clients,
           \/ encode_underflow(c) \/ status_loop_panics(c) \/ recv_poisoned(c) \/ payload_panics(c)
    PROVE  FALSE
<1>1. ~encode_underflow(c) /\ ~status_loop_panics(c)
  BY StatusFits DEF encode_underflow, status_loop_panics
<1>2. ~recv_poisoned(c)
  BY DEF recv_poisoned, ModestInv, ServerUp
<1>3. ~payload_panics(c)
  <2> SUFFICES ASSUME payload_panics(c) PROVE FALSE
    OBVIOUS
  <2>1. PICK i \in DOMAIN up[c] :
          /\ ServerTakes(c, i, "TransferPayload")
          /\ \A k \in DOMAIN transfers[c] : ~Expected(c, k, up[c][i].chunkid)
    BY DEF payload_panics
  <2>2. up[c][i] \in ToSet(up[c]) \cap Payloads /\ c \in known /\ PeerInv(c)
    BY <2>1, ServerTakesRemoves DEF Modest, ClientInv, Payloads, Of, payload_panics, ModestInv
  <2> QED
    BY <2>1, <2>2, PayloadExpected
<1> QED
  BY <1>1, <1>2, <1>3

LEMMA NextModest ==
    ASSUME Modest, IInv, ClientInv, ModestInv, [Next]_vars
    PROVE  ModestInv'
<1>1. CASE UNCHANGED vars
  <2>1. UNCHANGED <<connected, ticks, cursor, todo, requests, transfers, status_tx, known, have,
                    full, up, down, server>>
    BY <1>1 DEF vars, clientVars, sendVars, serverVars, dbVars, connVars
  <2>2. ASSUME NEW c \in Clients PROVE PeerInv(c)'
    <3>1. State(c)' = State(c)
      BY <2>1 DEF State, Holds, Done
    <3>2. Fewer(up[c], up'[c]) /\ Fewer(down[c], down'[c])
      BY <2>1 DEF Fewer
    <3> QED
      BY <2>1, <3>1, <3>2, LossKeeps DEF ModestInv
  <2> QED
    BY <2>1, <2>2 DEF ModestInv, ServerUp
<1>2. ASSUME NEW c \in Clients, ClientNext(c)
      PROVE  ModestInv'
  BY <1>2, ConnectModest, RootResponseModest, BlockRequestModest, StatusModest, PayloadModest,
     QuietModest DEF ClientNext
<1>3. ASSUME NEW c \in Clients, ServerNext(c)
      PROVE  ModestInv'
  <2>1. CASE transfer_payload(c)
    BY <2>1, StoreChunkModest, CompleteBlockModest, CompleteTreeModest DEF transfer_payload
  <2>2. CASE encode_underflow(c) \/ status_loop_panics(c) \/ recv_poisoned(c) \/ payload_panics(c)
    BY <2>2, NoPanic
  <2> QED
    BY <1>3, <2>1, <2>2, QuietModest, SameModest, AcceptModest, RetryModest, ResponseModest,
       SendStatusModest DEF ServerNext
<1>4. ASSUME NEW c \in Clients, Lose(c)
      PROVE  ModestInv'
  BY <1>4, QuietModest
<1> QED
  BY <1>1, <1>2, <1>3, <1>4 DEF Next

\* With folders of at most one file, a server that is answered within a second
\* and by messages that come at most once is not brought down: it never
\* unwraps what is not there, promotes a block twice or writes a status that
\* descends, for any number of clients, any sizes of files, and whatever is
\* lost or overtaken.
THEOREM ServerUpModest ==
    ASSUME Modest
    PROVE  Spec => []ServerUp
<1>1. Init => ModestInv
  BY InitModest
<1>2. IInv /\ ClientInv /\ ModestInv /\ [Next]_vars => ModestInv'
  BY NextModest
<1>3. ModestInv => ServerUp
  BY DEF ModestInv
<1> QED
  BY <1>1, <1>2, <1>3, InitIInv, NextIInv, InitClientInv, NextClientInv, PTL DEF Spec

\* So with such folders the loss of a response is tolerated: with one transfer
\* at a time the ranges of a status ascend, whatever is sent again.
THEOREM LossToleratedModest ==
    ASSUME Modest
    PROVE  Spec => []LostResponseTolerated
<1>1. Init => ModestInv
  BY InitModest
<1>2. IInv /\ ClientInv /\ ModestInv /\ [Next]_vars => ModestInv'
  BY NextModest
<1>3. IInv /\ ClientInv /\ ModestInv => LostResponseTolerated
  BY StatusFits DEF LostResponseTolerated
<1> QED
  BY <1>1, <1>2, <1>3, InitIInv, NextIInv, InitClientInv, NextClientInv, PTL DEF Spec
=============================================================================
