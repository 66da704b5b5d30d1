------------------------ MODULE UploadSessionProofs -------------------------
(***************************************************************************)
(* What Upload promises when it is used the way its author had in mind:    *)
(* one client at a time, or one session that has the file to itself.  Each *)
(* theorem names the part of the environment it depends on; the runs of    *)
(* TLC show what happens outside it.                                       *)
(***************************************************************************)
EXTENDS UploadProofs

\* A client is only started when the connection before it is over, and the
\* network does not deliver a Login twice.  It may lose and reorder anything,
\* deliver chunks and statuses twice, and everybody may crash or time out.
Sequential ==
    /\ "overlap" \notin Faults /\ "earlyRestart" \notin Faults
    /\ "login" \notin Duplicable

-----------------------------------------------------------------------------
(***************************************************************************)
(* The inductive invariant of sequential use.                              *)
(***************************************************************************)

\* There is one session, or one Login on its way, or neither.
OneConnection ==
    /\ \A s, t \in Sessions : Live(s) /\ Live(t) => s = t
    /\ \A s \in Sessions : Live(s) => \A m \in net : m.type # "login"
    /\ \A m, n \in net : m.type = "login" /\ n.type = "login" => m = n

\* Client f has sent nothing but its Login, and nothing was sent to it.
Quiet(f) ==
    /\ phase[f] # "sending"
    /\ \A m \in net : m.flow = f => m.type = "login"

\* The session of client f is past its set-up.
Heard(f) ==
    /\ phase[f] # "idle"
    /\ Login(f) \notin net
    /\ \A s \in Sessions : Opening(s) => flow[s] # f

\* Until its session is set up a client is quiet.
QuietAtFirst == \A f \in Flows : Quiet(f) \/ Heard(f)

\* What is announced to or by the client of a session is in its bitmap.
AnnouncedIsMarked ==
    \A s \in Sessions : \A m \in net :
        Live(s) /\ m.flow = flow[s] /\ Announces(m) => Chunks \subseteq bitmap[inode[s]]

\* Nobody has changed the byte that BitMap::set has loaded.
LoadedIsStored ==
    \A s \in Sessions : st[s] = "Marking" => byte[s] = bitmap[inode[s]]

SequentialInv ==
    /\ OneConnection
    /\ QuietAtFirst
    /\ AnnouncedIsMarked
    /\ LoadedIsStored
    /\ ZeroesExact

LEMMA SequentialInit == Init => SequentialInv
BY DEF Init, SequentialInv, OneConnection, QuietAtFirst, Quiet, AnnouncedIsMarked,
   LoadedIsStored, ZeroesExact, Live

\* The states in which the cached count of zeroes is used.
Counting == {"WaitForChunk", "WritingChunk", "Marking"}

\* A step that starts no session, marks nothing and announces nothing.
Frame ==
    /\ bitmap' = bitmap
    /\ \A t \in Sessions :
          Live(t)' => Live(t) /\ flow'[t] = flow[t] /\ inode'[t] = inode[t]
    /\ \A t \in Sessions :
          st'[t] = "Marking" => st[t] = "Marking" /\ byte'[t] = byte[t]
    /\ \A t \in Sessions :
          st'[t] \in Counting => st[t] \in Counting /\ zeroes'[t] = zeroes[t]
    /\ \A m \in net' : m \in net \/ (m.type # "login" /\ ~Announces(m))

LEMMA FrameStep ==
    ASSUME SequentialInv, Frame
    PROVE  OneConnection' /\ AnnouncedIsMarked' /\ LoadedIsStored' /\ ZeroesExact'
<1>. USE DEF SequentialInv
<1>1. OneConnection'
  BY DEF Frame, OneConnection
<1>2. AnnouncedIsMarked'
  <2>. SUFFICES ASSUME NEW s \in Sessions, NEW m \in net',
                       Live(s)', m.flow = flow'[s], Announces(m)
                PROVE  Chunks \subseteq bitmap'[inode'[s]]
    BY DEF AnnouncedIsMarked, Announces
  <2>1. m \in net /\ Live(s) /\ flow'[s] = flow[s] /\ inode'[s] = inode[s]
    BY DEF Frame
  <2>. QED
    BY <2>1 DEF Frame, AnnouncedIsMarked
<1>3. LoadedIsStored'
  BY DEF Frame, LoadedIsStored, Live
<1>4. ZeroesExact'
  BY DEF Frame, ZeroesExact, Live, Counting
<1>. QED
  BY <1>1, <1>2, <1>3, <1>4

\* The steps of a client leave the sessions and their bitmaps alone.
LEMMA ClientFrame ==
    ASSUME UNCHANGED <<sessionVars, diskVars>>,
           \A m \in net' : m \in net \/ (m.type # "login" /\ ~Announces(m))
    PROVE  Frame
BY DEF Frame, sessionVars, diskVars, Live

-----------------------------------------------------------------------------
(***************************************************************************)
(* The steps of a client.                                                  *)
(***************************************************************************)

\* A client announces the end only after its session has: a status without a
\* missing chunk is in flight when it sends FIN.
LEMMA SequentialClient ==
    ASSUME Sequential, TypeOK, SequentialInv, NEW f \in Flows, ClientStep(f)
    PROVE  OneConnection' /\ AnnouncedIsMarked' /\ LoadedIsStored' /\ ZeroesExact'
<1>1. CASE StartClient(f)
  <2>1. NoConnection
    BY <1>1 DEF StartClient, Sequential
  <2>2. /\ UNCHANGED <<sessionVars, diskVars>> /\ net' = net \cup {Login(f)}
        /\ \A s \in Sessions : ~Live(s)
        /\ \A m \in net : m.type # "login"
    BY <1>1, <2>1 DEF StartClient, NoConnection
  <2>3. OneConnection'
    BY <2>2 DEF OneConnection, Live, sessionVars
  <2>4. AnnouncedIsMarked' /\ LoadedIsStored' /\ ZeroesExact'
    BY <2>2 DEF AnnouncedIsMarked, LoadedIsStored, ZeroesExact, Live, sessionVars
  <2>. QED
    BY <2>3, <2>4
<1>2. CASE ChunkSent(f)
  <2>1. sending[f] # NumChunks
    BY <1>2, NumChunksAssumption DEF ChunkSent, TypeOK, ClientTypeOK, Chunks
  <2>2. \A m \in net' : m \in net \/ (m.type # "login" /\ ~Announces(m))
    BY <1>2, <2>1 DEF ChunkSent, Announces, Chunk
  <2>. QED
    BY <1>2, <2>2, ClientFrame, FrameStep DEF ChunkSent
<1>3. ASSUME NEW m \in net, StatusEmpty(f, m)
      PROVE  OneConnection' /\ AnnouncedIsMarked' /\ LoadedIsStored' /\ ZeroesExact'
  <2>1. /\ UNCHANGED <<sessionVars, diskVars>>
        /\ \A n \in net' : n \in net \/ n = Fin(f)
        /\ m.flow = f /\ Announces(m)
    BY <1>3 DEF StatusEmpty, Announces
  <2>2. Fin(f).type = "chunk" /\ Fin(f).flow = f
    BY DEF Fin, Chunk
  <2>3. OneConnection'
    BY <2>1, <2>2 DEF SequentialInv, OneConnection, Live, sessionVars
  <2>4. AnnouncedIsMarked'
    <3>. SUFFICES ASSUME NEW s \in Sessions, NEW n \in net',
                         Live(s)', n.flow = flow'[s], Announces(n)
                  PROVE  Chunks \subseteq bitmap'[inode'[s]]
      BY DEF AnnouncedIsMarked, Announces
    <3>1. Live(s) /\ flow'[s] = flow[s] /\ inode'[s] = inode[s] /\ bitmap' = bitmap
      BY <2>1 DEF Live, sessionVars, diskVars
    <3>2. \E k \in net : k.flow = flow[s] /\ Announces(k)
      BY <2>1, <2>2, <3>1
    <3>. QED
      BY <3>1, <3>2 DEF SequentialInv, AnnouncedIsMarked
  <2>5. LoadedIsStored' /\ ZeroesExact'
    BY <2>1 DEF SequentialInv, LoadedIsStored, ZeroesExact, sessionVars, diskVars
  <2>. QED
    BY <2>3, <2>4, <2>5
<1>4. ASSUME NEW m \in net, StatusWhileSending(f, m)
      PROVE  OneConnection' /\ AnnouncedIsMarked' /\ LoadedIsStored' /\ ZeroesExact'
  BY <1>4, DeliverLemma, ClientFrame, FrameStep DEF StatusWhileSending
<1>5. ASSUME NEW m \in net, StatusWhileSleeping(f, m)
      PROVE  OneConnection' /\ AnnouncedIsMarked' /\ LoadedIsStored' /\ ZeroesExact'
  BY <1>5, DeliverLemma, ClientFrame, FrameStep DEF StatusWhileSleeping
<1>6. CASE ClientCrash(f)
  BY <1>6, ClientFrame, FrameStep DEF ClientCrash
<1>. QED
  BY <1>1, <1>2, <1>3, <1>4, <1>5, <1>6 DEF ClientStep

\* Once heard of, a client stays so; a quiet client that speaks, or is spoken
\* to, has been heard of.
LEMMA ClientQuietAtFirst ==
    ASSUME Sequential, TypeOK, SequentialInv, NEW f \in Flows, ClientStep(f)
    PROVE  QuietAtFirst'
<1>. SUFFICES ASSUME NEW g \in Flows PROVE Quiet(g)' \/ Heard(g)'
  BY DEF QuietAtFirst
<1>. USE DEF ClientTypeOK
<1>1. st' = st /\ flow' = flow
  BY DEF ClientStep, StartClient, ChunkSent, StatusEmpty, StatusWhileSending,
     StatusWhileSleeping, ClientCrash, sessionVars
<1>2. CASE Heard(g)
  <2>1. phase'[g] # "idle"
    BY <1>2 DEF TypeOK, Heard, ClientStep, StartClient, ChunkSent, DoChunk, StatusEmpty,
       StatusWhileSending, StatusWhileSleeping, ClientCrash
  <2>2. Login(g) \notin net'
    <3>1. CASE StartClient(f)
      <4>1. f # g
        BY <1>2, <3>1 DEF StartClient, Heard
      <4>. QED
        BY <1>2, <3>1, <4>1 DEF StartClient, Heard, Login
    <3>2. CASE ChunkSent(f)
      BY <1>2, <3>2 DEF ChunkSent, Heard, Login, Chunk
    <3>3. ASSUME NEW m \in net, StatusEmpty(f, m) PROVE Login(g) \notin net'
      BY <1>2, <3>3 DEF StatusEmpty, Heard, Login, Fin, Chunk
    <3>4. ASSUME NEW m \in net, StatusWhileSending(f, m) \/ StatusWhileSleeping(f, m)
          PROVE  Login(g) \notin net'
      BY <1>2, <3>4, DeliverLemma DEF StatusWhileSending, StatusWhileSleeping, Heard
    <3>5. CASE ClientCrash(f)
      BY <1>2, <3>5 DEF ClientCrash, Heard
    <3>. QED
      BY <3>1, <3>2, <3>3, <3>4, <3>5 DEF ClientStep
  <2>. QED
    BY <1>1, <1>2, <2>1, <2>2 DEF Heard, Opening
<1>3. CASE Quiet(g)
  <2>1. CASE StartClient(f)
    BY <1>3, <2>1 DEF StartClient, Quiet, Login, TypeOK
  <2>2. CASE ChunkSent(f)
    <3>1. f # g
      BY <1>3, <2>2 DEF ChunkSent, Quiet
    <3>2. phase'[g] = phase[g] /\ net' = net \cup {Chunk(f, sending[f])}
      BY <2>2, <3>1 DEF ChunkSent, DoChunk, TypeOK
    <3>. QED
      BY <1>3, <3>1, <3>2 DEF Quiet, Chunk
  <2>3. ASSUME NEW m \in net,
               StatusEmpty(f, m) \/ StatusWhileSending(f, m) \/ StatusWhileSleeping(f, m)
        PROVE  Quiet(g)'
    <3>1. m.flow = f /\ m.type = "status"
      BY <2>3 DEF StatusEmpty, StatusWhileSending, StatusWhileSleeping
    <3>2. f # g
      BY <1>3, <3>1 DEF Quiet
    <3>3. phase'[g] = phase[g]
      BY <2>3, <3>2 DEF StatusEmpty, StatusWhileSending, StatusWhileSleeping, DoChunk, TypeOK
    <3>4. \A n \in net' : n \in net \/ n = Fin(f)
      BY <2>3, DeliverLemma DEF StatusEmpty, StatusWhileSending, StatusWhileSleeping
    <3>. QED
      BY <1>3, <3>2, <3>3, <3>4 DEF Quiet, Fin, Chunk
  <2>4. CASE ClientCrash(f)
    BY <1>3, <2>4 DEF ClientCrash, Quiet, TypeOK
  <2>. QED
    BY <2>1, <2>2, <2>3, <2>4 DEF ClientStep
<1>. QED
  BY <1>2, <1>3 DEF SequentialInv, QuietAtFirst

-----------------------------------------------------------------------------
(***************************************************************************)
(* The steps of the server.                                                *)
(***************************************************************************)

\* A step of the server that opens no session and sends nothing.
Still ==
    /\ phase' = phase
    /\ net' \subseteq net
    /\ \A t \in Sessions : Opening(t)' => Opening(t) /\ flow'[t] = flow[t]

LEMMA StillStep ==
    ASSUME QuietAtFirst, Still
    PROVE  QuietAtFirst'
BY DEF QuietAtFirst, Still, Quiet, Heard

\* A session that sends a status is past its set-up, and has its bitmap.
LEMMA SenderIsSetUp ==
    ASSUME TypeOK, NEW s \in Sessions, SendStatus(s)
    PROVE  Live(s) /\ ~Opening(s) /\ inode[s] \in Sessions /\ flow[s] \in Flows
<1>1. Live(s) /\ tx[s] > 0
  BY DEF SendStatus
<1>2. SessionStateOK(s) /\ st[s] \in SessionStates
  BY DEF TypeOK, SessionTypeOK
<1>. QED
  BY <1>1, <1>2 DEF SessionStateOK, Opening, Live, SessionStates

\* The steps of the receiver that neither write nor mark, and the end of a
\* session.
LEMMA ReceiverFrame ==
    ASSUME TypeOK, NEW s \in Sessions,
           \/ MapBitmapFails(s) \/ PeriodicStatus(s) \/ SessionError(s)
           \/ \E m \in net : \/ RecvChunk(s, m) \/ SkipChunk(s, m) \/ RecvFin(s, m)
                             \/ RecvOutOfBounds(s, m) \/ IgnoreInShutdown(s, m)
    PROVE  Frame /\ Still
<1>. USE DEF TypeOK, SessionTypeOK, Frame, Still, Live, Opening, Counting, clientVars,
             sessionVars, diskVars
<1>1. CASE MapBitmapFails(s)
  BY <1>1 DEF MapBitmapFails, Close
<1>2. CASE PeriodicStatus(s)
  BY <1>2 DEF PeriodicStatus
<1>3. CASE SessionError(s)
  BY <1>3 DEF SessionError, Close
<1>4. ASSUME NEW m \in net, RecvChunk(s, m)
      PROVE  Frame /\ Still
  BY <1>4, DeliverLemma DEF RecvChunk, Reads
<1>5. ASSUME NEW m \in net, SkipChunk(s, m)
      PROVE  Frame /\ Still
  BY <1>5, DeliverLemma DEF SkipChunk, Reads
<1>6. ASSUME NEW m \in net, RecvFin(s, m)
      PROVE  Frame /\ Still
  BY <1>6, DeliverLemma DEF RecvFin, Reads
<1>7. ASSUME NEW m \in net, RecvOutOfBounds(s, m)
      PROVE  Frame /\ Still
  BY <1>7, DeliverLemma DEF RecvOutOfBounds, Close
<1>8. ASSUME NEW m \in net, IgnoreInShutdown(s, m)
      PROVE  Frame /\ Still
  BY <1>8, DeliverLemma DEF IgnoreInShutdown
<1>. QED
  BY <1>1, <1>2, <1>3, <1>4, <1>5, <1>6, <1>7, <1>8

\* The server process as a whole, and the network.
LEMMA RestFrame ==
    ASSUME TypeOK,
           \/ ServerCrash
           \/ \E m \in net : LateChunk(m) \/ Lose(m)
           \/ UNCHANGED vars
    PROVE  Frame /\ Still
<1>. USE DEF TypeOK, SessionTypeOK, Frame, Still, Live, Opening, Counting, clientVars,
             sessionVars, diskVars
<1>1. CASE ServerCrash
  BY <1>1 DEF ServerCrash
<1>2. ASSUME NEW m \in net, LateChunk(m)
      PROVE  Frame /\ Still
  BY <1>2, DeliverLemma DEF LateChunk
<1>3. ASSUME NEW m \in net, Lose(m)
      PROVE  Frame /\ Still
  BY <1>3 DEF Lose
<1>4. CASE UNCHANGED vars
  BY <1>4 DEF vars
<1>. QED
  BY <1>1, <1>2, <1>3, <1>4

\* The Login that starts a session is the only one, and is used up.
LEMMA SequentialLogin ==
    ASSUME Sequential, TypeOK, SequentialInv, NEW s \in Sessions, NEW m \in net,
           RecvLogin(s, m)
    PROVE  SequentialInv'
<1>1. /\ m.type = "login" /\ m.flow \in Flows /\ m = Login(m.flow)
      /\ \A n \in net : n.type = "login" => n = m
  BY DEF RecvLogin, TypeOK, Messages, LoginMsg, ChunkMsg, StatusMsg, Login,
     SequentialInv, OneConnection
<1>2. net' = net \ {m}
  BY <1>1 DEF RecvLogin, Deliver, Sequential
<1>3. /\ \A t \in Sessions : ~Live(t)
      /\ \A t \in Sessions : Live(t)' <=> t = s
      /\ flow'[s] = m.flow /\ st'[s] = "checked"
      /\ \A t \in Sessions : t # s => st'[t] = st[t]
      /\ UNCHANGED <<phase, bitmap>>
  BY <1>1 DEF SequentialInv, OneConnection, RecvLogin, TypeOK, SessionTypeOK, Live,
     clientVars, diskVars
<1>4. Quiet(m.flow) /\ ~Heard(m.flow)
  BY <1>1 DEF SequentialInv, QuietAtFirst, Heard
<1>5. OneConnection'
  BY <1>1, <1>2, <1>3 DEF OneConnection
<1>6. QuietAtFirst'
  <2>. SUFFICES ASSUME NEW g \in Flows PROVE Quiet(g)' \/ Heard(g)'
    BY DEF QuietAtFirst
  <2>1. Quiet(g) => Quiet(g)'
    BY <1>2, <1>3 DEF Quiet
  <2>2. CASE Heard(g)
    <3>1. g # m.flow
      BY <1>4, <2>2
    <3>2. \A t \in Sessions : Opening(t)' => t = s
      BY <1>3 DEF Opening, Live
    <3>. QED
      BY <1>2, <1>3, <2>2, <3>1, <3>2 DEF Heard
  <2>. QED
    BY <2>1, <2>2 DEF SequentialInv, QuietAtFirst
<1>7. AnnouncedIsMarked'
  <2>. SUFFICES ASSUME NEW t \in Sessions, NEW n \in net',
                       Live(t)', n.flow = flow'[t], Announces(n)
                PROVE  FALSE
    BY DEF AnnouncedIsMarked, Announces
  <2>1. n \in net /\ n.flow = m.flow
    BY <1>2, <1>3
  <2>. QED
    BY <1>4, <2>1 DEF Quiet, Announces
<1>8. LoadedIsStored' /\ ZeroesExact'
  BY <1>3 DEF LoadedIsStored, ZeroesExact, Live
<1>. QED
  BY <1>5, <1>6, <1>7, <1>8 DEF SequentialInv

\* Opening and mapping the bitmap: the client has not been told anything yet.
LEMMA SequentialSetUp ==
    ASSUME TypeOK, SequentialInv, NEW s \in Sessions, CreateBitmap(s) \/ MapBitmap(s)
    PROVE  SequentialInv'
<1>. USE DEF TypeOK, SessionTypeOK
<1>1. /\ Opening(s) /\ flow[s] \in Flows
      /\ UNCHANGED <<phase, net, bitmap, flow, byte>>
      /\ \A t \in Sessions : t # s =>
            st'[t] = st[t] /\ inode'[t] = inode[t] /\ zeroes'[t] = zeroes[t]
      /\ st'[s] \in {"created", "WaitForChunk"}
      /\ st'[s] = "WaitForChunk" =>
            inode'[s] = inode[s] /\ zeroes'[s] = Cardinality(Chunks \ bitmap[inode[s]])
  BY DEF CreateBitmap, MapBitmap, Opening, SessionStateOK, Live, clientVars
<1>2. \A t \in Sessions : Live(t)' <=> Live(t)
  BY <1>1 DEF Live, Opening
<1>3. \A t \in Sessions : Opening(t)' => Opening(t)
  BY <1>1 DEF Opening
<1>4. Quiet(flow[s])
  BY <1>1 DEF SequentialInv, QuietAtFirst, Heard
<1>5. OneConnection'
  BY <1>1, <1>2 DEF SequentialInv, OneConnection
<1>6. QuietAtFirst'
  BY <1>1, <1>3 DEF SequentialInv, QuietAtFirst, Quiet, Heard
<1>7. AnnouncedIsMarked'
  <2>. SUFFICES ASSUME NEW t \in Sessions, NEW n \in net',
                       Live(t)', n.flow = flow'[t], Announces(n)
                PROVE  FALSE
    BY DEF AnnouncedIsMarked, Announces
  <2>1. n \in net /\ n.flow = flow[t] /\ Live(t)
    BY <1>1, <1>2
  <2>2. t = s
    BY <1>1, <2>1 DEF SequentialInv, OneConnection, Live, Opening
  <2>. QED
    BY <1>4, <2>1, <2>2 DEF Quiet, Announces
<1>8. LoadedIsStored'
  BY <1>1 DEF SequentialInv, LoadedIsStored
<1>9. ZeroesExact'
  BY <1>1 DEF SequentialInv, ZeroesExact
<1>. QED
  BY <1>5, <1>6, <1>7, <1>8, <1>9 DEF SequentialInv

\* BitMap::set loads the byte as it is on disk.
LEMMA SequentialWrite ==
    ASSUME TypeOK, SequentialInv, NEW s \in Sessions, WriteChunk(s)
    PROVE  SequentialInv'
<1>. USE DEF TypeOK, SessionTypeOK
<1>1. /\ st[s] = "WritingChunk" /\ st'[s] = "Marking" /\ byte'[s] = bitmap[inode[s]]
      /\ \A t \in Sessions : t # s => st'[t] = st[t] /\ byte'[t] = byte[t]
      /\ UNCHANGED <<phase, net, bitmap, flow, inode, zeroes>>
  BY DEF WriteChunk, clientVars
<1>2. Still
  BY <1>1 DEF Still, Opening
<1>3. OneConnection'
  BY <1>1 DEF SequentialInv, OneConnection, Live
<1>4. AnnouncedIsMarked'
  <2>1. \A t \in Sessions : Live(t)' => Live(t)
    BY <1>1 DEF Live
  <2>. QED
    BY <1>1, <2>1 DEF SequentialInv, AnnouncedIsMarked, Announces
<1>5. LoadedIsStored'
  BY <1>1 DEF SequentialInv, LoadedIsStored
<1>6. ZeroesExact'
  BY <1>1 DEF SequentialInv, ZeroesExact
<1>. QED
  BY <1>2, <1>3, <1>4, <1>5, <1>6, StillStep DEF SequentialInv

\* One more bit set, one zero less.
LEMMA OneZeroLess ==
    ASSUME NEW B \in SUBSET Chunks, NEW i \in Chunks \ B
    PROVE  Cardinality(Chunks \ (B \cup {i})) = Cardinality(Chunks \ B) - 1
<1>1. IsFiniteSet(Chunks)
  BY FS_Interval, NumChunksAssumption DEF Chunks
<1>2. IsFiniteSet(Chunks \ B)
  BY <1>1, FS_Subset
<1>3. Cardinality((Chunks \ B) \ {i}) = Cardinality(Chunks \ B) - 1
  BY <1>2, FS_RemoveElement
<1>4. (Chunks \ B) \ {i} = Chunks \ (B \cup {i})
  OBVIOUS
<1>. QED
  BY <1>3, <1>4

\* With nobody else writing to the bitmap, set adds the bit of its chunk and
\* nothing else happens to the byte; the count follows, and does not go below
\* zero.
LEMMA SoleStore ==
    ASSUME TypeOK, SequentialInv, NEW s \in Sessions, st[s] = "Marking"
    PROVE  /\ inode[s] \in Sessions
           /\ StoredBits(s) = bitmap[inode[s]] \cup {chunk[s].index}
           /\ ZeroesAfter(s) = Cardinality(Chunks \ StoredBits(s))
           /\ ZeroesAfter(s) \in Nat
<1>1. inode[s] \in Sessions /\ chunk[s].index \in Chunks
  BY DEF TypeOK, SessionStateOK, Live
<1>2. byte[s] = bitmap[inode[s]] /\ zeroes[s] = Cardinality(Chunks \ bitmap[inode[s]])
  BY DEF SequentialInv, LoadedIsStored, ZeroesExact
<1>3. bitmap[inode[s]] \in SUBSET Chunks
  BY <1>1 DEF TypeOK, DiskTypeOK
<1>4. StoredBits(s) = bitmap[inode[s]] \cup {chunk[s].index}
  BY <1>1, <1>2 DEF StoredBits
<1>5. ZeroesAfter(s) = Cardinality(Chunks \ StoredBits(s))
  <2>1. CASE chunk[s].index \in bitmap[inode[s]]
    <3>1. StoredBits(s) = bitmap[inode[s]]
      BY <1>4, <2>1
    <3>. QED
      BY <1>2, <2>1, <3>1 DEF ZeroesAfter
  <2>2. CASE chunk[s].index \notin bitmap[inode[s]]
    <3>1. Cardinality(Chunks \ StoredBits(s)) = zeroes[s] - 1
      BY <1>1, <1>2, <1>3, <1>4, <2>2, OneZeroLess
    <3>. QED
      BY <1>2, <2>2, <3>1 DEF ZeroesAfter
  <2>. QED
    BY <2>1, <2>2
<1>. QED
  BY <1>1, <1>4, <1>5, MissingCount

\* The subtraction in BitMap::set does not overflow.
LEMMA NoUnderflow ==
    ASSUME TypeOK, SequentialInv, NEW s \in Sessions
    PROVE  ~MarkChunkUnderflow(s)
<1>. SUFFICES ASSUME st[s] = "Marking", ZeroesAfter(s) < 0 PROVE FALSE
  BY DEF MarkChunkUnderflow
<1>1. ZeroesAfter(s) \in Nat
  BY SoleStore
<1>. QED
  BY <1>1

LEMMA SequentialMark ==
    ASSUME TypeOK, SequentialInv, NEW s \in Sessions, MarkChunk(s)
    PROVE  SequentialInv'
<1>. USE DEF TypeOK, SessionTypeOK
<1>1. /\ st[s] = "Marking" /\ st'[s] = "WaitForChunk" /\ zeroes'[s] = ZeroesAfter(s)
      /\ \A t \in Sessions : t # s => st'[t] = st[t]
      /\ bitmap' = [bitmap EXCEPT ![inode[s]] = StoredBits(s)]
      /\ UNCHANGED <<phase, net, flow, inode>>
  BY DEF MarkChunk, clientVars
<1>2. /\ inode[s] \in Sessions
      /\ StoredBits(s) = bitmap[inode[s]] \cup {chunk[s].index}
      /\ ZeroesAfter(s) = Cardinality(Chunks \ StoredBits(s))
  BY <1>1, SoleStore
<1>3. bitmap'[inode[s]] = StoredBits(s) /\ \A t \in Sessions : bitmap[t] \subseteq bitmap'[t]
  BY <1>1, <1>2 DEF DiskTypeOK
<1>4. \A t \in Sessions : Live(t) <=> t = s
  BY <1>1 DEF SequentialInv, OneConnection, Live
<1>5. \A t \in Sessions : Live(t)' <=> t = s
  BY <1>1, <1>4 DEF Live
<1>6. Still
  BY <1>1 DEF Still, Opening
<1>7. OneConnection'
  BY <1>1, <1>4, <1>5 DEF SequentialInv, OneConnection
<1>8. AnnouncedIsMarked'
  BY <1>1, <1>2, <1>3, <1>4, <1>5 DEF SequentialInv, AnnouncedIsMarked, Announces
<1>9. LoadedIsStored'
  BY <1>1, <1>5 DEF LoadedIsStored, Live
<1>10. ZeroesExact'
  BY <1>1, <1>2, <1>3, <1>5 DEF ZeroesExact, Live
<1>. QED
  BY <1>6, <1>7, <1>8, <1>9, <1>10, StillStep DEF SequentialInv

\* A status without a missing chunk is sent only by a session whose bitmap is
\* full, and to the client of that session.
LEMMA SequentialSend ==
    ASSUME TypeOK, SequentialInv, NEW s \in Sessions, SendStatus(s)
    PROVE  SequentialInv'
<1>. USE DEF TypeOK, SessionTypeOK
<1> DEFINE m == Status(flow[s], Reported(Chunks \ bitmap[inode[s]]))
<1>1. Live(s) /\ ~Opening(s) /\ inode[s] \in Sessions /\ flow[s] \in Flows
  BY SenderIsSetUp
<1>2. /\ UNCHANGED <<phase, st, flow, inode, zeroes, byte, bitmap>>
      /\ net' = net \/ (Running(flow[s]) /\ net' = net \cup {m})
  BY DEF SendStatus, clientVars, diskVars
<1>3. m.type = "status" /\ m.flow = flow[s]
  BY DEF Status
<1>4. Announces(m) => Chunks \subseteq bitmap[inode[s]]
  <2>. SUFFICES ASSUME Announces(m) PROVE Chunks \subseteq bitmap[inode[s]]
    OBVIOUS
  <2>1. Reported(Chunks \ bitmap[inode[s]]) = {}
    BY DEF Announces, Status
  <2>. QED
    BY <2>1, ReportedLemma
<1>5. OneConnection'
  BY <1>2, <1>3 DEF SequentialInv, OneConnection, Live
<1>6. QuietAtFirst'
  <2>. SUFFICES ASSUME NEW g \in Flows PROVE Quiet(g)' \/ Heard(g)'
    BY DEF QuietAtFirst
  <2>1. Heard(g) => Heard(g)'
    BY <1>2, <1>3 DEF Heard, Opening, Login
  <2>2. CASE g # flow[s] \/ net' = net
    <3>1. Quiet(g) => Quiet(g)'
      BY <1>2, <1>3, <2>2 DEF Quiet
    <3>. QED
      BY <2>1, <3>1 DEF SequentialInv, QuietAtFirst
  <2>3. CASE g = flow[s] /\ Running(g)
    <3>1. phase[g] # "idle"
      BY <2>3 DEF Running
    <3>2. Login(g) \notin net
      BY <1>1 DEF SequentialInv, OneConnection, Login
    <3>3. \A t \in Sessions : Opening(t) => flow[t] # g
      BY <1>1 DEF SequentialInv, OneConnection, Opening, Live
    <3>. QED
      BY <2>1, <3>1, <3>2, <3>3 DEF Heard
  <2>. QED
    BY <1>2, <2>2, <2>3
<1>7. AnnouncedIsMarked'
  <2>. SUFFICES ASSUME NEW t \in Sessions, NEW n \in net',
                       Live(t)', n.flow = flow'[t], Announces(n)
                PROVE  Chunks \subseteq bitmap'[inode'[t]]
    BY DEF AnnouncedIsMarked, Announces
  <2>1. Live(t) /\ n.flow = flow[t]
    BY <1>2 DEF Live
  <2>2. t = s
    BY <1>1, <2>1 DEF SequentialInv, OneConnection
  <2>3. CASE n \in net
    BY <1>2, <2>1, <2>3 DEF SequentialInv, AnnouncedIsMarked
  <2>4. CASE n = m
    BY <1>2, <1>4, <2>2, <2>4
  <2>. QED
    BY <1>2, <2>3, <2>4
<1>8. LoadedIsStored' /\ ZeroesExact'
  BY <1>2 DEF SequentialInv, LoadedIsStored, ZeroesExact
<1>. QED
  BY <1>5, <1>6, <1>7, <1>8 DEF SequentialInv

LEMMA SequentialStep ==
    ASSUME Sequential, TypeOK, SequentialInv, [Next]_vars
    PROVE  SequentialInv'
<1>1. ASSUME NEW f \in Flows, ClientStep(f)
      PROVE  SequentialInv'
  BY <1>1, SequentialClient, ClientQuietAtFirst DEF SequentialInv
<1>2. ASSUME Frame, Still
      PROVE  SequentialInv'
  BY <1>2, FrameStep, StillStep DEF SequentialInv
<1>3. ASSUME NEW s \in Sessions, SessionStep(s)
      PROVE  SequentialInv'
  <2>1. ASSUME NEW m \in net, RecvLogin(s, m)
        PROVE  SequentialInv'
    BY <2>1, SequentialLogin
  <2>2. CASE CreateBitmap(s) \/ MapBitmap(s)
    BY <2>2, SequentialSetUp
  <2>3. CASE WriteChunk(s)
    BY <2>3, SequentialWrite
  <2>4. CASE MarkChunk(s)
    BY <2>4, SequentialMark
  <2>5. CASE SendStatus(s)
    BY <2>5, SequentialSend
  <2>6. CASE \/ MapBitmapFails(s) \/ PeriodicStatus(s) \/ SessionError(s)
             \/ \E m \in net : \/ RecvChunk(s, m) \/ SkipChunk(s, m) \/ RecvFin(s, m)
                               \/ RecvOutOfBounds(s, m) \/ IgnoreInShutdown(s, m)
    BY <1>2, <2>6, ReceiverFrame
  <2>. QED
    BY <1>3, <2>1, <2>2, <2>3, <2>4, <2>5, <2>6, NoUnderflow DEF SessionStep
<1>4. CASE \/ ServerCrash
           \/ \E m \in net : LateChunk(m) \/ Lose(m)
           \/ UNCHANGED vars
  BY <1>2, <1>4, RestFrame
<1>. QED
  BY <1>1, <1>3, <1>4 DEF Next

\* The inductive invariant of sequential use.
LEMMA SequentialInvariant ==
    ASSUME Sequential
    PROVE  Spec => []SequentialInv
<1>1. Init => SequentialInv
  BY SequentialInit
<1>2. TypeOK /\ SequentialInv /\ [Next]_vars => SequentialInv'
  BY SequentialStep
<1>. QED
  BY <1>1, <1>2, TypeCorrect, PTL DEF Spec

\* As long as clients run one after the other, the count of missing chunks that
\* a session keeps in memory is that of the bitmap on disk, across timeouts,
\* crashes, lost datagrams and duplicated chunks.
THEOREM ZeroesExactSequential ==
    ASSUME Sequential
    PROVE  Spec => []ZeroesExact
<1>1. SequentialInv => ZeroesExact
  BY DEF SequentialInv
<1>. QED
  BY <1>1, SequentialInvariant, PTL

\* As long as clients run one after the other, FIN finds a full bitmap: the
\* case that Receiver::poll logs with "???" does not happen.
THEOREM FinFindsBitmapFullSequential ==
    ASSUME Sequential
    PROVE  Spec => FinFindsBitmapFull
<1>1. ASSUME TypeOK, SequentialInv, [Next]_vars
      PROVE  [\A s \in Sessions :
                st[s] = "WaitForChunk" /\ st'[s] = "Shutdown" => zeroes[s] = 0]_vars
  <2>. SUFFICES ASSUME NEW s \in Sessions, st[s] = "WaitForChunk", st'[s] = "Shutdown"
                PROVE  zeroes[s] = 0
    OBVIOUS
  <2>. USE DEF TypeOK, SessionTypeOK
  <2>1. PICK m \in net : RecvFin(s, m)
    <3>1. ASSUME NEW f \in Flows, ClientStep(f)
          PROVE  st' = st
      BY <3>1 DEF ClientStep, StartClient, ChunkSent, StatusEmpty, StatusWhileSending,
         StatusWhileSleeping, ClientCrash, sessionVars
    <3>2. ASSUME NEW t \in Sessions, SessionStep(t), \A m \in net : ~RecvFin(t, m)
          PROVE  st'[s] # "Shutdown"
      <4>1. ASSUME \/ st' = st
                   \/ \E q \in SessionStates \ {"Shutdown"} : st' = [st EXCEPT ![t] = q]
            PROVE  st'[s] # "Shutdown"
        BY <1>1, <4>1
      <4>2. CASE \/ CreateBitmap(t) \/ MapBitmap(t) \/ MapBitmapFails(t)
                 \/ \E m \in net : RecvLogin(t, m)
        BY <4>1, <4>2 DEF CreateBitmap, MapBitmap, MapBitmapFails, RecvLogin, Close,
           SessionStates
      <4>3. CASE WriteChunk(t) \/ MarkChunk(t) \/ MarkChunkUnderflow(t)
        BY <4>1, <4>3 DEF WriteChunk, MarkChunk, MarkChunkUnderflow, Close, SessionStates
      <4>4. CASE PeriodicStatus(t) \/ SendStatus(t) \/ SessionError(t)
        BY <4>1, <4>4 DEF PeriodicStatus, SendStatus, SessionError, Close, SessionStates
      <4>5. CASE \E m \in net : RecvChunk(t, m) \/ SkipChunk(t, m)
        BY <4>1, <4>5 DEF RecvChunk, SkipChunk, SessionStates
      <4>6. CASE \E m \in net : RecvOutOfBounds(t, m) \/ IgnoreInShutdown(t, m)
        BY <4>1, <4>6 DEF RecvOutOfBounds, IgnoreInShutdown, Close, SessionStates,
           sessionVars
      <4>. QED
        BY <3>2, <4>2, <4>3, <4>4, <4>5, <4>6 DEF SessionStep
    <3>3. ASSUME NEW t \in Sessions, NEW m \in net, RecvFin(t, m)
          PROVE  t = s
      BY <3>3 DEF RecvFin
    <3>4. CASE \/ ServerCrash
               \/ \E m \in net : LateChunk(m) \/ Lose(m)
               \/ UNCHANGED vars
      BY <3>4 DEF ServerCrash, LateChunk, Lose, vars, sessionVars
    <3>. QED
      BY <1>1, <3>1, <3>2, <3>3, <3>4 DEF Next
  <2>2. Live(s) /\ m.flow = flow[s] /\ m.type \in {"login", "chunk"}
    BY <2>1 DEF RecvFin, Reads, Live
  <2>3. m.type = "chunk"
    BY <1>1, <2>2 DEF SequentialInv, OneConnection
  <2>4. Announces(m)
    BY <2>1, <2>3 DEF RecvFin, Index, Announces
  <2>5. Chunks \ bitmap[inode[s]] = {}
    BY <1>1, <2>2, <2>4 DEF SequentialInv, AnnouncedIsMarked
  <2>6. Cardinality(Chunks \ bitmap[inode[s]]) = 0
    BY <2>5, FS_EmptySet
  <2>. QED
    BY <1>1, <2>6 DEF SequentialInv, ZeroesExact
<1>2. TypeOK /\ SequentialInv /\ [Next]_vars =>
        [\A s \in Sessions :
           st[s] = "WaitForChunk" /\ st'[s] = "Shutdown" => zeroes[s] = 0]_vars
  BY <1>1
<1>. QED
  BY <1>2, SequentialInvariant, TypeCorrect, PTL DEF Spec, FinFindsBitmapFull

-----------------------------------------------------------------------------
(***************************************************************************)
(* The set-up of a session, which panics in the listener when the bitmap   *)
(* cannot be mapped.  SetUpAgrees says when that may happen; in orderly    *)
(* use it does not happen at all.                                          *)
(***************************************************************************)

\* Clients run one after the other, the server does not crash, and the file is
\* not empty.
Orderly == Sequential /\ "serverCrash" \notin Faults /\ NumChunks > 0

\* While no session is being set up, the bitmap on disk has its length.  What
\* upload_request has read of it stays true until it is used.
SetUpInv ==
    /\ (\A s \in Sessions : ~Opening(s)) => path \in sized \cup {None}
    /\ \A s \in Sessions : st[s] = "checked" =>
          path \in sized \cup {None} /\ (append[s] <=> path # None)
    /\ \A s \in Sessions : st[s] = "created" =>
          path = inode[s] /\ (append[s] => inode[s] \in sized)

\* Whatever session is being set up, its bitmap can be mapped.
SetUpSucceeds == \A s \in Sessions : st[s] = "created" => Mappable(s)

LEMMA SetUpMappable ==
    ASSUME Orderly, SetUpInv
    PROVE  SetUpSucceeds
BY DEF Orderly, SetUpInv, SetUpSucceeds, Mappable, SizedAfter

LEMMA SetUpInit == Init => SetUpInv
BY DEF Init, SetUpInv, Opening

\* The steps that set up a session.
LEMMA SetUpOpening ==
    ASSUME Orderly, TypeOK, SequentialInv, SetUpInv, NEW s \in Sessions,
           \/ \E m \in net : RecvLogin(s, m)
           \/ CreateBitmap(s) \/ MapBitmap(s)
    PROVE  SetUpInv'
<1>. USE NoneAssumption DEF TypeOK, SessionTypeOK
<1>1. CASE \E m \in net : RecvLogin(s, m)
  <2>1. \A t \in Sessions : ~Live(t)
    BY <1>1 DEF RecvLogin, SequentialInv, OneConnection
  <2>2. path \in sized \cup {None}
    BY <2>1 DEF SetUpInv, Opening, Live
  <2>3. /\ st' = [st EXCEPT ![s] = "checked"] /\ append' = [append EXCEPT ![s] = path # None]
        /\ UNCHANGED <<path, sized>>
    BY <1>1 DEF RecvLogin, diskVars
  <2>4. st'[s] = "checked" /\ (append'[s] <=> path # None)
    BY <2>3
  <2>5. \A t \in Sessions : t # s => ~Opening(t)'
    BY <2>1, <2>3 DEF Live, Opening
  <2>. QED
    BY <2>2, <2>3, <2>4, <2>5 DEF SetUpInv, Opening
<1>2. \A t \in Sessions : t # s /\ Opening(s) => ~Opening(t)
  BY DEF SequentialInv, OneConnection, Opening, Live
<1>3. CASE CreateBitmap(s)
  <2>1. /\ st[s] = "checked" /\ st'[s] = "created" /\ path' = inode'[s]
        /\ path' = IF path = None THEN s ELSE path
        /\ \A t \in Sessions : t # s => st'[t] = st[t]
        /\ UNCHANGED <<append, sized>>
    BY <1>3 DEF CreateBitmap
  <2>2. \A t \in Sessions : t # s => ~Opening(t)'
    BY <1>2, <2>1 DEF Opening
  <2>3. append[s] => path' \in sized
    BY <2>1 DEF SetUpInv
  <2>. QED
    BY <2>1, <2>2, <2>3 DEF SetUpInv, Opening
<1>4. CASE MapBitmap(s)
  <2>1. /\ st[s] = "created" /\ st'[s] = "WaitForChunk" /\ path' = path
        /\ sized' = SizedAfter(s) /\ inode[s] \in SizedAfter(s)
        /\ \A t \in Sessions : t # s => st'[t] = st[t]
    BY <1>4 DEF MapBitmap, Mappable
  <2>2. \A t \in Sessions : ~Opening(t)'
    BY <1>2, <2>1 DEF Opening
  <2>3. path = inode[s]
    BY <2>1 DEF SetUpInv
  <2>. QED
    BY <2>1, <2>2, <2>3 DEF SetUpInv, Opening
<1>. QED
  BY <1>1, <1>3, <1>4

\* The steps of a session that is set up: no other one is on its way.
LEMMA SetUpRunning ==
    ASSUME TypeOK, SequentialInv, SetUpInv, NEW s \in Sessions,
           \/ WriteChunk(s) \/ MarkChunk(s) \/ PeriodicStatus(s) \/ SendStatus(s)
           \/ SessionError(s)
           \/ \E m \in net : \/ RecvChunk(s, m) \/ SkipChunk(s, m) \/ RecvFin(s, m)
                             \/ RecvOutOfBounds(s, m) \/ IgnoreInShutdown(s, m)
    PROVE  SetUpInv'
<1>1. Live(s) /\ ~Opening(s)
  <2>1. CASE SendStatus(s)
    BY <2>1, SenderIsSetUp
  <2>2. CASE ~SendStatus(s)
    BY <2>2 DEF WriteChunk, MarkChunk, PeriodicStatus, SessionError, RecvChunk, SkipChunk,
       RecvFin, RecvOutOfBounds, IgnoreInShutdown, Reads, Live, Opening
  <2>. QED
    BY <2>1, <2>2
<1>2. \A t \in Sessions : ~Opening(t)
  BY <1>1 DEF SequentialInv, OneConnection, Opening, Live
<1>3. sized' = sized /\ path' \in {path, None}
  BY DEF WriteChunk, MarkChunk, PeriodicStatus, SendStatus, SessionError, RecvChunk,
     SkipChunk, RecvFin, RecvOutOfBounds, IgnoreInShutdown, diskVars
<1>4. \A t \in Sessions : ~Opening(t)'
  <2>1. CASE WriteChunk(s) \/ MarkChunk(s) \/ SendStatus(s)
    BY <1>2, <2>1 DEF WriteChunk, MarkChunk, SendStatus, Opening, TypeOK, SessionTypeOK
  <2>2. CASE ~(WriteChunk(s) \/ MarkChunk(s) \/ SendStatus(s))
    BY <1>2, <2>2, ReceiverFrame DEF Still
  <2>. QED
    BY <2>1, <2>2
<1>5. path \in sized \cup {None}
  BY <1>2 DEF SetUpInv
<1>. QED
  BY <1>3, <1>4, <1>5 DEF SetUpInv, Opening

LEMMA SetUpStep ==
    ASSUME Orderly, TypeOK, SequentialInv, SetUpInv, [Next]_vars
    PROVE  SetUpInv'
<1>1. ASSUME UNCHANGED <<sessionVars, diskVars>>
      PROVE  SetUpInv'
  BY <1>1 DEF SetUpInv, Opening, sessionVars, diskVars
<1>2. ASSUME NEW f \in Flows, ClientStep(f)
      PROVE  SetUpInv'
  BY <1>1, <1>2 DEF ClientStep, StartClient, ChunkSent, StatusEmpty, StatusWhileSending,
     StatusWhileSleeping, ClientCrash
<1>3. ASSUME NEW s \in Sessions, SessionStep(s)
      PROVE  SetUpInv'
  <2>1. ~MapBitmapFails(s) /\ ~MarkChunkUnderflow(s)
    BY SetUpMappable, NoUnderflow DEF SetUpSucceeds, MapBitmapFails
  <2>. QED
    BY <1>3, <2>1, SetUpOpening, SetUpRunning DEF SessionStep
<1>4. CASE ServerCrash
  BY <1>4 DEF ServerCrash, Orderly
<1>5. CASE UNCHANGED vars \/ \E m \in net : LateChunk(m) \/ Lose(m)
  BY <1>1, <1>5 DEF vars, LateChunk, Lose
<1>. QED
  BY <1>2, <1>3, <1>4, <1>5 DEF Next

LEMMA SetUpInvariant ==
    ASSUME Orderly
    PROVE  Spec => []SetUpInv
<1>1. Init => SetUpInv
  BY SetUpInit
<1>2. TypeOK /\ SequentialInv /\ SetUpInv /\ [Next]_vars => SetUpInv'
  BY SetUpStep
<1>3. Spec => []SequentialInv
  BY SequentialInvariant DEF Orderly
<1>. QED
  BY <1>1, <1>2, <1>3, TypeCorrect, PTL DEF Spec

\* In orderly use the set-up of a session never panics: between exists() and
\* map_mut nobody removes the bitmap or leaves one without a length.
THEOREM SetUpSucceedsOrderly ==
    ASSUME Orderly
    PROVE  Spec => []SetUpSucceeds
<1>1. SetUpInv => SetUpSucceeds
  BY SetUpMappable
<1>. QED
  BY <1>1, SetUpInvariant, PTL

-----------------------------------------------------------------------------
(***************************************************************************)
(* Where the data goes.  A session that finds a bitmap opens the file for  *)
(* appending, and its chunks land behind the end; a session that finds     *)
(* none writes each chunk at its own position.                             *)
(***************************************************************************)

\* No session resumes an upload.
FirstUpload == \A s \in Sessions : ~append[s]

\* Nothing is appended, and nothing but the client's data is written.
InPlaceInv ==
    /\ appended = {} /\ tail = {}
    /\ \A i \in Chunks : file[i] # "junk"
    /\ \A s \in Sessions : chunk[s].data = "data"

LEMMA InPlaceInit == Init => InPlaceInv
BY DEF Init, InPlaceInv

\* The steps that do not write keep what is on disk, and take no Login for a
\* chunk.
LEMMA InPlaceStep ==
    ASSUME LoginIndex \notin Chunks, TypeOK, FirstUpload, InPlaceInv, [Next]_vars
    PROVE  InPlaceInv'
<1>. USE DEF TypeOK, SessionTypeOK, InPlaceInv
<1>1. ASSUME UNCHANGED <<file, appended>>, tail' \subseteq tail,
             \A t \in Sessions : chunk'[t] = chunk[t] \/ chunk'[t].data = "data"
      PROVE  InPlaceInv'
  BY <1>1
<1>2. ASSUME NEW f \in Flows, ClientStep(f)
      PROVE  InPlaceInv'
  BY <1>2 DEF ClientStep, StartClient, ChunkSent, StatusEmpty, StatusWhileSending,
     StatusWhileSleeping, ClientCrash, sessionVars, diskVars
<1>3. ASSUME NEW s \in Sessions, SessionStep(s)
      PROVE  InPlaceInv'
  <2>1. CASE \/ CreateBitmap(s) \/ MapBitmap(s) \/ MapBitmapFails(s)
             \/ \E m \in net : RecvLogin(s, m)
    BY <1>1, <2>1 DEF CreateBitmap, MapBitmap, MapBitmapFails, RecvLogin, Close, diskVars
  <2>2. CASE WriteChunk(s)
    <3>1. chunk[s].index \in Chunks /\ ~append[s] /\ chunk[s].data = "data"
      BY <2>2 DEF WriteChunk, SessionStateOK, FirstUpload
    <3>. QED
      BY <2>2, <3>1 DEF WriteChunk, DiskTypeOK
  <2>3. CASE MarkChunk(s) \/ MarkChunkUnderflow(s)
    BY <1>1, <2>3 DEF MarkChunk, MarkChunkUnderflow, Close
  <2>4. CASE PeriodicStatus(s) \/ SendStatus(s) \/ SessionError(s)
    BY <1>1, <2>4 DEF PeriodicStatus, SendStatus, SessionError, Close, diskVars
  <2>5. ASSUME NEW m \in net, RecvChunk(s, m)
        PROVE  InPlaceInv'
    <3>1. Index(m) \in Chunks
      BY <2>5 DEF RecvChunk
    <3>2. Payload(m) = "data"
      BY <3>1 DEF Index, Payload
    <3>. QED
      BY <1>1, <2>5, <3>2 DEF RecvChunk, diskVars
  <2>6. CASE \E m \in net : \/ SkipChunk(s, m) \/ RecvFin(s, m)
                            \/ RecvOutOfBounds(s, m) \/ IgnoreInShutdown(s, m)
    BY <1>1, <2>6 DEF SkipChunk, RecvFin, RecvOutOfBounds, IgnoreInShutdown, Close,
       sessionVars, diskVars
  <2>. QED
    BY <1>3, <2>1, <2>2, <2>3, <2>4, <2>5, <2>6 DEF SessionStep
<1>4. CASE \/ ServerCrash
           \/ \E m \in net : LateChunk(m) \/ Lose(m)
           \/ UNCHANGED vars
  BY <1>1, <1>4 DEF ServerCrash, LateChunk, Lose, vars, sessionVars, diskVars
<1>. QED
  BY <1>2, <1>3, <1>4 DEF Next

LEMMA InPlaceInvariant ==
    ASSUME LoginIndex \notin Chunks
    PROVE  Spec /\ []FirstUpload => []InPlaceInv
<1>1. Init => InPlaceInv
  BY InPlaceInit
<1>2. TypeOK /\ FirstUpload /\ InPlaceInv /\ [Next]_vars => InPlaceInv'
  BY InPlaceStep
<1>. QED
  BY <1>1, <1>2, TypeCorrect, PTL DEF Spec

\* Unless a Login reads as a chunk: as long as no session resumes an upload, a
\* chunk that is marked as received is at its own position in the file,
\* whatever crashes, is lost, is delivered twice or runs at the same time.
THEOREM ReceivedInPlaceUnlessResumed ==
    ASSUME LoginIndex \notin Chunks
    PROVE  Spec /\ []FirstUpload => []ReceivedInPlace
<1>1. UploadInv /\ InPlaceInv => ReceivedInPlace
  <2>. SUFFICES ASSUME UploadInv, InPlaceInv, NEW s \in Sessions, NEW i \in bitmap[s]
                PROVE  file[i] = "data" \/ EmptyChunk(i)
    BY DEF ReceivedInPlace
  <2>1. i \in Written
    BY DEF UploadInv, ReceivedIsWritten
  <2>2. i \in Chunks /\ (file[i] # "hole" \/ EmptyChunk(i))
    BY <2>1 DEF Written, InPlaceInv
  <2>. QED
    BY <2>2 DEF InPlaceInv, UploadInv, TypeOK, DiskTypeOK
<1>. QED
  BY <1>1, InPlaceInvariant, UploadInvariant, PTL

\* Unless a Login reads as a chunk, and if the last chunk is not empty: as long
\* as no session resumes an upload, the server has the client's file when the
\* client has finished.
THEOREM DoneIsCompleteUnlessResumed ==
    ASSUME LoginIndex \notin Chunks, LastChunkSize > 0
    PROVE  Spec /\ []FirstUpload => []DoneIsComplete
<1>1. UploadInv /\ InPlaceInv => DoneIsComplete
  <2>. SUFFICES ASSUME UploadInv, InPlaceInv, NEW f \in Flows, phase[f] = "done",
                       NEW i \in Chunks
                PROVE  tail = {} /\ file[i] = "data"
    BY DEF DoneIsComplete, InPlaceInv
  <2>1. i \in Written
    BY DEF UploadInv, DoneIsWritten
  <2>2. ~EmptyChunk(i)
    BY LastChunkSizeAssumption DEF EmptyChunk
  <2>3. file[i] # "hole"
    BY <2>1, <2>2 DEF Written, InPlaceInv
  <2>. QED
    BY <2>3 DEF InPlaceInv, UploadInv, TypeOK, DiskTypeOK
<1>. QED
  BY <1>1, InPlaceInvariant, UploadInvariant, PTL

\* The first session on an empty disk finds no bitmap.
FirstInv ==
    /\ FirstUpload
    /\ \A s \in Sessions : st[s] = "free" => path = None

LEMMA FirstStep ==
    ASSUME \A s, t \in Sessions : s = t, TypeOK, FirstInv, [Next]_vars
    PROVE  FirstInv'
<1>. USE DEF TypeOK, SessionTypeOK, FirstInv, FirstUpload
<1>1. ASSUME UNCHANGED <<append, st, path>>
      PROVE  FirstInv'
  BY <1>1
<1>2. ASSUME NEW f \in Flows, ClientStep(f)
      PROVE  FirstInv'
  BY <1>1, <1>2 DEF ClientStep, StartClient, ChunkSent, StatusEmpty, StatusWhileSending,
     StatusWhileSleeping, ClientCrash, sessionVars, diskVars
<1>3. ASSUME NEW s \in Sessions, SessionStep(s)
      PROVE  FirstInv'
  <2>1. ASSUME NEW m \in net, RecvLogin(s, m)
        PROVE  FirstInv'
    <3>1. path = None /\ path' = None
      BY <2>1 DEF RecvLogin, diskVars
    <3>. QED
      BY <2>1, <3>1 DEF RecvLogin
  <2>2. ASSUME append' = append \/ append' = [append EXCEPT ![s] = FALSE],
               st'[s] # "free"
        PROVE  FirstInv'
    BY <2>2
  <2>3. CASE CreateBitmap(s) \/ MapBitmap(s) \/ MapBitmapFails(s)
    BY <2>2, <2>3 DEF CreateBitmap, MapBitmap, MapBitmapFails, Close
  <2>4. CASE WriteChunk(s) \/ MarkChunk(s) \/ MarkChunkUnderflow(s)
    BY <2>2, <2>4 DEF WriteChunk, MarkChunk, MarkChunkUnderflow, Close
  <2>5. CASE PeriodicStatus(s) \/ SendStatus(s) \/ SessionError(s)
    BY <2>2, <2>5 DEF PeriodicStatus, SendStatus, SessionError, Close, Live
  <2>6. CASE \E m \in net : RecvChunk(s, m) \/ SkipChunk(s, m) \/ RecvFin(s, m)
    BY <2>2, <2>6 DEF RecvChunk, SkipChunk, RecvFin, Reads
  <2>7. CASE \E m \in net : RecvOutOfBounds(s, m) \/ IgnoreInShutdown(s, m)
    BY <2>2, <2>7 DEF RecvOutOfBounds, IgnoreInShutdown, Close, sessionVars
  <2>. QED
    BY <1>3, <2>1, <2>3, <2>4, <2>5, <2>6, <2>7 DEF SessionStep
<1>4. CASE ServerCrash
  BY <1>4 DEF ServerCrash, Live, diskVars
<1>5. CASE UNCHANGED vars \/ \E m \in net : LateChunk(m) \/ Lose(m)
  BY <1>1, <1>5 DEF vars, LateChunk, Lose, sessionVars, diskVars
<1>. QED
  BY <1>2, <1>3, <1>4, <1>5 DEF Next

\* A server that has had one session only, from an empty disk on, has not
\* resumed an upload: the environment of the two theorems above is that of the
\* run with one session, and not empty.
THEOREM OneSessionIsFirst ==
    ASSUME \A s, t \in Sessions : s = t
    PROVE  Spec => []FirstUpload
<1>1. Init => FirstInv
  BY DEF Init, FirstInv, FirstUpload
<1>2. TypeOK /\ FirstInv /\ [Next]_vars => FirstInv'
  BY FirstStep
<1>3. FirstInv => FirstUpload
  BY DEF FirstInv
<1>. QED
  BY <1>1, <1>2, <1>3, TypeCorrect, PTL DEF Spec

=============================================================================
