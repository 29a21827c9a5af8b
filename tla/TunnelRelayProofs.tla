------------------------- MODULE TunnelRelayProofs -------------------------
(***************************************************************************)
(* Proofs about TunnelRelay, for any number of nodes and streams and any   *)
(* bounds: every reachable state is well typed, the queues keep their      *)
(* bound, and a registered queue has a reader.                             *)
(***************************************************************************)
EXTENDS TunnelRelay, TLAPS

\* A running client reads a stream.
ReadsInv == \A n \in Nodes : client[n] = "up" => cur[n] \in Streams

IndInv == TypeOK /\ ReadsInv /\ QueueHasReader

-----------------------------------------------------------------------------
(* Queues.                                                                  *)

\* What TypeOK says of queues and getters.
QueuesOK ==
    /\ queue \in [Streams -> Seq(DownMessages)]
    /\ \A s \in Streams : Len(queue[s]) <= QueueCap
    /\ getters \in [Streams -> 0 .. MaxIdle]
    /\ \A s \in Streams : getters[s] > 0 => queue[s] = <<>>

LEMMA TypeParts ==
    TypeOK <=>
        /\ client \in [Nodes -> {"off", "up", "waiting", "closed"}]
        /\ cur \in [Nodes -> Streams \cup {None}]
        /\ posted \subseteq Posts
        /\ up \in [Streams -> Seq(UpMessages)]
        /\ server \in [Streams -> BOOLEAN] /\ named \in [Streams -> BOOLEAN]
        /\ blocked \in [Streams -> Waits \cup {NoWait}]
        /\ QueuesOK
        /\ owed \subseteq Streams
        /\ tunnels \in [Nodes -> Streams \cup {None}]
BY DEF TypeOK, QueuesOK

\* The queues of E are emptied, those of T given a message unless an
\* abandoned get() is served.
After(E, T, m) ==
    /\ queue' = [s \in Streams |->
                    IF s \in E THEN <<>>
                    ELSE IF s \in T /\ getters[s] = 0
                    THEN Append(queue[s], m) ELSE queue[s]]
    /\ getters' = [s \in Streams |->
                    IF s \in E THEN 0
                    ELSE IF s \in T /\ getters[s] > 0
                    THEN getters[s] - 1 ELSE getters[s]]

\* One queue q with g abandoned get()s keeps its bound.
QueueOK(q, g) ==
    /\ q \in Seq(DownMessages) /\ Len(q) <= QueueCap
    /\ g \in 0 .. MaxIdle /\ (g > 0 => q = <<>>)

LEMMA EmptyOK == QueueOK(<<>>, 0)
<1>1. <<>> \in Seq(DownMessages) /\ Len(<<>>) = 0 OBVIOUS
<1> QED BY <1>1, ConstantsAssumption DEF QueueOK

LEMMA AppendOK ==
    ASSUME NEW q, NEW m \in DownMessages, QueueOK(q, 0), Len(q) < QueueCap
    PROVE  QueueOK(Append(q, m), 0)
<1>1. q \in Seq(DownMessages) /\ Len(q) \in Nat BY DEF QueueOK
<1>2. Append(q, m) \in Seq(DownMessages) /\ Len(Append(q, m)) = Len(q) + 1
  BY <1>1
<1> QED BY <1>1, <1>2, ConstantsAssumption DEF QueueOK

LEMMA GetOK ==
    ASSUME NEW q, NEW g, QueueOK(q, g), g > 0
    PROVE  QueueOK(q, g - 1)
BY ConstantsAssumption DEF QueueOK

LEMMA QueuesAfter ==
    ASSUME QueuesOK, NEW E, NEW T, NEW m \in DownMessages,
           \A s \in T : ~Full(s), After(E, T, m)
    PROVE  QueuesOK'
<1>1. ASSUME NEW s \in Streams PROVE QueueOK(queue'[s], getters'[s])
  <2>1. QueueOK(queue[s], getters[s]) BY DEF QueuesOK, QueueOK
  <2>2. /\ getters[s] \in Nat /\ Len(queue[s]) \in Nat /\ QueueCap \in Nat
    BY ConstantsAssumption DEF QueuesOK
  <2>3. CASE s \in E
    <3>1. queue'[s] = <<>> /\ getters'[s] = 0 BY <2>3 DEF After
    <3> QED BY <3>1, EmptyOK
  <2>4. CASE s \notin E /\ s \in T /\ getters[s] = 0
    <3>1. queue'[s] = Append(queue[s], m) /\ getters'[s] = 0
      BY <2>4 DEF After
    <3>2. Len(queue[s]) < QueueCap BY <2>2, <2>4 DEF Full
    <3> QED BY <2>1, <2>4, <3>1, <3>2, AppendOK
  <2>5. CASE s \notin E /\ s \in T /\ getters[s] > 0
    <3>1. queue'[s] = queue[s] /\ getters'[s] = getters[s] - 1
      BY <2>2, <2>5 DEF After
    <3> QED BY <2>1, <2>5, <3>1, GetOK
  <2>6. CASE s \notin E /\ s \notin T
    <3>1. queue'[s] = queue[s] /\ getters'[s] = getters[s]
      BY <2>6 DEF After
    <3> QED BY <2>1, <3>1
  <2> QED BY <2>2, <2>3, <2>4, <2>5, <2>6
<1>2. /\ queue' = [s \in Streams |-> queue'[s]]
      /\ getters' = [s \in Streams |-> getters'[s]]
  BY DEF After
<1>3. queue' \in [Streams -> Seq(DownMessages)] BY <1>1, <1>2 DEF QueueOK
<1>4. getters' \in [Streams -> 0 .. MaxIdle] BY <1>1, <1>2 DEF QueueOK
<1> QED BY <1>1, <1>3, <1>4 DEF QueuesOK, QueueOK

LEMMA PutKeepsQueues ==
    ASSUME QueuesOK, NEW T, NEW m \in DownMessages, Put(T, m)
    PROVE  QueuesOK'
<1> DEFINE R == {s \in T : ~Full(s)}
<1>1. \A s \in R : ~Full(s) OBVIOUS
<1>2. \A s \in Streams : getters[s] > 0 => ~Full(s)
  BY ConstantsAssumption DEF QueuesOK, Full
<1>3. After({}, R, m)
  <2>1. \A s \in Streams :
           /\ s \in T /\ getters[s] = 0 /\ ~Full(s) <=> s \in R /\ getters[s] = 0
           /\ s \in T /\ getters[s] > 0 <=> s \in R /\ getters[s] > 0
    BY <1>2
  <2> HIDE DEF R
  <2> QED BY <2>1 DEF Put, After
<1> HIDE DEF R
<1> QED BY <1>1, <1>3, QueuesAfter

LEMMA Constructors ==
    /\ Register \in UpMessages /\ Heartbeat \in UpMessages
    /\ PeerList \in DownMessages /\ Error \in DownMessages
BY DEF UpMessages, DownMessages

-----------------------------------------------------------------------------
(* The client.                                                              *)

LEMMA ClientInv ==
    ASSUME IndInv, NEW n \in Nodes, StreamDies(n) \/ Close(n)
    PROVE  IndInv'
<1> USE DEF IndInv
<1>1. UNCHANGED <<posted, serverVars>> BY DEF StreamDies, Close
<1>2. /\ client' \in [Nodes -> {"off", "up", "waiting", "closed"}]
      /\ cur' \in [Nodes -> Streams \cup {None}]
  BY DEF StreamDies, Close, Reconnecting, TypeOK
<1>3. TypeOK' BY <1>1, <1>2 DEF TypeOK, serverVars
<1>4. ReadsInv' BY DEF ReadsInv, StreamDies, Close, Reconnecting, TypeOK
<1>5. QueueHasReader' BY <1>1 DEF QueueHasReader, Registered, serverVars
<1> QED BY <1>3, <1>4, <1>5

LEMMA ConnectInv ==
    ASSUME IndInv, NEW s \in Streams, Connect(s)
    PROVE  IndInv'
<1> USE DEF IndInv
<1>1. Owner[s] \in Nodes BY ConstantsAssumption
<1>2. UNCHANGED <<posted, named, blocked, queue, getters, owed, tunnels>>
  BY DEF Connect
<1>3. <<Register>> \in Seq(UpMessages) BY Constructors
<1>4. /\ client' \in [Nodes -> {"off", "up", "waiting", "closed"}]
      /\ cur' \in [Nodes -> Streams \cup {None}]
      /\ server' \in [Streams -> BOOLEAN]
  BY <1>1 DEF Connect, TypeOK
<1>5. up' \in [Streams -> Seq(UpMessages)] BY <1>3 DEF Connect, TypeOK
<1>6. TypeOK' BY <1>2, <1>4, <1>5 DEF TypeOK
<1>7. ReadsInv' BY <1>1 DEF ReadsInv, Connect, TypeOK
<1>8. \A r \in Streams : server[r] => server'[r] BY DEF Connect, TypeOK
<1>9. QueueHasReader' BY <1>2, <1>8 DEF QueueHasReader, Registered, TypeOK
<1> QED BY <1>6, <1>7, <1>9

LEMMA SendInv ==
    ASSUME IndInv, NEW m \in Posts, SendMessage(m)
    PROVE  IndInv'
<1> USE DEF IndInv
<1>1. UNCHANGED <<client, cur, server, named, blocked, queue, getters, owed, tunnels>>
  BY DEF SendMessage
<1>2. m.from \in Nodes BY ConstantsAssumption
<1>3. m \in UpMessages BY DEF UpMessages
<1>4. up' \in [Streams -> Seq(UpMessages)]
  <2>1. CASE UNCHANGED up BY <2>1 DEF TypeOK
  <2>2. CASE /\ client[m.from] = "up"
             /\ up' = [up EXCEPT ![cur[m.from]] = Append(@, m)]
    <3>1. cur[m.from] \in Streams BY <1>2, <2>2 DEF ReadsInv
    <3>2. up[cur[m.from]] \in Seq(UpMessages) BY <3>1 DEF TypeOK
    <3>3. Append(up[cur[m.from]], m) \in Seq(UpMessages) BY <1>3, <3>2
    <3> QED BY <2>2, <3>1, <3>3 DEF TypeOK
  <2> QED BY <2>1, <2>2 DEF SendMessage
<1>5. posted' \subseteq Posts BY DEF SendMessage, TypeOK
<1>6. TypeOK' BY <1>1, <1>4, <1>5 DEF TypeOK
<1>7. ReadsInv' BY <1>1 DEF ReadsInv
<1>8. QueueHasReader' BY <1>1 DEF QueueHasReader, Registered
<1> QED BY <1>6, <1>7, <1>8

-----------------------------------------------------------------------------
(* The server.                                                              *)

\* What taking a message from an up-link leaves.
LEMMA TakesType ==
    ASSUME TypeOK, NEW s \in Streams, NEW types, Takes(s, types)
    PROVE  /\ up' \in [Streams -> Seq(UpMessages)]
           /\ Head(up[s]) \in UpMessages /\ Head(up[s]).type \in types
<1>1. up[s] \in Seq(UpMessages) /\ up[s] # <<>> BY DEF Takes, TypeOK
<1>2. Tail(up[s]) \in Seq(UpMessages) /\ Head(up[s]) \in UpMessages BY <1>1
<1> QED BY <1>2 DEF Takes, TypeOK

LEMMA RegisterInv ==
    ASSUME IndInv, NEW s \in Streams, HandleRegister(s)
    PROVE  IndInv'
<1> USE DEF IndInv
<1>1. Owner[s] \in Nodes BY ConstantsAssumption
<1>2. UNCHANGED <<clientVars, server, blocked, owed>> BY DEF HandleRegister
<1>3. up' \in [Streams -> Seq(UpMessages)] BY TakesType DEF HandleRegister
<1>4. server[s] BY DEF HandleRegister, Takes
<1>5. QueuesOK' /\ named' \in [Streams -> BOOLEAN]
      /\ tunnels' \in [Nodes -> Streams \cup {None}]
  <2>1. CASE UNCHANGED <<named, tunnels, queue, getters>>
    BY <2>1 DEF TypeOK, QueuesOK
  <2>2. CASE /\ named' = [named EXCEPT ![s] = TRUE]
             /\ tunnels' = [tunnels EXCEPT ![Owner[s]] = s]
             /\ Put({s} \cup {tunnels[m] : m \in Registered}, PeerList)
    <3>1. QueuesOK' BY <2>2, Constructors, PutKeepsQueues, TypeParts
    <3> QED BY <1>1, <2>2, <3>1 DEF TypeOK
  <2> QED BY <2>1, <2>2 DEF HandleRegister
<1>6. TypeOK' BY <1>2, <1>3, <1>5, TypeParts DEF TypeOK, QueuesOK, clientVars
<1>7. ReadsInv' BY <1>2 DEF ReadsInv, clientVars
<1>8. QueueHasReader'
  <2>1. CASE UNCHANGED <<named, tunnels>>
    BY <1>2, <2>1 DEF QueueHasReader, Registered
  <2>2. CASE /\ named' = [named EXCEPT ![s] = TRUE]
             /\ tunnels' = [tunnels EXCEPT ![Owner[s]] = s]
    BY <1>1, <1>2, <1>4, <2>2 DEF QueueHasReader, Registered, TypeOK
  <2> QED BY <2>1, <2>2 DEF HandleRegister
<1> QED BY <1>6, <1>7, <1>8

LEMMA RelayedInv ==
    ASSUME IndInv, NEW s \in Streams, HandleHeartbeat(s) \/ HandleRelayed(s)
    PROVE  IndInv'
<1> USE DEF IndInv
<1>1. UNCHANGED <<clientVars, server, named, owed, tunnels>>
  BY DEF HandleHeartbeat, HandleRelayed
<1>2. up' \in [Streams -> Seq(UpMessages)]
  BY TakesType DEF HandleHeartbeat, HandleRelayed
<1>3. ASSUME NEW r \in Streams, NEW m \in DownMessages, PutOrWait(s, r, m)
      PROVE  QueuesOK' /\ blocked' \in [Streams -> Waits \cup {NoWait}]
  <2>1. CASE /\ blocked' = [blocked EXCEPT ![s] = [at |-> r, msg |-> m]]
             /\ UNCHANGED <<queue, getters>>
    <3>1. [at |-> r, msg |-> m] \in Waits BY DEF Waits
    <3> QED BY <2>1, <3>1 DEF TypeOK, QueuesOK
  <2>2. CASE Put({r}, m) /\ UNCHANGED blocked
    <3>1. QueuesOK' BY <2>2, PutKeepsQueues, TypeParts
    <3> QED BY <2>2, <3>1 DEF TypeOK
  <2> QED BY <1>3, <2>1, <2>2 DEF PutOrWait
<1>4. QueuesOK' /\ blocked' \in [Streams -> Waits \cup {NoWait}]
  <2>1. CASE UNCHANGED <<blocked, queue, getters>> BY <2>1 DEF TypeOK, QueuesOK
  <2>2. CASE HandleRelayed(s)
    <3> DEFINE m == Head(up[s])
    <3>1. m \in UpMessages /\ m.type \in {"text", "signal"}
      BY <2>2, TakesType DEF HandleRelayed
    <3>2. m \in DownMessages
      BY <3>1 DEF UpMessages, DownMessages, Register, Heartbeat
    <3>3. CASE m.to \in Registered /\ PutOrWait(s, tunnels[m.to], m)
      <4>1. tunnels[m.to] \in Streams BY <3>3 DEF Registered, TypeOK
      <4> HIDE DEF m
      <4> QED BY <1>3, <3>2, <3>3, <4>1
    <3>4. CASE PutOrWait(s, s, Error) BY <1>3, <3>4, Constructors
    <3> QED BY <2>1, <2>2, <3>3, <3>4 DEF HandleRelayed
  <2> QED BY <2>1, <2>2 DEF HandleHeartbeat
<1>5. TypeOK' BY <1>1, <1>2, <1>4, TypeParts DEF TypeOK, QueuesOK, clientVars
<1>6. ReadsInv' BY <1>1 DEF ReadsInv, clientVars
<1>7. QueueHasReader' BY <1>1 DEF QueueHasReader, Registered
<1> QED BY <1>5, <1>6, <1>7

LEMMA UnblockInv ==
    ASSUME IndInv, NEW s \in Streams, Unblock(s)
    PROVE  IndInv'
<1> USE DEF IndInv
<1>1. UNCHANGED <<clientVars, up, server, named, owed, tunnels>> BY DEF Unblock
<1>2. blocked[s].msg \in DownMessages
  BY DEF Unblock, TypeOK, Waits, NoWait
<1>3. QueuesOK' BY <1>2, PutKeepsQueues, TypeParts DEF Unblock
<1>4. blocked' \in [Streams -> Waits \cup {NoWait}] BY DEF Unblock, TypeOK
<1>5. TypeOK' BY <1>1, <1>3, <1>4 DEF TypeOK, QueuesOK, clientVars
<1>6. ReadsInv' BY <1>1 DEF ReadsInv, clientVars
<1>7. QueueHasReader' BY <1>1 DEF QueueHasReader, Registered
<1> QED BY <1>5, <1>6, <1>7

LEMMA OutgoingInv ==
    ASSUME IndInv, NEW s \in Streams, Deliver(s) \/ Idle(s)
    PROVE  IndInv'
<1> USE DEF IndInv
<1>1. UNCHANGED <<clientVars, server, named, blocked, owed, tunnels>>
  BY DEF Deliver, Idle
<1>2. up' \in [Streams -> Seq(UpMessages)]
  <2>1. up[s] \in Seq(UpMessages) BY DEF TypeOK
  <2>2. Append(up[s], Heartbeat) \in Seq(UpMessages) BY <2>1, Constructors
  <2> QED BY <2>2 DEF Deliver, Idle, TypeOK
<1>3. QueuesOK'
  <2>1. CASE Deliver(s)
    <3>1. queue[s] \in Seq(DownMessages) /\ queue[s] # <<>> /\ Len(queue[s]) <= QueueCap
      BY <2>1 DEF Deliver, TypeOK
    <3>2. /\ Tail(queue[s]) \in Seq(DownMessages)
          /\ Len(Tail(queue[s])) <= QueueCap
      BY <3>1, ConstantsAssumption
    <3>3. queue' = [queue EXCEPT ![s] = Tail(queue[s])] /\ getters' = getters
      BY <2>1 DEF Deliver
    <3>4. \A r \in Streams : getters[r] > 0 => r # s BY <3>1 DEF TypeOK
    <3>5. queue' \in [Streams -> Seq(DownMessages)] BY <3>2, <3>3 DEF TypeOK
    <3>6. \A r \in Streams : Len(queue'[r]) <= QueueCap BY <3>2, <3>3 DEF TypeOK
    <3>7. \A r \in Streams : getters'[r] > 0 => queue'[r] = <<>>
      BY <3>3, <3>4 DEF TypeOK
    <3> QED BY <3>3, <3>5, <3>6, <3>7 DEF QueuesOK, TypeOK
  <2>2. CASE Idle(s)
    <3>1. queue' = queue /\ getters' = [getters EXCEPT ![s] = @ + 1]
      BY <2>2 DEF Idle
    <3>2. getters[s] + 1 \in 0 .. MaxIdle /\ queue[s] = <<>>
      BY <2>2, ConstantsAssumption DEF Idle, TypeOK
    <3> QED BY <3>1, <3>2 DEF QueuesOK, TypeOK
  <2> QED BY <2>1, <2>2
<1>4. TypeOK' BY <1>1, <1>2, <1>3 DEF TypeOK, QueuesOK, clientVars
<1>5. ReadsInv' BY <1>1 DEF ReadsInv, clientVars
<1>6. QueueHasReader' BY <1>1 DEF QueueHasReader, Registered
<1> QED BY <1>4, <1>5, <1>6

\* The end of a stream takes the entry that could lead to it with it: the
\* entry of its node, if the stream had a name, and no other leads to it.
LEMMA EndsInv ==
    ASSUME IndInv, NEW s \in Streams, ServerEnds(s)
    PROVE  IndInv'
<1> USE DEF IndInv
<1>1. Owner[s] \in Nodes BY ConstantsAssumption
<1>2. UNCHANGED clientVars BY DEF ServerEnds
<1>3. /\ up' \in [Streams -> Seq(UpMessages)]
      /\ server' \in [Streams -> BOOLEAN] /\ named' \in [Streams -> BOOLEAN]
  <2>1. <<>> \in Seq(UpMessages) OBVIOUS
  <2> QED BY <2>1 DEF ServerEnds, TypeOK
<1>4. tunnels' \in [Nodes -> Streams \cup {None}]
  BY <1>1 DEF ServerEnds, EntryDeleted, TypeOK
<1>5. blocked' \in [Streams -> Waits \cup {NoWait}]
  <2>1. ASSUME NEW r \in Streams, blocked[r].at = s
        PROVE  [at |-> None, msg |-> blocked[r].msg] \in Waits
    <3>1. blocked[r] \in Waits
      BY <2>1, ConstantsAssumption DEF TypeOK, NoWait
    <3> QED BY <3>1 DEF Waits
  <2>2. blocked' = [r \in Streams |->
                       IF r = s THEN NoWait
                       ELSE IF blocked[r].at = s
                       THEN [at |-> None, msg |-> blocked[r].msg] ELSE blocked[r]]
    BY DEF ServerEnds
  <2>3. ASSUME NEW r \in Streams PROVE blocked'[r] \in Waits \cup {NoWait}
    BY <2>1, <2>2 DEF TypeOK
  <2> QED BY <2>2, <2>3
<1>6. QueuesOK' /\ owed' \subseteq Streams
  <2> DEFINE full == {r \in Others(s) \ {s} : Full(r)}
             told == Others(s) \ (full \cup {s})
  <2>1. PICK T \in IF full = {} THEN {told} ELSE SUBSET told,
             F \in IF full = {} THEN {{}} ELSE {{r} : r \in full} :
              /\ owed' = (owed \cup F) \ {s}
              /\ queue' = [r \in Streams |->
                              IF r = s THEN <<>>
                              ELSE IF r \in T /\ getters[r] = 0
                              THEN Append(queue[r], PeerList) ELSE queue[r]]
              /\ getters' = [r \in Streams |->
                              IF r = s THEN 0
                              ELSE IF r \in T /\ getters[r] > 0
                              THEN getters[r] - 1 ELSE getters[r]]
    BY DEF ServerEnds
  <2>2. T \subseteq told /\ F \subseteq full OBVIOUS
  <2>3. Others(s) \subseteq Streams BY DEF Others, Registered, TypeOK
  <2>4. \A r \in T : ~Full(r) BY <2>2
  <2>5. owed' \subseteq Streams BY <2>1, <2>2, <2>3 DEF TypeOK
  <2> HIDE DEF full, told
  <2>6. After({s}, T, PeerList) BY <2>1 DEF After
  <2>7. QueuesOK' BY <2>4, <2>6, Constructors, TypeParts, QueuesAfter
  <2> QED BY <2>5, <2>7
<1>7. TypeOK'
  BY <1>2, <1>3, <1>4, <1>5, <1>6 DEF TypeOK, QueuesOK, clientVars
<1>8. ReadsInv' BY <1>2 DEF ReadsInv, clientVars
<1>9. QueueHasReader'
  <2> SUFFICES ASSUME NEW n \in Nodes, tunnels'[n] # None
               PROVE  /\ server'[tunnels'[n]] /\ named'[tunnels'[n]]
                      /\ Owner[tunnels'[n]] = n
    BY DEF QueueHasReader, Registered
  <2>1. tunnels'[n] = tunnels[n] /\ (named[s] => n # Owner[s])
    BY <1>1 DEF ServerEnds, EntryDeleted, TypeOK
  <2>2. /\ tunnels[n] \in Streams /\ server[tunnels[n]] /\ named[tunnels[n]]
        /\ Owner[tunnels[n]] = n
    BY <2>1 DEF QueueHasReader, Registered, TypeOK
  <2>3. tunnels[n] # s BY <2>1, <2>2
  <2> QED BY <2>1, <2>2, <2>3 DEF ServerEnds, TypeOK
<1> QED BY <1>7, <1>8, <1>9

LEMMA LateInv ==
    ASSUME IndInv, NEW s \in Streams, LateNotice(s)
    PROVE  IndInv'
<1> USE DEF IndInv
<1>1. UNCHANGED <<clientVars, up, server, named, blocked, tunnels>> BY DEF LateNotice
<1>2. PICK T : Put(T, PeerList) BY DEF LateNotice
<1>3. QueuesOK' BY <1>2, Constructors, PutKeepsQueues, TypeParts
<1>4. owed' \subseteq Streams BY DEF LateNotice, TypeOK
<1>5. TypeOK' BY <1>1, <1>3, <1>4 DEF TypeOK, QueuesOK, clientVars
<1>6. ReadsInv' BY <1>1 DEF ReadsInv, clientVars
<1>7. QueueHasReader' BY <1>1 DEF QueueHasReader, Registered
<1> QED BY <1>5, <1>6, <1>7

LEMMA StaleInv ==
    ASSUME IndInv, NEW n \in Nodes, StaleCleanup(n)
    PROVE  IndInv'
<1> USE DEF IndInv
<1>1. UNCHANGED <<clientVars, up, server, named, blocked, queue, getters, owed>>
  BY DEF StaleCleanup
<1>2. tunnels' \in [Nodes -> Streams \cup {None}] BY DEF StaleCleanup, TypeOK
<1>3. TypeOK' BY <1>1, <1>2 DEF TypeOK, clientVars
<1>4. ReadsInv' BY <1>1 DEF ReadsInv, clientVars
<1>5. QueueHasReader'
  BY <1>1 DEF QueueHasReader, Registered, StaleCleanup, TypeOK
<1> QED BY <1>3, <1>4, <1>5

-----------------------------------------------------------------------------
LEMMA InitInv == Init => IndInv
<1> SUFFICES ASSUME Init PROVE IndInv OBVIOUS
<1> USE ConstantsAssumption DEF Init
<1>1. /\ <<>> \in Seq(UpMessages) /\ <<>> \in Seq(DownMessages) /\ Len(<<>>) = 0
  OBVIOUS
<1>2. up \in [Streams -> Seq(UpMessages)] /\ queue \in [Streams -> Seq(DownMessages)]
  BY <1>1
<1>3. TypeOK BY <1>1, <1>2 DEF TypeOK
<1>4. ReadsInv BY DEF ReadsInv
<1>5. QueueHasReader BY DEF QueueHasReader, Registered
<1> QED BY <1>3, <1>4, <1>5 DEF IndInv

LEMMA StutterInv == ASSUME IndInv, UNCHANGED vars PROVE IndInv'
<1> USE DEF vars, clientVars, serverVars
<1>1. TypeOK' BY DEF IndInv, TypeOK
<1>2. ReadsInv' BY DEF IndInv, ReadsInv
<1>3. QueueHasReader' BY DEF IndInv, QueueHasReader, Registered
<1> QED BY <1>1, <1>2, <1>3 DEF IndInv

LEMMA NextInv == IndInv /\ [Next]_vars => IndInv'
<1> SUFFICES ASSUME IndInv, [Next]_vars PROVE IndInv' OBVIOUS
<1>1. CASE UNCHANGED vars BY <1>1, StutterInv
<1>2. ASSUME NEW s \in Streams,
             \/ Connect(s) \/ Handle(s) \/ Unblock(s) \/ Deliver(s) \/ Idle(s)
             \/ ServerEnds(s) \/ LateNotice(s)
      PROVE  IndInv'
  BY <1>2, ConnectInv, RegisterInv, RelayedInv, UnblockInv, OutgoingInv, EndsInv,
     LateInv DEF Handle
<1>3. ASSUME NEW n \in Nodes, StreamDies(n) \/ Close(n) \/ StaleCleanup(n)
      PROVE  IndInv'
  BY <1>3, ClientInv, StaleInv
<1>4. ASSUME NEW m \in Posts, SendMessage(m) PROVE IndInv' BY <1>4, SendInv
<1> QED BY <1>1, <1>2, <1>3, <1>4 DEF Next

LEMMA Inductive == Spec => []IndInv
BY InitInv, NextInv, PTL DEF Spec

\* Every reachable state of the relay is well typed; in particular no queue of
\* a stream outgrows PER_CLIENT_QUEUE_MAXSIZE, and a get() that the outgoing
\* loop gave up waits only at an empty queue.
THEOREM TypeCorrect == Spec => []TypeOK
<1>1. IndInv => TypeOK BY DEF IndInv
<1> QED BY <1>1, Inductive, PTL

\* However the streams of a node overlap, register, end and are cleaned up, an
\* entry of the server's tunnels leads to a running stream of that node.
THEOREM EntriesLeadToReaders == Spec => []QueueHasReader
<1>1. IndInv => QueueHasReader BY DEF IndInv
<1> QED BY <1>1, Inductive, PTL
=============================================================================
