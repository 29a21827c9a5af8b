---------------------------- MODULE TunnelRelay ----------------------------
(***************************************************************************)
(* The relay for nodes behind NAT: TunnelServicer                          *)
(* (src/quinkgl/network/fallback/tunnel_server.py) and its TunnelClients   *)
(* (tunnel_client.py).  A client keeps one gRPC stream open, registers its *)
(* node id on it and sends messages that the server puts into the bounded  *)
(* queue of the target's stream.  Streams break on either side first; the  *)
(* client opens another one, while the server may still hold the old.      *)
(*                                                                         *)
(* Both are asyncio programs: an action is the code between two awaits.    *)
(* The up-link of a stream stands for the client's queue and the wire.     *)
(***************************************************************************)
EXTENDS Integers, Sequences, FiniteSets

CONSTANTS
    Nodes,          \* node ids
    Streams,        \* streams, used again when both ends are through
    Owner,          \* Owner[s]: the node whose client opens s
    None,           \* no stream, no message
    MaxTunnels,     \* MAX_TUNNELS
    QueueCap,       \* PER_CLIENT_QUEUE_MAXSIZE
    UpCap,          \* bound: messages on an up-link
    MaxIdle,        \* bound: idle periods of a stream
    Posts           \* bound: the messages that clients send, once each

ASSUME ConstantsAssumption ==
    /\ Owner \in [Streams -> Nodes]
    /\ None \notin Streams
    /\ MaxTunnels \in Nat /\ QueueCap \in Nat \ {0}
    /\ Posts \subseteq [type : {"text", "signal"}, from : Nodes, to : Nodes]
    /\ UpCap \in Nat \ {0} /\ MaxIdle \in Nat

\* What a client sends: Posts go to a target, as text or signal (SDP, ICE).
Register == [type |-> "register"]
Heartbeat == [type |-> "heartbeat"]
UpMessages == Posts \cup {Register, Heartbeat}

\* What the server puts into a queue.
PeerList == [type |-> "peers"]
Error == [type |-> "error"]
DownMessages == Posts \cup {PeerList, Error}

VARIABLES
    \* --- clients
    client,     \* client[n]: "up" is self.running, "waiting" the back-off
    cur,        \* cur[n]: the stream that _tunnel_stream reads
    posted,     \* the messages sent so far
    \* --- links and server
    up,         \* up[s]: messages from client to server
    server,     \* server[s]: the RegisterTunnel coroutine of s runs
    named,      \* named[s]: its node_id is set
    blocked,    \* blocked[s]: the put its incoming handler waits for
    queue,      \* queue[s]: its message_queue
    getters,    \* getters[s]: abandoned get() tasks at the queue
    owed,       \* streams at whose full queue an ending stream waits
    tunnels     \* self.tunnels, by the stream that owns the queue

clientVars == <<client, cur, posted>>
serverVars == <<up, server, named, blocked, queue, getters, owed, tunnels>>
vars == <<clientVars, serverVars>>

\* A put that waits at the queue of a stream that has ended, for ever.
Waits == [at : Streams \cup {None}, msg : DownMessages]
NoWait == [at |-> None, msg |-> None]

Registered == {n \in Nodes : tunnels[n] # None}

Init ==
    /\ client = [n \in Nodes |-> "off"]
    /\ cur = [n \in Nodes |-> None]
    /\ posted = {}
    /\ up = [s \in Streams |-> <<>>]
    /\ server = [s \in Streams |-> FALSE]
    /\ named = [s \in Streams |-> FALSE]
    /\ blocked = [s \in Streams |-> NoWait]
    /\ queue = [s \in Streams |-> <<>>]
    /\ getters = [s \in Streams |-> 0]
    /\ owed = {} /\ tunnels = [n \in Nodes |-> None]

-----------------------------------------------------------------------------
(* Queues.  asyncio hands an item to the get() that has waited longest, and *)
(* a get() that the outgoing loop has given up still waits.                 *)

\* Mutant: the queue is not bounded.
NeverFull(s) == FALSE

Full(s) == getters[s] = 0 /\ Len(queue[s]) >= QueueCap

\* m is put into the queues of T that have room.
Put(T, m) ==
    /\ queue' = [s \in Streams |->
                    IF s \in T /\ getters[s] = 0 /\ ~Full(s)
                    THEN Append(queue[s], m) ELSE queue[s]]
    /\ getters' = [s \in Streams |->
                    IF s \in T /\ getters[s] > 0 THEN getters[s] - 1 ELSE getters[s]]

-----------------------------------------------------------------------------
(* The client.                                                              *)

\* Both ends of s are through.
Free(s) == ~server[s] /\ cur[Owner[s]] # s

\* connect, called first by the user and then by _reconnect_loop: the stream
\* is opened and REGISTER is queued.  Nothing waits for the server's answer.
Connect(s) ==
    LET n == Owner[s] IN
    /\ client[n] \in {"off", "waiting"}
    /\ Free(s)
    /\ client' = [client EXCEPT ![n] = "up"]
    /\ cur' = [cur EXCEPT ![n] = s]
    /\ server' = [server EXCEPT ![s] = TRUE]
    /\ up' = [up EXCEPT ![s] = <<Register>>]
    /\ UNCHANGED <<posted, named, blocked, queue, getters, owed, tunnels>>

\* Mutant: the reconnect loop is not started.
NoReconnect == "dead"

Reconnecting == "waiting"

\* The stream raises (its deadline, a broken connection, a timed-out put of a
\* heartbeat): self.running is cleared and _reconnect_loop started.
StreamDies(n) ==
    /\ client[n] = "up"
    /\ client' = [client EXCEPT ![n] = Reconnecting]
    /\ cur' = [cur EXCEPT ![n] = None]
    /\ UNCHANGED <<posted, serverVars>>

\* send_chat_message, send_sdp_offer, send_sdp_answer, send_ice_candidate:
\* between two streams the message goes into a queue that is thrown away.
SendMessage(m) ==
    LET n == m.from IN
    /\ m \notin posted
    /\ \/ /\ client[n] = "up"
          /\ Len(up[cur[n]]) < UpCap
          /\ up' = [up EXCEPT ![cur[n]] = Append(@, m)]
       \/ /\ client[n] = "waiting"
          /\ UNCHANGED up
    /\ posted' = posted \cup {m}
    /\ UNCHANGED <<client, cur, server, named, blocked, queue, getters, owed, tunnels>>

\* close: the reconnect loop is cancelled and disabled, the channel closed.
Close(n) ==
    /\ client[n] \in {"up", "waiting"}
    /\ client' = [client EXCEPT ![n] = "closed"]
    /\ cur' = [cur EXCEPT ![n] = None]
    /\ UNCHANGED <<posted, serverVars>>

-----------------------------------------------------------------------------
(* The server: the incoming handler of a stream.                            *)

\* The handler of s takes the next message, which is of one of the types.
Takes(s, types) ==
    /\ server[s] /\ blocked[s] = NoWait
    /\ up[s] # <<>> /\ Head(up[s]).type \in types
    /\ up' = [up EXCEPT ![s] = Tail(@)]

\* REGISTER is refused without an answer: the id is in use, or the server full.
Refused(n) == n \in Registered \/ Cardinality(Registered) >= MaxTunnels

\* The new stream is told of the others (its queue is fresh, but a get() may
\* have been given up before), and the others of the new one, except where
\* the queue is full.
HandleRegister(s) ==
    LET n == Owner[s] IN
    /\ Takes(s, {"register"})
    /\ \/ /\ Refused(n)
          /\ UNCHANGED <<named, tunnels, queue, getters>>
       \/ /\ ~Refused(n)
          /\ named' = [named EXCEPT ![s] = TRUE]
          /\ tunnels' = [tunnels EXCEPT ![n] = s]
          /\ Put({s} \cup {tunnels[m] : m \in Registered}, PeerList)
    /\ UNCHANGED <<clientVars, server, blocked, owed>>

\* HEARTBEAT refreshes last_seen, which StaleCleanup abstracts; like every
\* message it is ignored before REGISTER.
HandleHeartbeat(s) ==
    /\ Takes(s, {"heartbeat"})
    /\ UNCHANGED <<clientVars, server, named, blocked, queue, getters, owed, tunnels>>

\* The handler of s puts m into the queue of r, and waits if it is full.
PutOrWait(s, r, m) ==
    \/ /\ Full(r)
       /\ blocked' = [blocked EXCEPT ![s] = [at |-> r, msg |-> m]]
       /\ UNCHANGED <<queue, getters>>
    \/ /\ ~Full(r)
       /\ Put({r}, m)
       /\ UNCHANGED blocked

\* Text and signalling: relay to the target's queue; only for a text is a
\* missing target reported to the sender.
HandleRelayed(s) ==
    LET m == Head(up[s]) IN
    /\ Takes(s, {"text", "signal"})
    /\ \/ /\ named[s] /\ m.to \in Registered
          /\ PutOrWait(s, tunnels[m.to], m)
       \/ /\ named[s] /\ m.to \notin Registered /\ m.type = "text"
          /\ PutOrWait(s, s, Error)
       \/ /\ ~named[s] \/ (m.to \notin Registered /\ m.type = "signal")
          /\ UNCHANGED <<blocked, queue, getters>>
    /\ UNCHANGED <<clientVars, server, named, owed, tunnels>>

Handle(s) == HandleRegister(s) \/ HandleHeartbeat(s) \/ HandleRelayed(s)

\* The queue the handler waits for has room again.
Unblock(s) ==
    /\ server[s] /\ blocked[s].at # None
    /\ ~Full(blocked[s].at)
    /\ Put({blocked[s].at}, blocked[s].msg)
    /\ blocked' = [blocked EXCEPT ![s] = NoWait]
    /\ UNCHANGED <<clientVars, up, server, named, owed, tunnels>>

-----------------------------------------------------------------------------
(* The server: the outgoing loop of a stream and its end.                   *)

\* A message is taken from the queue and reaches the client.
Deliver(s) ==
    /\ server[s] /\ cur[Owner[s]] = s
    /\ queue[s] # <<>>
    /\ queue' = [queue EXCEPT ![s] = Tail(@)]
    /\ UNCHANGED <<clientVars, up, server, named, blocked, getters, owed, tunnels>>

\* Thirty seconds without a message: the wait is over, but not the get() it
\* waited for; the next turn starts another.  A registered client gets a
\* heartbeat and answers it.
Idle(s) ==
    /\ server[s] /\ queue[s] = <<>> /\ getters[s] < MaxIdle
    /\ getters' = [getters EXCEPT ![s] = @ + 1]
    /\ up' = IF named[s] /\ cur[Owner[s]] = s /\ Len(up[s]) < UpCap
             THEN [up EXCEPT ![s] = Append(@, Heartbeat)] ELSE up
    /\ UNCHANGED <<clientVars, server, named, blocked, queue, owed, tunnels>>

\* Mutant: the entry is left behind.
EntryKept(s) == tunnels

\* The finally clause deletes the entry of its node id, if there is one,
\* without looking whose queue it is.
EntryDeleted(s) ==
    IF named[s] THEN [tunnels EXCEPT ![Owner[s]] = None] ELSE tunnels

\* The other streams that the end of s is announced to.
Others(s) ==
    {tunnels[m] : m \in IF named[s] /\ Owner[s] \in Registered
                        THEN Registered \ {Owner[s]} ELSE {}}

\* The RPC is over for the server: its finally clause runs, and the incoming
\* handler is cancelled.  The others are told, until the clause has to wait at
\* a full queue; what comes after that it tells when it goes on, unless the
\* dictionary has changed under it.
ServerEnds(s) ==
    /\ server[s]
    /\ server' = [server EXCEPT ![s] = FALSE]
    /\ named' = [named EXCEPT ![s] = FALSE]
    /\ up' = [up EXCEPT ![s] = <<>>]
    /\ tunnels' = EntryDeleted(s)
    /\ blocked' = [r \in Streams |->
                      IF r = s THEN NoWait
                      ELSE IF blocked[r].at = s
                      THEN [at |-> None, msg |-> blocked[r].msg] ELSE blocked[r]]
    /\ LET full == {r \in Others(s) \ {s} : Full(r)}
           told == Others(s) \ (full \cup {s})
       IN  \E T \in IF full = {} THEN {told} ELSE SUBSET told,
              F \in IF full = {} THEN {{}} ELSE {{r} : r \in full} :
              /\ owed' = (owed \cup F) \ {s}
              /\ queue' = [r \in Streams |->
                              IF r = s THEN <<>>
                              ELSE IF r \in T /\ getters[r] = 0
                              THEN Append(queue[r], PeerList) ELSE queue[r]]
              /\ getters' = [r \in Streams |->
                              IF r = s THEN 0
                              ELSE IF r \in T /\ getters[r] > 0
                              THEN getters[r] - 1 ELSE getters[r]]
    /\ UNCHANGED <<clientVars>>

\* The finally clause that waited at the queue of s goes on.
LateNotice(s) ==
    /\ s \in owed /\ ~Full(s)
    /\ owed' = owed \ {s}
    /\ \E T \in SUBSET {tunnels[m] : m \in Registered} : Put(T \cup {s}, PeerList)
    /\ UNCHANGED <<clientVars, up, server, named, blocked, tunnels>>

\* cleanup_stale_tunnels: no heartbeat was handled for five minutes (a stream
\* that is never idle gets none to answer).  The stream goes on.
StaleCleanup(n) ==
    /\ n \in Registered
    /\ tunnels' = [tunnels EXCEPT ![n] = None]
    /\ UNCHANGED <<clientVars, up, server, named, blocked, queue, getters, owed>>

-----------------------------------------------------------------------------
Next ==
    \/ \E s \in Streams :
          \/ Connect(s) \/ Handle(s) \/ Unblock(s) \/ Deliver(s) \/ Idle(s)
          \/ ServerEnds(s) \/ LateNotice(s)
    \/ \E n \in Nodes : StreamDies(n) \/ Close(n) \/ StaleCleanup(n)
    \/ \E m \in Posts : SendMessage(m)

\* A waiting client reconnects after its back-off, a stream ends at its
\* deadline, and the server notices that an RPC is over.  A stream lives
\* longer than the way of its first message, not always but again and again.
Fairness ==
    /\ \A n \in Nodes :
          /\ WF_vars(\E s \in Streams :
                        Owner[s] = n /\ client[n] = "waiting" /\ Connect(s))
          /\ WF_vars(StreamDies(n))
    /\ \A s \in Streams :
          /\ SF_vars(HandleRegister(s))
          /\ WF_vars(cur[Owner[s]] # s /\ ServerEnds(s))

Spec == Init /\ [][Next]_vars /\ Fairness

-----------------------------------------------------------------------------
(* Correctness.                                                             *)

\* Types; queues keep their bound, and an abandoned get() waits only at an
\* empty queue.
TypeOK ==
    /\ client \in [Nodes -> {"off", "up", "waiting", "closed"}]
    /\ cur \in [Nodes -> Streams \cup {None}]
    /\ posted \subseteq Posts
    /\ up \in [Streams -> Seq(UpMessages)]
    /\ server \in [Streams -> BOOLEAN] /\ named \in [Streams -> BOOLEAN]
    /\ blocked \in [Streams -> Waits \cup {NoWait}]
    /\ queue \in [Streams -> Seq(DownMessages)]
    /\ \A s \in Streams : Len(queue[s]) <= QueueCap
    /\ getters \in [Streams -> 0 .. MaxIdle]
    /\ \A s \in Streams : getters[s] > 0 => queue[s] = <<>>
    /\ owed \subseteq Streams
    /\ tunnels \in [Nodes -> Streams \cup {None}]

\* A registered queue has a reader: whatever order old and new streams of a
\* node end, register and are cleaned up in, messages are not relayed into
\* the queue of a stream the server has finished with, nor to another node.
QueueHasReader ==
    \A n \in Registered :
        server[tunnels[n]] /\ named[tunnels[n]] /\ Owner[tunnels[n]] = n

\* A running client is registered again and again, although the server
\* refuses a REGISTER without an answer while it holds an older stream.
RegisteredAgain ==
    \A n \in Nodes : []<>(client[n] \in {"off", "closed"} \/ n \in Registered)

\* A client that was closed is gone from the server for good, although a
\* REGISTER of it may still be under way.
ClosedLeaves == \A n \in Nodes : <>[](client[n] = "closed" => n \notin Registered)
=============================================================================
