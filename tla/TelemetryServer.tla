--------------------------- MODULE TelemetryServer ---------------------------
(***************************************************************************)
(* The telemetry service: the in-memory store of node reports              *)
(* (telemetry/store.py), the live stream of dashboard updates (stream.py   *)
(* and the websocket handler of server.py), the ingest tokens of a swarm   *)
(* (tokens.py) and the dashboard login codes (viewer.py).                  *)
(*                                                                         *)
(* A report keeps the node, the kind, the round, the peers it names and    *)
(* the swarm of the token it came with.  Counters and texts are dropped.   *)
(* The messages one report broadcasts are published without a suspension   *)
(* point between them and are one numbered message here.  Reports carry    *)
(* the clock of the node that sent them, so which entry is "oldest" when a *)
(* table is full is any of them.                                           *)
(***************************************************************************)
EXTENDS Naturals, Sequences, FiniteSets, FiniteSetsExt

CONSTANTS
    Nodes, Swarms,    \* node ids and swarm ids
    Viewers,          \* dashboard connections
    MaxNodes,         \* max_nodes
    MaxEvents,        \* max_events_per_node
    MaxRounds,        \* max_rounds_per_node
    MaxEdges,         \* max_edges
    QueueCap,         \* maxsize of a subscriber's queue (100 in the code)
    MaxCrashes        \* bound: deaths of the server process

ASSUME ServerAssumption ==
    /\ {MaxNodes, MaxEvents, MaxRounds, MaxEdges, QueueCap} \subseteq Nat \ {0}
    /\ MaxCrashes \in Nat
    /\ "none" \notin Swarms

NoSwarm == "none"

\* What the store looks at of a report
Reports == [node : Nodes, kind : STRING, swarm : Swarms, peers : SUBSET Nodes, round : Nat]

VARIABLES
    up,          \* the server process runs
    known,       \* keys of _nodes
    swarmOf,     \* NodeSnapshot.swarm_id
    swarmNodes,  \* _swarm_nodes
    peers,       \* NodeSnapshot.peer_ids
    events,      \* _events: kinds, oldest first
    rounds,      \* _rounds: round numbers
    edges,       \* keys of _edges: <<source, target, type>>
    pub,         \* number of the newest message published
    stream,      \* per viewer: the websocket and its queue
    code,        \* a dashboard login code and the viewer token it is worth
    registry,    \* TelemetryTokenRegistry._records: swarms with a token
    file,        \* the token file
    issued,      \* history: swarms that were given a token
    torn,        \* history: the server died while it rewrote the token file
    crashes

tables  == <<known, swarmOf, swarmNodes, peers, events, rounds, edges>>
tokens  == <<registry, file, issued, torn, crashes>>
serverVars == <<up, tables, pub, stream, code, tokens>>

Closed  == QueueCap + 2  \* the stream_closed message

\* Messages are numbered modulo more than a queue can hold: a gap shows
After(m) == (m + 1) % (QueueCap + 2)

NotOpen == [ws |-> FALSE, sub |-> FALSE, q |-> <<>>, got |-> 0]

EmptyTables ==
    /\ known = {}
    /\ swarmOf = [n \in Nodes |-> NoSwarm]
    /\ swarmNodes = [s \in Swarms |-> {}]
    /\ peers = [n \in Nodes |-> {}]
    /\ events = [n \in Nodes |-> <<>>]
    /\ rounds = [n \in Nodes |-> {}]
    /\ edges = {}

ServerInit ==
    /\ up = TRUE
    /\ EmptyTables
    /\ pub = 0
    /\ stream = [v \in Viewers |-> NotOpen]
    /\ code = "none"
    /\ registry = {} /\ file = {} /\ issued = {} /\ torn = FALSE /\ crashes = 0

-----------------------------------------------------------------------------
(* TelemetryStore *)

\* _prune_nodes_if_needed: nodes dropped to make room for n
Dropped(n) ==
    IF n \in known \/ Cardinality(known) < MaxNodes THEN {{}}
    ELSE {D \in SUBSET known : Cardinality(D) = Cardinality(known) - MaxNodes + 1}

\* Mutant: a dropped node stays listed under its swarm.
UnlistNone(D, s) == swarmNodes[s]

\* _drop_node: the swarm index ...
Unlist(D, s) == swarmNodes[s] \ {d \in D : swarmOf[d] = s}

\* ... and every edge the node is an end of
EdgesWithout(D) == {e \in edges : e[1] \notin D /\ e[2] \notin D}

\* _update_node_swarm_state: heartbeats and node.started carry the swarm
Joins(rep) == rep.kind \in {"heartbeat", "node.started"}

SwarmAfter(rep, D, n) ==
    IF n \in D THEN NoSwarm
    ELSE IF n = rep.node /\ Joins(rep) THEN rep.swarm ELSE swarmOf[n]

ListedAfter(rep, D, s) ==
    LET left == Unlist(D, s)
    IN  IF ~Joins(rep) THEN left
        ELSE IF s = rep.swarm THEN left \cup {rep.node} ELSE left \ {rep.node}

\* _events, cut to the newest max_events_per_node
EventsAfter(rep, D, n) ==
    IF n \in D THEN <<>>
    ELSE IF n # rep.node \/ rep.kind = "heartbeat" THEN events[n]
    ELSE LET all == Append(events[n], rep.kind)
         IN  IF Len(all) > MaxEvents THEN Tail(all) ELSE all

\* _round_summary_for with _prune_rounds_if_needed: the lowest round goes
WithRound(R, r) ==
    IF r \in R \/ Cardinality(R) < MaxRounds THEN R \cup {r}
    ELSE (R \ {Min(R)}) \cup {r}

RoundsAfter(rep, D, n) ==
    IF n \in D THEN {}
    ELSE IF n # rep.node \/ rep.round = 0 THEN rounds[n]
    ELSE WithRound(rounds[n], rep.round)

\* peer_ids: replaced by a heartbeat, kept up by discovery and disconnection
PeersAfter(rep, D, n) ==
    IF n \in D THEN {}
    ELSE IF n # rep.node THEN peers[n]
    ELSE CASE rep.kind = "heartbeat"         -> rep.peers
           [] rep.kind = "peer_discovered"   -> peers[n] \cup rep.peers
           [] rep.kind = "peer_disconnected" -> peers[n] \ rep.peers
           [] OTHER                          -> peers[n]

\* The edges an event touches (ingest_event, the branches by type)
Touched(rep, D) ==
    CASE rep.kind = "model_sent"      -> {<<rep.node, p, "transfer">> : p \in rep.peers}
      [] rep.kind = "model_received"  -> {<<p, rep.node, "transfer">> : p \in rep.peers}
      [] rep.kind = "peer_discovered" -> {<<rep.node, p, "link">> : p \in rep.peers}
      [] rep.kind = "peer_disconnected" ->
            {<<rep.node, p, "link">> : p \in rep.peers \cap
                (IF rep.node \in D THEN {} ELSE peers[rep.node])}
      [] OTHER -> {}

\* _touch_edge with _prune_edges_if_needed for each of them in turn: the last
\* one touched is there, and pruning stops at max_edges.
EdgeTables(E, T) ==
    IF Cardinality(E \cup T) <= MaxEdges THEN {E \cup T}
    ELSE {R \in SUBSET (E \cup T) : Cardinality(R) = MaxEdges /\ R \cap T # {}}

-----------------------------------------------------------------------------
(* TelemetryStreamHub.publish: a full queue is emptied, told that the stream *)
(* is closed, and its subscriber forgotten.                                  *)

\* Mutant: a full queue loses its oldest message and stays subscribed.
PushDropOldest(c, m) == [c EXCEPT !.q = Append(Tail(@), m)]

PushFull(c, m) == [c EXCEPT !.q = <<Closed>>, !.sub = FALSE]

Push(c, m) ==
    IF ~c.sub THEN c
    ELSE IF Len(c.q) < QueueCap THEN [c EXCEPT !.q = Append(@, m)]
    ELSE PushFull(c, m)

Publish ==
    /\ pub' = After(pub)
    /\ stream' = [v \in Viewers |-> Push(stream[v], pub')]

\* ingest_event and ingest_heartbeat with their routes: the token names the
\* swarm, the store is changed, the updates are published.
Accepts(rep) == up /\ rep.swarm \in registry

Ingest(rep) ==
    /\ \E D \in Dropped(rep.node) :
          /\ known' = (known \ D) \cup {rep.node}
          /\ swarmOf' = [n \in Nodes |-> SwarmAfter(rep, D, n)]
          /\ swarmNodes' = [s \in Swarms |-> ListedAfter(rep, D, s)]
          /\ peers' = [n \in Nodes |-> PeersAfter(rep, D, n)]
          /\ events' = [n \in Nodes |-> EventsAfter(rep, D, n)]
          /\ rounds' = [n \in Nodes |-> RoundsAfter(rep, D, n)]
          /\ edges' \in EdgeTables(EdgesWithout(D), Touched(rep, D))
    /\ Publish
    /\ UNCHANGED <<up, code, tokens>>

-----------------------------------------------------------------------------
(* Tokens, login and dashboard connections *)

\* Mutant: the new token is not written out.
FileKept(S) == file

\* persist: the whole registry is written
FileAfter(S) == S

\* enroll_swarm: create_token records the token and persists the registry
Enroll(s) ==
    /\ up /\ s \notin registry
    /\ registry' = registry \cup {s}
    /\ file' = FileAfter(registry \cup {s})
    /\ issued' = issued \cup {s}
    /\ UNCHANGED <<up, tables, pub, stream, code, torn, crashes>>

\* create_dashboard_code, its expiry, login_dashboard (a code is redeemed once
\* and before it expires) and the expiry of the viewer token
CreateCode ==
    /\ up /\ registry # {} /\ code = "none"
    /\ code' = "issued"
    /\ UNCHANGED <<up, tables, pub, stream, tokens>>

RedeemCode ==
    /\ up /\ code = "issued"
    /\ code' = "viewer"
    /\ UNCHANGED <<up, tables, pub, stream, tokens>>

AccessExpires ==
    /\ code \in {"issued", "viewer"}
    /\ code' = "none"
    /\ UNCHANGED <<up, tables, pub, stream, tokens>>

\* telemetry_stream: accepted with a valid viewer token, then subscribed
OpenStream(v) ==
    /\ up /\ code = "viewer" /\ ~stream[v].ws
    /\ stream' = [stream EXCEPT ![v] =
                    [ws |-> TRUE, sub |-> TRUE, q |-> <<>>, got |-> pub]]
    /\ UNCHANGED <<up, tables, pub, code, tokens>>

\* One turn of its loop: a message is sent on, the closing message ends it
Taken(c) ==
    IF Head(c.q) = Closed THEN NotOpen ELSE [c EXCEPT !.got = Head(c.q), !.q = Tail(c.q)]

StreamStep(v) ==
    /\ up /\ stream[v].ws /\ stream[v].q # <<>>
    /\ stream' = [stream EXCEPT ![v] = Taken(@)]
    /\ UNCHANGED <<up, tables, pub, code, tokens>>

\* The browser goes away: the finally clause unsubscribes and drains the queue
CloseStream(v) ==
    /\ stream[v].ws
    /\ stream' = [stream EXCEPT ![v] = NotOpen]
    /\ UNCHANGED <<up, tables, pub, code, tokens>>

-----------------------------------------------------------------------------
(* The process.  Everything but the token file is in memory; write_text      *)
(* truncates before it writes, and an empty file loads as an empty registry. *)

Gone ==
    /\ up' = FALSE
    /\ stream' = [v \in Viewers |-> NotOpen]
    /\ code' = "none"
    /\ crashes' = crashes + 1
    /\ known' = {}
    /\ swarmOf' = [n \in Nodes |-> NoSwarm]
    /\ swarmNodes' = [s \in Swarms |-> {}]
    /\ peers' = [n \in Nodes |-> {}]
    /\ events' = [n \in Nodes |-> <<>>]
    /\ rounds' = [n \in Nodes |-> {}]
    /\ edges' = {}
    /\ registry' = {}

ServerDies ==
    /\ up /\ crashes < MaxCrashes
    /\ Gone
    /\ UNCHANGED <<pub, file, issued, torn>>

DiesInPersist ==
    /\ up /\ crashes < MaxCrashes
    /\ Swarms \ registry # {}
    /\ Gone
    /\ file' = {} /\ torn' = TRUE
    /\ UNCHANGED <<pub, issued>>

ServerStarts ==
    /\ ~up
    /\ up' = TRUE
    /\ registry' = file
    /\ UNCHANGED <<tables, pub, stream, code, file, issued, torn, crashes>>

ServerStep ==
    \/ \E s \in Swarms : Enroll(s)
    \/ CreateCode \/ RedeemCode \/ AccessExpires
    \/ \E v \in Viewers : OpenStream(v) \/ StreamStep(v) \/ CloseStream(v)
    \/ ServerDies \/ DiesInPersist \/ ServerStarts

-----------------------------------------------------------------------------
(* What a dashboard is shown *)

\* get_swarms: the number of peers comes from the index; a swarm that has lost
\* its nodes stays listed with none, as one not heard of yet is here
GetSwarms == {<<s, Cardinality(swarmNodes[s])>> : s \in Swarms}

\* get_dashboard_snapshot with get_nodes, get_events, get_rounds, get_network_stats
GetDashboardSnapshot ==
    [nodes  |-> known,
     events |-> {n \in Nodes : events[n] # <<>>},
     rounds |-> {n \in Nodes : rounds[n] # {}},
     edges  |-> edges,
     swarms |-> GetSwarms]

-----------------------------------------------------------------------------
(* Properties *)

\* Type correctness and the limits of the store's tables and of the queues:
\* max_nodes, max_events_per_node, max_rounds_per_node, max_edges, maxsize.
ServerTypeOK ==
    /\ up \in BOOLEAN
    /\ known \subseteq Nodes /\ Cardinality(known) <= MaxNodes
    /\ swarmOf \in [Nodes -> Swarms \cup {NoSwarm}]
    /\ swarmNodes \in [Swarms -> SUBSET Nodes]
    /\ peers \in [Nodes -> SUBSET Nodes]
    /\ \A n \in Nodes : /\ Len(events[n]) <= MaxEvents
                        /\ Cardinality(rounds[n]) <= MaxRounds
    /\ edges \subseteq Nodes \X Nodes \X {"transfer", "link"}
    /\ Cardinality(edges) <= MaxEdges
    /\ pub \in 0 .. QueueCap + 1
    /\ \A v \in Viewers : Len(stream[v].q) <= QueueCap
    /\ code \in {"none", "issued", "viewer"}
    /\ registry \subseteq Swarms /\ file \subseteq Swarms /\ issued \subseteq Swarms
    /\ torn \in BOOLEAN /\ crashes \in 0 .. MaxCrashes

\* However nodes are evicted, re-created and move between swarms, the tables
\* keep to their limits, and a dashboard is shown one picture: the index
\* _swarm_nodes and the nodes' own swarm agree, so that get_swarms counts each
\* node once, no event or round of an evicted node is left, and every edge has
\* an end among the nodes.
StoreConsistent ==
    /\ ServerTypeOK
    /\ \A s \in Swarms : swarmNodes[s] = {n \in known : swarmOf[n] = s}
    /\ LET view == GetDashboardSnapshot IN
       /\ \A s \in view.swarms : s[2] = Cardinality({n \in view.nodes : swarmOf[n] = s[1]})
       /\ view.events \cup view.rounds \subseteq view.nodes
       /\ \A e \in view.edges : {e[1], e[2]} \cap view.nodes # {}

\* A dashboard stream has no gap: as long as the websocket is open it is sent
\* every message published since it subscribed, in order; a slow viewer is
\* disconnected instead of skipping some.
StreamHasNoGap ==
    [][\A v \in Viewers :
          stream[v].ws /\ stream'[v].ws /\ stream'[v].got # stream[v].got
             => stream'[v].got = After(stream[v].got)]_serverVars

\* A token that was handed out keeps resolving over restarts of the server,
\* unless the process died inside persist, which rewrites the file in place.
TokensSurvive == up /\ ~torn => issued \subseteq registry
=============================================================================
