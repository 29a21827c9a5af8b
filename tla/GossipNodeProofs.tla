-------------------------- MODULE GossipNodeProofs --------------------------
(***************************************************************************)
(* Proofs about the life cycle of a GossipNode, for any budget, number of  *)
(* rounds and of tunnel clients, with and without manifest, fallback,      *)
(* Cyclon and telemetry.                                                   *)
(***************************************************************************)
EXTENDS GossipNode, TLAPS

Starting == {"ipv8", "peers", "cyclon", "abort", "connect"}
ShuttingDown == {"sdCancel", "sdCyclon", "sdIpv8", "sdTunnel", "sdTelemetry"}

NodeTypeOK ==
    /\ state \in States /\ running \in BOOLEAN /\ mode \in Modes
    /\ call \in {"idle"} \cup Starting \cup ShuttingDown
    /\ clients \in [Clients -> ClientStates] /\ client \in Clients \cup {NoClient}
    /\ connected \in BOOLEAN /\ cyclon \in BOOLEAN /\ telemetry \in BOOLEAN
    /\ isDown \in BOOLEAN

\* The node's own client is there and nobody has closed it.
HasClient == client # NoClient /\ clients[client] # "closed"

\* What start has achieved when it stands at each of its awaits; the node runs
\* only outside start and before shutdown has stopped it.
StartInv ==
    /\ running => call \in {"idle", "sdCancel"}
    /\ call \in {"peers", "cyclon"} => ipv8 = "up"
    /\ call = "connect" => mode = "TUNNEL_RELAY" /\ HasClient

\* What shutdown has released when it stands at each of its awaits, and that
\* nothing starts the node again before the next call.
ShutdownInv ==
    /\ call \in ShuttingDown => state \in {"INIT", "FAILED"}
    /\ call \in {"sdIpv8", "sdTunnel", "sdTelemetry"} => ~cyclon
    /\ call \in {"sdTunnel", "sdTelemetry"} => ipv8 = "off"
    /\ isDown => /\ call \notin Starting /\ ~running
                 /\ ipv8 = "off" /\ ~cyclon /\ ~telemetry
                 /\ state \in {"INIT", "FAILED"}

NodeInv == NodeTypeOK /\ StartInv /\ ShutdownInv /\ TransportMatchesMode

LEMMA NodeInit == Init => NodeInv
  BY NodeAssumption DEF Init, NodeInv, NodeTypeOK, StartInv, ShutdownInv, TransportMatchesMode,
         Starting, ShuttingDown, States, Modes, ClientStates

\* From where the marks of the state machine may be reached.
LEMMA Transitions ==
    ASSUME NEW s \in States
    PROVE  /\ Allowed[s] \subseteq States
           /\ "PEERS_DISCOVERED" \in Allowed[s] => s = "COMMUNITY_STARTED"
  BY DEF States, Allowed

LEMMA SwallowedTyped ==
    ASSUME NEW s \in States, NEW n \in States
    PROVE  Swallowed(s, n) \in States
  BY DEF Swallowed

-----------------------------------------------------------------------------
(* One step of start, of the clients, of the state machine, of stop and of   *)
(* shutdown.                                                                 *)

LEMMA StartKeeps ==
    ASSUME NodeInv, Start \/ StartStep
    PROVE  NodeInv'
  <1> USE DEF NodeInv, NodeTypeOK, StartInv, ShutdownInv, TransportMatchesMode, Starting,
              ShuttingDown
  <1>1. CASE Start
    BY <1>1 DEF Start, HasClient
  <1>2. CASE Ipv8Up
    BY <1>2 DEF Ipv8Up, HasClient
  <1>3. CASE Ipv8Fails
    BY <1>3 DEF Ipv8Fails, HasClient, net
  <1>4. ASSUME NEW some \in BOOLEAN, Discovered(some) PROVE NodeInv'
    BY <1>4 DEF Discovered, HasClient, net
  <1>5. ASSUME Started PROVE state' \in States /\ running' = TRUE /\ call' = "idle"
                             /\ telemetry' \in BOOLEAN
    <2>1. (IF state = "INIT" THEN "MANIFEST_RESOLVED" ELSE state) \in States
          /\ "COMMUNITY_STARTED" \in States
      BY DEF States
    <2>2. state' \in States
      BY <1>5, <2>1, SwallowedTyped DEF Started
    <2>3. QED BY <1>5, <2>2, NodeAssumption DEF Started
  <1>6. CASE StartedIpv8
    <2>1. Started
      BY <1>6 DEF StartedIpv8
    <2>2. cyclon' \in BOOLEAN
      BY <1>6 DEF StartedIpv8
    <2>3. QED BY <1>5, <1>6, <2>1, <2>2 DEF StartedIpv8, Modes
  <1>7. CASE Fall
    <2>1. CASE Fallback
      <3>1. PICK c \in Clients : clients' = [clients EXCEPT ![c] = "up"] /\ client' = c
        BY <1>7, <2>1 DEF Fall
      <3>2. clients' \in [Clients -> ClientStates] /\ clients'[c] = "up"
        BY <3>1 DEF ClientStates
      <3>3. HasClient'
        BY <3>1, <3>2, NodeAssumption DEF HasClient
      <3>4. QED BY <1>7, <2>1, <3>1, <3>2, <3>3 DEF Fall, Modes
    <2>2. CASE ~Fallback
      BY <1>7, <2>2 DEF Fall, HasClient, Ipv8Stopped
    <2>3. QED BY <2>1, <2>2
  <1>8. CASE StartedTunnel
    <2>1. Started
      BY <1>8 DEF StartedTunnel
    <2>2. QED BY <1>5, <1>8, <2>1 DEF StartedTunnel, HasClient, Modes
  <1>9. CASE ConnectFails
    <2>1. clients' \in [Clients -> ClientStates]
      BY <1>9 DEF ConnectFails, ClientStates
    <2>2. QED BY <1>9, <2>1 DEF ConnectFails
  <1>10. QED
    BY <1>1, <1>2, <1>3, <1>4, <1>6, <1>7, <1>8, <1>9 DEF StartStep

LEMMA ClientKeeps ==
    ASSUME NodeInv, NEW c \in Clients, StreamDies(c) \/ Reconnects(c)
    PROVE  NodeInv'
  <1>1. PICK s \in {"up", "down", "ended"} : clients' = [clients EXCEPT ![c] = s]
    BY DEF StreamDies, Reconnects
  <1>2. clients' \in [Clients -> ClientStates] /\ (HasClient => clients'[client] # "closed")
    BY <1>1 DEF NodeInv, NodeTypeOK, ClientStates, HasClient
  <1>3. /\ connected' \in BOOLEAN
        /\ UNCHANGED <<life, client, ipv8, cyclon, telemetry>>
    BY DEF StreamDies, Reconnects, NodeInv, NodeTypeOK
  <1>4. QED
    BY <1>2, <1>3 DEF NodeInv, NodeTypeOK, StartInv, ShutdownInv, TransportMatchesMode, life,
                      HasClient

LEMMA MarkKeeps ==
    ASSUME NodeInv, MarkFailed \/ MarkPeerDiscovered \/ BeginTraining
    PROVE  NodeInv'
  <1>1. state' \in States /\ (state \in {"INIT", "FAILED"} => state' = "FAILED")
    BY Transitions DEF MarkFailed, MarkPeerDiscovered, BeginTraining, NodeInv, NodeTypeOK, States
  <1>2. UNCHANGED <<running, mode, call, isDown, net>>
    BY DEF MarkFailed, MarkPeerDiscovered, BeginTraining
  <1>3. QED
    BY <1>1, <1>2 DEF NodeInv, NodeTypeOK, StartInv, ShutdownInv, TransportMatchesMode, net,
                      HasClient

LEMMA StopKeeps ==
    ASSUME NodeInv, Stop \/ Shutdown \/ ShutdownStep
    PROVE  NodeInv'
  <1> USE DEF NodeInv, NodeTypeOK, StartInv, ShutdownInv, TransportMatchesMode, Starting,
              ShuttingDown
  <1>1. CASE Stop
    BY <1>1 DEF Stop, StopFlags, HasClient
  <1>2. CASE Shutdown
    BY <1>2 DEF Shutdown, net, States
  <1>3. CASE ShutdownStops
    BY <1>3 DEF ShutdownStops, StopFlags
  <1>4. CASE ShutdownCyclon
    BY <1>4 DEF ShutdownCyclon
  <1>5. CASE ShutdownIpv8
    BY <1>5 DEF ShutdownIpv8, Ipv8Stopped
  <1>6. CASE ShutdownTunnel
    <2>1. clients' \in [Clients -> ClientStates]
      BY <1>6 DEF ShutdownTunnel, ClientStates
    <2>2. QED BY <1>6, <2>1 DEF ShutdownTunnel
  <1>7. CASE ShutdownDone
    BY <1>7 DEF ShutdownDone
  <1>8. QED
    BY <1>1, <1>2, <1>3, <1>4, <1>5, <1>6, <1>7 DEF ShutdownStep

\* The loop, and train but for its first step, touch none of it.
LEMMA LoopKeeps ==
    ASSUME NodeInv,
           \/ \E t \in {"run", "train"} : TaskStep(t)
           \/ Round \/ Converges \/ LoopEnds \/ RunReturns \/ StopRuns
           \/ TrainStep \/ TrainCancelled \/ UNCHANGED vars
    PROVE  NodeInv'
  <1>1. UNCHANGED <<life, net>>
    BY DEF TaskStep, Wire, Announced, Round, Converges, LoopEnds, RunReturns, StopRuns,
           TrainStep, Poll, Hook, TrainEnds, TrainCancelled, vars
  <1>2. QED
    BY <1>1 DEF NodeInv, NodeTypeOK, StartInv, ShutdownInv, TransportMatchesMode, life, net,
                HasClient

LEMMA CallKeeps ==
    ASSUME NodeInv, RunContinuous \/ Train
    PROVE  NodeInv'
  <1>1. UNCHANGED <<running, mode, call, net>> /\ isDown' = FALSE
    BY DEF RunContinuous, Train
  <1>2. state' \in States /\ (state \in {"INIT", "FAILED"} => state' = state)
    BY DEF RunContinuous, Train, NodeInv, NodeTypeOK, States
  <1>3. QED
    BY <1>1, <1>2 DEF NodeInv, NodeTypeOK, StartInv, ShutdownInv, TransportMatchesMode, net,
                      HasClient

LEMMA NodeStep == NodeInv /\ [Next]_vars => NodeInv'
  BY StartKeeps, ClientKeeps, MarkKeeps, StopKeeps, LoopKeeps, CallKeeps DEF Next

LEMMA NodeHolds == Spec => []NodeInv
  BY NodeInit, NodeStep, PTL DEF Spec

\* A node that says it runs has the transport its mode names, however start,
\* its fallback, stop, shutdown and the death of streams interleave.
THEOREM RunningHasTransport == Spec => []TransportMatchesMode
  <1>1. NodeInv => TransportMatchesMode
    BY DEF NodeInv
  <1>2. QED BY <1>1, NodeHolds, PTL

\* A shutdown that has completed has released IPv8, the shuffle task and
\* telemetry, from whichever await of start or from whichever state it came.
THEOREM ShutdownIsComplete == Spec => []ShutdownReleases
  <1>1. NodeInv => ShutdownReleases
    BY DEF NodeInv, ShutdownInv, ShutdownReleases
  <1>2. QED BY <1>1, NodeHolds, PTL
=============================================================================
