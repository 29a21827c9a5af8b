----------------------------- MODULE GossipNode -----------------------------
(***************************************************************************)
(* The life cycle of one GossipNode (network/gossip_node.py): start with   *)
(* its fallback from IPv8 to the tunnel, the learning loop under           *)
(* run_continuous and under train, stop, shutdown and a new start.  One    *)
(* task owns start and shutdown; the loop, the tunnel clients and the      *)
(* callers of stop and of the mark methods interleave with it at every     *)
(* await.  The IPv8 library and the transport of a tunnel client are       *)
(* environment: they come up, fail and recover as they like.               *)
(***************************************************************************)
EXTENDS Naturals

CONSTANTS
    HasManifest,    \* constructed with a manifest
    Fallback,       \* enable_fallback and a tunnel server is configured
    UseCyclon,      \* the topology is a CyclonTopology
    HasTelemetry,   \* a telemetry client is attached
    Budget,         \* rounds of train, capped by the manifest's round_limit
    MaxRound,       \* bound: rounds of the loop
    Clients,        \* bound: the tunnel clients that may be alive at a time
    NoClient        \* the node has made none

ASSUME NodeAssumption ==
    /\ {HasManifest, Fallback, UseCyclon, HasTelemetry} \subseteq BOOLEAN
    /\ Budget \in Nat \ {0} /\ MaxRound \in Nat /\ MaxRound >= Budget
    /\ NoClient \notin Clients

VARIABLES
    state,      \* self.state
    running,    \* self.running
    mode,       \* self.connection_mode
    ipv8,       \* the manager: "off", "half" (instance, not yet up), "up"
    clients,    \* the tunnel clients: what became of each
    client,     \* self.tunnel_client; the others that are alive are those the
                \* node has let go
    connected,  \* self._tunnel_connected
    call,       \* where the owner's start or shutdown is; "idle" outside them
    cyclon,     \* the shuffle task runs
    telemetry,  \* the telemetry client's heartbeat runs
    tasks,      \* the tasks of run_continuous ("run") and of train ("train")
    active,     \* the task inside aggregator.run_continuous
    aggRunning, \* aggregator.running
    stopTask,   \* gl_node.stop() is scheduled
    round,      \* aggregator.current_round
    train,      \* where train is: "off", "poll", "hook", "final"
    seen, upto, \* train's seen_round, and the round its hooks are called up to
    isDown      \* history: shutdown has completed and nothing was called since

net == <<ipv8, clients, client, connected, cyclon, telemetry>>
life == <<state, running, mode, call, isDown>>
loop == <<tasks, active, aggRunning, stopTask, round>>
trn == <<train, seen, upto>>
vars == <<net, life, loop, trn>>

States == {"INIT", "MANIFEST_RESOLVED", "COMMUNITY_STARTED",
           "PEERS_DISCOVERED", "TRAINING", "FAILED"}
Modes == {"IPV8_P2P", "TUNNEL_RELAY"}
ClientStates == {"none", "up", "down", "mute", "ended", "closed"}
Calls == {"idle", "ipv8", "peers", "cyclon", "abort", "connect",
          "sdCancel", "sdCyclon", "sdIpv8", "sdTunnel", "sdTelemetry"}

\* _ALLOWED_TRANSITIONS
Allowed ==
    [INIT |-> {"MANIFEST_RESOLVED", "FAILED"},
     MANIFEST_RESOLVED |-> {"COMMUNITY_STARTED", "FAILED", "INIT"},
     COMMUNITY_STARTED |-> {"PEERS_DISCOVERED", "FAILED", "INIT"},
     PEERS_DISCOVERED |-> {"TRAINING", "FAILED", "INIT"},
     TRAINING |-> {"FAILED", "INIT"},
     FAILED |-> {"INIT"}]

\* _transition where the caller swallows the exception of an illegal one
Swallowed(s, new) == IF new \in Allowed[s] THEN new ELSE s

Init ==
    /\ state = IF HasManifest THEN "MANIFEST_RESOLVED" ELSE "INIT"
    /\ running = FALSE /\ mode = "IPV8_P2P"
    /\ ipv8 = "off" /\ connected = FALSE
    /\ clients = [c \in Clients |-> "none"] /\ client = NoClient
    /\ call = "idle" /\ cyclon = FALSE /\ telemetry = FALSE
    /\ tasks = [run |-> "off", train |-> "off"]
    /\ active = "none" /\ aggRunning = FALSE /\ stopTask = FALSE /\ round = 0
    /\ train = "off" /\ seen = 0 /\ upto = 0
    /\ isDown = FALSE

-----------------------------------------------------------------------------
(* start *)

\* A node that runs returns at once, a failed one raises
Start ==
    /\ call = "idle" /\ ~running /\ state # "FAILED"
    /\ call' = "ipv8"
    /\ ipv8' = IF ipv8 = "up" THEN "up" ELSE "half"
    /\ isDown' = FALSE
    /\ UNCHANGED <<state, running, mode, clients, client, connected, cyclon,
                   telemetry, loop, trn>>

\* ipv8_manager.start returns: the instance and its community are up
Ipv8Up ==
    /\ call = "ipv8"
    /\ ipv8' = "up" /\ call' = "peers"
    /\ UNCHANGED <<state, running, mode, isDown, clients, client, connected,
                   cyclon, telemetry, loop, trn>>

\* It times out or raises, or the wiring after it raises
Ipv8Fails ==
    /\ call \in {"ipv8", "peers"}
    /\ call' = "abort"
    /\ UNCHANGED <<net, state, running, mode, isDown, loop, trn>>

\* The community is wired to the node; discovery waits for no peer
\* (min_peers = 0); none at all counts as failure where there is a fallback
Discovered(some) ==
    /\ call = "peers"
    /\ call' = IF ~some /\ Fallback THEN "abort" ELSE "cyclon"
    /\ UNCHANGED <<net, state, running, mode, isDown, loop, trn>>

\* The end of start: running, telemetry, and the state machine, whose illegal
\* transitions are swallowed
Started ==
    /\ running' = TRUE
    /\ telemetry' = HasTelemetry
    /\ state' = Swallowed(IF state = "INIT" THEN "MANIFEST_RESOLVED" ELSE state,
                          "COMMUNITY_STARTED")
    /\ call' = "idle"

StartedIpv8 ==
    /\ call = "cyclon"
    /\ mode' = "IPV8_P2P"
    /\ cyclon' = (cyclon \/ UseCyclon)
    /\ Started
    /\ UNCHANGED <<ipv8, clients, client, connected, isDown, loop, trn>>

\* Mutant: the manager stops only what has come up.
StoppedIfUp == IF ipv8 = "up" THEN "off" ELSE ipv8

\* IPv8Manager.stop: idempotent, and cleans up a half started instance
Ipv8Stopped == "off"

\* Its stream is there, or its _reconnect_loop runs
Alive(c) == clients[c] \in {"up", "down", "mute"}

\* The failed IPv8 is stopped; without fallback start raises, with it the node
\* makes a new client and connects it, in the place of one that is over
Fall ==
    /\ call = "abort"
    /\ ipv8' = Ipv8Stopped
    /\ IF Fallback
       THEN /\ mode' = "TUNNEL_RELAY" /\ call' = "connect"
            /\ \E c \in Clients :
                  /\ ~Alive(c)
                  /\ clients' = [clients EXCEPT ![c] = "up"]
                  /\ client' = c
       ELSE /\ call' = "idle"
            /\ UNCHANGED <<mode, clients, client>>
    /\ UNCHANGED <<state, running, isDown, connected, cyclon, telemetry, loop,
                   trn>>

\* _start_tunnel_fallback after connect: the flag, then the callbacks
StartedTunnel ==
    /\ call = "connect"
    /\ connected' = TRUE
    /\ Started
    /\ UNCHANGED <<mode, ipv8, clients, client, cyclon, isDown, loop, trn>>

\* connect raises and start with it: before its stream task was made (the
\* credentials), or after (REGISTER not queued), which leaves a stream that
\* nobody listens to
ConnectFails ==
    /\ call = "connect"
    /\ \E s \in {"ended", "mute"} :
          clients' = [clients EXCEPT ![client] = s]
    /\ call' = "idle"
    /\ UNCHANGED <<state, running, mode, isDown, ipv8, client, connected,
                   cyclon, telemetry, loop, trn>>

-----------------------------------------------------------------------------
(* Tunnel clients.  Their callbacks are closures over the node: the death of *)
(* any client that has them clears the node's flag.  The newest has none     *)
(* while the node still awaits its connect.                                  *)

StreamDies(c) ==
    /\ clients[c] = "up"
    /\ clients' = [clients EXCEPT ![c] = "down"]
    /\ connected' = (connected /\ call = "connect" /\ c = client)
    /\ UNCHANGED <<life, ipv8, client, cyclon, telemetry, loop, trn>>

\* _reconnect_loop: connected again by itself, or it gives up
Reconnects(c) ==
    /\ clients[c] = "down"
    /\ \E s \in {"up", "ended"} : clients' = [clients EXCEPT ![c] = s]
    /\ UNCHANGED <<life, ipv8, client, connected, cyclon, telemetry, loop, trn>>

-----------------------------------------------------------------------------
(* The methods of the state machine *)

MarkFailed ==
    /\ "FAILED" \in Allowed[state]
    /\ state' = "FAILED"
    /\ UNCHANGED <<running, mode, call, isDown, net, loop, trn>>

MarkPeerDiscovered ==
    /\ "PEERS_DISCOVERED" \in Allowed[state]
    /\ state' = "PEERS_DISCOVERED"
    /\ UNCHANGED <<running, mode, call, isDown, net, loop, trn>>

BeginTraining ==
    /\ state = "PEERS_DISCOVERED"
    /\ state' = "TRAINING"
    /\ UNCHANGED <<running, mode, call, isDown, net, loop, trn>>

-----------------------------------------------------------------------------
(* The learning loop, entered by run_continuous or by the task of train *)

RunContinuous ==
    /\ tasks.run = "off"
    /\ tasks' = [tasks EXCEPT !.run = "created"]
    /\ isDown' = FALSE
    /\ UNCHANGED <<state, running, mode, call, net, active, aggRunning,
                   stopTask, round, trn>>

\* aggregator.run_continuous: a second caller returns, the first one sets
\* running whatever it was
Enter(t) ==
    IF active # "none"
    THEN /\ tasks' = [tasks EXCEPT ![t] = "done"]
         /\ UNCHANGED <<active, aggRunning>>
    ELSE /\ tasks' = [tasks EXCEPT ![t] = "loop"]
         /\ active' = t
         /\ aggRunning' = TRUE

\* _wire_gl_continuous_loop: raises in a node that does not run; announces,
\* an await, in tunnel mode
Wire(t) ==
    /\ tasks[t] = "created"
    /\ IF running /\ mode = "IPV8_P2P"
       THEN Enter(t)
       ELSE /\ tasks' = [tasks EXCEPT ![t] = IF running THEN "announce" ELSE "done"]
            /\ UNCHANGED <<active, aggRunning>>
    /\ UNCHANGED <<life, net, stopTask, round, trn>>

Announced(t) ==
    /\ tasks[t] = "announce"
    /\ Enter(t)
    /\ UNCHANGED <<life, net, stopTask, round, trn>>

Round ==
    /\ active # "none" /\ aggRunning
    /\ round < MaxRound
    /\ round' = round + 1
    /\ UNCHANGED <<life, net, tasks, active, aggRunning, stopTask, trn>>

\* Convergence and too many errors end the loop from inside
Converges ==
    /\ active # "none" /\ aggRunning
    /\ aggRunning' = FALSE
    /\ UNCHANGED <<life, net, tasks, active, stopTask, round, trn>>

\* The task leaves the loop, its finally block included
Leave(t) ==
    /\ tasks' = [tasks EXCEPT ![t] = "done"]
    /\ active' = IF active = t THEN "none" ELSE active
    /\ aggRunning' = (active # t /\ aggRunning)

LoopEnds ==
    /\ active # "none" /\ ~aggRunning
    /\ Leave(active)
    /\ UNCHANGED <<life, net, stopTask, round, trn>>

\* The call of run_continuous returns; _run_task is cleared
RunReturns ==
    /\ tasks.run = "done"
    /\ tasks' = [tasks EXCEPT !.run = "off"]
    /\ UNCHANGED <<life, net, active, aggRunning, stopTask, round, trn>>

\* The scheduled gl_node.stop()
StopRuns ==
    /\ stopTask
    /\ stopTask' = FALSE /\ aggRunning' = FALSE
    /\ UNCHANGED <<life, net, tasks, active, round, trn>>

-----------------------------------------------------------------------------
(* train *)

Train ==
    /\ train = "off"
    /\ train' = "poll"
    /\ state' = IF state \in {"COMMUNITY_STARTED", "PEERS_DISCOVERED"}
                THEN "TRAINING" ELSE state
    /\ tasks' = [tasks EXCEPT !.train = "created"]
    /\ isDown' = FALSE
    /\ UNCHANGED <<running, mode, call, net, active, aggRunning, stopTask,
                   round, seen, upto>>

\* Mutant: the loop is told to stop only when the budget is crossed, so a
\* run_continuous that starts after that sets running again for good.
OverBudgetOnce(before, now) == before < Budget /\ now >= Budget

\* seen_round >= rounds, looked at on every poll
OverBudget(before, now) == now >= Budget

\* The part of a poll after the hooks: the budget, a stop_condition that says
\* so, then the task
Polled(s, says) ==
    /\ seen' = s /\ upto' = 0
    /\ aggRunning' = (aggRunning /\ ~OverBudget(seen, s) /\ ~says)
    /\ train' = IF tasks.train = "done" THEN "final" ELSE "poll"

\* One turn of the loop; with a new round it awaits on_round_end first
Poll ==
    /\ train = "poll"
    /\ IF round > seen
       THEN /\ train' = "hook" /\ upto' = round
            /\ UNCHANGED <<seen, aggRunning>>
       ELSE Polled(seen, FALSE)
    /\ UNCHANGED <<life, net, tasks, active, stopTask, round>>

Hook(says) ==
    /\ train = "hook"
    /\ Polled(upto, says)
    /\ UNCHANGED <<life, net, tasks, active, stopTask, round>>

\* The caller of train is cancelled: its finally block runs
TrainCancelled ==
    /\ train \in {"poll", "hook"}
    /\ train' = "final" /\ aggRunning' = FALSE
    /\ seen' = 0 /\ upto' = 0
    /\ UNCHANGED <<life, net, tasks, active, stopTask, round>>

\* The finally block: the task is over, or is cancelled after the grace time
TrainEnds ==
    /\ train = "final"
    /\ IF tasks.train = "done"
       THEN aggRunning' = FALSE /\ UNCHANGED active
       ELSE /\ active' = IF active = "train" THEN "none" ELSE active
            /\ aggRunning' = FALSE
    /\ tasks' = [tasks EXCEPT !.train = "off"]
    /\ train' = "off" /\ seen' = 0 /\ upto' = 0
    /\ UNCHANGED <<life, net, stopTask, round>>

-----------------------------------------------------------------------------
(* stop and shutdown *)

\* Mutant: stop leaves the node marked as running.
StopFlagsKept == running /\ UNCHANGED running

\* What stop changes in a node that runs
StopFlags == running /\ running' = FALSE

Stop ==
    /\ StopFlags
    /\ stopTask' = TRUE /\ telemetry' = FALSE
    /\ UNCHANGED <<state, mode, call, isDown, ipv8, clients, client, connected,
                   cyclon, tasks, active, aggRunning, round, trn>>

\* The state machine goes back first; a tracked loop is cancelled and awaited
Shutdown ==
    /\ call = "idle"
    /\ state' = "INIT"
    /\ call' = "sdCancel"
    /\ UNCHANGED <<running, mode, isDown, net, loop, trn>>

\* After the await of _run_task, stop()
ShutdownStops ==
    /\ call = "sdCancel"
    /\ IF tasks.run = "loop"
       THEN Leave("run")
       ELSE UNCHANGED <<tasks, active, aggRunning>>
    /\ IF running
       THEN StopFlags /\ stopTask' = TRUE /\ telemetry' = FALSE
       ELSE UNCHANGED <<running, stopTask, telemetry>>
    /\ call' = "sdCyclon"
    /\ UNCHANGED <<state, mode, isDown, ipv8, clients, client, connected,
                   cyclon, round, trn>>

ShutdownCyclon ==
    /\ call = "sdCyclon"
    /\ cyclon' = FALSE
    /\ call' = "sdIpv8"
    /\ UNCHANGED <<state, running, mode, isDown, ipv8, clients, client,
                   connected, telemetry, loop, trn>>

ShutdownIpv8 ==
    /\ call = "sdIpv8"
    /\ ipv8' = Ipv8Stopped
    /\ call' = "sdTunnel"
    /\ UNCHANGED <<state, running, mode, isDown, clients, client, connected,
                   cyclon, telemetry, loop, trn>>

\* The client is closed only when the node believes it is connected
ShutdownTunnel ==
    /\ call = "sdTunnel"
    /\ clients' = IF client # NoClient /\ connected
                  THEN [clients EXCEPT ![client] = "closed"] ELSE clients
    /\ call' = "sdTelemetry"
    /\ UNCHANGED <<state, running, mode, isDown, ipv8, client, connected,
                   cyclon, telemetry, loop, trn>>

ShutdownDone ==
    /\ call = "sdTelemetry"
    /\ telemetry' = FALSE
    /\ call' = "idle" /\ isDown' = TRUE
    /\ UNCHANGED <<state, running, mode, ipv8, clients, client, connected,
                   cyclon, loop, trn>>

-----------------------------------------------------------------------------
StartStep == Ipv8Up \/ Ipv8Fails \/ (\E s \in BOOLEAN : Discovered(s))
             \/ StartedIpv8 \/ Fall \/ StartedTunnel \/ ConnectFails
ShutdownStep == ShutdownStops \/ ShutdownCyclon \/ ShutdownIpv8
                \/ ShutdownTunnel \/ ShutdownDone
TaskStep(t) == Wire(t) \/ Announced(t)
TrainStep == Poll \/ (\E s \in BOOLEAN : Hook(s)) \/ TrainEnds

Next ==
    \/ Start \/ StartStep \/ Stop \/ Shutdown \/ ShutdownStep
    \/ \E c \in Clients : StreamDies(c) \/ Reconnects(c)
    \/ MarkFailed \/ MarkPeerDiscovered \/ BeginTraining
    \/ RunContinuous \/ \E t \in {"run", "train"} : TaskStep(t)
    \/ Round \/ Converges \/ LoopEnds \/ RunReturns \/ StopRuns
    \/ Train \/ TrainStep \/ TrainCancelled

Spec == Init /\ [][Next]_vars

\* The event loop runs every task that is ready; the environment and the
\* callers owe nothing.
Fairness ==
    /\ WF_vars(StartStep) /\ WF_vars(ShutdownStep) /\ WF_vars(TrainStep)
    /\ \A t \in {"run", "train"} : WF_vars(TaskStep(t))
    /\ WF_vars(Round) /\ WF_vars(LoopEnds) /\ WF_vars(StopRuns) /\ WF_vars(RunReturns)

FairSpec == Spec /\ Fairness

-----------------------------------------------------------------------------
\* A node that says it runs has the transport its connection mode names: IPv8
\* up in P2P mode, in tunnel mode a client that nobody has closed (start,
\* _try_start_ipv8_with_timeout, stop, shutdown).
TransportMatchesMode ==
    running => IF mode = "IPV8_P2P" THEN ipv8 = "up"
               ELSE client # NoClient /\ clients[client] # "closed"

\* When shutdown has completed and nobody has called the node since, IPv8, the
\* shuffle task and telemetry are gone and the node does not run, however the
\* start before it went (shutdown, _try_start_ipv8_with_timeout).
ShutdownReleases ==
    isDown => /\ ~running /\ ipv8 = "off" /\ ~cyclon /\ ~telemetry
              /\ state \in {"INIT", "MANIFEST_RESOLVED", "FAILED"}

\* train returns, whatever stops, cancellations, other loops, shutdowns and
\* earlier calls of train it meets (train).
TrainReturns == train # "off" ~> train = "off"
=============================================================================
