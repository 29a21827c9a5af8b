--------------------------- MODULE TelemetryClient ---------------------------
(***************************************************************************)
(* The telemetry client of one node (telemetry/client.py) fed by the       *)
(* node's event emitter (observability/events.py), composed with the       *)
(* server it reports to.  Every event is a task that waits for the         *)
(* delivery lock; its holder first tries to flush the pending queue, then  *)
(* to deliver its own item, each with a bounded number of attempts, and    *)
(* queues the item when it cannot.  A request may be refused, lost, or     *)
(* processed with the answer lost.                                         *)
(***************************************************************************)
EXTENDS TelemetryServer, SequencesExt

CONSTANTS
    Self, MySwarm,   \* the client's node and the swarm of its token
    Peers,           \* peers its events name
    EventKinds,      \* kinds of runtime events its node emits
    OtherReports,    \* reports other nodes may deliver
    MaxEmit,         \* bound: items numbered apart
    MaxOther,        \* bound: reports of other nodes
    MaxWaiting,      \* bound: tasks waiting for the lock when a new one starts
    MaxPending,      \* max_pending_items
    MaxAttempts      \* max_delivery_attempts

ASSUME ClientAssumption ==
    /\ Self \in Nodes /\ MySwarm \in Swarms /\ Peers \subseteq Nodes
    /\ EventKinds \cup {"heartbeat", "telemetry.events_dropped"} \subseteq STRING
    /\ OtherReports \subseteq Reports
    /\ {MaxEmit, MaxPending, MaxAttempts, MaxWaiting} \subseteq Nat \ {0} /\ MaxOther \in Nat

VARIABLES
    waiters,    \* items whose task waits for _delivery_lock, in order
    cur,        \* the item of the task that holds it
    stage,      \* "flush": delivering the head of pending; "own": its item
    attempt,    \* attempts of _deliver_with_retry so far
    pending,    \* _pending_deliveries
    hb,         \* the heartbeat loop: "off", "sleeping", "sending"
    emitted,    \* items numbered so far
    others,     \* reports of other nodes so far
    last,       \* history: number of the newest item the server has stored
    poisoned    \* history: telemetry.events_dropped was emitted

clientVars == <<waiters, cur, stage, attempt, pending, hb, emitted, poisoned>>
vars == <<serverVars, clientVars, others, last>>

NoItem == [id |-> 0, kind |-> "none"]
NextId == IF emitted < MaxEmit THEN emitted + 1 ELSE MaxEmit
Item(k) == [id |-> NextId, kind |-> k]

\* _serialize_event and _serialize_heartbeat, as far as the store looks at them
Report(i) ==
    [node |-> Self, kind |-> i.kind, swarm |-> MySwarm, peers |-> Peers,
     round |-> IF i.kind \in {"heartbeat", "node.started"} THEN 0 ELSE i.id]

\* The payload of telemetry.events_dropped has no node_id: the server answers
\* every such report with 422 (validate_payload, _require_non_empty_node_id).
Valid(i) == i.kind # "telemetry.events_dropped"

Init ==
    /\ ServerInit
    /\ waiters = <<>> /\ cur = NoItem /\ stage = "own" /\ attempt = 0
    /\ pending = <<>> /\ hb = "off" /\ emitted = 0 /\ others = 0
    /\ last = 0 /\ poisoned = FALSE

-----------------------------------------------------------------------------
(* Sources of items *)

\* EventEmitter.emit calls handle, which spawns the send_event task
Emit(k) ==
    /\ emitted < MaxEmit /\ Len(waiters) < MaxWaiting
    /\ emitted' = NextId
    /\ waiters' = Append(waiters, Item(k))
    /\ UNCHANGED <<serverVars, cur, stage, attempt, pending, hb, others, last,
                   poisoned>>

\* One turn of _heartbeat_loop; while its item is on the way it does not loop
Heartbeat ==
    /\ hb = "sleeping" /\ Len(waiters) < MaxWaiting
    /\ hb' = "sending"
    /\ emitted' = NextId
    /\ waiters' = Append(waiters, Item("heartbeat"))
    /\ UNCHANGED <<serverVars, cur, stage, attempt, pending, others, last,
                   poisoned>>

\* start
Start ==
    /\ hb = "off"
    /\ hb' = "sleeping"
    /\ UNCHANGED <<serverVars, waiters, cur, stage, attempt, pending, emitted,
                   others, last, poisoned>>

IsEvent(i) == i.kind # "heartbeat"
IsHeartbeat(i) == ~IsEvent(i)

\* pause cancels the heartbeat task wherever it is; a lock it holds is released
\* and what it was delivering stays where it was
Pause ==
    /\ hb # "off"
    /\ hb' = "off"
    /\ waiters' = RemoveFirstMatch(waiters, IsHeartbeat)
    /\ cur' = IF IsEvent(cur) THEN cur ELSE NoItem
    /\ UNCHANGED <<serverVars, stage, attempt, pending, emitted, others, last,
                   poisoned>>

\* stop cancels every background task; the queue stays for a later start
Stop ==
    /\ hb # "off" \/ waiters # <<>> \/ cur # NoItem
    /\ hb' = "off" /\ waiters' = <<>> /\ cur' = NoItem
    /\ UNCHANGED <<serverVars, stage, attempt, pending, emitted, others, last,
                   poisoned>>

-----------------------------------------------------------------------------
(* _send_serialized under the delivery lock *)

Acquire ==
    /\ cur = NoItem /\ waiters # <<>>
    /\ cur' = Head(waiters)
    /\ waiters' = Tail(waiters)
    /\ stage' = IF pending = <<>> THEN "own" ELSE "flush"
    /\ attempt' = 0
    /\ UNCHANGED <<serverVars, pending, hb, emitted, others, last, poisoned>>

\* What the current attempt delivers
Target == IF stage = "flush" THEN Head(pending) ELSE cur

\* The task ends and releases the lock; the heartbeat loop goes to sleep
Done ==
    /\ cur' = NoItem
    /\ hb' = IF IsEvent(cur) THEN hb ELSE "sleeping"

\* Mutant: the head of the queue is delivered and left there.
HeadKept(p) == p

\* popleft after a delivered head
HeadPopped(p) == Tail(p)

\* 202: _record_delivery_success; go on with the queue, then with the own item
DeliverOk ==
    /\ cur # NoItem
    /\ Valid(Target) /\ Accepts(Report(Target))
    /\ Ingest(Report(Target))
    /\ last' = Target.id
    /\ IF stage = "own"
       THEN Done /\ UNCHANGED <<pending, stage>>
       ELSE /\ pending' = HeadPopped(pending)
            /\ stage' = IF pending' = <<>> THEN "own" ELSE "flush"
            /\ UNCHANGED <<cur, hb>>
    /\ attempt' = 0
    /\ UNCHANGED <<waiters, emitted, others, poisoned>>

\* Mutant: an item that finds a backlog is put at its head.
QueuedFirst(p, i) == <<i>> \o (IF Len(p) >= MaxPending THEN Front(p) ELSE p)

\* _enqueue_delivery: at the limit the oldest item goes
Queued(p, i) == Append(IF Len(p) >= MaxPending THEN Tail(p) ELSE p, i)

\* telemetry.events_dropped reaches handle() through the emitter like any other
\* event and becomes an item of its own
GiveUp ==
    /\ pending' = Queued(pending, cur)
    /\ IF Len(pending) >= MaxPending
       THEN /\ waiters' = Append(waiters, Item("telemetry.events_dropped"))
            /\ emitted' = NextId
            /\ poisoned' = TRUE
       ELSE UNCHANGED <<waiters, emitted, poisoned>>
    /\ Done

LastAttempt == attempt + 1 >= MaxAttempts

\* An attempt fails: refused (4xx, 5xx, rate limit), no connection, or the
\* request was stored and only its answer is lost
DeliverFails ==
    /\ cur # NoItem
    /\ \/ UNCHANGED <<serverVars, last>>
       \/ /\ Valid(Target) /\ Accepts(Report(Target))
          /\ Ingest(Report(Target))
          /\ last' = Target.id
    /\ IF LastAttempt
       THEN GiveUp /\ attempt' = 0
       ELSE /\ attempt' = attempt + 1
            /\ UNCHANGED <<waiters, cur, pending, hb, emitted, poisoned>>
    /\ UNCHANGED <<stage, others>>

\* The clients of other nodes
OtherReport(rep) ==
    /\ others < MaxOther
    /\ others' = others + 1
    /\ Accepts(rep)
    /\ Ingest(rep)
    /\ UNCHANGED <<clientVars, last>>

Next ==
    \/ \E k \in EventKinds : Emit(k)
    \/ Heartbeat \/ Start \/ Pause \/ Stop
    \/ Acquire \/ DeliverOk \/ DeliverFails
    \/ \E rep \in OtherReports : OtherReport(rep)
    \/ ServerStep /\ UNCHANGED <<clientVars, others, last>>

\* The event loop runs tasks that can run; the heartbeat loop is started and
\* wakes up; every attempt ends, at the latest with its timeout.
Fairness ==
    /\ WF_vars(Start) /\ WF_vars(Heartbeat) /\ WF_vars(Acquire)
    /\ WF_vars(DeliverOk \/ DeliverFails)

Spec == Init /\ [][Next]_vars
FairSpec == Spec /\ Fairness

-----------------------------------------------------------------------------
(* Properties *)

\* However attempts fail, answers get lost, tasks are cancelled and the queue
\* overflows: the server stores the node's items in the order in which the node
\* emitted them; an item may be stored twice or not at all, never late.
InOrder == [][last' >= last]_vars

\* The client is left running and the server accepts the node's reports
Connected == hb # "off" /\ Accepts(Report(NoItem))

\* From some time on both run undisturbed and no valid request is lost
OutageEnds ==
    /\ <>[]Connected
    /\ <>[][DeliverFails => ~(Valid(Target) /\ Accepts(Report(Target)))]_vars

\* After an outage the backlog is worked off, provided the queue has never
\* overflowed in it.
BacklogClears == OutageEnds /\ []~poisoned => []<>(pending = <<>>)
=============================================================================
