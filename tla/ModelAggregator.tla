-------------------------- MODULE ModelAggregator --------------------------
(***************************************************************************)
(* The gossip learning loop of one node (src/quinkgl/gossip/aggregator.py, *)
(* ModelAggregator): run_continuous trains, sends, waits and aggregates    *)
(* round after round, while the transport's tasks run                      *)
(* _handle_model_update and append to pending_updates, and other tasks may *)
(* call stop(), cancel the loop or call run_continuous again.              *)
(*                                                                         *)
(* All of it runs on one asyncio event loop: an action is a stretch of     *)
(* code between two awaits.  _pending_lock is never held across an await,  *)
(* so it is not modelled; _model_lock is held while the model trains.  The *)
(* caller gives a data provider, so that every round trains.               *)
(***************************************************************************)
EXTENDS Integers, Sequences, FiniteSets

CONSTANTS
    Peers,          \* peers that send updates
    Loops,          \* calls of run_continuous
    MinPeers,       \* min_peers_before_aggregate
    MaxPending,     \* max_pending_updates
    Tolerance,      \* stale_round_tolerance
    MaxErrors,      \* max_consecutive_errors
    MaxRound,       \* bound: rounds after which the caller stops the loop
    MaxHandlers     \* bound: update handlers suspended at a time

ASSUME ConstantsAssumption ==
    /\ MinPeers \in Nat \ {0} /\ MaxPending \in Nat \ {0} /\ MinPeers <= MaxPending
    /\ Tolerance \in Nat /\ MaxErrors \in Nat \ {0}
    /\ MaxRound \in Nat /\ MaxHandlers \in Nat

\* The update messages, told apart by sender and round.  The transport hands
\* each one over at most once (ChunkTransfer!AtMostOnce).
Updates == [peer : Peers, round : 0 .. MaxRound]

\* Where a call of run_continuous is suspended.
MainStages == {"train", "send", "wait", "snapshot", "aggregate", "apply", "post",
               "backoff"}
ExitStages == {"final", "clear"}
Stages == MainStages \cup ExitStages \cup {"off", "done", "ignored"}

VARIABLES
    running,        \* self.running
    active,         \* self._run_continuous_active
    round,          \* self.current_round
    pending,        \* self.pending_updates
    event,          \* self._aggregation_event
    aggregating,    \* self._aggregating
    pc,             \* pc[l]: the stage of call l
    errors,         \* errors[l]: consecutive_errors
    batch,          \* batch[l]: the updates drained by _aggregate_models
    handlers,       \* updates whose handler is suspended in its hooks
    seen,           \* history: updates whose handler has been called
    merged          \* history: updates that went into the model

loopVars == <<pc, errors, batch>>
vars == <<running, active, round, pending, event, aggregating, loopVars,
          handlers, seen, merged>>

Entries(q) == {q[k] : k \in DOMAIN q}

Init ==
    /\ running = FALSE /\ active = FALSE /\ round = 0
    /\ pending = <<>> /\ event = FALSE /\ aggregating = FALSE
    /\ pc = [l \in Loops |-> "off"]
    /\ errors = [l \in Loops |-> 0]
    /\ batch = [l \in Loops |-> <<>>]
    /\ handlers = {} /\ seen = {} /\ merged = {}

Goto(l, stage) == pc' = [pc EXCEPT ![l] = stage]

\* Loop l is in _aggregate_models, with its flag set.
Aggregates(l) == pc[l] \in {"snapshot", "aggregate", "apply", "final"}

\* A loop holds _model_lock for its training.
Locked == \E l \in Loops : pc[l] = "train"

-----------------------------------------------------------------------------
(* _handle_model_update: the running check, then the after_receive hooks   *)
(* (an await), then the round gate, the duplicate check and the append.    *)

HandlerStarts(u) ==
    /\ running
    /\ u \notin seen /\ Cardinality(handlers) < MaxHandlers
    /\ seen' = seen \cup {u}
    /\ handlers' = handlers \cup {u}
    /\ UNCHANGED <<running, active, round, pending, event, aggregating, loopVars, merged>>

InTolerance(u) == u.round - round <= Tolerance /\ round - u.round <= Tolerance

\* Mutant: the queue has no limit.
AlwaysRoom(u) == \A v \in Entries(pending) : v.peer # u.peer

\* No update of the peer is queued and the queue is not full.
Room(u) ==
    /\ \A v \in Entries(pending) : v.peer # u.peer
    /\ Len(pending) < MaxPending

HandlerEnds(u) ==
    /\ u \in handlers
    /\ handlers' = handlers \ {u}
    /\ \/ /\ InTolerance(u) /\ Room(u)
          /\ pending' = Append(pending, u)
          /\ event' = TRUE
       \/ /\ ~(InTolerance(u) /\ Room(u))
          /\ UNCHANGED <<pending, event>>
    /\ UNCHANGED <<running, active, round, aggregating, loopVars, seen, merged>>

-----------------------------------------------------------------------------
(* run_continuous.                                                         *)

\* A round begins: the local training, under _model_lock.
BeginRound(l) ==
    /\ round < MaxRound
    /\ round' = round + 1
    /\ Goto(l, "train")
    /\ UNCHANGED <<pending, event, aggregating, batch>>

\* Mutant: no guard against re-entry.
NeverEntered == FALSE

AlreadyEntered == active

RunContinuous(l) ==
    /\ pc[l] = "off"
    /\ \/ /\ AlreadyEntered
          /\ Goto(l, "ignored")
          /\ UNCHANGED <<running, active, round, pending, event, aggregating, batch>>
       \/ /\ ~AlreadyEntered
          /\ active' = TRUE /\ running' = TRUE
          /\ BeginRound(l)
    /\ UNCHANGED <<errors, handlers, seen, merged>>

\* Mutant: the re-entrancy guard of _aggregate_models is missing.
DrainableByAnyone(q, ag) == Len(q) >= MinPeers

\* _aggregate_models drains the queue q.
Drainable(q, ag) == ~ag /\ Len(q) >= MinPeers

\* Mutant: the drained updates stay in the queue.
NotCleared(q) == q

\* What the queue q holds after it was drained.
Cleared(q) == <<>>

\* The finally clause up to its first await, entered with the queue q and
\* the re-entrancy flag ag: drain for the final aggregation, or clear.
Exit(l, q, ag) ==
    /\ active' = FALSE /\ running' = FALSE
    /\ \/ /\ Drainable(q, ag)
          /\ pending' = Cleared(q)
          /\ batch' = [batch EXCEPT ![l] = q]
          /\ aggregating' = TRUE
          /\ Goto(l, "final")
       \/ /\ ~Drainable(q, ag)
          /\ pending' = <<>>
          /\ batch' = [batch EXCEPT ![l] = <<>>]
          /\ aggregating' = ag
          /\ Goto(l, "done")
    /\ UNCHANGED <<event, round>>

GivesUp(n) == n >= MaxErrors

\* A round raises an exception with the queue q and the flag ag: back off,
\* or give up after too many failures in a row.
Fails(l, q, ag) ==
    \/ /\ GivesUp(errors[l] + 1)
       /\ Exit(l, q, ag)
       /\ UNCHANGED errors
    \/ /\ ~GivesUp(errors[l] + 1)
       /\ errors' = [errors EXCEPT ![l] = @ + 1]
       /\ event' = FALSE
       /\ pending' = q
       /\ aggregating' = ag
       /\ batch' = [batch EXCEPT ![l] = <<>>]
       /\ Goto(l, "backoff")
       /\ UNCHANGED <<running, active, round>>

\* Training ends: go on, stop early (convergence), or fail.
TrainEnds(l) ==
    /\ pc[l] = "train"
    /\ \/ /\ Goto(l, "send")
          /\ UNCHANGED <<running, active, round, pending, event, aggregating,
                         errors, batch>>
       \/ /\ Exit(l, pending, aggregating)
          /\ UNCHANGED errors
       \/ Fails(l, pending, aggregating)
    /\ UNCHANGED <<handlers, seen, merged>>

\* Target selection, sends (failures of single peers are swallowed) and
\* topology maintenance.
SendEnds(l) ==
    /\ pc[l] = "send"
    /\ \/ /\ Goto(l, "wait")
          /\ UNCHANGED <<running, active, round, pending, event, aggregating,
                         errors, batch>>
       \/ Fails(l, pending, aggregating)
    /\ UNCHANGED <<handlers, seen, merged>>

\* The wait ends with the event or after gossip_interval; _aggregate_models
\* drains the queue or defers.
WaitEnds(l) ==
    /\ pc[l] = "wait"
    /\ \/ /\ Drainable(pending, aggregating)
          /\ batch' = [batch EXCEPT ![l] = pending]
          /\ pending' = Cleared(pending)
          /\ aggregating' = TRUE
          /\ Goto(l, "snapshot")
       \/ /\ ~Drainable(pending, aggregating)
          /\ Goto(l, "post")
          /\ UNCHANGED <<batch, pending, aggregating>>
    /\ UNCHANGED <<running, active, round, event, errors, handlers, seen, merged>>

\* The before_aggregate hooks have run and the own weights are read, under
\* _model_lock.
SnapshotTaken(l) ==
    /\ pc[l] = "snapshot"
    /\ ~Locked
    /\ Goto(l, "aggregate")
    /\ UNCHANGED <<running, active, round, pending, event, aggregating, errors, batch,
                   handlers, seen, merged>>

\* aggregate() returns and the after_aggregate hooks run.
AggregateReturns(l) ==
    /\ pc[l] = "aggregate"
    /\ Goto(l, "apply")
    /\ UNCHANGED <<running, active, round, pending, event, aggregating, errors, batch,
                   handlers, seen, merged>>

\* The aggregated weights are applied, under _model_lock, and the event is
\* cleared.
ApplySucceeds(l) ==
    /\ pc[l] \in {"apply", "final"}
    /\ ~Locked
    /\ merged' = merged \cup Entries(batch[l])
    /\ batch' = [batch EXCEPT ![l] = <<>>]
    /\ event' = FALSE
    /\ aggregating' = FALSE
    /\ Goto(l, IF pc[l] = "apply" THEN "post" ELSE "clear")
    /\ UNCHANGED <<running, active, round, pending, errors, handlers, seen>>

\* Mutant: the batch is not put back.
NotRestored(b, q) == q

\* The queue q with the batch b put back in front of it.
Restored(b, q) == b \o q

\* aggregate() raises: the batch goes back to the queue.
AggregateFails(l) ==
    /\ pc[l] = "aggregate"
    /\ Fails(l, Restored(batch[l], pending), FALSE)
    /\ UNCHANGED <<handlers, seen, merged>>

\* Reading the own weights or applying the aggregated ones raises: the batch
\* is gone.
ModelFails(l) ==
    /\ pc[l] \in {"snapshot", "apply"}
    /\ ~Locked
    /\ Fails(l, pending, FALSE)
    /\ UNCHANGED <<handlers, seen, merged>>

\* Mutant: the loop does not look at running.
NeverStopped == FALSE

Stopped == ~running

\* The while condition.
LoopAgain(l) ==
    \/ /\ Stopped
       /\ Exit(l, pending, aggregating)
    \/ /\ ~Stopped
       /\ BeginRound(l)
       /\ UNCHANGED <<running, active>>

\* Similarity, checkpoint and consensus; the round is complete or fails.
PostEnds(l) ==
    /\ pc[l] = "post"
    /\ \/ /\ errors' = [errors EXCEPT ![l] = 0]
          /\ LoopAgain(l)
       \/ Fails(l, pending, aggregating)
    /\ UNCHANGED <<handlers, seen, merged>>

BackoffEnds(l) ==
    /\ pc[l] = "backoff"
    /\ LoopAgain(l)
    /\ UNCHANGED <<errors, handlers, seen, merged>>

\* The final aggregation raises: the batch goes back to the queue and is
\* cleared with what arrived meanwhile.
FinalFails(l) ==
    /\ pc[l] = "final"
    /\ batch' = [batch EXCEPT ![l] = <<>>]
    /\ aggregating' = FALSE
    /\ pending' = <<>>
    /\ Goto(l, "done")
    /\ UNCHANGED <<running, active, round, event, errors, handlers, seen, merged>>

\* After the on_aggregation_complete hooks of the final aggregation the queue
\* is cleared.
FinalClears(l) ==
    /\ pc[l] = "clear"
    /\ pending' = <<>>
    /\ Goto(l, "done")
    /\ UNCHANGED <<running, active, round, event, aggregating, errors, batch,
                   handlers, seen, merged>>

-----------------------------------------------------------------------------
(* Other tasks.                                                            *)

Stop ==
    /\ running
    /\ running' = FALSE
    /\ UNCHANGED <<active, round, pending, event, aggregating, loopVars, handlers,
                   seen, merged>>

\* Task.cancel() reaches the loop at an await.  A drained batch is dropped;
\* a shielded training goes on without the lock.
CancelMain(l) ==
    /\ pc[l] \in MainStages
    /\ Exit(l, pending, aggregating /\ ~Aggregates(l))
    /\ UNCHANGED <<errors, handlers, seen, merged>>

\* In the finally clause it also skips the clearing of the queue.
CancelExit(l) ==
    /\ pc[l] \in ExitStages
    /\ batch' = [batch EXCEPT ![l] = <<>>]
    /\ aggregating' = (aggregating /\ pc[l] # "final")
    /\ Goto(l, "done")
    /\ UNCHANGED <<running, active, round, pending, event, errors, handlers,
                   seen, merged>>

-----------------------------------------------------------------------------
LoopStep(l) ==
    \/ TrainEnds(l) \/ SendEnds(l) \/ WaitEnds(l)
    \/ SnapshotTaken(l) \/ AggregateReturns(l) \/ AggregateFails(l)
    \/ ApplySucceeds(l) \/ ModelFails(l)
    \/ PostEnds(l) \/ BackoffEnds(l) \/ FinalFails(l) \/ FinalClears(l)

Next ==
    \/ \E u \in Updates : HandlerStarts(u) \/ HandlerEnds(u)
    \/ \E l \in Loops :
          RunContinuous(l) \/ LoopStep(l) \/ CancelMain(l) \/ CancelExit(l)
    \/ Stop

\* The event loop resumes every coroutine whose await is over; training,
\* sends, waits and aggregation end.  The caller clears running once
\* current_round has reached MaxRound, as GossipNode.train does.
Fairness ==
    /\ \A l \in Loops : WF_vars(LoopStep(l))
    /\ WF_vars(Stop /\ round = MaxRound)

Spec == Init /\ [][Next]_vars /\ Fairness

-----------------------------------------------------------------------------
(* Correctness.                                                            *)

\* Types; a loop's count of errors in a row stays below the limit at which
\* it gives up.
TypeOK ==
    /\ running \in BOOLEAN /\ active \in BOOLEAN
    /\ round \in 0 .. MaxRound
    /\ pending \in Seq(Updates)
    /\ event \in BOOLEAN /\ aggregating \in BOOLEAN
    /\ pc \in [Loops -> Stages]
    /\ errors \in [Loops -> 0 .. MaxErrors - 1]
    /\ batch \in [Loops -> Seq(Updates)]
    /\ handlers \subseteq Updates /\ seen \subseteq Updates
    /\ merged \subseteq Updates

InMain(l) == pc[l] \in MainStages

\* The re-entry guard of run_continuous: one call at a time runs rounds,
\* although the guard is released before the finally clause is over.
OneLoop == \A l, m \in Loops : InMain(l) /\ InMain(m) => l = m

\* The re-entrancy guard of _aggregate_models: a loop that was started while
\* another is still in its final aggregation does not aggregate beside it.
OneAggregation == \A l, m \in Loops : Aggregates(l) /\ Aggregates(m) => l = m

\* The queue exceeds max_pending_updates only by what failed aggregations put
\* back, at most once per failure in a row.
BacklogBound == Len(pending) <= MaxPending * MaxErrors

\* The updates that wait for an aggregation or are in one.
Held == Entries(pending) \cup UNION {Entries(batch[l]) : l \in Loops}

\* No update goes into the model twice: not one that a failed aggregation put
\* back, nor one that a restarted loop finds in the queue.
MergedOnce == (Held \cup handlers) \cap merged = {}

\* While the loop runs, an update that was accepted stays with it until it is
\* merged, across rounds that fail; except when the model itself raises,
\* asked for its weights or given the aggregated ones, and when the finally
\* clause of an earlier call, still under way, ends with the queue cleared.
QueueIsKept ==
    [][running /\ running' =>
          \/ Held \subseteq Held' \cup merged'
          \/ \E l \in Loops : pc[l] \in {"snapshot", "apply"} /\ pc'[l] = "backoff"
          \/ \E l \in Loops : pc[l] # "done" /\ pc'[l] = "done"]_vars

\* Once running is cleared the loop ends, whatever it is doing.
StopEndsLoop ==
    \A l \in Loops : (InMain(l) /\ ~running) ~> (pc[l] = "done")
=============================================================================
