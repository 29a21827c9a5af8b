--------------------------- MODULE ChunkTransfer ---------------------------
(***************************************************************************)
(* The chunked model transfer of GossipLearningCommunity                   *)
(* (src/quinkgl/network/gossip_community.py): senders that push the chunks *)
(* of a serialized model through an ACK window, and one receiving          *)
(* community that buffers, acknowledges, reassembles and delivers them,    *)
(* over UDP (packets are lost, duplicated and reordered).                  *)
(*                                                                         *)
(* Time is abstracted to the events a deadline causes: a chunk whose ACK   *)
(* is overdue joins `due', a sender past CHUNK_TRANSFER_TIMEOUT joins      *)
(* `expired', and the periodic cleanups may remove any entry that can be   *)
(* older than its TTL.  Chunk bytes are their index: a transfer is         *)
(* complete when every index has arrived.                                  *)
(***************************************************************************)
EXTENDS Integers, FiniteSets

CONSTANTS
    Transfers,      \* transfer ids (uuid4 in the code)
    Key,            \* Key[t]: the idempotency key (target, round, model hash)
    Sender,         \* Sender[t]: the peer mid that sends t
    N,              \* chunks per transfer (total_chunks)
    Window,         \* CHUNK_WINDOW_INITIAL
    MaxAttempts,    \* CHUNK_MAX_SEND_ATTEMPTS
    MaxNack,        \* CHUNK_MAX_NACK_INDICES
    MaxPerPeer,     \* MAX_CONCURRENT_TRANSFERS_PER_PEER
    MaxTotal,       \* MAX_TOTAL_TRANSFERS
    MaxHeld,        \* MAX_BUFFERED_BYTES_PER_PEER, in chunks
    Undecodable,    \* transfers whose bytes fail the size or decode check
    Ahead,          \* transfers whose round is too far ahead at first
    NetCap          \* bound: packets the network holds; more are lost

Chunks == 0 .. (N - 1)
Keys == {Key[t] : t \in Transfers}
None == "none"

\* The three payload types of the protocol.
ChunkMsg == [type : {"chunk"}, t : Transfers, i : Chunks]
AckMsg   == [type : {"ack"}, t : Transfers, got : SUBSET Chunks]
NackMsg  == [type : {"nack"}, t : Transfers, missing : SUBSET Chunks]
Messages == ChunkMsg \cup AckMsg \cup NackMsg

Phases == {"idle", "top", "retry", "fill", "ok", "failed", "skipped"}
Running == {"top", "retry", "fill"}

ASSUME ConstantsAssumption ==
    /\ N \in Nat \ {0} /\ Window \in Nat \ {0} /\ MaxAttempts \in Nat \ {0}
    /\ MaxNack \in Nat \ {0} /\ MaxPerPeer \in Nat /\ MaxTotal \in Nat
    /\ MaxHeld \in Nat /\ NetCap \in Nat
    /\ Undecodable \subseteq Transfers /\ Ahead \subseteq Transfers
    /\ None \notin Transfers /\ DOMAIN Key = Transfers /\ DOMAIN Sender = Transfers

VARIABLES
    \* --- sender: OutgoingChunkTransfer and the loop's program counter
    phase,      \* phase[t]: where _send_chunked_model_update is
    next,       \* next[t]: transfer.next_index, chunks below it were sent
    acked,      \* acked[t]: transfer.acked
    due,        \* due[t]: sent chunks whose ACK is overdue or NACKed
    attempts,   \* attempts[t][i]: transfer.attempts
    snap,       \* snap[t]: rest of the retry loop's snapshot of due chunks
    expired,    \* transfers past CHUNK_TRANSFER_TIMEOUT
    active,     \* keys of _active_outgoing_transfers
    inflight,   \* _inflight_transfers: key -> transfer id
    cache,      \* keys of _outgoing_transfers
    \* --- the network
    net,
    \* --- receiver
    held,       \* held[t]: chunk indices in the ChunkBuffer, {} if no buffer
    recent,     \* keys of _recent_chunks
    completed,  \* keys of _completed_chunk_transfers
    ahead,      \* transfers still beyond local_round + max_round_skip
    callbacks,  \* callbacks[t]: scheduled _process_completed_model tasks
    delivered,  \* delivered[t]: models handed to on_model_update_callback
    discarded   \* history: transfers with received chunks thrown away

senderVars == <<phase, next, acked, due, attempts, snap, expired,
                active, inflight, cache>>
receiverVars == <<held, recent, completed, ahead, callbacks, delivered,
                  discarded>>
vars == <<senderVars, net, receiverVars>>

-----------------------------------------------------------------------------
(* The network.  A packet in `net' may be delivered once, delivered and    *)
(* kept (duplicated), overtaken by any other, or lost.                     *)

\* net after the packets ms were added to s; beyond the bound they are lost.
WithPackets(s, ms) ==
    IF Cardinality(s \cup ms) <= NetCap THEN s \cup ms ELSE s

Send(ms) == net' = WithPackets(net, ms)

\* Take m from the network, which may keep a duplicate of it, and answer
\* with the packets ms.
Receive(m, ms) ==
    /\ m \in net
    /\ \E rest \in {net, net \ {m}} : net' = WithPackets(rest, ms)

Chunk(t, i) == [type |-> "chunk", t |-> t, i |-> i]
Ack(t, got) == [type |-> "ack", t |-> t, got |-> got]

\* The first MaxNack elements of a set of indices.
FirstMissing(miss) ==
    {i \in miss : Cardinality({j \in miss : j < i}) < MaxNack}

\* _send_missing_chunks_report for a buffer that holds got.
MissingReport(t, got) ==
    [type |-> "nack", t |-> t, missing |-> FirstMissing(Chunks \ got)]

-----------------------------------------------------------------------------
Init ==
    /\ phase = [t \in Transfers |-> "idle"]
    /\ next = [t \in Transfers |-> 0]
    /\ acked = [t \in Transfers |-> {}]
    /\ due = [t \in Transfers |-> {}]
    /\ attempts = [t \in Transfers |-> [i \in Chunks |-> 0]]
    /\ snap = [t \in Transfers |-> {}]
    /\ expired = {} /\ active = {} /\ cache = {}
    /\ inflight = [k \in Keys |-> None]
    /\ net = {}
    /\ held = [t \in Transfers |-> {}]
    /\ recent = {} /\ completed = {} /\ ahead = Ahead
    /\ callbacks = [t \in Transfers |-> 0]
    /\ delivered = [t \in Transfers |-> 0]
    /\ discarded = {}

-----------------------------------------------------------------------------
(* The sender: _send_chunked_model_update, one action per stretch of code  *)
(* between two awaits.                                                     *)

\* Mutant: any cached transfer with the key counts.
CachedWithKey(t) == \E u \in cache : Key[u] = Key[t]

\* A transfer with the same idempotency key is registered and still cached.
AlreadyInFlight(t) == \E u \in cache : inflight[Key[t]] = u

\* Mutant: having sent every chunk counts as success.
AllSent(t) == next[t] = N

\* transfer.completed is set, or as many chunks are acknowledged as there are.
AllAcked(t) == acked[t] = Chunks

\* Mutant: the deadline is not looked at.
NeverTimedOut(t) == FALSE

TimedOut(t) == t \in expired

\* Mutant: the key stays registered.
KeyKept(t) == inflight

KeyPopped(t) == [inflight EXCEPT ![Key[t]] = None]

\* The loop is left: the OutgoingChunkTransfer object is dropped, and the
\* finally clause pops the registry entry and the key's entry, whichever
\* transfer the key names by now.
Return(t, how) ==
    /\ phase' = [phase EXCEPT ![t] = how]
    /\ active' = active \ {t}
    /\ inflight' = KeyPopped(t)
    /\ next' = [next EXCEPT ![t] = 0]
    /\ acked' = [acked EXCEPT ![t] = {}]
    /\ due' = [due EXCEPT ![t] = {}]
    /\ attempts' = [attempts EXCEPT ![t] = [i \in Chunks |-> 0]]
    /\ snap' = [snap EXCEPT ![t] = {}]
    /\ expired' = expired \ {t}

\* Entry: a duplicate send is reported as success without a transfer of its
\* own; otherwise the transfer is registered and cached.
StartTransfer(t) ==
    /\ phase[t] = "idle"
    /\ \/ /\ AlreadyInFlight(t)
          /\ phase' = [phase EXCEPT ![t] = "skipped"]
          /\ UNCHANGED <<active, inflight, cache>>
       \/ /\ ~AlreadyInFlight(t)
          /\ phase' = [phase EXCEPT ![t] = "top"]
          /\ inflight' = [inflight EXCEPT ![Key[t]] = t]
          /\ cache' = cache \cup {t}
          /\ active' = active \cup {t}
    /\ UNCHANGED <<next, acked, due, attempts, snap, expired, net, receiverVars>>

\* Top of the while loop: leave when every chunk is acknowledged or the
\* deadline has passed, else snapshot the overdue chunks.
LoopTop(t) ==
    /\ phase[t] = "top"
    /\ \/ /\ AllAcked(t)
          /\ Return(t, "ok")
       \/ /\ ~AllAcked(t)
          /\ TimedOut(t)
          /\ Return(t, "failed")
       \/ /\ ~AllAcked(t)
          /\ ~TimedOut(t)
          /\ phase' = [phase EXCEPT ![t] = "retry"]
          /\ snap' = [snap EXCEPT ![t] = due[t]]
          /\ UNCHANGED <<next, acked, due, attempts, expired, active, inflight>>
    /\ UNCHANGED <<cache, net, receiverVars>>

\* Retry loop: the next overdue chunk of the snapshot that is still not
\* acknowledged is resent, or fails the transfer at the attempt limit.
RetryStep(t) ==
    /\ phase[t] = "retry"
    /\ \E i \in snap[t] \ acked[t] :
          /\ \A j \in snap[t] \ acked[t] : i <= j
          /\ \/ /\ attempts[t][i] >= MaxAttempts
                /\ Return(t, "failed")
                /\ UNCHANGED net
             \/ /\ attempts[t][i] < MaxAttempts
                /\ Send({Chunk(t, i)})
                /\ due' = [due EXCEPT ![t] = @ \ {i}]
                /\ attempts' = [attempts EXCEPT ![t][i] = @ + 1]
                /\ snap' = [snap EXCEPT ![t] = {j \in @ : j > i}]
                /\ UNCHANGED <<phase, next, acked, expired, active, inflight>>
    /\ UNCHANGED <<cache, receiverVars>>

\* The retry loop is exhausted; no await separates it from the fill loop.
RetryDone(t) ==
    /\ phase[t] = "retry"
    /\ snap[t] \ acked[t] = {}
    /\ phase' = [phase EXCEPT ![t] = "fill"]
    /\ snap' = [snap EXCEPT ![t] = {}]
    /\ UNCHANGED <<next, acked, due, attempts, expired, active, inflight, cache,
                   net, receiverVars>>

\* in_flight_count: sent, not acknowledged, and not overdue.
InFlight(t) == {i \in Chunks : i < next[t] /\ i \notin acked[t] \cup due[t]}

\* The fill loop may send a chunk it has not sent before.
WindowOpen(t) == next[t] < N /\ Cardinality(InFlight(t)) < Window

FillStep(t) ==
    /\ phase[t] = "fill"
    /\ WindowOpen(t)
    /\ Send({Chunk(t, next[t])})
    /\ attempts' = [attempts EXCEPT ![t][next[t]] = @ + 1]
    /\ next' = [next EXCEPT ![t] = @ + 1]
    /\ UNCHANGED <<phase, acked, due, snap, expired, active, inflight, cache,
                   receiverVars>>

\* The window is full or everything was sent: stop on full acknowledgement,
\* else poll and go round.
FillDone(t) ==
    /\ phase[t] = "fill"
    /\ ~WindowOpen(t)
    /\ \/ /\ AllAcked(t)
          /\ Return(t, "ok")
       \/ /\ ~AllAcked(t)
          /\ phase' = [phase EXCEPT ![t] = "top"]
          /\ UNCHANGED <<next, acked, due, attempts, snap, expired, active,
                         inflight>>
    /\ UNCHANGED <<cache, net, receiverVars>>

\* CHUNK_ACK_TIMEOUT passes for a chunk in flight.
AckOverdue(t, i) ==
    /\ phase[t] \in Running
    /\ i \in InFlight(t)
    /\ due' = [due EXCEPT ![t] = @ \cup {i}]
    /\ UNCHANGED <<phase, next, acked, attempts, snap, expired, active, inflight,
                   cache, net, receiverVars>>

\* CHUNK_TRANSFER_TIMEOUT passes for a running sender.
DeadlinePasses(t) ==
    /\ phase[t] \in Running
    /\ t \notin expired
    /\ expired' = expired \cup {t}
    /\ UNCHANGED <<phase, next, acked, due, attempts, snap, active, inflight,
                   cache, net, receiverVars>>

\* The sending task is cancelled or a send raises: only the finally clause
\* runs, and send_model_update reports failure or the cancellation.
Abort(t) ==
    /\ phase[t] \in Running
    /\ Return(t, "failed")
    /\ UNCHANGED <<cache, net, receiverVars>>

\* on_chunk_ack: ACKs of a transfer that is no longer registered are ignored.
OnChunkAck(m) ==
    /\ m.type = "ack"
    /\ Receive(m, {})
    /\ acked' = IF m.t \in active THEN [acked EXCEPT ![m.t] = @ \cup m.got]
                ELSE acked
    /\ UNCHANGED <<phase, next, due, attempts, snap, expired, active, inflight,
                   cache, receiverVars>>

\* The sent, unacknowledged chunks a NACK makes due at once.
Marked(m) == {i \in FirstMissing(m.missing) : i < next[m.t] /\ i \notin acked[m.t]}

\* on_request_chunks: unknown transfers are ignored; for a running sender the
\* missing chunks become due with a fresh attempt budget; otherwise they are
\* resent from the cache, as far as the token buckets allow.
OnRequestChunks(m) ==
    /\ m.type = "nack"
    /\ \/ /\ m.t \notin cache
          /\ Receive(m, {})
          /\ UNCHANGED <<due, attempts>>
       \/ /\ m.t \in cache
          /\ m.t \in active
          /\ Receive(m, {})
          /\ due' = [due EXCEPT ![m.t] = @ \cup Marked(m)]
          /\ attempts' = [attempts EXCEPT ![m.t] =
                [i \in Chunks |-> IF i \in Marked(m) THEN 0 ELSE @[i]]]
       \/ /\ m.t \in cache
          /\ m.t \notin active
          /\ \E sub \in SUBSET FirstMissing(m.missing) :
                Receive(m, {Chunk(m.t, i) : i \in sub})
          /\ UNCHANGED <<due, attempts>>
    /\ UNCHANGED <<phase, next, acked, snap, expired, active, inflight, cache,
                   receiverVars>>

\* _cleanup_outgoing_cache: OUTGOING_TRANSFER_CACHE_TTL has passed for the
\* transfers S, then every registry entry without a cache entry is purged.
\* The TTL exceeds CHUNK_TRANSFER_TIMEOUT: a running sender has expired.
CleanupOutgoingCache(S) ==
    /\ \A t \in S : phase[t] \in Running => t \in expired
    /\ cache' = cache \ S
    /\ active' = active \cap cache'
    /\ inflight' = [k \in Keys |-> IF inflight[k] \in cache' THEN inflight[k] ELSE None]
    /\ UNCHANGED <<phase, next, acked, due, attempts, snap, expired, net,
                   receiverVars>>

-----------------------------------------------------------------------------
(* The receiver.                                                           *)

Buffered == {t \in Transfers : held[t] # {}}
BufferedFrom(p) == {t \in Buffered : Sender[t] = p}

\* Chunks buffered for peer p over all its transfers.
HeldFrom(p) == {c \in BufferedFrom(p) \X Chunks : c[2] \in held[c[1]]}

\* A new buffer for t would exceed one of the caps.
CapReached(t) ==
    /\ t \notin Buffered
    /\ \/ Cardinality(BufferedFrom(Sender[t])) >= MaxPerPeer
       \/ Cardinality(Buffered) >= MaxTotal
       \/ Cardinality(HeldFrom(Sender[t])) >= MaxHeld

\* Mutant: the completed transfer is not remembered.
NotMarked(t) == completed

MarkedCompleted(t) == completed \cup {t}

\* Mutant: the callback is lost.
NotScheduled(t) == callbacks

CallbackScheduled(t) == [callbacks EXCEPT ![t] = @ + 1]

\* Mutant: expired buffers stay.
BuffersKept(B) == held

WithoutBuffers(B) == [t \in Transfers |-> IF t \in B THEN {} ELSE held[t]]

\* A chunk of a completed transfer: answer that everything arrived.
ChunkOfCompleted(m) ==
    /\ m.t \in completed
    /\ Receive(m, {Ack(m.t, Chunks)})
    /\ UNCHANGED receiverVars

\* A chunk seen before: acknowledge it if it is still buffered.
ChunkSeenBefore(m) ==
    /\ m.t \notin completed
    /\ <<m.t, m.i>> \in recent
    /\ Receive(m, IF m.i \in held[m.t] THEN {Ack(m.t, held[m.t])} ELSE {})
    /\ UNCHANGED receiverVars

\* A chunk that is new, so remembered, and then rejected: its round is too
\* far ahead or a cap is reached.
ChunkRejected(m) ==
    /\ m.t \notin completed
    /\ <<m.t, m.i>> \notin recent
    /\ m.t \in ahead \/ CapReached(m.t)
    /\ recent' = recent \cup {<<m.t, m.i>>}
    /\ Receive(m, {})
    /\ UNCHANGED <<held, completed, ahead, callbacks, delivered, discarded>>

\* A chunk that is buffered and leaves the buffer incomplete.  The ACK is
\* throttled, and so is the missing report that the last index triggers.
ChunkStored(m) ==
    LET got == held[m.t] \cup {m.i} IN
    /\ m.t \notin completed
    /\ <<m.t, m.i>> \notin recent
    /\ m.t \notin ahead
    /\ ~CapReached(m.t)
    /\ got # Chunks
    /\ recent' = recent \cup {<<m.t, m.i>>}
    /\ held' = [held EXCEPT ![m.t] = got]
    /\ \E out \in SUBSET ({Ack(m.t, got)} \cup
                {r \in {MissingReport(m.t, got)} : m.i = N - 1}) : Receive(m, out)
    /\ UNCHANGED <<completed, ahead, callbacks, delivered, discarded>>

\* The chunk that completes the buffer: the full ACK is sent, the buffer is
\* removed, and only then are the bytes checked and decoded; a model that
\* decodes is marked completed and its callback is scheduled.
ChunkCompletes(m) ==
    LET got == held[m.t] \cup {m.i} IN
    /\ m.t \notin completed
    /\ <<m.t, m.i>> \notin recent
    /\ m.t \notin ahead
    /\ ~CapReached(m.t)
    /\ got = Chunks
    /\ recent' = recent \cup {<<m.t, m.i>>}
    /\ Receive(m, {Ack(m.t, Chunks)})
    /\ held' = [held EXCEPT ![m.t] = {}]
    /\ \/ /\ m.t \in Undecodable
          /\ discarded' = discarded \cup {m.t}
          /\ UNCHANGED <<completed, callbacks>>
       \/ /\ m.t \notin Undecodable
          /\ completed' = MarkedCompleted(m.t)
          /\ callbacks' = CallbackScheduled(m.t)
          /\ UNCHANGED discarded
    /\ UNCHANGED <<ahead, delivered>>

\* on_model_chunk, a synchronous handler.
OnModelChunk(m) ==
    /\ m.type = "chunk"
    /\ \/ ChunkOfCompleted(m)
       \/ ChunkSeenBefore(m)
       \/ ChunkRejected(m)
       \/ ChunkStored(m)
       \/ ChunkCompletes(m)
    /\ UNCHANGED senderVars

\* _process_completed_model: the scheduled task hands the model over.
ProcessCompletedModel(t) ==
    /\ callbacks[t] > 0
    /\ callbacks' = [callbacks EXCEPT ![t] = @ - 1]
    /\ delivered' = [delivered EXCEPT ![t] = @ + 1]
    /\ UNCHANGED <<senderVars, net, held, recent, completed, ahead, discarded>>

\* Nothing of t is under way.  The completed-transfer TTL (600 s) is far
\* beyond CHUNK_MAX_SEND_ATTEMPTS * CHUNK_ACK_TIMEOUT (96 s) after which a
\* sender that gets no new NACK has stopped, and beyond the life of a packet.
Quiet(t) ==
    /\ phase[t] \notin Running \cup {"idle"}
    /\ \A m \in net : m.t # t

\* _cleanup_stale_transfers drops the expired buffers B, the completed
\* transfers C past their TTL and the chunk keys R past theirs.  A buffer's
\* age counts from its creation, whatever arrives meanwhile; it is created
\* after its sender started and lives as long as a sender may run, so that
\* a sender that still runs when it expires is past its own deadline.
CleanupStaleTransfers(B, C, R) ==
    /\ \A t \in B : phase[t] \in Running => t \in expired
    /\ \A t \in C : Quiet(t)
    /\ held' = WithoutBuffers(B)
    /\ discarded' = discarded \cup B
    /\ completed' = completed \ C
    /\ recent' = recent \ R
    /\ UNCHANGED <<senderVars, net, ahead, callbacks, delivered>>

\* _nack_incomplete_buffers reports the buffers B past EARLY_NACK_AGE_THRESHOLD
\* that the throttle and the token buckets let through.
NackIncompleteBuffers(B) ==
    /\ Send({MissingReport(t, held[t]) : t \in B})
    /\ UNCHANGED <<senderVars, receiverVars>>

\* The receiver's training round catches up with the round of t.
LocalRoundAdvances(t) ==
    /\ t \in ahead
    /\ ahead' = ahead \ {t}
    /\ UNCHANGED <<senderVars, net, held, recent, completed, callbacks,
                   delivered, discarded>>

\* UDP loses a packet; so do the identity and signature checks of a handler.
Lose(m) ==
    /\ m \in net
    /\ net' = net \ {m}
    /\ UNCHANGED <<senderVars, receiverVars>>

-----------------------------------------------------------------------------
SenderStep(t) ==
    \/ LoopTop(t) \/ RetryStep(t) \/ RetryDone(t)
    \/ FillStep(t) \/ FillDone(t)

Handle(m) == OnModelChunk(m) \/ OnChunkAck(m) \/ OnRequestChunks(m)

Next ==
    \/ \E t \in Transfers :
          \/ StartTransfer(t) \/ SenderStep(t) \/ Abort(t)
          \/ DeadlinePasses(t) \/ \E i \in Chunks : AckOverdue(t, i)
          \/ ProcessCompletedModel(t) \/ LocalRoundAdvances(t)
    \/ \E S \in SUBSET cache : CleanupOutgoingCache(S)
    \/ \E B \in SUBSET Buffered, C \in SUBSET completed, R \in SUBSET recent :
          CleanupStaleTransfers(B, C, R)
    \/ \E B \in SUBSET Buffered : NackIncompleteBuffers(B)
    \/ \E m \in net : Handle(m) \/ Lose(m)

\* The event loop runs every ready task and timer: the sending coroutine,
\* the deadline, the scheduled callback and the periodic cleanup.  Nothing
\* is assumed of the network.
Fairness ==
    \A t \in Transfers :
        /\ WF_vars(SenderStep(t))
        /\ WF_vars(DeadlinePasses(t))
        /\ WF_vars(ProcessCompletedModel(t))
        /\ WF_vars(\E B \in SUBSET Buffered :
                        t \in B /\ CleanupStaleTransfers(B, {}, {}))

Spec == Init /\ [][Next]_vars /\ Fairness

-----------------------------------------------------------------------------
(* Correctness.                                                            *)

TypeOK ==
    /\ phase \in [Transfers -> Phases]
    /\ next \in [Transfers -> 0 .. N]
    /\ acked \in [Transfers -> SUBSET Chunks]
    /\ due \in [Transfers -> SUBSET Chunks]
    /\ attempts \in [Transfers -> [Chunks -> Nat]]
    /\ snap \in [Transfers -> SUBSET Chunks]
    /\ expired \subseteq Transfers
    /\ active \subseteq Transfers
    /\ inflight \in [Keys -> Transfers \cup {None}]
    /\ cache \subseteq Transfers
    /\ net \subseteq Messages
    /\ held \in [Transfers -> SUBSET Chunks]
    /\ recent \subseteq Transfers \X Chunks
    /\ completed \subseteq Transfers
    /\ ahead \subseteq Transfers
    /\ callbacks \in [Transfers -> Nat]
    /\ delivered \in [Transfers -> Nat]
    /\ discarded \subseteq Transfers

\* Deliveries of t, scheduled and done.
Handovers(t) == callbacks[t] + delivered[t]

\* A model reaches the aggregator at most once, whatever is duplicated,
\* retried or resent from the cache, and although the receiver forgets
\* completed transfers and recent chunks.
AtMostOnce == \A t \in Transfers : Handovers(t) <= 1

\* A sender that reports success has had its model handed over, or the
\* receiver threw received chunks away after acknowledging them (a decode
\* failure, an expired buffer): no other loss is reported as success.
SuccessIsReal ==
    \A t \in Transfers :
        phase[t] = "ok" => Handovers(t) = 1 \/ t \in discarded

\* A send is skipped as a duplicate only while a twin with the same key is
\* being sent, although keys are popped by whoever returns first.
KeyNamesRunning ==
    \A k \in Keys : inflight[k] # None =>
        /\ phase[inflight[k]] \in Running
        /\ Key[inflight[k]] = k
        /\ inflight[k] \in active

\* Every call of _send_chunked_model_update returns.
SenderReturns ==
    \A t \in Transfers : (phase[t] \in Running) ~> (phase[t] \notin Running)

\* After success with nothing thrown away the scheduled
\* _process_completed_model task hands the model over: it does not stay
\* between the decode and the aggregator.
SuccessIsDelivered ==
    \A t \in Transfers :
        (phase[t] = "ok" /\ t \notin discarded) ~> (delivered[t] = 1)

\* No ChunkBuffer is kept for ever: it completes, or the cleanup removes it
\* even though chunks and NACKs of it keep arriving.
BuffersAreReleased ==
    \A t \in Transfers : (held[t] # {}) ~> (held[t] = {})

\* The promise of ModelTransfer: the loop's phases are one "sending", and
\* the counters of scheduled and finished callbacks tell the receiver's side.
Promise == INSTANCE ModelTransfer WITH
    send <- [t \in Transfers |->
                IF phase[t] \in Running THEN "sending" ELSE phase[t]],
    recv <- [t \in Transfers |->
                IF delivered[t] > 0 THEN "handed over"
                ELSE IF callbacks[t] > 0 THEN "arrived" ELSE "absent"],
    lost <- discarded

\* The windowed protocol implements the promise.
KeepsPromise == Promise!Spec
=============================================================================
