# A TLA+ verification of QuinkGL

QuinkGL is a framework for decentralised (gossip) learning: every node trains a
model on its own data, sends its weights to a few peers, and merges what it
receives. There is no server in the middle. Nodes talk over IPv8 (UDP) or, when
that fails, through a gRPC relay. This directory holds the TLA+ modules that
model it, the TLC configurations that check them on small instances, and
TLAPS proofs that hold for every value of the constants.

All paths below are relative to the package, `src/quinkgl/`.

## 1. Inventory

One process runs one asyncio event loop; code between two `await`s is atomic.
Interleavings come from tasks (the learning loop, message handlers that await,
senders, periodic cleanups), threads come in only through executors (training).
Between processes there are messages, and files that outlive them.

| Component | State | Operations | Talks to |
|---|---|---|---|
| Chunked model transfer, `network/gossip_community.py` | sender: `OutgoingChunkTransfer` (next index, acked, last sent, attempts), `_active_outgoing_transfers`, `_inflight_transfers` (idempotency keys), `_outgoing_transfers` (cache). Receiver: `ChunkBuffer`s, `_recent_chunks`, `_completed_chunk_transfers` | `_send_chunked_model_update`, `on_model_chunk`, `on_chunk_ack`, `on_request_chunks`, `_process_completed_model`, three periodic cleanups | peers by UDP packets; the aggregator by a callback scheduled as a task |
| Direct messages of the community, same file | `known_peers`, `_mid_to_node_id`, `_last_seen_round` (persisted), heartbeat times | `on_discovery_announce`, `on_heartbeat`, `on_model_update`, `on_checkpoint`, `on_shuffle_*`, `_cleanup_stale_peers` | peers, `GossipNode` callbacks |
| Gossip learning loop, `gossip/aggregator.py` | `running`, `_run_continuous_active`, `current_round`, `pending_updates`, `_aggregation_event`, `_aggregating`, two locks | `run_continuous`, `_aggregate_models`, `_handle_model_update`, `_train_local`, `stop` | the transport (send), its handlers (receive), the aggregation strategy, hooks |
| Checkpoints and consensus, `gossip/consensus.py` | `_checkpoints`, last local and last seen checkpoint round | `should_checkpoint`, `record_checkpoint`, `check_consensus`, `prune_old_checkpoints` | driven by the loop and by announcements of peers |
| `GossipNode`, `network/gossip_node.py` | `NodeState`, `ConnectionMode`, tunnel peers, `_tunnel_last_seen_round` | `start` with IPv8 timeout, tunnel fallback, `send_to_peer`, `train`, `stop`, `shutdown` | community, tunnel client, aggregator, telemetry |
| Tunnel relay, `network/fallback/` | server: a bounded queue and a last-seen time per registered node; client: the stream task, its queue, `running` | register, heartbeat, forward, peer list, cleanup; connect, reconnect, close | gRPC streams |
| Telemetry client, `telemetry/client.py` | pending deliveries (bounded), the delivery lock, background tasks | `handle`, `_send_serialized`, flush, heartbeat loop, `stop` | HTTP server; the event emitter |
| Telemetry server and store | nodes, events, rounds, edges, subscribers, tokens and their file, login codes | ingest, enrol, snapshot, stream, login | HTTP clients, websockets |
| Swarm directory, `network/directory.py` | advertisement cache with expiry, quotas | publish, lookup, evict | IPv8 packets |
| Manifest exchange, `network/manifest_exchange.py` | pending requests, rate limiter | chunked request and response | IPv8 packets |
| Trust on first use, `network/tofu.py` | pin cache, file | check, pin, flush | file system, other processes |
| Model store, `storage/model_store.py` | checkpoint files and metadata | save, load, retention | file system |
| Topologies, `topology/` | Cyclon views, samplers | select, shuffle, age | community |
| Aggregation strategies, `aggregation/` | momentum, control variates | `aggregate` | loop |
| Convergence monitor, `training/convergence.py` | best loss, patience | `update` | loop |
| Event emitter, `observability/events.py` | subscribers | `emit` | everything |
| Command line, `cli/` | a status file and a socket per run | `run`, `status`; commands that read or write one document | the node, the model store, file system |
| Compression, `serialization/` | residuals of the error feedback | compress, decompress | nobody yet: the community imports it and does not call it |
| Manifests, fingerprints, model wrappers | none that outlives a call | validation, encoding, adapters | |

Hard behaviours, by component, are the `hazards` of `PROJECT.json`, each at the
line where it bites. The ones that drive the design:

* packets of a transfer are lost, repeated and reordered while both ends forget
  (TTLs) what they have seen, and success is told from ACKs that are sent before
  the bytes are decoded;
* handlers and the loop share `pending_updates` across awaits; the loop can be
  stopped, cancelled in any await, and started again while its `finally` clause
  is still running;
* failed rounds put batches back and are retried;
* announcements of checkpoints come late, repeated, and far ahead;
* a node falls back from IPv8 to the tunnel, and is stopped, shut down and started
  again at any await of its start;
* files (checkpoints, pins, rounds seen, tokens, status) are written step by step
  by processes that die;
* telemetry retries what may already have been stored, behind a bounded queue that
  reports its own overflow through itself.

What makes each component correct:

* transfer: delivered at most once; success means arrival; a duplicate send is
  skipped only beside a running twin; senders return; buffers are released;
* loop: one loop, one aggregation; no update lost while the loop runs, none
  merged twice; a bounded queue; `stop()` ends it;
* consensus: enough different peers; the own announcements go out, and not too
  often;
* relay: an entry leads to the live stream of its node; clients are registered
  again and again, closed ones leave; queues keep their bound;
* node: it has the transport it says it has, however its start went; shutdown
  leaves nothing up; `train` returns;
* membership and admission: the lists of peers agree at every await; a round that
  was recorded is never taken back, and not after a restart either;
* telemetry: reports are stored in order, a backlog is worked off; tables that are
  at their limits agree with each other; a viewer misses nothing; tokens survive;
* joining: quotas hold, what the network does to datagrams fails no manifest, a
  swarm is entered with one key, finished runs leave no trace;
* on the node's own data: what is compressed comes back, faulty updates are kept in
  bounds, training stops on a plateau and not before, the newest checkpoint stays,
  a round's targets are the right ones.

## 2. Plan

Done, most important first:

1. `ChunkTransfer`, with `ModelTransfer` as the abstract specification it
   implements, and `ChunkTransferProofs`.
2. `ModelAggregator` and `ModelAggregatorProofs`. It takes from the transfer that
   a model is handed over at most once (`ChunkTransfer!AtMostOnce`).
3. `ConsensusTracker`, driven by the checkpoint step of the loop.
4. `TunnelRelay` and `TunnelRelayProofs`.
5. `GossipNode`: start, fallback, `train`, `stop`, `shutdown`; `GossipNodeProofs`.
6. The community's direct path: `Membership` (who is known) and `UpdateAdmission`
   (which updates pass); `CommunityProofs`.
7. `TelemetryServer`, `TelemetryClient` composed with it, and `TelemetryProofs`.
8. Joining a swarm: `SwarmDirectory`, `ManifestExchange`, `TofuCache`, `RunCommand`;
   `JoinProofs`.
9. What a node does with its own data: `ModelStore`, `Compression`, `Aggregation`,
   `Convergence`, `PeerSelection`; `LocalProofs`.

Next: the stateful aggregation strategies (momentum, control variates) on integers;
the announcements over the tunnel, composed with the relay's peer list.

## 3. Modules and code

Every definition's source lines are in `PROJECT.json` under `map`. A definition
whose comment begins with "Mutant:" is a plausible bug, which no specification
uses; it stands before the definition it replaces in a mutated copy, and each
property is violated by one of them.

### ChunkTransfer (`network/gossip_community.py`)

A model too large for one packet is cut into chunks. `phase[t]` is where the
coroutine `_send_chunked_model_update` stands: `top` (deadline and end of loop),
`retry` (resending a snapshot of overdue chunks, one await each), `fill` (new
chunks while the window is open). Its three dictionaries are `active`, `inflight`
(by idempotency key) and `cache`. The receiver is `held`, `recent`, `completed`
and `callbacks`, the scheduled hand-over tasks. `on_model_chunk` is one
synchronous handler and hence one action, in five alternatives named after its
early returns. The network is a set of at most `NetCap` packets that are received
with or without being removed (duplication), in any order, or lost. Chunk bytes
are indices; the token buckets are refusals at any time; `time.time()` is a set of
events: a chunk becomes overdue, a deadline passes, a TTL runs out. Two relations
between the code's constants are kept as guards of the cleanup: a completed
transfer is forgotten (600 s) only when neither its sender (at most 96 s of retries
after the last chunk) nor a packet of it is left (`Quiet`), and a buffer expires
under a running sender only past that sender's own deadline. `AtMostOnce` rests on
the first.

`ModelTransfer` is the promise: one model, started, skipped beside a running
twin, reported as a success or a failure, arriving and handed over at most once;
success only if it arrived or was thrown away by the receiver.

### ModelAggregator (`gossip/aggregator.py`)

`pc[l]` is the await at which a call `l` of `run_continuous` is suspended; the
stages before the `finally` clause are `MainStages`, those of the clause
`ExitStages`. `pending`, `event`, `aggregating`, `running` and `active` are the
fields of the object. An update handler is suspended in `after_receive` between
its `running` check and its append (`HandlerStarts`, `HandlerEnds`). Each await
may end well, raise, or be cancelled. `merged` is a history variable.

### ConsensusTracker (`gossip/consensus.py` and its callers)

The tracker, the step of the loop that announces and checks, and the handler of
announcements. `_broadcast_checkpoint` is modelled as it runs: it records, then
raises at `await None`, and so never broadcasts and never records the local round.
`lastAnnounced` and `gap` are history variables.

### TunnelRelay (`network/fallback/`)

A stream has a client end (`client`, `cur`) and a server end (`server`, `named`,
`queue`), which end separately. `up` is the client's queue and the wire;
`blocked[s]` the put at which the incoming handler of `s` waits, `owed` the
`finally` clauses that wait at a full queue; `getters` the `get()` tasks that the
outgoing loop left behind when its 30 s wait timed out. `_reconnect_loop` never
runs out of attempts in the model: `connect()` opens a lazy channel and puts into
an empty queue, so that its attempt does not fail for want of a server. Once the
RPC is over its handler is taken to be cancelled at once; in the code that comes
after the notices, and until then the one put it may be waiting in could still
succeed.

### GossipNode (`network/gossip_node.py`, `ipv8_manager.py`, `core/learning_node.py`)

`call` is the await at which the owner's `start` or `shutdown` stands, `tasks` the
tasks that run `run_continuous` and the loop of `train`, `train` where `train`
itself polls, calls hooks or winds up. `clients` are the tunnel clients and what
became of each, `client` the node's own: one the node lets go of may live on in its
reconnect loop, and a new one takes the place of one that is over. IPv8 comes up, times out and fails as it likes. One task owns
`start` and `shutdown`; two tasks calling them at once are left out.

### Membership (`network/gossip_community.py`, `gossip/aggregator.py`, `topology/cyclon.py`, `topology/sampler.py`)

Three lists of peers: the community's, the aggregator's, and Cyclon's view.
`leaving` is what the stale cleanup has still to remove when it awaits a callback,
`notify` the tasks by which the topology is told of new peers, `bootstrap` the
context that the shuffle loop keeps from its start. What other nodes send in
announcements, shuffle requests and responses is any of it.

### UpdateAdmission (`network/gossip_community.py`, `network/gossip_node.py`)

The replay checks of direct updates (a table of rounds per key, kept in a file)
and of tunnelled ones (a table that is overwritten, and not kept). `handling[t]` is
the direct update with which handler task `t` awaits the aggregator, between check and
entry; the tasks are interchangeable, which the run `join` uses as a symmetry.

### TelemetryServer and TelemetryClient (`telemetry/`, `observability/events.py`)

The server has its tables with their limits (`known`, `swarmOf`, `swarmNodes`,
`events`, `rounds`, `edges`), one queue per viewer, the registry of tokens with its
file, and a login code. The oldest entry of a table is any entry, for the reports
carry their senders' clocks. The client has the waiters of its delivery lock, the
pending queue and the stage of the holder; a request is stored, refused, lost, or
stored with its answer lost. Overflow emits an event that the server refuses, as
in the code: its payload names no node.

### SwarmDirectory, ManifestExchange, TofuCache, RunCommand (`network/`, `cli/`)

`SwarmDirectory` keeps the cache in order of arrival, the stamps of the quota (taken
off the front while they are old, as in the code) and the candidates of `discover_and_join`, which are loaded one by one while the cache
changes. `ManifestExchange` has the servers' registries and rate limiters, the
datagrams and the assembler; the handlers between them are not in the repository
and are modelled from the module's description. `TofuCache` has memory and document
apart: either side of every flush may be lost. `RunCommand` has the phases of runs
that share a directory, their two files and `quinkgl status`, which reads them.

### ModelStore (`storage/model_store.py`, `cli/run_cmd.py`)

`op` is the operation that holds the store's lock and how far it has come through
its files; between two steps a write fails or the process dies. Memory, index of
rounds, cached listing and cached size are apart from data and metadata files.

### Compression, Aggregation, Convergence, PeerSelection

Algorithms with little state, against reference definitions. `Compression` is exact:
what was quantized is kept multiplied by the number of steps; the cells' widths are
scaled down. `Aggregation` works on models of one weight and answers fractions.
`Convergence` has integer metrics and keeps their history to compare with.
`PeerSelection` has every strategy but Cyclon, their cache, exploration ratio and
history, and the sends of a round, between which peers come and go.

`MCJoin` and `MCLocal` put modules that share no state side by side: `part` picks
the one whose steps are taken, so that one run covers all of them and no product of
their states is built.

## 4. Runs

`gossip_node`, `telemetry_delivery` and `telemetry_store` check for deadlock: a node
can always be called again, a client always emits or beats. In the others transfers
end, loops are stopped, clients close, bounds are used up, and a system in which
everything has ended may stop.

| Run | Instance | What it shows |
|---|---|---|
| `transfer_one` | one transfer of 2 chunks, window 1, 2 attempts, 1 packet, a round too far ahead at first | delivered at most once, success is real, with every failure: resends, NACKs, duplicates, expiry of buffer, memory and cache, aborts; senders return although NACKs reset attempts; after success the callback runs; buffers are released |
| `transfer_two` | two transfers of one key and one peer, one undecodable, 1 packet | the idempotency key names a running sender; `ModelTransfer` is implemented: a send is skipped only beside its twin. The constraint `MostlyCalm` leaves out what `transfer_one` covers: expiry of good buffers, forgetting |
| `aggregator` | 2 calls of `run_continuous`, 2 peers, rounds 0..2, 2 errors in a row, queue of 1 | one loop, one aggregation, no update merged twice or lost in a failed round, bounded queue; after `stop()` the loop ends |
| `tunnel_relay` | 2 nodes, 3 streams, one text, queues of 1 | bounded queues; an entry leads to a live stream of its node |
| `tunnel_live` | 2 nodes, 3 streams, no texts | registered again and again; closed clients leave for good |
| `telemetry_delivery` | 4 items told apart, queue of 2, 2 attempts, one restart of the server | stored in order, or not; the backlog clears after an outage |
| `telemetry_store` | 3 nodes in 2 swarms, room for 2, one entry per table, one viewer with a queue of 1 | tables that agree, a stream without gaps, tokens that survive |
| `gossip_node` | manifest, fallback, Cyclon and telemetry; budget of 1 round; one tunnel client alive at a time | the transport claimed is there; shutdown releases; `train` returns |
| `join` | 3 swarms, 2 creators; 2 servers and 2 chunks; 2 pins, 2 keys; 2 runs of one id; 2 peers and a view of 1; 2 senders, 2 rounds, 2 handler tasks | quotas, sound exchange, one key, tidy exit, lists that agree, replay protection over restarts |
| `local` | 3 weights; 5 updates, one faulty; 5 rounds; 2 peers; 3 checkpoints, one crash; 6 nodes, 7 strategies | the algorithms against their references; votes; the store's caches and retention; targets |
| `consensus_spacing` | 2 peers, further ahead | **violated**: checkpoints are not spaced by the interval |
| `store_resume` | 2 checkpoints, one crash | **violated**: a restarted process does not find its checkpoint |

Why the bounds are enough. A transfer of two chunks with a window of one has a
first, a last, a missing and an overdue chunk at the same time, and two attempts
tell the first from the last. Duplication keeps a packet while others come and go,
so that a late ACK or chunk overtakes even with room for one. Two loops are a loop
and the one that enters during its final aggregation; a third would have to find the
guard released by one of two, which is the same situation. Two errors in a row are
one that is retried and one that gives up. Two streams of one node are an old one
and a new one; a third stream of another node is the one that is notified, sends and
fills queues. A table of two among three nodes evicts one that comes back; a
pending queue of two has a head, a tail and an overflow. Two rounds with a skip of
one are a replay, a successor and one too far ahead. Two chunks are a full one and
the rest. Five updates are the fewest Krum takes with one faulty. Three checkpoints
are one kept, one cleared and one written meanwhile. Six nodes are a node, fanout
three and one left out, with one incompatible. What is safe is for the most part
proved without these bounds (section 5); `gossip_node` for instance has room for one
live client, the theorems about it for any number.

### Fairness

* `ChunkTransfer`: the event loop runs ready coroutines and timers, so the sending
  coroutine, its deadline, the scheduled callback and the periodic cleanup are
  weakly fair. Nothing is assumed of the network.
* `ModelAggregator`: every await ends (training, sends, waits with timeouts), and
  the caller stops the loop at `MaxRound`, as `GossipNode.train` does.
* `TunnelRelay`: the back-off ends, an RPC ends at its deadline (`timeout=` of
  `RegisterTunnel`, always finite), and the server notices that an RPC is over.
  Handling of REGISTER is strongly fair: a stream may die before its first message
  is handled, but not every stream does. Starvation of a particular REGISTER by an
  older stream is not excluded by this and is what `RegisteredAgain` is about.
* `TelemetryClient`: a client is started, its heartbeat's sleep ends, a free lock is
  taken, and a request ends one way or the other (it has a timeout). That requests
  succeed from some time on is a premise of `BacklogClears`, not an assumption.
* `GossipNode`: the steps of start, shutdown, `train`, its tasks and the scheduled
  `stop()` are taken by the event loop; a round of the loop ends. Nothing is assumed
  of IPv8, of the tunnel or of the callers.
* The other modules have safety properties only.

## 5. Proofs

The 32 safety properties that the passing runs check are all proved for every value of
the constants; `PROJECT.json` pairs each theorem with its property. Each proof
module establishes an inductive invariant, one lemma per action or group of actions,
and the theorems from it. What is assumed of the constants is the named ASSUME of each
module, which TLC evaluates in the runs: ranges of numbers, markers that are no member
of the set beside them, and the few relations named below. The bounds (`Max...` of
clocks, rounds, restarts) are among the constants, so that the theorems hold for all of
them. An action property is proved from the same invariant: every step from a state of
the invariant has it.

* `ChunkTransferProofs`: `IndInv` is `TypeOK`, `FreshInv` (of a transfer that has
  not begun there is no packet, buffer or entry), `HandoverInv` (after the
  hand-over there is no buffer, and the transfer is remembered as completed until
  nothing of it is under way), `AckInv` (until a transfer is handed over or loses
  data, what the sender or an ACK in flight has as acknowledged is in the buffer),
  `SuccessIsReal` and `KeyNamesRunning`. `AtMostOnce` alone is not inductive because
  the receiver forgets completed transfers; that no second hand-over follows rests
  on there being neither packet nor sender of them by then.
  Then `Refinement`: every step is a step of `ModelTransfer` or a stutter.
* `ModelAggregatorProofs`: `IndInv` is `TypeOK`, `LoopInv` (the entry
  guard is set while one loop is in its main stages, and only then),
  `AggregationInv` (the same of the aggregation flag, and only an aggregating loop
  holds a batch), `PlacesInv` (an update is in one of handler, queue, batch and
  model) and `BacklogInv` (queue and batch fit in one `MaxPending` for every error
  in a row). It takes `MinPeers <= MaxPending`: otherwise the queue would fill before
  it could be drained. The products are kept in a lemma of their own. `QueueIsKept`
  follows with `AggregationInv`: a loop that fails outside an aggregation has no batch
  to lose, and one that fails inside puts it back.
* `TunnelRelayProofs`: `IndInv` is `TypeOK`, `ReadsInv` (a running client reads a
  stream) and `QueueHasReader`, which is inductive although the `finally` clause
  deletes an entry without looking whose it is: it may delete too much, never too
  little.
* `CommunityProofs`: `SeenOnlyGrows` and `KeptIsFinal` from `AdmissionInv`: `UTypeOK`
  (with: the file is never ahead of the table) and `KeptInv` (the file has reached the
  round of every update whose entry went into it). `KnownAgree` is inductive; the work is in
  Cyclon's merges.
* `GossipNodeProofs`: `NodeInv` is the types, `StartInv` (what is up at each await of a
  start, and that nobody has closed the client that is being connected),
  `ShutdownInv` (what each await of a shutdown has already released) and
  `TransportMatchesMode`. The two properties speak of a node at rest; that they survive
  a start or a shutdown interrupted anywhere is what the two parts about awaits add.
* `JoinProofs`: `OneKey` from `PinInv` (while nothing has failed, a loaded memory is the
  document, and an accepted key is the one pinned there). `TidyExit` from `FilesInv`
  (a file comes from a run that is past its set-up) and `TidyInv` (after a tidy end the
  files are gone, or another run of that id is still there). `QuotaHolds` from `DirectoryInv`: the cache is
  `Orderly`, and in `StampInv` every publication that still counts has a stamp of its
  own (an injection), however often the stamps were trimmed; then a window that ends now
  holds no more than the stamps plus the new one. `ExchangeSound` from `ExchangeInv`:
  a chunk in flight under the current nonce, and every chunk the assembler holds, is a
  piece of a content served under that nonce, so that chunks of the manifest alone never
  contradict each other; that its pieces put together are the manifest again is
  `PiecesJoin`. What a rate limiter keeps of its requests only gets shorter before it
  admits one.
* `TelemetryProofs`: `TablesInv` (limits; index and nodes agree; nothing is kept of a
  node that is not known; each edge has a known end), `StreamInv` (what a subscriber
  was sent and what its queue holds are consecutive messages up to the last one
  published; one that was too slow has only the closing message left), `TokensInv` (registry and file hold what
  was issued, unless torn), and for `InOrder` `LineInv`: what is queued, under delivery
  and waiting for the lock stands in the order of emission behind what was stored, all
  heartbeats and overflow events included.
* `LocalProofs`: `NeverStarved` from `SpacingInv` (the tracker is never told of a local
  checkpoint, so that every round from the first interval on announces one), `ConsensusNeedsPeers` from `BallotInv` (a
  checkpoint is of one peer and round, and of an announcement filed under that round;
  the checkpoints counted then inject into the voters), `CacheCoherent` and `NewestSurvives` from `StoreInv` (a cache may be stale
  only inside a save, before it is invalidated; beside what a clear has left to delete
  there is a checkpoint of no lower round that it keeps),
  `StopsOnPlateau` from `PlateauInv`: the best values are those of the rounds
  up to the one that reset the patience counter, that round was better than all before
  it, and none was better by more than `min_delta` than the best; for the live monitor
  and for the saved one. `RoundTrip` follows the pipeline stage by stage: rounding to
  the nearest errs by half at most, hence a code times the step by half a step.
  `Robust` rests on four facts: a weighted sum lies between the bounds of its terms; of
  a sorted sequence with at most k values outside an interval, all but k at each end are
  inside (`Outvoted`); the score of an honest update is at most n - f - 2 times the
  spread of the honest ones; and the score of a faulty one counts at least n - 2f - 1
  honest neighbours. `SelectionSound` from `SelectionInv` (types; whoever is in the
  random strategy's cache is compatible, and is known or left no longer ago than the
  cache is old). The places of a sorted set are a bijection with the first numbers
  (`Placed`), so that a ranking takes exactly k; the i-th candidate on the ring is
  at distance i / 2, rounded up, so that everybody is met and the nearest first; and an
  edge that enters a full history replaces its weakest one.

Recursive functions over a sequence (`Total`, `Product`, `UpdateAll`, the library's
`FlattenSeq`) are within reach although the induction theorems are not: a least
counterexample shows that the recursion has a solution (`Unwound`), and that what holds
at 0 and is kept by each step holds to the end (`Stays`). `Aggregation` and
`PeerSelection` use such functions, and sort by counting (`Ascending`, `Place`), because
the provers cannot open the library's folds and sorts.

Model-checked only: everything with fairness, that is `SuccessIsDelivered`,
`BuffersAreReleased`, `SenderReturns`, `StopEndsLoop`, `RegisteredAgain`, `ClosedLeaves`,
`BacklogClears` and `TrainReturns` (the provers do not handle ENABLED). The two
properties that are violated are refuted by TLC's counterexamples.

## 6. Findings

* `consensus_spacing`: `_broadcast_checkpoint` awaits the `None` that
  `record_checkpoint` returns; the error is swallowed, and from the first interval
  on every round is a checkpoint round.
* `store_resume`: `docs/cli/run.md` says that `--resume` loads the latest checkpoint.
  `get_latest_checkpoint` looks at an index that is empty in a fresh process.

Facts met while modelling, which the models have and no property contradicts:

* Transfer: resends are not held back by the window; a rejected chunk is remembered
  as seen; a transfer that lasts past the receiver's 900 s
  (`docs/security/rate-limits.md`) is abandoned there and still reported as sent,
  because the fill loop does not look at its deadline.
* Loop: a batch that is put back may stand beside a newer update of the same peer;
  an update that has become stale in the queue is merged
  (`tests/framework/test_pending_lock.py` says such updates are filtered out); an
  update can be appended after the loop's exit; the wake-up event is cleared although
  an update arrived during the aggregation; a model that raises while weights are
  applied loses the batch; a cancelled loop releases the model lock while its
  shielded training still runs; an announcement too far ahead is filed under an
  earlier round.
* Relay: the outgoing loop leaves a `get()` behind at every idle timeout, and each
  swallows a message (the default deadline of 30 s ends the stream first). Only an
  exception starts the client's reconnect. Handlers wait at each other's full queues.
* Node: `shutdown` closes a tunnel client only if `_tunnel_connected`, which is not
  set again after a client has reconnected by itself, so that sends go on raising and
  the client outlives the node; `train` counts rounds that have begun and may overrun
  its budget between two polls, and a second call replays hooks from round 0; a
  shutdown while `run_continuous` is being wired misses the loop; over the tunnel a
  node announces itself only to peers that have announced themselves.
* Community: a view may exceed `view_size` after a merge; a round may pass twice while
  its first copy awaits the aggregator; a refused update still uses up its round; a
  sender that restarts at a lower round is refused; a shuffle response stores the
  responder as the address of the ids it names, and the cleanup of such an id takes
  the responder's key binding away.
* Telemetry: an item the server always refuses stays at the head of the queue for
  good, although `docs/security/rate-limits.md` says it is dropped after 3 attempts;
  the event that overflow emits is such an item. The token file is rewritten in place.
* Directory, exchange, trust: a queried advertisement that is published again keeps
  its expiry; a publication counts against the quota even when it is superseded; any
  creator's advertisement replaces a swarm's; one contradictory chunk fails an
  assembler; an unreadable pin document counts as empty and is then overwritten; a
  failed flush leaves its pin in memory.
* Run: Ctrl-C during set-up leaves files behind; a killed run is shown as running;
  exit codes differ from `docs/cli/run.md` (130 for an interrupt is 0 in the code).
* Store: compressed checkpoints cannot be read back (`model_store.py:235` passes
  `zlib.decompress` a `max_length` it does not take); `keep_last_n = 0` keeps everything; the index keeps
  entries of checkpoints that are not in memory.
* Data: the error feedback gets the uncorrected delta (`compression.py:123`);
  32-bit quantization wraps in a 16-bit cell; without delta, and with everything kept,
  a base is answered instead of the weights; FedAvg with a total weight of 0 answers
  zeros; the random strategy may select peers that have left until its cache expires;
  the affinity strategy never explores a good peer that is not among the best.

## 7. Not modelled

`PROJECT.json` lists every component. Left out for good: tensor arithmetic beyond
`Compression` and `Aggregation` (fingerprints, model wrappers, quality scores,
spectral analysis), byte formats, cryptography and static validation (manifests,
signatures, magnet links), the HTTP layer and terminal output, commands that read or
write one document, and the IPv8 and gRPC libraries. Left out so far: FedAvgM,
FedProx, Scaffold and entropy weighting; error feedback's momentum; announcements and
manifest fetches over the tunnel; two tasks or two processes where the code has no
guard between them (`start` twice, one pin document in two processes); request rate
limiters, which appear as refusals at any time.
