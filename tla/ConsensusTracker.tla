-------------------------- MODULE ConsensusTracker --------------------------
(***************************************************************************)
(* Checkpoints and convergence consensus at one node: ConsensusTracker     *)
(* (src/quinkgl/gossip/consensus.py) as ModelAggregator drives it, with    *)
(* the checkpoint step of run_continuous, _broadcast_checkpoint and        *)
(* _handle_checkpoint_announce (src/quinkgl/gossip/aggregator.py).         *)
(*                                                                         *)
(* Announcements travel as single UDP packets: they may be lost, come late,*)
(* in another order or more than once.  Losses are integers; fractions are *)
(* compared after multiplying out.                                         *)
(***************************************************************************)
EXTENDS Integers, FiniteSets, FiniteSetsExt

CONSTANTS
    Self,           \* this node
    Peers,          \* the others
    Losses,         \* the losses that are told apart
    Interval,       \* checkpoint_interval
    ThresholdNum,   \* consensus_threshold, a fraction
    ThresholdDen,
    LossTolerance,  \* loss_tolerance
    MinPeers,       \* min_peers_for_consensus
    MaxRoundAhead,  \* max_round_ahead
    KeepRounds,     \* keep_rounds of prune_old_checkpoints
    MaxRound,       \* bound: rounds of this node
    PeerRounds      \* bound: rounds in which the others announce

ASSUME ConstantsAssumption ==
    /\ Self \notin Peers
    /\ Losses \subseteq Int /\ PeerRounds \subseteq Nat
    /\ Interval \in Nat \ {0} /\ MaxRoundAhead \in Nat \ {0}
    /\ ThresholdNum \in Nat /\ ThresholdDen \in Nat \ {0}
    /\ LossTolerance \in Nat /\ MinPeers \in Nat /\ KeepRounds \in Nat \ {0}
    /\ MaxRound \in Nat

Announcements == [peer : Peers, round : PeerRounds, loss : Losses]

VARIABLES
    checkpoints,    \* _checkpoints, an entry per round and peer
    lastLocal,      \* _last_local_checkpoint_round
    lastSeen,       \* _last_seen_checkpoint_round
    round,          \* current_round
    stage,          \* where run_continuous is with its checkpoint
    running,        \* the loop runs
    known,          \* known_peers
    announced,      \* announcements the others have sent
    filed,          \* history: under which round an announcement was recorded
    lastAnnounced,  \* history: the last round this node announced
    gap,            \* history: rounds between its last two announcements
    reported        \* history: rounds reported with consensus_reached

tracker == <<checkpoints, lastSeen, filed>>
kVars == <<tracker, lastLocal, round, stage, running, known, announced,
           lastAnnounced, gap, reported>>

KInit ==
    /\ checkpoints = {} /\ lastLocal = 0 /\ lastSeen = 0 /\ filed = {}
    /\ round = 0 /\ stage = "round" /\ running = TRUE
    /\ known = {} /\ announced = {}
    /\ lastAnnounced = 0 /\ gap = Interval /\ reported = {}

-----------------------------------------------------------------------------
(* ConsensusTracker.                                                       *)

\* Mutant: a checkpoint seen from a peer counts as one of this node's.
ShouldCheckpointSeen(r) == r - lastSeen >= Interval

ShouldCheckpoint(r) == r - lastLocal >= Interval

Clamped(r) == IF r > lastSeen + MaxRoundAhead THEN lastSeen + MaxRoundAhead ELSE r

\* Mutant: a repeated submission is recorded like a first one.
NeverRecorded(p, r) == FALSE

Recorded(p, r) == \E c \in checkpoints : c.peer = p /\ c.round = r

HighestRound(r) == IF r > lastSeen THEN r ELSE lastSeen

\* record_checkpoint: freeze the first loss of a peer for a (clamped) round.
RecordCheckpoint(p, r, x) ==
    LET rnd == Clamped(r)
    IN  \/ /\ Recorded(p, rnd)
           /\ UNCHANGED tracker
        \/ /\ ~Recorded(p, rnd)
           /\ checkpoints' = checkpoints \cup {[peer |-> p, round |-> rnd, loss |-> x]}
           /\ lastSeen' = HighestRound(rnd)
           /\ filed' = filed \cup {[peer |-> p, round |-> r, as |-> rnd]}

\* The entries of the most recent round.
Newest == {c \in checkpoints : \A d \in checkpoints : d.round <= c.round}

\* check_consensus: in the most recent round, enough peers in all and a large
\* enough share of them within the tolerance of the mean loss.
Reached ==
    LET total    == Cardinality(Newest)
        sum      == MapThenSumSet(LAMBDA c : c.loss, Newest)
        near(c)  == /\ c.loss * total - sum <= LossTolerance * total
                    /\ sum - c.loss * total <= LossTolerance * total
        agreeing == Cardinality({c \in Newest : near(c)})
    IN  /\ total > 0
        /\ agreeing * ThresholdDen >= ThresholdNum * total
        /\ total >= MinPeers

\* prune_old_checkpoints: the entries of the KeepRounds highest rounds stay.
Pruned ==
    LET rounds == {c.round : c \in checkpoints}
    IN  {c \in checkpoints : Cardinality({r \in rounds : r > c.round}) < KeepRounds}

-----------------------------------------------------------------------------
(* The checkpoint step of run_continuous.                                  *)

\* A round ends with a checkpoint or without.
RoundEnds ==
    /\ running /\ stage = "round" /\ round < MaxRound
    /\ round' = round + 1
    /\ stage' = IF ShouldCheckpoint(round') THEN "evaluate" ELSE "round"
    /\ UNCHANGED <<tracker, lastLocal, running, known, announced, lastAnnounced, gap,
                   reported>>

\* _broadcast_checkpoint: record the own checkpoint and announce it.  The
\* await on record_checkpoint's None raises, so that record_local_checkpoint
\* is not called; the exception is swallowed.
BroadcastCheckpoint(x) ==
    /\ stage = "evaluate"
    /\ RecordCheckpoint(Self, round, x)
    /\ UNCHANGED lastLocal
    /\ stage' = "broadcast"
    /\ gap' = round - lastAnnounced
    /\ lastAnnounced' = round
    /\ UNCHANGED <<round, running, known, announced, reported>>

\* After the broadcast: report a consensus and prune.
CheckpointEnds ==
    /\ stage = "broadcast"
    /\ reported' = reported \cup {c.round : c \in IF Reached THEN Newest ELSE {}}
    /\ checkpoints' = Pruned
    /\ stage' = "round"
    /\ UNCHANGED <<lastSeen, filed, lastLocal, round, running, known, announced,
                   lastAnnounced, gap>>

Stop ==
    /\ running
    /\ running' = FALSE
    /\ UNCHANGED <<tracker, lastLocal, round, stage, known, announced, lastAnnounced,
                   gap, reported>>

-----------------------------------------------------------------------------
(* The others.                                                             *)

\* add_peer and remove_peer.
AddPeer(p) ==
    /\ p \notin known
    /\ known' = known \cup {p}
    /\ UNCHANGED <<tracker, lastLocal, round, stage, running, announced, lastAnnounced,
                   gap, reported>>

RemovePeer(p) ==
    /\ p \in known
    /\ known' = known \ {p}
    /\ UNCHANGED <<tracker, lastLocal, round, stage, running, announced, lastAnnounced,
                   gap, reported>>

\* A peer announces its checkpoint for a later round than before.
PeerAnnounces(a) ==
    /\ \A b \in announced : b.peer = a.peer => b.round < a.round
    /\ announced' = announced \cup {a}
    /\ UNCHANGED <<tracker, lastLocal, round, stage, running, known, lastAnnounced, gap,
                   reported>>

\* _handle_checkpoint_announce, for a packet that may arrive again.  Here the
\* await on None raises before check_consensus.
HandleAnnounce(a) ==
    /\ a \in announced
    /\ a.peer \in known /\ running
    /\ RecordCheckpoint(a.peer, a.round, a.loss)
    /\ UNCHANGED <<lastLocal, round, stage, running, known, announced, lastAnnounced,
                   gap, reported>>

-----------------------------------------------------------------------------
KNext ==
    \/ RoundEnds \/ CheckpointEnds \/ Stop
    \/ \E x \in Losses : BroadcastCheckpoint(x)
    \/ \E p \in Peers : AddPeer(p) \/ RemovePeer(p)
    \/ \E a \in Announcements : PeerAnnounces(a) \/ HandleAnnounce(a)

KSpec == KInit /\ [][KNext]_kVars

-----------------------------------------------------------------------------
(* Correctness.                                                            *)

\* Consensus takes min_peers_for_consensus different peers, whatever they
\* repeat: "This prevents a single peer from ballot-stuffing a round."
ConsensusNeedsPeers ==
    \A r \in reported :
        Cardinality({f.peer : f \in {g \in filed : g.as = r}}) >= MinPeers

\* Peers that are ahead do not keep this node from announcing: between two
\* rounds it is never checkpoint_interval rounds past its last announcement.
NeverStarved == stage = "round" => round - lastAnnounced < Interval

\* "Rounds between checkpoint collections": announcements of this node are
\* checkpoint_interval rounds apart.
CheckpointsAreSpaced == gap >= Interval
=============================================================================
