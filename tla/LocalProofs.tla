----------------------------- MODULE LocalProofs ----------------------------
(***************************************************************************)
(* Proofs about parts of a node that work on its own data, for any number  *)
(* of peers, rounds, checkpoints and weights: the consensus tracker, the   *)
(* checkpoint store, the convergence monitor, the compression pipeline,    *)
(* the aggregation strategies and the topology strategies.                 *)
(***************************************************************************)
EXTENDS ConsensusTracker, ModelStore, Convergence, Compression, Aggregation, PeerSelection,
        FiniteSetTheorems, SequenceTheorems, NaturalsInduction, WellFoundedInduction, TLAPS

-----------------------------------------------------------------------------
(* Checkpoints and consensus.                                                *)

\* A checkpoint of every Interval-th round at the latest: the tracker is never
\* told of a local one, so that every round from Interval on makes one.
SpacingInv ==
    /\ lastLocal = 0
    /\ round \in Nat /\ lastAnnounced \in Nat
    /\ stage = "broadcast" => lastAnnounced = round
    /\ NeverStarved

LEMMA SpacingInit == KInit => SpacingInv
  <1> SUFFICES ASSUME KInit PROVE SpacingInv
    OBVIOUS
  <1>1. Interval \in Nat \ {0}
    BY ConstantsAssumption
  <1>2. lastLocal = 0 /\ round = 0 /\ lastAnnounced = 0 /\ stage = "round"
    BY DEF KInit
  <1>3. QED BY <1>1, <1>2 DEF SpacingInv, NeverStarved

LEMMA SpacingNext == SpacingInv /\ [KNext]_kVars => SpacingInv'
  <1> SUFFICES ASSUME SpacingInv, [KNext]_kVars PROVE SpacingInv'
    OBVIOUS
  <1>0. Interval \in Nat \ {0}
    BY ConstantsAssumption
  <1>1. CASE RoundEnds
    <2>1. /\ round' = round + 1 /\ lastLocal' = 0 /\ lastAnnounced' = lastAnnounced
          /\ stage' = IF ShouldCheckpoint(round') THEN "evaluate" ELSE "round"
      BY <1>1 DEF RoundEnds, SpacingInv
    <2>2. round \in Nat /\ round' \in Nat /\ lastAnnounced \in Nat /\ lastLocal = 0
      BY <2>1 DEF SpacingInv
    <2>3. stage' = "round" => round' - lastAnnounced' < Interval
      <3>1. CASE ShouldCheckpoint(round')
        BY <2>1, <3>1
      <3>2. CASE ~ShouldCheckpoint(round')
        <4>1. ~(round' - 0 >= Interval)
          BY <2>2, <3>2 DEF ShouldCheckpoint
        <4>2. QED BY <1>0, <2>1, <2>2, <4>1
      <3>3. QED BY <3>1, <3>2
    <2>4. stage' # "broadcast"
      BY <2>1
    <2>5. QED BY <2>1, <2>2, <2>3, <2>4 DEF SpacingInv, NeverStarved
  <1>2. ASSUME NEW x \in Losses, BroadcastCheckpoint(x) PROVE SpacingInv'
    BY <1>2 DEF BroadcastCheckpoint, SpacingInv, NeverStarved
  <1>3. CASE CheckpointEnds
    <2>1. round = lastAnnounced /\ UNCHANGED <<round, lastLocal, lastAnnounced>> /\ stage' = "round"
      BY <1>3 DEF CheckpointEnds, SpacingInv
    <2>2. round' - lastAnnounced' < Interval
      BY <1>0, <2>1 DEF SpacingInv
    <2>3. QED BY <2>1, <2>2 DEF SpacingInv, NeverStarved
  <1>4. ASSUME UNCHANGED <<round, lastLocal, lastAnnounced, stage>> PROVE SpacingInv'
    BY <1>4 DEF SpacingInv, NeverStarved
  <1>5. QED
    BY <1>1, <1>2, <1>3, <1>4
       DEF KNext, Stop, AddPeer, RemovePeer, PeerAnnounces, HandleAnnounce, kVars

\* However far ahead the others are, this node announces in time
\* (ConsensusTracker.should_checkpoint, run_continuous).
THEOREM AnnouncesInTime == KSpec => []NeverStarved
  <1>1. SpacingInv => NeverStarved
    BY DEF SpacingInv
  <1>2. QED BY <1>1, SpacingInit, SpacingNext, PTL DEF KSpec

-----------------------------------------------------------------------------
(* What stands behind a reported consensus: a checkpoint is of one peer and  *)
(* one round only, and of an announcement that was filed under that round.   *)

BallotInv ==
    /\ IsFiniteSet(checkpoints) /\ IsFiniteSet(filed)
    /\ \A c \in checkpoints : c.round \in Int
    /\ \A c, d \in checkpoints : c.peer = d.peer /\ c.round = d.round => c = d
    /\ \A c \in checkpoints : \E f \in filed : f.peer = c.peer /\ f.as = c.round
    /\ lastSeen \in Int
    /\ round \in Nat
    /\ ConsensusNeedsPeers

\* The peers with an announcement filed under round r
Voters(F, r) == {f.peer : f \in {g \in F : g.as = r}}

LEMMA VotersGrow ==
    ASSUME NEW F, NEW G, IsFiniteSet(G), F \subseteq G, NEW r
    PROVE  /\ IsFiniteSet(Voters(F, r)) /\ IsFiniteSet(Voters(G, r))
           /\ Cardinality(Voters(F, r)) <= Cardinality(Voters(G, r))
  <1> DEFINE S == {g \in G : g.as = r}
  <1>1. IsFiniteSet(S)
    BY FS_Subset
  <1>2. IsFiniteSet({f.peer : f \in S})
    <2> DEFINE T == {f.peer : f \in S}
               h == [f \in S |-> f.peer]
    <2>1. h \in [S -> T] /\ \A t \in T : \E f \in S : h[f] = t
      OBVIOUS
    <2>2. h \in Surjection(S, T)
      BY <2>1 DEF Surjection
    <2> HIDE DEF T, h
    <2>3. IsFiniteSet(T)
      BY <1>1, <2>2, FS_Surjection
    <2>4. QED BY <2>3 DEF T
  <1>3. Voters(G, r) = {f.peer : f \in S} /\ Voters(F, r) \subseteq Voters(G, r)
    BY DEF Voters
  <1>4. IsFiniteSet(Voters(G, r))
    BY <1>2, <1>3
  <1>5. IsFiniteSet(Voters(F, r)) /\ Cardinality(Voters(F, r)) <= Cardinality(Voters(G, r))
    BY <1>3, <1>4, FS_Subset
  <1>6. QED BY <1>4, <1>5

\* More announcements take nothing from a consensus.
LEMMA ReportsStand ==
    ASSUME ConsensusNeedsPeers, IsFiniteSet(filed'), filed \subseteq filed', reported' = reported
    PROVE  ConsensusNeedsPeers'
  <1> SUFFICES ASSUME NEW r \in reported PROVE Cardinality(Voters(filed', r)) >= MinPeers
    BY DEF ConsensusNeedsPeers, Voters
  <1>1. Cardinality(Voters(filed, r)) >= MinPeers
    BY DEF ConsensusNeedsPeers, Voters
  <1>2. /\ IsFiniteSet(Voters(filed, r)) /\ IsFiniteSet(Voters(filed', r))
        /\ Cardinality(Voters(filed, r)) <= Cardinality(Voters(filed', r))
    BY VotersGrow
  <1>3. Cardinality(Voters(filed, r)) \in Nat /\ Cardinality(Voters(filed', r)) \in Nat
    BY <1>2, FS_CardinalityType
  <1>4. MinPeers \in Nat
    BY ConstantsAssumption
  <1>5. QED BY <1>1, <1>2, <1>3, <1>4

LEMMA RecordKeepsBallot ==
    ASSUME BallotInv, NEW p, NEW r \in Int, NEW x, RecordCheckpoint(p, r, x),
           round' \in Nat, reported' = reported
    PROVE  BallotInv'
  <1> DEFINE rnd == Clamped(r)
             c0 == [peer |-> p, round |-> rnd, loss |-> x]
             f0 == [peer |-> p, round |-> r, as |-> rnd]
  <1>1. rnd \in Int
    BY ConstantsAssumption DEF Clamped, BallotInv
  <1>2. CASE UNCHANGED tracker
    <2>1. UNCHANGED <<checkpoints, lastSeen, filed>>
      BY <1>2 DEF tracker
    <2>2. ConsensusNeedsPeers'
      BY <2>1 DEF BallotInv, ConsensusNeedsPeers
    <2>3. QED BY <2>1, <2>2 DEF BallotInv
  <1>3. CASE /\ ~Recorded(p, rnd)
             /\ checkpoints' = checkpoints \cup {c0}
             /\ lastSeen' = HighestRound(rnd)
             /\ filed' = filed \cup {f0}
    <2>1. IsFiniteSet(checkpoints') /\ IsFiniteSet(filed')
      BY <1>3, FS_AddElement DEF BallotInv
    <2>2. \A c \in checkpoints' : c.round \in Int
      BY <1>1, <1>3 DEF BallotInv
    <2>3. ASSUME NEW c \in checkpoints', NEW d \in checkpoints', c.peer = d.peer, c.round = d.round
          PROVE  c = d
      <3>1. CASE c \in checkpoints /\ d \in checkpoints
        BY <2>3, <3>1 DEF BallotInv
      <3>2. CASE c = c0 /\ d = c0
        BY <3>2
      <3>3. CASE c \in checkpoints /\ d = c0
        <4>1. d.peer = p /\ d.round = rnd
          BY <3>3
        <4>2. QED BY <1>3, <2>3, <3>3, <4>1 DEF Recorded
      <3>4. CASE d \in checkpoints /\ c = c0
        <4>1. c.peer = p /\ c.round = rnd
          BY <3>4
        <4>2. QED BY <1>3, <2>3, <3>4, <4>1 DEF Recorded
      <3>5. QED BY <1>3, <3>1, <3>2, <3>3, <3>4
    <2>4. ASSUME NEW c \in checkpoints' PROVE \E f \in filed' : f.peer = c.peer /\ f.as = c.round
      <3>1. CASE c \in checkpoints
        BY <1>3, <3>1 DEF BallotInv
      <3>2. CASE c = c0
        <4>1. f0.peer = c.peer /\ f0.as = c.round /\ f0 \in filed'
          BY <1>3, <3>2
        <4>2. QED BY <4>1
      <3>3. QED BY <1>3, <3>1, <3>2
    <2>5. lastSeen' \in Int
      BY <1>1, <1>3 DEF HighestRound, BallotInv
    <2>6. ConsensusNeedsPeers'
      BY <1>3, <2>1, ReportsStand DEF BallotInv
    <2>7. QED BY <2>1, <2>2, <2>3, <2>4, <2>5, <2>6 DEF BallotInv
  <1>4. QED BY <1>2, <1>3 DEF RecordCheckpoint

\* The newest round has no more checkpoints than voters.
LEMMA NewestHaveVoters ==
    ASSUME BallotInv, NEW c0 \in Newest
    PROVE  Cardinality(Newest) <= Cardinality(Voters(filed, c0.round))
  <1> DEFINE V == Voters(filed, c0.round)
             f == [c \in Newest |-> c.peer]
  <1>1. IsFiniteSet(V)
    BY VotersGrow DEF BallotInv
  <1>2. ASSUME NEW c \in Newest PROVE c.round = c0.round /\ c \in checkpoints
    <2>1. c \in checkpoints /\ c0 \in checkpoints /\ c.round <= c0.round /\ c0.round <= c.round
      BY DEF Newest
    <2>2. c.round \in Int /\ c0.round \in Int
      BY <2>1 DEF BallotInv
    <2>3. QED BY <2>1, <2>2
  <1>3. ASSUME NEW c \in Newest PROVE c.peer \in V
    <2>1. PICK g \in filed : g.peer = c.peer /\ g.as = c.round
      BY <1>2 DEF BallotInv
    <2>2. QED BY <1>2, <2>1 DEF Voters
  <1>4. ASSUME NEW c \in Newest, NEW d \in Newest, c.peer = d.peer PROVE c = d
    <2>1. c \in checkpoints /\ d \in checkpoints /\ c.round = d.round
      BY <1>2
    <2>2. QED BY <1>4, <2>1 DEF BallotInv
  <1> HIDE DEF V
  <1>5. f \in Injection(Newest, V)
    BY <1>3, <1>4 DEF Injection, IsInjective
  <1> HIDE DEF f
  <1>6. Cardinality(Newest) <= Cardinality(V)
    BY <1>1, <1>5, FS_Injection
  <1>7. QED BY <1>6 DEF V

LEMMA BallotInit == KInit => BallotInv
  <1> SUFFICES ASSUME KInit PROVE BallotInv
    OBVIOUS
  <1>1. IsFiniteSet({})
    BY FS_EmptySet
  <1>2. QED BY <1>1 DEF KInit, BallotInv, ConsensusNeedsPeers

LEMMA BallotNext == BallotInv /\ [KNext]_kVars => BallotInv'
  <1> SUFFICES ASSUME BallotInv, [KNext]_kVars PROVE BallotInv'
    OBVIOUS
  <1>1. CASE CheckpointEnds
    <2>1. /\ reported' = reported \cup {c.round : c \in IF Reached THEN Newest ELSE {}}
          /\ checkpoints' = Pruned /\ UNCHANGED <<lastSeen, filed, round>>
      BY <1>1 DEF CheckpointEnds
    <2>2. checkpoints' \subseteq checkpoints
      BY <2>1 DEF Pruned
    <2>3. IsFiniteSet(checkpoints') /\ IsFiniteSet(filed')
      BY <2>1, <2>2, FS_Subset DEF BallotInv
    <2>4. ASSUME NEW r \in reported' PROVE Cardinality(Voters(filed, r)) >= MinPeers
      <3>1. CASE r \in reported
        BY <3>1 DEF BallotInv, ConsensusNeedsPeers, Voters
      <3>2. CASE r \notin reported
        <4>1. Reached /\ \E c \in Newest : r = c.round
          BY <2>1, <3>2
        <4>2. PICK c \in Newest : r = c.round
          BY <4>1
        <4>3. Cardinality(Newest) >= MinPeers
          BY <4>1 DEF Reached
        <4>4. Cardinality(Newest) <= Cardinality(Voters(filed, r))
          BY <4>2, NewestHaveVoters
        <4>5. /\ Cardinality(Newest) \in Nat /\ Cardinality(Voters(filed, r)) \in Nat
              /\ MinPeers \in Nat
          <5>1. IsFiniteSet(Newest)
            BY FS_Subset DEF Newest, BallotInv
          <5>2. IsFiniteSet(Voters(filed, r))
            BY VotersGrow DEF BallotInv
          <5>3. QED BY <5>1, <5>2, FS_CardinalityType, ConstantsAssumption
        <4>6. QED BY <4>3, <4>4, <4>5
      <3>3. QED BY <3>1, <3>2
    <2>5. ConsensusNeedsPeers'
      BY <2>1, <2>4 DEF ConsensusNeedsPeers, Voters
    <2>6. QED BY <2>1, <2>2, <2>3, <2>5 DEF BallotInv
  <1>2. ASSUME NEW x \in Losses, BroadcastCheckpoint(x) PROVE BallotInv'
    <2>1. /\ RecordCheckpoint(Self, round, x) /\ round \in Int /\ round' \in Nat
          /\ reported' = reported
      BY <1>2 DEF BroadcastCheckpoint, BallotInv
    <2>2. QED BY <2>1, RecordKeepsBallot
  <1>3. ASSUME NEW a \in Announcements, HandleAnnounce(a) PROVE BallotInv'
    <2>1. a.round \in Int
      <3>1. a.round \in PeerRounds /\ PeerRounds \subseteq Nat
        BY ConstantsAssumption DEF Announcements
      <3>2. \A n \in PeerRounds : n \in Nat
        BY <3>1, Zenon
      <3>3. a.round \in Nat
        BY <3>1, <3>2, Zenon
      <3>4. QED BY <3>3
    <2>2. RecordCheckpoint(a.peer, a.round, a.loss) /\ round' \in Nat /\ reported' = reported
      BY <1>3 DEF HandleAnnounce, BallotInv
    <2>3. QED BY <2>1, <2>2, RecordKeepsBallot
  <1>4. ASSUME UNCHANGED <<checkpoints, lastSeen, filed, reported>>, round' \in Nat PROVE BallotInv'
    <2>1. ConsensusNeedsPeers'
      BY <1>4 DEF BallotInv, ConsensusNeedsPeers
    <2>2. QED BY <1>4, <2>1 DEF BallotInv
  <1>5. CASE RoundEnds
    <2>1. round' \in Nat
      BY <1>5 DEF RoundEnds, BallotInv
    <2>2. QED BY <1>4, <1>5, <2>1 DEF RoundEnds, tracker
  <1>6. ASSUME UNCHANGED <<tracker, reported, round>> PROVE BallotInv'
    <2>1. round' \in Nat
      BY <1>6 DEF BallotInv
    <2>2. QED BY <1>4, <1>6, <2>1 DEF tracker
  <1>7. QED
    BY <1>1, <1>2, <1>3, <1>5, <1>6 DEF KNext, Stop, AddPeer, RemovePeer, PeerAnnounces, kVars

\* A consensus is reported only where enough different peers announced for the
\* round (ConsensusTracker.record_checkpoint, check_consensus).
THEOREM ConsensusIsOfManyPeers == KSpec => []ConsensusNeedsPeers
  <1>1. BallotInv => ConsensusNeedsPeers
    BY DEF BallotInv
  <1>2. QED BY <1>1, BallotInit, BallotNext, PTL DEF KSpec

-----------------------------------------------------------------------------
(* The checkpoint store.                                                     *)

Created == 1 .. Len(rounds)

Saving    == op.kind \in {"saveMeta", "saveIndex"}
Unlinking == op.kind \in {"unlinkData", "unlinkMeta"}

Kinds == {"idle", "saveMeta", "saveIndex", "unlinkData", "unlinkMeta", "clear"}

StoreTypeOK ==
    /\ opts \in [disk : BOOLEAN, keep : BOOLEAN, gz : BOOLEAN, max : Nat]
    /\ rounds \in Seq(Rounds) /\ Len(rounds) <= MaxIds
    /\ data \subseteq Created \X BOOLEAN
    /\ mem \subseteq Created
    /\ cached \in BOOLEAN
    /\ op \in [kind : Kinds, id : 0 .. Len(rounds), todo : SUBSET Created]
    /\ op.kind \in {"idle", "clear"} \/ op.id \in Created

OnDisk(id) == \E f \in BOOLEAN : <<id, f>> \in data

\* A checkpoint in memory or about to be acknowledged has its file, where
\* there is a directory.
FilesInv ==
    /\ opts.disk => \A id \in mem : OnDisk(id)
    /\ opts.disk /\ Saving => OnDisk(op.id)
    /\ op.kind = "unlinkData" => op.id \notin mem

\* The caches: stale only between the two halves of a save, and gone as soon as
\* a delete begins.
Coherent ==
    /\ cached => cache = Listing
    /\ size # NoSize => cached /\ size = Cardinality(cache)

CacheInv ==
    /\ ~Saving => Coherent
    /\ Unlinking => ~cached /\ size = NoSize

\* While a clear is going on there is a checkpoint it does not delete, of a
\* round that is not below those it deletes.
Keeper(k) ==
    /\ OnDisk(k) /\ k \notin op.todo
    /\ \A d \in op.todo : rounds[k] >= rounds[d]
    /\ op.kind = "unlinkData" => k # op.id /\ rounds[k] >= rounds[op.id]

ClearInv ==
    opts.disk /\ op.kind \in {"clear", "unlinkData", "unlinkMeta"} =>
        \/ Unlinking /\ op.todo = {} /\ op.id \in dropped
        \/ \E k \in Created : Keeper(k)

StoreInv == StoreTypeOK /\ FilesInv /\ CacheInv /\ ClearInv

LEMMA RoundsNat ==
    ASSUME StoreTypeOK
    PROVE  /\ Len(rounds) \in Nat /\ Created \subseteq Ids /\ IsFiniteSet(Created)
           /\ \A i \in Created : rounds[i] \in Nat /\ rounds[i] \in Rounds /\ i # None
  <1>1. Len(rounds) \in Nat /\ MaxIds \in Nat /\ Len(rounds) <= MaxIds
    BY StoreAssumption DEF StoreTypeOK
  <1>2. Created \subseteq Ids
    BY <1>1 DEF Created, Ids
  <1>3. IsFiniteSet(Created)
    BY <1>1, FS_Interval DEF Created
  <1>4. ASSUME NEW i \in Created PROVE rounds[i] \in Nat /\ rounds[i] \in Rounds /\ i # None
    <2>1. rounds[i] \in Rounds
      BY DEF Created, StoreTypeOK
    <2>2. \A r \in Rounds : r \in Nat
      BY StoreAssumption, Zenon
    <2>3. i # None
      BY DEF Created, None
    <2>4. QED BY <2>1, <2>2, <2>3
  <1>5. QED BY <1>1, <1>2, <1>3, <1>4

\* What can be loaded is listed.
LEMMA LoadableIsListed ==
    ASSUME StoreTypeOK, NEW id, Loadable(id)
    PROVE  id \in Created /\ id \in Visible /\ id \in Listing /\ OnDisk(id)
  <1>1. <<id, FALSE>> \in data /\ opts.disk
    BY DEF Loadable
  <1>2. id \in Created
    BY <1>1 DEF StoreTypeOK
  <1>3. id \in Visible
    BY <1>1, <1>2, RoundsNat DEF Visible
  <1>4. QED BY <1>1, <1>2, <1>3 DEF Listing, OnDisk

LEMMA ListedIsOnDisk ==
    ASSUME StoreTypeOK, FilesInv, NEW id \in Listing
    PROVE  id \in Created /\ (opts.disk => OnDisk(id))
  <1>1. CASE id \in mem
    BY <1>1 DEF StoreTypeOK, FilesInv
  <1>2. CASE id \in Visible
    <2>1. \E f \in BOOLEAN : <<id, f>> \in data
      BY <1>2 DEF Visible
    <2>2. QED BY <2>1 DEF StoreTypeOK, OnDisk
  <1>3. QED BY <1>1, <1>2 DEF Listing

\* Loading checkpoints, and writing the sidecars of some of them, leaves the
\* listing as it is.
LEMMA LoadFine ==
    ASSUME StoreTypeOK, FilesInv, NEW S, \A id \in S : Loadable(id), LoadAll(S),
           UNCHANGED <<opts, rounds, data>>, NEW W \in SUBSET S, meta' = meta \cup W
    PROVE  /\ mem' \subseteq Created
           /\ opts.disk => \A id \in mem' : OnDisk(id)
           /\ Listing' = Listing
  <1>1. mem' = IF opts.keep THEN mem \cup S ELSE mem
    BY DEF LoadAll
  <1>2. \A id \in S : id \in Created /\ id \in Visible /\ id \in Listing /\ OnDisk(id)
    BY LoadableIsListed
  <1>3. mem' \subseteq Created /\ (opts.disk => \A id \in mem' : OnDisk(id))
    BY <1>1, <1>2 DEF StoreTypeOK, FilesInv
  <1>4. Visible' = Visible
    BY DEF Visible, Ids
  <1>5. \A id : Loadable(id)' <=> Loadable(id)
    BY DEF Loadable
  <1>6. ASSUME NEW id PROVE id \in Listing' <=> id \in Listing
    <2>1. id \in Listing' <=> \/ opts.keep /\ id \in mem'
                              \/ id \in Visible /\ (id \in meta' \/ Loadable(id))
      BY <1>4, <1>5 DEF Listing
    <2>2. id \in Listing <=> \/ opts.keep /\ id \in mem
                             \/ id \in Visible /\ (id \in meta \/ Loadable(id))
      BY DEF Listing
    <2>3. CASE id \in S
      BY <1>2, <2>1, <2>3
    <2>4. CASE id \notin S
      BY <1>1, <2>1, <2>2, <2>4
    <2>5. QED BY <2>3, <2>4
  <1>7. Listing' = Listing
    BY <1>6
  <1>8. QED BY <1>3, <1>7

\* list_checkpoint_metadata
LEMMA FillCacheFine ==
    ASSUME StoreTypeOK, FilesInv, Coherent, FillCache, UNCHANGED <<opts, rounds, data>>
    PROVE  /\ mem' \subseteq Created
           /\ opts.disk => \A id \in mem' : OnDisk(id)
           /\ cached' = TRUE /\ cache' = Listing /\ Listing' = Listing
           /\ cached => cache' = cache
  <1>1. CASE cached
    <2>1. UNCHANGED <<meta, mem, cached, cache>>
      BY <1>1 DEF FillCache
    <2>2. Listing' = Listing
      BY <2>1 DEF Listing, Visible, Loadable, Ids
    <2>3. cached' = TRUE
      BY <1>1, <2>1 DEF StoreTypeOK
    <2>4. QED BY <1>1, <2>1, <2>2, <2>3 DEF StoreTypeOK, FilesInv, Coherent
  <1>2. CASE ~cached
    <2>1. cache' = Listing /\ cached' = TRUE /\ LoadAll(Rebuilt)
      BY <1>2 DEF FillCache
    <2>2. PICK W \in SUBSET Rebuilt : meta' = meta \cup W
      BY <1>2 DEF FillCache
    <2>3. \A id \in Rebuilt : Loadable(id)
      BY DEF Rebuilt
    <2>4. /\ mem' \subseteq Created
          /\ opts.disk => \A id \in mem' : OnDisk(id)
          /\ Listing' = Listing
      BY <2>1, <2>2, <2>3, LoadFine
    <2>5. QED BY <1>2, <2>1, <2>4
  <1>3. QED BY <1>1, <1>2

\* load_checkpoint, get_checkpoint_by_round, get_latest_checkpoint
LEMMA ReadersLoad ==
    ASSUME (\E r \in Rounds : GetByRound(r)) \/ (\E id \in 1 .. Len(rounds) : LoadCheckpoint(id))
              \/ GetLatest
    PROVE  \E S : (\A id \in S : Loadable(id)) /\ LoadAll(S)
  <1>1. ASSUME NEW id \in 1 .. Len(rounds), LoadCheckpoint(id)
        PROVE  \E S : (\A i \in S : Loadable(i)) /\ LoadAll(S)
    <2>1. (\A i \in {id} : Loadable(i)) /\ LoadAll({id})
      BY <1>1 DEF LoadCheckpoint
    <2>2. QED BY <2>1
  <1>2. ASSUME NEW r \in Rounds, GetByRound(r)
        PROVE  \E S : (\A i \in S : Loadable(i)) /\ LoadAll(S)
    <2> DEFINE files == {id \in Visible : Loadable(id)}
               match == {id \in files : rounds[id] = r}
               I == {id \in {index[r]} : id \notin mem /\ Loadable(id)}
    <2>1. CASE index[r] # None
      <3>1. LoadAll(I) /\ \A i \in I : Loadable(i)
        BY <1>2, <2>1 DEF GetByRound
      <3> HIDE DEF I
      <3>2. QED BY <3>1
    <2>2. CASE index[r] = None
      <3>1. \E S \in SUBSET (files \ match) :
               IF match = {} THEN S = files /\ LoadAll(S)
               ELSE \E m \in match : LoadAll(S \cup {m})
        BY <1>2, <2>2 DEF GetByRound
      <3>2. PICK S \in SUBSET (files \ match) :
               IF match = {} THEN S = files /\ LoadAll(S)
               ELSE \E m \in match : LoadAll(S \cup {m})
        BY <3>1
      <3>3. CASE match = {}
        <4>1. LoadAll(S) /\ \A i \in S : Loadable(i)
          BY <3>2, <3>3
        <4>2. QED BY <4>1
      <3>4. CASE match # {}
        <4>1. PICK m \in match : LoadAll(S \cup {m})
          BY <3>2, <3>4
        <4>2. \A i \in S \cup {m} : Loadable(i)
          OBVIOUS
        <4>3. QED BY <4>1, <4>2
      <3>5. QED BY <3>3, <3>4
    <2>3. QED BY <2>1, <2>2
  <1>3. ASSUME GetLatest PROVE \E S : (\A i \in S : Loadable(i)) /\ LoadAll(S)
    <2> DEFINE S == {Latest} \ (mem \cup {None})
    <2>1. LoadAll(S)
      BY <1>3 DEF GetLatest
    <2>2. Latest = None \/ Latest \in mem \/ Loadable(Latest)
      BY DEF Latest
    <2>3. \A i \in S : Loadable(i)
      BY <2>2
    <2> HIDE DEF S
    <2>4. QED BY <2>1, <2>3
  <1>4. QED BY <1>1, <1>2, <1>3

\* What a step does to the files (the body of NewestSurvives).
Survives ==
    /\ \A id \in acked' \ acked : \E f \in BOOLEAN : <<id, f>> \in data'
    /\ \A file \in data \ data' :
          \/ file[1] \in dropped'
          \/ \E other \in data' : rounds'[other[1]] >= rounds'[file[1]]

LEMMA NothingLost ==
    ASSUME acked' = acked, data \subseteq data'
    PROVE  Survives
  BY DEF Survives

\* A step of a reader.
LEMMA ReaderFine ==
    ASSUME StoreInv, op.kind = "idle", UNCHANGED <<opts, rounds, data, op>>,
           mem' \subseteq Created, opts.disk => \A id \in mem' : OnDisk(id),
           cached' \in BOOLEAN, Coherent'
    PROVE  StoreInv'
  <1>1. Created' = Created
    BY DEF Created
  <1>2. StoreTypeOK'
    BY <1>1 DEF StoreInv, StoreTypeOK
  <1>3. FilesInv'
    BY DEF FilesInv, OnDisk, Saving
  <1>4. CacheInv'
    BY DEF CacheInv, Unlinking
  <1>5. ClearInv'
    BY DEF ClearInv
  <1>6. QED BY <1>2, <1>3, <1>4, <1>5 DEF StoreInv

LEMMA LoadsFine ==
    ASSUME StoreInv,
           (\E r \in Rounds : GetByRound(r)) \/ (\E id \in 1 .. Len(rounds) : LoadCheckpoint(id))
              \/ GetLatest
    PROVE  StoreInv' /\ Survives
  <1>1. /\ op.kind = "idle"
        /\ UNCHANGED <<opts, rounds, data, meta, cached, cache, size, op, acked>>
    BY DEF GetByRound, LoadCheckpoint, GetLatest, history
  <1>2. PICK S : (\A id \in S : Loadable(id)) /\ LoadAll(S)
    BY ReadersLoad
  <1>3. {} \in SUBSET S /\ meta' = meta \cup {}
    BY <1>1
  <1>4. /\ mem' \subseteq Created
        /\ opts.disk => \A id \in mem' : OnDisk(id)
        /\ Listing' = Listing
    BY <1>1, <1>2, <1>3, LoadFine DEF StoreInv
  <1>5. Coherent
    BY <1>1 DEF StoreInv, CacheInv, Saving
  <1>6. Coherent'
    BY <1>1, <1>4, <1>5 DEF Coherent, NoSize
  <1>7. cached' \in BOOLEAN
    BY <1>1 DEF StoreInv, StoreTypeOK
  <1>8. StoreInv'
    BY <1>1, <1>4, <1>6, <1>7, ReaderFine
  <1>9. QED BY <1>1, <1>8, NothingLost

LEMMA ListingFine ==
    ASSUME StoreInv, ListCheckpoints \/ GetStorageSize
    PROVE  StoreInv' /\ Survives
  <1>1. op.kind = "idle" /\ FillCache /\ UNCHANGED <<opts, rounds, data, op, acked>>
    BY DEF ListCheckpoints, GetStorageSize, history
  <1>2. Coherent
    BY <1>1 DEF StoreInv, CacheInv, Saving
  <1>3. /\ mem' \subseteq Created
        /\ opts.disk => \A id \in mem' : OnDisk(id)
        /\ cached' = TRUE /\ cache' = Listing /\ Listing' = Listing
        /\ cached => cache' = cache
    BY <1>1, <1>2, FillCacheFine DEF StoreInv
  <1>4. size' # NoSize => size' = Cardinality(cache')
    <2>1. CASE ListCheckpoints
      BY <1>2, <1>3, <2>1 DEF ListCheckpoints, Coherent
    <2>2. CASE GetStorageSize
      BY <2>2 DEF GetStorageSize, TotalSize
    <2>3. QED BY <2>1, <2>2
  <1>5. Coherent'
    BY <1>3, <1>4 DEF Coherent, NoSize
  <1>6. cached' \in BOOLEAN
    BY <1>3
  <1>7. StoreInv'
    BY <1>1, <1>3, <1>5, <1>6, ReaderFine
  <1>8. QED BY <1>1, <1>7, NothingLost

LEMMA SaveDataFine ==
    ASSUME StoreInv, NEW r \in Rounds, SaveData(r)
    PROVE  StoreInv' /\ Survives
  <1> DEFINE n == Len(rounds)
  <1>1. /\ op.kind = "idle" /\ n < MaxIds /\ UNCHANGED <<opts, meta, mem, cached, cache, size, acked>>
    BY DEF SaveData, volatile, history
  <1>2. Len(rounds) \in Nat /\ MaxIds \in Nat /\ rounds \in Seq(Rounds)
    BY StoreAssumption DEF StoreInv, StoreTypeOK
  <1>3. CASE UNCHANGED <<rounds, data, op>>
    <2>1. Listing' = Listing
      BY <1>1, <1>3 DEF Listing, Visible, Loadable, Ids
    <2>2. Coherent'
      BY <1>1, <2>1 DEF StoreInv, CacheInv, Saving, Coherent, NoSize
    <2>3. /\ mem' \subseteq Created /\ cached' \in BOOLEAN
          /\ opts.disk => \A id \in mem' : OnDisk(id)
      BY <1>1 DEF StoreInv, StoreTypeOK, FilesInv
    <2>4. StoreInv'
      BY <1>1, <1>3, <2>2, <2>3, ReaderFine
    <2>5. QED BY <1>1, <1>3, <2>4, NothingLost
  <1>4. CASE /\ rounds' = Append(rounds, r)
             /\ data' = IF opts.disk THEN data \cup {<<n + 1, opts.gz>>} ELSE data
             /\ op' = Op(IF opts.disk THEN "saveMeta" ELSE "saveIndex", n + 1, {})
    <2>1. rounds' \in Seq(Rounds) /\ Len(rounds') = n + 1
      BY <1>2, <1>4, AppendProperties
    <2>2. Created' = Created \cup {n + 1}
      BY <1>2, <2>1 DEF Created
    <2>3. Len(rounds') <= MaxIds /\ n + 1 \in 0 .. Len(rounds') /\ n + 1 \in Created'
      BY <1>1, <1>2, <2>1, <2>2
    <2>4. opts.gz \in BOOLEAN /\ opts.disk \in BOOLEAN
      BY DEF StoreInv, StoreTypeOK
    <2>5. data' \subseteq Created' \X BOOLEAN
      <3>1. data \subseteq Created \X BOOLEAN
        BY DEF StoreInv, StoreTypeOK
      <3>2. CASE opts.disk
        BY <1>4, <2>2, <2>4, <3>1, <3>2
      <3>3. CASE ~opts.disk
        BY <1>4, <2>2, <3>1, <3>3
      <3>4. QED BY <3>2, <3>3
    <2>6. /\ op'.kind \in {"saveMeta", "saveIndex"} /\ op'.id = n + 1 /\ op'.todo = {}
          /\ op' \in [kind : Kinds, id : 0 .. Len(rounds'), todo : SUBSET Created']
      BY <1>4, <2>3 DEF Op, Kinds
    <2>7. StoreTypeOK'
      <3>1. mem' \subseteq Created' /\ cached' \in BOOLEAN
        BY <1>1, <2>2 DEF StoreInv, StoreTypeOK
      <3>2. opts' \in [disk : BOOLEAN, keep : BOOLEAN, gz : BOOLEAN, max : Nat]
        BY <1>1 DEF StoreInv, StoreTypeOK
      <3>3. QED BY <2>1, <2>3, <2>5, <2>6, <3>1, <3>2 DEF StoreTypeOK
    <2>8. data \subseteq data'
      BY <1>4
    <2>9. FilesInv'
      <3>1. opts.disk => \A id \in mem : \E f \in BOOLEAN : <<id, f>> \in data'
        BY <2>8 DEF StoreInv, FilesInv, OnDisk
      <3>2. opts.disk => <<n + 1, opts.gz>> \in data'
        BY <1>4
      <3>3. opts.disk => \E f \in BOOLEAN : <<op'.id, f>> \in data'
        BY <2>4, <2>6, <3>2
      <3>4. QED BY <1>1, <2>6, <3>1, <3>3 DEF FilesInv, OnDisk
    <2>10. CacheInv'
      BY <2>6 DEF CacheInv, Saving, Unlinking
    <2>11. ClearInv'
      BY <2>6 DEF ClearInv
    <2>12. StoreInv'
      BY <2>7, <2>9, <2>10, <2>11 DEF StoreInv
    <2>13. QED BY <1>1, <2>8, <2>12, NothingLost
  <1>5. QED BY <1>3, <1>4 DEF SaveData

\* Steps that create no checkpoint.
LEMMA StoreTypes ==
    ASSUME StoreTypeOK, rounds' = rounds,
           opts' \in [disk : BOOLEAN, keep : BOOLEAN, gz : BOOLEAN, max : Nat],
           data' \subseteq data, mem' \subseteq Created, cached' \in BOOLEAN,
           op'.kind \in Kinds, op'.id \in 0 .. Len(rounds), op'.todo \subseteq Created,
           op'.kind \in {"idle", "clear"} \/ op'.id \in Created,
           op' = [kind |-> op'.kind, id |-> op'.id, todo |-> op'.todo]
    PROVE  StoreTypeOK' /\ Created' = Created
  <1>1. Created' = Created
    BY DEF Created
  <1>2. op' \in [kind : Kinds, id : 0 .. Len(rounds), todo : SUBSET Created]
    OBVIOUS
  <1>3. data' \subseteq Created \X BOOLEAN
    BY DEF StoreTypeOK
  <1>4. rounds \in Seq(Rounds) /\ Len(rounds) <= MaxIds
    BY DEF StoreTypeOK
  <1>5. QED BY <1>1, <1>2, <1>3, <1>4 DEF StoreTypeOK, Kinds

LEMMA IdleOp == Idle = [kind |-> "idle", id |-> 0, todo |-> {}]
  BY DEF Idle, None

LEMMA SaveRestFine ==
    ASSUME StoreInv, SaveMeta \/ SaveIndex
    PROVE  StoreInv' /\ Survives
  <1>0. /\ StoreTypeOK /\ FilesInv /\ UNCHANGED <<opts, rounds, data>>
        /\ opts \in [disk : BOOLEAN, keep : BOOLEAN, gz : BOOLEAN, max : Nat]
        /\ op.id \in 0 .. Len(rounds) /\ op.todo \subseteq Created /\ mem \subseteq Created
        /\ op = [kind |-> op.kind, id |-> op.id, todo |-> op.todo]
    BY DEF StoreInv, StoreTypeOK, SaveMeta, SaveIndex
  <1>1. CASE SaveMeta
    <2>1. /\ op.kind = "saveMeta" /\ op' = [kind |-> "saveIndex", id |-> op.id, todo |-> op.todo]
          /\ UNCHANGED <<mem, cached, cache, size, acked>>
      BY <1>0, <1>1 DEF SaveMeta, volatile, history
    <2>2. StoreTypeOK'
      <3>1. cached' \in BOOLEAN
        BY <2>1 DEF StoreInv, StoreTypeOK
      <3>2. op'.kind \in Kinds /\ op'.id = op.id /\ op'.todo = op.todo /\ op.id \in Created
            /\ op' = [kind |-> op'.kind, id |-> op'.id, todo |-> op'.todo]
        BY <1>0, <2>1 DEF Kinds, StoreTypeOK
      <3>3. QED BY <1>0, <2>1, <3>1, <3>2, StoreTypes
    <2>3. FilesInv'
      BY <1>0, <2>1 DEF FilesInv, OnDisk, Saving
    <2>4. CacheInv' /\ ClearInv'
      BY <2>1 DEF CacheInv, ClearInv, Saving, Unlinking
    <2>5. StoreInv'
      BY <2>2, <2>3, <2>4 DEF StoreInv
    <2>6. QED BY <1>0, <2>1, <2>5, NothingLost
  <1>2. CASE SaveIndex
    <2>1. /\ op.kind = "saveIndex" /\ op' = Idle
          /\ cached' = FALSE /\ size' = NoSize /\ mem' \subseteq mem \cup {op.id}
          /\ opts.keep \/ mem' = mem
          /\ acked' \subseteq (IF opts.disk THEN acked \cup {op.id} ELSE acked)
      BY <1>2 DEF SaveIndex, Invalidate
    <2>2. opts.disk => OnDisk(op.id)
      BY <2>1 DEF StoreInv, FilesInv, Saving
    <2>3. op.id \in Created /\ mem' \subseteq Created
      BY <1>0, <2>1 DEF StoreTypeOK
    <2>4. op'.kind = "idle" /\ op'.id = 0 /\ op'.todo = {} /\ 0 \in 0 .. Len(rounds)
          /\ op' = [kind |-> op'.kind, id |-> op'.id, todo |-> op'.todo]
      BY <1>0, <2>1, IdleOp, RoundsNat
    <2>5. StoreTypeOK'
      BY <1>0, <2>1, <2>3, <2>4, StoreTypes DEF Kinds
    <2>6. FilesInv'
      <3>1. opts.disk => \A id \in mem' : OnDisk(id)
        BY <1>0, <2>1, <2>2 DEF FilesInv
      <3>2. QED BY <1>0, <2>4, <3>1 DEF FilesInv, OnDisk, Saving
    <2>7. CacheInv' /\ ClearInv'
      BY <2>1, <2>4 DEF CacheInv, ClearInv, Coherent, Saving, Unlinking, NoSize
    <2>8. Survives
      BY <1>0, <2>1, <2>2 DEF Survives, OnDisk
    <2>9. QED BY <2>5, <2>6, <2>7, <2>8 DEF StoreInv
  <1>3. QED BY <1>1, <1>2

\* delete_checkpoint begins, called for one checkpoint or by a clear.
LEMMA DeleteFine ==
    ASSUME StoreInv, NEW id \in Created, DropFromMemory(id), NEW todo \in SUBSET Created,
           op' = Op("unlinkData", id, todo), UNCHANGED <<opts, rounds, data, acked>>,
           opts.disk => \/ todo = {} /\ id \in dropped'
                        \/ \E k \in Created : /\ OnDisk(k) /\ k \notin todo /\ k # id
                                               /\ \A d \in todo \cup {id} : rounds[k] >= rounds[d]
    PROVE  StoreInv' /\ Survives
  <1>1. mem' = mem \ {id} /\ cached' = FALSE /\ size' = NoSize
    BY DEF DropFromMemory, Invalidate
  <1>2. op'.kind = "unlinkData" /\ op'.id = id /\ op'.todo = todo
        /\ op' = [kind |-> op'.kind, id |-> op'.id, todo |-> op'.todo]
    BY DEF Op
  <1>3. /\ StoreTypeOK /\ opts \in [disk : BOOLEAN, keep : BOOLEAN, gz : BOOLEAN, max : Nat]
        /\ mem \subseteq Created
    BY DEF StoreInv, StoreTypeOK
  <1>4. id \in 0 .. Len(rounds)
    BY <1>3, RoundsNat DEF Created
  <1>5. StoreTypeOK' /\ Created' = Created
    BY <1>1, <1>2, <1>3, <1>4, StoreTypes DEF Kinds
  <1>6. FilesInv'
    BY <1>1, <1>2 DEF StoreInv, FilesInv, OnDisk, Saving
  <1>7. CacheInv'
    BY <1>1, <1>2 DEF CacheInv, Coherent, Saving, NoSize
  <1>8. ClearInv'
    <2> SUFFICES ASSUME opts.disk
                 PROVE  \/ Unlinking' /\ op'.todo = {} /\ op'.id \in dropped'
                        \/ \E k \in Created' : Keeper(k)'
      BY DEF ClearInv
    <2>1. CASE todo = {} /\ id \in dropped'
      BY <1>2, <2>1 DEF Unlinking
    <2>2. ASSUME NEW k \in Created, OnDisk(k), k \notin todo, k # id,
                 \A d \in todo \cup {id} : rounds[k] >= rounds[d]
          PROVE  Keeper(k)'
      BY <1>2, <2>2 DEF Keeper, OnDisk
    <2>3. QED BY <1>5, <2>1, <2>2
  <1>9. QED BY <1>5, <1>6, <1>7, <1>8, NothingLost DEF StoreInv

LEMMA DeleteBeginFine ==
    ASSUME StoreInv, NEW id \in 1 .. Len(rounds), DeleteBegin(id)
    PROVE  StoreInv' /\ Survives
  <1>1. /\ DropFromMemory(id) /\ op' = Op("unlinkData", id, {}) /\ id \in dropped'
        /\ UNCHANGED <<opts, rounds, data, acked>>
    BY DEF DeleteBegin
  <1>2. id \in Created /\ {} \in SUBSET Created
    BY DEF Created
  <1>3. QED BY <1>1, <1>2, DeleteFine

LEMMA ClearNextFine ==
    ASSUME StoreInv, ClearNext
    PROVE  StoreInv' /\ Survives
  <1>1. /\ op.kind = "clear" /\ UNCHANGED <<opts, rounds, data, acked, dropped>>
        /\ op.todo \subseteq Created
    BY DEF ClearNext, history, StoreInv, StoreTypeOK
  <1>2. PICK id \in op.todo : DropFromMemory(id) /\ op' = Op("unlinkData", id, op.todo \ {id})
    BY DEF ClearNext
  <1>3. id \in Created /\ op.todo \ {id} \in SUBSET Created
    BY <1>1
  <1>4. opts.disk => \E k \in Created : /\ OnDisk(k) /\ k \notin op.todo \ {id} /\ k # id
                                        /\ \A d \in (op.todo \ {id}) \cup {id} : rounds[k] >= rounds[d]
    <2> SUFFICES ASSUME opts.disk
                 PROVE  \E k \in Created : /\ OnDisk(k) /\ k \notin op.todo \ {id} /\ k # id
                                           /\ \A d \in (op.todo \ {id}) \cup {id} : rounds[k] >= rounds[d]
      OBVIOUS
    <2>1. PICK k \in Created : Keeper(k)
      BY <1>1 DEF StoreInv, ClearInv, Unlinking
    <2>2. OnDisk(k) /\ k \notin op.todo /\ \A d \in op.todo : rounds[k] >= rounds[d]
      BY <2>1 DEF Keeper
    <2>3. QED BY <2>2
  <1> DEFINE todo == op.todo \ {id}
  <1>5. /\ todo \in SUBSET Created /\ op' = Op("unlinkData", id, todo)
        /\ opts.disk => \E k \in Created : /\ OnDisk(k) /\ k \notin todo /\ k # id
                                           /\ \A d \in todo \cup {id} : rounds[k] >= rounds[d]
    BY <1>2, <1>3, <1>4
  <1>6. DropFromMemory(id)
    BY <1>2
  <1> HIDE DEF todo
  <1>7. QED BY <1>1, <1>3, <1>5, <1>6, DeleteFine

LEMMA UnlinkDataFine ==
    ASSUME StoreInv, UnlinkData
    PROVE  StoreInv' /\ Survives
  <1>1. /\ op.kind = "unlinkData"
        /\ data' = IF opts.disk THEN data \ ({op.id} \X BOOLEAN) ELSE data
        /\ UNCHANGED <<opts, rounds, mem, cached, cache, size, acked, dropped>>
    BY DEF UnlinkData, volatile, history
  <1>2. /\ StoreTypeOK /\ opts \in [disk : BOOLEAN, keep : BOOLEAN, gz : BOOLEAN, max : Nat]
        /\ op.id \in 0 .. Len(rounds) /\ op.todo \subseteq Created /\ mem \subseteq Created
        /\ op.id \in Created /\ data \subseteq Created \X BOOLEAN /\ cached \in BOOLEAN
    BY <1>1 DEF StoreInv, StoreTypeOK
  <1>3. /\ op'.kind = "unlinkMeta" /\ op'.id = op.id /\ op'.todo = op.todo
        /\ op' = [kind |-> op'.kind, id |-> op'.id, todo |-> op'.todo]
    BY DEF StoreInv, StoreTypeOK, UnlinkData
  <1>4. data' \subseteq data
    BY <1>1
  <1>5. StoreTypeOK' /\ Created' = Created
    BY <1>1, <1>2, <1>3, <1>4, StoreTypes DEF Kinds
  <1>6. ASSUME NEW i, i # op.id, OnDisk(i) PROVE OnDisk(i)'
    BY <1>1, <1>6 DEF OnDisk
  <1>7. FilesInv'
    <2>1. \A i \in mem : i # op.id
      BY <1>1 DEF StoreInv, FilesInv
    <2>2. opts.disk => \A i \in mem : OnDisk(i)'
      BY <1>6, <2>1 DEF StoreInv, FilesInv
    <2>3. QED BY <1>1, <1>3, <2>2 DEF FilesInv, Saving
  <1>8. CacheInv'
    <2>1. ~cached /\ size = NoSize
      BY <1>1 DEF StoreInv, CacheInv, Unlinking
    <2>2. QED BY <1>1, <1>3, <2>1 DEF CacheInv, Coherent, Saving, NoSize
  <1>9. opts.disk => \/ op.todo = {} /\ op.id \in dropped
                     \/ \E k \in Created : /\ OnDisk(k)' /\ k \notin op.todo /\ rounds[k] >= rounds[op.id]
                                           /\ \A d \in op.todo : rounds[k] >= rounds[d]
    <2> SUFFICES ASSUME opts.disk, ~(op.todo = {} /\ op.id \in dropped)
                 PROVE  \E k \in Created : /\ OnDisk(k)' /\ k \notin op.todo
                                           /\ rounds[k] >= rounds[op.id]
                                           /\ \A d \in op.todo : rounds[k] >= rounds[d]
      OBVIOUS
    <2>1. PICK k \in Created : Keeper(k)
      BY <1>1 DEF StoreInv, ClearInv, Unlinking
    <2>2. /\ OnDisk(k) /\ k \notin op.todo /\ k # op.id /\ rounds[k] >= rounds[op.id]
          /\ \A d \in op.todo : rounds[k] >= rounds[d]
      BY <1>1, <2>1 DEF Keeper
    <2>3. QED BY <1>6, <2>2
  <1>10. ClearInv'
    <2> SUFFICES ASSUME opts.disk
                 PROVE  \/ Unlinking' /\ op'.todo = {} /\ op'.id \in dropped'
                        \/ \E k \in Created' : Keeper(k)'
      BY <1>1 DEF ClearInv
    <2>1. CASE op.todo = {} /\ op.id \in dropped
      BY <1>1, <1>3, <2>1 DEF Unlinking
    <2>2. ASSUME NEW k \in Created, OnDisk(k)', k \notin op.todo,
                 \A d \in op.todo : rounds[k] >= rounds[d]
          PROVE  Keeper(k)'
      BY <1>1, <1>3, <2>2 DEF Keeper
    <2>3. QED BY <1>5, <1>9, <2>1, <2>2
  <1>11. Survives
    <2> SUFFICES ASSUME NEW file \in data \ data'
                 PROVE  \/ file[1] \in dropped'
                        \/ \E other \in data' : rounds'[other[1]] >= rounds'[file[1]]
      BY <1>1 DEF Survives
    <2>1. opts.disk /\ file[1] = op.id
      BY <1>1
    <2>2. CASE op.id \in dropped
      BY <1>1, <2>1, <2>2
    <2>3. CASE op.id \notin dropped
      <3>1. PICK k \in Created : OnDisk(k)' /\ rounds[k] >= rounds[op.id]
        BY <1>9, <2>1, <2>3
      <3>2. PICK f \in BOOLEAN : <<k, f>> \in data'
        BY <3>1 DEF OnDisk
      <3>3. <<k, f>>[1] = k
        OBVIOUS
      <3>4. QED BY <1>1, <2>1, <3>1, <3>2, <3>3
    <2>4. QED BY <2>2, <2>3
  <1>12. QED BY <1>5, <1>7, <1>8, <1>10, <1>11 DEF StoreInv

LEMMA UnlinkMetaFine ==
    ASSUME StoreInv, UnlinkMeta
    PROVE  StoreInv' /\ Survives
  <1>1. /\ op.kind = "unlinkMeta"
        /\ UNCHANGED <<opts, rounds, data, mem, cached, cache, size, acked, dropped>>
    BY DEF UnlinkMeta, volatile, history
  <1>2. /\ StoreTypeOK /\ opts \in [disk : BOOLEAN, keep : BOOLEAN, gz : BOOLEAN, max : Nat]
        /\ op.id \in 0 .. Len(rounds) /\ op.todo \subseteq Created /\ mem \subseteq Created
        /\ cached \in BOOLEAN /\ 0 \in 0 .. Len(rounds)
    BY RoundsNat DEF StoreInv, StoreTypeOK
  <1>3. ~cached' /\ size' = NoSize
    BY <1>1 DEF StoreInv, CacheInv, Unlinking
  <1>4. /\ \/ op.todo = {} /\ op'.kind = "idle" /\ op'.id = 0 /\ op'.todo = {}
           \/ op.todo # {} /\ op'.kind = "clear" /\ op'.id = op.id /\ op'.todo = op.todo
        /\ op' = [kind |-> op'.kind, id |-> op'.id, todo |-> op'.todo]
    <2>1. CASE op.todo = {}
      BY <2>1, IdleOp DEF UnlinkMeta
    <2>2. CASE op.todo # {}
      BY <2>2 DEF UnlinkMeta, StoreInv, StoreTypeOK
    <2>3. QED BY <2>1, <2>2
  <1>5. StoreTypeOK' /\ Created' = Created
    BY <1>1, <1>2, <1>4, StoreTypes DEF Kinds
  <1>6. FilesInv'
    BY <1>1, <1>4 DEF StoreInv, FilesInv, OnDisk, Saving
  <1>7. CacheInv'
    BY <1>3, <1>4 DEF CacheInv, Coherent, Saving, Unlinking, NoSize
  <1>8. ClearInv'
    <2> SUFFICES ASSUME opts.disk, op'.kind \in {"clear", "unlinkData", "unlinkMeta"}
                 PROVE  \E k \in Created' : Keeper(k)'
      BY <1>1 DEF ClearInv
    <2>1. op.todo # {} /\ op'.kind = "clear" /\ op'.todo = op.todo
      BY <1>4
    <2>2. PICK k \in Created : Keeper(k)
      BY <1>1, <2>1 DEF StoreInv, ClearInv
    <2>3. Keeper(k)'
      BY <1>1, <2>1, <2>2 DEF Keeper, OnDisk
    <2>4. QED BY <1>5, <2>3
  <1>9. QED BY <1>1, <1>5, <1>6, <1>7, <1>8, NothingLost DEF StoreInv

\* What a clear leaves: something, and nothing older than what it deletes.
LEMMA SurplusLeaves ==
    ASSUME NEW L, IsFiniteSet(L), NEW n \in Nat, NEW D \in Surplus(L, n), D # {}
    PROVE  /\ D \subseteq L
           /\ \E k \in L : k \notin D /\ \A d \in D : rounds[d] <= rounds[k]
  <1>1. /\ D \subseteq L
        /\ Cardinality(D) = IF n = 0 \/ Cardinality(L) <= n THEN 0 ELSE Cardinality(L) - n
        /\ \A d \in D, k \in L \ D : rounds[d] <= rounds[k]
    BY DEF Surplus
  <1>2. Cardinality(L) \in Nat /\ IsFiniteSet(D) /\ Cardinality(D) \in Nat
    BY <1>1, FS_CardinalityType, FS_Subset
  <1>3. Cardinality(D) # 0
    BY <1>2, FS_EmptySet
  <1>4. n # 0 /\ Cardinality(D) = Cardinality(L) - n
    BY <1>1, <1>3
  <1>5. Cardinality(D) # Cardinality(L)
    BY <1>2, <1>4
  <1>6. D # L
    BY <1>5
  <1>7. PICK k \in L : k \notin D
    BY <1>1, <1>6
  <1>8. QED BY <1>1, <1>7

LEMMA ClearBeginFine ==
    ASSUME StoreInv, NEW n \in Keeps, ClearBegin(n)
    PROVE  StoreInv' /\ Survives
  <1>1. op.kind = "idle" /\ FillCache /\ UNCHANGED <<opts, rounds, data, size, acked, dropped>>
    BY DEF ClearBegin, history
  <1>2. /\ StoreTypeOK /\ FilesInv
        /\ opts \in [disk : BOOLEAN, keep : BOOLEAN, gz : BOOLEAN, max : Nat]
        /\ 0 \in 0 .. Len(rounds)
    BY RoundsNat DEF StoreInv, StoreTypeOK
  <1>3. Coherent
    BY <1>1 DEF StoreInv, CacheInv, Saving
  <1>4. /\ mem' \subseteq Created
        /\ opts.disk => \A id \in mem' : OnDisk(id)
        /\ cached' = TRUE /\ cache' = Listing /\ Listing' = Listing
        /\ cached => cache' = cache
    BY <1>1, <1>2, <1>3, FillCacheFine
  <1>5. Coherent'
    <2>1. size' # NoSize => size' = Cardinality(cache')
      BY <1>1, <1>3, <1>4 DEF Coherent
    <2>2. QED BY <1>4, <2>1 DEF Coherent, NoSize
  <1>6. PICK D \in Surplus(Listing, n) : op' = IF D = {} THEN Idle ELSE Op("clear", None, D)
    BY <1>4 DEF ClearBegin
  <1>7. CASE D = {}
    <2>1. op' = Idle /\ op'.kind = "idle" /\ op'.id = 0 /\ op'.todo = {}
          /\ op' = [kind |-> op'.kind, id |-> op'.id, todo |-> op'.todo]
      BY <1>6, <1>7, IdleOp
    <2>2. StoreTypeOK'
      BY <1>1, <1>2, <1>4, <2>1, StoreTypes DEF Kinds
    <2>3. FilesInv'
      BY <1>1, <1>4, <2>1 DEF FilesInv, OnDisk, Saving
    <2>4. CacheInv' /\ ClearInv'
      BY <1>5, <2>1 DEF CacheInv, ClearInv, Saving, Unlinking
    <2>5. QED BY <1>1, <2>2, <2>3, <2>4, NothingLost DEF StoreInv
  <1>8. CASE D # {}
    <2>1. op'.kind = "clear" /\ op'.id = 0 /\ op'.todo = D
          /\ op' = [kind |-> op'.kind, id |-> op'.id, todo |-> op'.todo]
      BY <1>6, <1>8 DEF Op, None
    <2>2. Listing \subseteq Created /\ IsFiniteSet(Created)
      BY <1>2, ListedIsOnDisk, RoundsNat
    <2>3. IsFiniteSet(Listing)
      BY <2>2, FS_Subset
    <2>4. n \in Nat
      BY StoreAssumption, Zenon
    <2>5. D \subseteq Listing /\ \E k \in Listing : k \notin D /\ \A d \in D : rounds[d] <= rounds[k]
      BY <1>6, <1>8, <2>3, <2>4, SurplusLeaves
    <2>6. StoreTypeOK' /\ Created' = Created
      <3>1. D \subseteq Created
        BY <2>2, <2>5
      <3>2. QED BY <1>1, <1>2, <1>4, <2>1, <3>1, StoreTypes DEF Kinds
    <2>7. FilesInv'
      BY <1>1, <1>4, <2>1 DEF FilesInv, OnDisk, Saving
    <2>8. CacheInv'
      BY <1>5, <2>1 DEF CacheInv, Saving, Unlinking
    <2>9. ClearInv'
      <3> SUFFICES ASSUME opts.disk PROVE \E k \in Created' : Keeper(k)'
        BY <1>1 DEF ClearInv
      <3>1. PICK k \in Listing : k \notin D /\ \A d \in D : rounds[d] <= rounds[k]
        BY <2>5
      <3>2. OnDisk(k) /\ k \in Created
        BY <1>2, <3>1, ListedIsOnDisk
      <3>3. \A d \in D : rounds[k] >= rounds[d]
        <4>1. \A i \in Created : rounds[i] \in Nat
          BY <1>2, RoundsNat
        <4>2. QED BY <2>2, <2>5, <3>1, <3>2, <4>1
      <3>4. Keeper(k)'
        BY <1>1, <2>1, <3>1, <3>2, <3>3 DEF Keeper, OnDisk
      <3>5. QED BY <2>6, <3>2, <3>4
    <2>10. QED BY <1>1, <2>6, <2>7, <2>8, <2>9, NothingLost DEF StoreInv
  <1>9. QED BY <1>7, <1>8

LEMMA RestartFine ==
    ASSUME StoreInv, NEW o \in Options, Restart(o)
    PROVE  StoreInv' /\ Survives
  <1>1. /\ opts' = o /\ mem' = {} /\ cached' = FALSE /\ size' = NoSize /\ op' = Idle
        /\ UNCHANGED <<rounds, data, acked>>
    BY DEF Restart, Opened, Invalidate, history
  <1>2. opts' \in [disk : BOOLEAN, keep : BOOLEAN, gz : BOOLEAN, max : Nat]
    BY <1>1, StoreAssumption, Zenon
  <1>3. op'.kind = "idle" /\ op'.id = 0 /\ op'.todo = {}
        /\ op' = [kind |-> op'.kind, id |-> op'.id, todo |-> op'.todo]
    BY <1>1, IdleOp
  <1>4. StoreTypeOK /\ 0 \in 0 .. Len(rounds)
    BY RoundsNat DEF StoreInv
  <1>5. StoreTypeOK'
    BY <1>1, <1>2, <1>3, <1>4, StoreTypes DEF Kinds
  <1>6. FilesInv'
    BY <1>1, <1>3 DEF FilesInv, Saving
  <1>7. CacheInv' /\ ClearInv'
    BY <1>1, <1>3 DEF CacheInv, ClearInv, Coherent, Saving, Unlinking, NoSize
  <1>8. QED BY <1>1, <1>5, <1>6, <1>7, NothingLost DEF StoreInv

LEMMA StoreInit == SInit => StoreInv
  <1> SUFFICES ASSUME SInit PROVE StoreInv
    OBVIOUS
  <1>1. /\ rounds = <<>> /\ data = {} /\ mem = {} /\ cached = FALSE /\ size = NoSize /\ op = Idle
        /\ opts \in Options
    BY DEF SInit
  <1>2. opts \in [disk : BOOLEAN, keep : BOOLEAN, gz : BOOLEAN, max : Nat]
    BY <1>1, StoreAssumption, Zenon
  <1>3. <<>> \in Seq(Rounds) /\ Len(<<>>) = 0
    OBVIOUS
  <1>4. MaxIds \in Nat /\ Len(rounds) <= MaxIds /\ 0 \in 0 .. Len(rounds) /\ rounds \in Seq(Rounds)
    BY <1>1, <1>3, StoreAssumption
  <1>5. op.kind = "idle" /\ op.id = 0 /\ op.todo = {}
    BY <1>1, IdleOp
  <1>6. op \in [kind : Kinds, id : 0 .. Len(rounds), todo : SUBSET Created]
    BY <1>1, <1>4, IdleOp DEF Kinds
  <1>7. StoreTypeOK
    BY <1>1, <1>2, <1>4, <1>5, <1>6 DEF StoreTypeOK
  <1>8. FilesInv /\ CacheInv /\ ClearInv
    BY <1>1, <1>5 DEF FilesInv, CacheInv, ClearInv, Coherent, Saving, Unlinking
  <1>9. QED BY <1>7, <1>8 DEF StoreInv

LEMMA StoreNext ==
    ASSUME StoreInv, [SNext]_sVars
    PROVE  StoreInv' /\ Survives
  <1>1. ASSUME NEW r \in Rounds, SaveData(r) \/ GetByRound(r) PROVE StoreInv' /\ Survives
    BY <1>1, SaveDataFine, LoadsFine
  <1>2. ASSUME NEW id \in 1 .. Len(rounds), LoadCheckpoint(id) \/ DeleteBegin(id)
        PROVE  StoreInv' /\ Survives
    BY <1>2, LoadsFine, DeleteBeginFine
  <1>3. ASSUME NEW n \in Keeps, ClearBegin(n) PROVE StoreInv' /\ Survives
    BY <1>3, ClearBeginFine
  <1>4. ASSUME NEW o \in Options, Restart(o) PROVE StoreInv' /\ Survives
    BY <1>4, RestartFine
  <1>5. ASSUME UNCHANGED sVars PROVE StoreInv' /\ Survives
    <2>1. UNCHANGED <<opts, rounds, data, meta, mem, cached, cache, size, op, acked, dropped>>
      BY <1>5 DEF sVars
    <2>2. StoreTypeOK'
      BY <2>1 DEF StoreInv, StoreTypeOK, Created
    <2>3. FilesInv'
      BY <2>1 DEF StoreInv, FilesInv, OnDisk, Saving
    <2>4. Listing' = Listing
      BY <2>1 DEF Listing, Visible, Loadable, Ids
    <2>5. CacheInv'
      BY <2>1, <2>4 DEF StoreInv, CacheInv, Coherent, Saving, Unlinking, NoSize
    <2>6. ClearInv'
      BY <2>1 DEF StoreInv, ClearInv, Keeper, OnDisk, Unlinking, Created
    <2>7. QED BY <2>1, <2>2, <2>3, <2>5, <2>6, NothingLost DEF StoreInv
  <1>6. QED
    BY <1>1, <1>2, <1>3, <1>4, <1>5, SaveRestFine, LoadsFine, ListingFine, UnlinkDataFine,
       UnlinkMetaFine, ClearNextFine
       DEF SNext

LEMMA StoreInvHolds == SSpec => []StoreInv
  <1>1. StoreInv /\ [SNext]_sVars => StoreInv'
    BY StoreNext
  <1>2. QED BY <1>1, StoreInit, PTL DEF SSpec

\* The listing and size caches are what a fresh scan would give, whenever no
\* operation is going on (ModelStore.list_checkpoint_metadata, get_storage_size,
\* _invalidate_cache).
THEOREM CachesStayCoherent == SSpec => []CacheCoherent
  <1>1. StoreInv => CacheCoherent
    BY DEF StoreInv, CacheInv, Coherent, CacheCoherent, Saving
  <1>2. QED BY <1>1, StoreInvHolds, PTL

\* A save that returns is on disk, and the newest work is never cleared away
\* (ModelStore.save_checkpoint, clear_old_checkpoints).
THEOREM NewestIsKept == SSpec => NewestSurvives
  <1>1. StoreInv /\ [SNext]_sVars => [Survives]_sVars
    BY StoreNext
  <1>2. QED BY <1>1, StoreInvHolds, PTL DEF SSpec, NewestSurvives, Survives

-----------------------------------------------------------------------------
(* The convergence monitor.                                                  *)

Rows == LossValues \X Accuracies

\* The best metrics, bl and ba, and the rounds without a better one, n, after the
\* metrics ms: the best come from the rounds up to the one that was better, and
\* that one was better than all before it.
MonitorInv(bl, ba, n, ms) ==
    /\ ms \in Seq(Rows) /\ bl \in Nat /\ ba \in Nat /\ n \in Nat
    /\ \/ Len(ms) = 0 /\ bl = Infinity /\ ba = 0
       \/ /\ Len(ms) # 0 /\ n < Len(ms)
          /\ \E i \in 1 .. Len(ms) - n : bl = ms[i][1]
          /\ ba = 0 \/ \E i \in 1 .. Len(ms) - n : ba = ms[i][2]
          /\ \/ \A i \in 1 .. Len(ms) - n - 1 : ms[Len(ms) - n][1] < ms[i][1]
             \/ /\ 0 < ms[Len(ms) - n][2]
                /\ \A i \in 1 .. Len(ms) - n - 1 : ms[i][2] < ms[Len(ms) - n][2]
    /\ \A i \in 1 .. Len(ms) : bl <= ms[i][1] + MinDelta /\ ms[i][2] <= ba + MinDelta

\* The report of the last update.
ReportInv ==
    status # "none" =>
        /\ Len(metrics) # 0
        /\ stop <=> status = "converged" \/ idle >= Patience
        /\ status = "converged" => \/ idle >= Patience
                                   \/ metrics[Len(metrics)][1] <= TargetLoss
                                   \/ metrics[Len(metrics)][2] >= TargetAccuracy

PlateauInv ==
    /\ MonitorInv(bestLoss, bestAccuracy, idle, metrics)
    /\ MonitorInv(disk[1], disk[2], disk[3], disk[5])
    /\ ReportInv

LEMMA RowsNat ==
    ASSUME NEW ms \in Seq(Rows)
    PROVE  /\ Len(ms) \in Nat
           /\ \A i \in 1 .. Len(ms) : ms[i] \in Rows /\ ms[i][1] \in Nat /\ ms[i][2] \in Nat
  <1>1. \A x \in LossValues : x \in Nat
    BY ConvergenceAssumption, Zenon
  <1>2. \A x \in Accuracies : x \in Nat
    BY ConvergenceAssumption, Zenon
  <1>3. \A i \in 1 .. Len(ms) : ms[i] \in Rows
    OBVIOUS
  <1>4. \A r \in Rows : r[1] \in Nat /\ r[2] \in Nat
    BY <1>1, <1>2 DEF Rows
  <1>5. QED BY <1>3, <1>4

LEMMA NothingSeen == MonitorInv(Infinity, 0, 0, <<>>)
  <1>1. <<>> \in Seq(Rows) /\ Len(<<>>) = 0 /\ 1 .. 0 = {}
    OBVIOUS
  <1>2. Infinity \in Nat
    BY ConvergenceAssumption
  <1>3. QED BY <1>1, <1>2 DEF MonitorInv

LEMMA UpdateFine ==
    ASSUME PlateauInv, NEW loss \in LossValues, NEW accuracy \in Accuracies, Update(loss, accuracy)
    PROVE  MonitorInv(bestLoss', bestAccuracy', idle', metrics')
  <1> DEFINE n == Len(metrics)
             row == <<loss, accuracy>>
  <1>1. /\ metrics' = Append(metrics, row)
        /\ bestLoss' = IF loss + MinDelta < bestLoss THEN loss ELSE bestLoss
        /\ bestAccuracy' = IF accuracy > bestAccuracy + MinDelta THEN accuracy ELSE bestAccuracy
        /\ idle' = IF bestLoss' # bestLoss \/ bestAccuracy' # bestAccuracy THEN 0 ELSE idle + 1
    BY DEF Update, Better
  <1>2. MonitorInv(bestLoss, bestAccuracy, idle, metrics)
    BY DEF PlateauInv
  <1>3. /\ metrics \in Seq(Rows) /\ bestLoss \in Nat /\ bestAccuracy \in Nat /\ idle \in Nat
        /\ n \in Nat /\ MinDelta \in Nat /\ row \in Rows
        /\ row[1] = loss /\ row[2] = accuracy
    BY <1>2, ConvergenceAssumption DEF MonitorInv, Rows
  <1>4. loss \in Nat /\ accuracy \in Nat /\ loss + MinDelta < Infinity /\ Infinity \in Nat
    <2>1. \A x \in LossValues : x \in Nat
      BY ConvergenceAssumption, Zenon
    <2>2. \A x \in Accuracies : x \in Nat
      BY ConvergenceAssumption, Zenon
    <2>3. QED BY <2>1, <2>2, ConvergenceAssumption
  <1>5. metrics' \in Seq(Rows) /\ Len(metrics') = n + 1 /\ metrics'[n + 1] = row
    BY <1>1, <1>3, AppendProperties
  <1>6. \A i \in 1 .. n : metrics'[i] = metrics[i]
    BY <1>1, <1>3, AppendProperties
  <1> HIDE DEF row, n
  <1>7. \A i \in 1 .. n : metrics[i][1] \in Nat /\ metrics[i][2] \in Nat
                          /\ bestLoss <= metrics[i][1] + MinDelta
                          /\ metrics[i][2] <= bestAccuracy + MinDelta
    BY <1>2, <1>3, RowsNat DEF MonitorInv, n
  <1>8. bestLoss' \in Nat /\ bestAccuracy' \in Nat /\ idle' \in Nat
    BY <1>1, <1>3, <1>4
  <1>9. bestLoss' <= bestLoss /\ bestAccuracy <= bestAccuracy'
        /\ bestLoss' <= loss + MinDelta /\ accuracy <= bestAccuracy' + MinDelta
    BY <1>1, <1>3, <1>4
  <1>10. ASSUME NEW i \in 1 .. Len(metrics')
         PROVE  bestLoss' <= metrics'[i][1] + MinDelta /\ metrics'[i][2] <= bestAccuracy' + MinDelta
    <2>1. CASE i \in 1 .. n
      <3>1. metrics'[i] = metrics[i]
        BY <1>6, <2>1
      <3>2. /\ metrics[i][1] \in Nat /\ metrics[i][2] \in Nat
            /\ bestLoss <= metrics[i][1] + MinDelta /\ metrics[i][2] <= bestAccuracy + MinDelta
        BY <1>7, <2>1
      <3>3. bestLoss' <= metrics[i][1] + MinDelta
        BY <1>3, <1>8, <1>9, <3>2
      <3>4. metrics[i][2] <= bestAccuracy' + MinDelta
        BY <1>3, <1>8, <1>9, <3>2
      <3>5. QED BY <3>1, <3>3, <3>4
    <2>2. CASE i = n + 1
      BY <1>3, <1>5, <1>9, <2>2
    <2>3. QED BY <1>3, <1>5, <2>1, <2>2
  <1>11. n = 0 => loss + MinDelta < bestLoss
    BY <1>2, <1>4 DEF MonitorInv, n
  <1>12. n # 0 => /\ idle < n
                  /\ \E i \in 1 .. n - idle : bestLoss = metrics[i][1]
                  /\ bestAccuracy = 0 \/ \E i \in 1 .. n - idle : bestAccuracy = metrics[i][2]
                  /\ \/ \A i \in 1 .. n - idle - 1 : metrics[n - idle][1] < metrics[i][1]
                     \/ /\ 0 < metrics[n - idle][2]
                        /\ \A i \in 1 .. n - idle - 1 : metrics[i][2] < metrics[n - idle][2]
    BY <1>2 DEF MonitorInv, n
  <1>13. n = 0 => bestAccuracy = 0
    BY <1>2 DEF MonitorInv, n
  <1>14. CASE idle' = 0
    <2>1. 0 < n + 1 /\ n + 1 # 0 /\ (n + 1) - 0 = n + 1 /\ (n + 1) - 0 - 1 = n /\ n + 1 \in 1 .. n + 1
      BY <1>3
    <2>2. \E i \in 1 .. n + 1 : bestLoss' = metrics'[i][1]
      <3>1. CASE loss + MinDelta < bestLoss
        BY <1>1, <1>3, <1>5, <2>1, <3>1
      <3>2. CASE ~(loss + MinDelta < bestLoss)
        <4>1. n # 0 /\ bestLoss' = bestLoss
          BY <1>1, <1>11, <3>2
        <4>2. PICK i \in 1 .. n - idle : bestLoss = metrics[i][1]
          BY <1>12, <4>1
        <4>3. i \in 1 .. n /\ i \in 1 .. n + 1
          BY <1>3
        <4>4. QED BY <1>6, <4>1, <4>2, <4>3
      <3>3. QED BY <3>1, <3>2
    <2>3. bestAccuracy' = 0 \/ \E i \in 1 .. n + 1 : bestAccuracy' = metrics'[i][2]
      <3>1. CASE accuracy > bestAccuracy + MinDelta
        BY <1>1, <1>3, <1>5, <2>1, <3>1
      <3>2. CASE ~(accuracy > bestAccuracy + MinDelta)
        <4>1. bestAccuracy' = bestAccuracy
          BY <1>1, <3>2
        <4>2. CASE bestAccuracy = 0
          BY <4>1, <4>2
        <4>3. CASE bestAccuracy # 0
          <5>1. n # 0
            BY <1>13, <4>3
          <5>2. PICK i \in 1 .. n - idle : bestAccuracy = metrics[i][2]
            BY <1>12, <4>3, <5>1
          <5>3. i \in 1 .. n /\ i \in 1 .. n + 1
            BY <1>3
          <5>4. QED BY <1>6, <4>1, <5>2, <5>3
        <4>4. QED BY <4>2, <4>3
      <3>3. QED BY <3>1, <3>2
    <2>4. \/ \A i \in 1 .. n : metrics'[n + 1][1] < metrics'[i][1]
          \/ /\ 0 < metrics'[n + 1][2]
             /\ \A i \in 1 .. n : metrics'[i][2] < metrics'[n + 1][2]
      <3>1. CASE loss + MinDelta < bestLoss
        <4>1. ASSUME NEW i \in 1 .. n PROVE loss < metrics[i][1]
          <5>1. metrics[i][1] \in Nat /\ bestLoss <= metrics[i][1] + MinDelta
            BY <1>7
          <5>2. QED BY <1>3, <1>4, <3>1, <5>1
        <4>2. QED BY <1>3, <1>5, <1>6, <4>1
      <3>2. CASE accuracy > bestAccuracy + MinDelta
        <4>1. ASSUME NEW i \in 1 .. n PROVE metrics[i][2] < accuracy
          <5>1. metrics[i][2] \in Nat /\ metrics[i][2] <= bestAccuracy + MinDelta
            BY <1>7
          <5>2. QED BY <1>3, <1>4, <3>2, <5>1
        <4>2. 0 < accuracy
          BY <1>3, <1>4, <3>2
        <4>3. QED BY <1>3, <1>5, <1>6, <4>1, <4>2
      <3>3. CASE ~(loss + MinDelta < bestLoss) /\ ~(accuracy > bestAccuracy + MinDelta)
        <4>1. idle' = idle + 1
          BY <1>1, <3>3
        <4>2. QED BY <1>3, <1>14, <4>1
      <3>4. QED BY <3>1, <3>2, <3>3
    <2>5. QED BY <1>5, <1>8, <1>10, <1>14, <2>1, <2>2, <2>3, <2>4 DEF MonitorInv
  <1>15. CASE idle' # 0
    <2>1. bestLoss' = bestLoss /\ bestAccuracy' = bestAccuracy /\ idle' = idle + 1
      BY <1>1, <1>15
    <2>2. n # 0
      BY <1>1, <1>3, <1>4, <1>11, <2>1
    <2>3. /\ (n + 1) - (idle + 1) = n - idle /\ idle + 1 < n + 1 /\ n + 1 # 0
          /\ n - idle \in 1 .. n
      BY <1>3, <1>12, <2>2
    <2>4. \A i \in 1 .. n - idle : metrics'[i] = metrics[i]
      <3>1. \A i \in 1 .. n - idle : i \in 1 .. n
        BY <1>3
      <3>2. QED BY <1>6, <3>1
    <2>5. \E i \in 1 .. n - idle : bestLoss' = metrics'[i][1]
      BY <1>12, <2>1, <2>2, <2>4
    <2>6. bestAccuracy' = 0 \/ \E i \in 1 .. n - idle : bestAccuracy' = metrics'[i][2]
      BY <1>12, <2>1, <2>2, <2>4
    <2>7. \/ \A i \in 1 .. n - idle - 1 : metrics'[n - idle][1] < metrics'[i][1]
          \/ /\ 0 < metrics'[n - idle][2]
             /\ \A i \in 1 .. n - idle - 1 : metrics'[i][2] < metrics'[n - idle][2]
      <3>1. metrics'[n - idle] = metrics[n - idle]
        BY <1>6, <2>3
      <3>2. \A i \in 1 .. n - idle - 1 : metrics'[i] = metrics[i]
        <4>1. \A i \in 1 .. n - idle - 1 : i \in 1 .. n
          BY <1>3
        <4>2. QED BY <1>6, <4>1
      <3>3. QED BY <1>12, <2>2, <3>1, <3>2
    <2>8. Len(metrics') - idle' = n - idle /\ idle' < Len(metrics') /\ Len(metrics') # 0
      BY <1>5, <2>1, <2>3
    <2>9. QED BY <1>5, <1>8, <1>10, <2>5, <2>6, <2>7, <2>8 DEF MonitorInv
  <1>16. QED BY <1>14, <1>15

LEMMA ReportFine ==
    ASSUME PlateauInv, NEW loss \in LossValues, NEW accuracy \in Accuracies, Update(loss, accuracy)
    PROVE  ReportInv'
  <1> DEFINE n == Len(metrics)
             row == <<loss, accuracy>>
  <1>1. /\ metrics' = Append(metrics, row)
        /\ status' = Status(loss, accuracy, bestLoss', idle', losses')
        /\ stop' = (status' = "converged" \/ idle' >= Patience)
    BY DEF Update
  <1>2. metrics \in Seq(Rows) /\ row \in Rows /\ row[1] = loss /\ row[2] = accuracy /\ n \in Nat
    BY DEF PlateauInv, MonitorInv, Rows
  <1>3. Len(metrics') = n + 1 /\ metrics'[n + 1] = row
    BY <1>1, <1>2, AppendProperties
  <1>4. Len(metrics') # 0 /\ metrics'[Len(metrics')][1] = loss /\ metrics'[Len(metrics')][2] = accuracy
    BY <1>2, <1>3
  <1>5. status' = "converged" => accuracy >= TargetAccuracy \/ loss <= TargetLoss \/ idle' >= Patience
    BY <1>1 DEF Status
  <1>6. QED BY <1>1, <1>4, <1>5 DEF ReportInv

LEMMA PlateauInit == VInit => PlateauInv
  <1> SUFFICES ASSUME VInit PROVE PlateauInv
    OBVIOUS
  <1>1. /\ bestLoss = Infinity /\ bestAccuracy = 0 /\ idle = 0 /\ metrics = <<>> /\ status = "none"
        /\ disk = <<Infinity, 0, 0, <<>>, <<>>>>
    BY DEF VInit
  <1>2. disk[1] = Infinity /\ disk[2] = 0 /\ disk[3] = 0 /\ disk[5] = <<>>
    BY <1>1
  <1>3. QED BY <1>1, <1>2, NothingSeen DEF PlateauInv, ReportInv

LEMMA PlateauNext == PlateauInv /\ [VNext]_vVars => PlateauInv'
  <1> SUFFICES ASSUME PlateauInv, [VNext]_vVars PROVE PlateauInv'
    OBVIOUS
  <1>1. ASSUME NEW loss \in LossValues, NEW accuracy \in Accuracies, Update(loss, accuracy)
        PROVE  PlateauInv'
    <2>1. MonitorInv(bestLoss', bestAccuracy', idle', metrics') /\ ReportInv'
      BY <1>1, UpdateFine, ReportFine
    <2>2. disk' = disk
      BY <1>1 DEF Update
    <2>3. QED BY <2>1, <2>2 DEF PlateauInv
  <1>2. CASE SaveState
    <2>1. /\ UNCHANGED <<bestLoss, bestAccuracy, idle, status, stop, metrics>>
          /\ disk' = <<bestLoss, bestAccuracy, idle, losses, metrics>>
      BY <1>2 DEF SaveState
    <2>2. disk'[1] = bestLoss /\ disk'[2] = bestAccuracy /\ disk'[3] = idle /\ disk'[5] = metrics
      BY <2>1
    <2>3. ReportInv'
      BY <2>1 DEF PlateauInv, ReportInv
    <2>4. QED BY <2>1, <2>2, <2>3 DEF PlateauInv
  <1>3. CASE LoadState
    <2>1. /\ bestLoss' = disk[1] /\ bestAccuracy' = disk[2] /\ idle' = disk[3] /\ metrics' = disk[5]
          /\ status' = "none" /\ disk' = disk
      BY <1>3 DEF LoadState
    <2>2. QED BY <2>1 DEF PlateauInv, ReportInv
  <1>4. CASE UNCHANGED vVars
    <2>1. UNCHANGED <<bestLoss, bestAccuracy, idle, status, stop, metrics, disk>>
      BY <1>4 DEF vVars
    <2>2. ReportInv'
      BY <2>1 DEF PlateauInv, ReportInv
    <2>3. QED BY <2>1, <2>2 DEF PlateauInv
  <1>5. QED BY <1>1, <1>2, <1>3, <1>4 DEF VNext

\* The elements of a part of a sequence.
LEMMA ToSetOfSubSeq ==
    ASSUME NEW s \in Seq(Rows), NEW m \in Nat \ {0}, NEW n \in Int, n <= Len(s)
    PROVE  \A r : r \in ToSet(SubSeq(s, m, n)) <=> \E i \in m .. n : r = s[i]
  <1> DEFINE t == SubSeq(s, m, n)
  <1>1. Len(s) \in Nat /\ \A i \in 1 .. Len(s) : s[i] \in Rows
    OBVIOUS
  <1>2. \A i \in m .. n : s[i] \in Rows
    BY <1>1
  <1>3. t \in Seq(Rows) /\ Len(t) = IF m <= n THEN n - m + 1 ELSE 0
    BY <1>2, SubSeqProperties
  <1>4. \A i \in 1 .. n - m + 1 : t[i] = s[m + i - 1]
    BY <1>2, SubSeqProperties
  <1>5. DOMAIN t = 1 .. Len(t)
    BY <1>3
  <1> HIDE DEF t
  <1>6. ASSUME NEW r \in ToSet(t) PROVE \E i \in m .. n : r = s[i]
    <2>1. PICK i \in 1 .. Len(t) : r = t[i]
      BY <1>5 DEF ToSet
    <2>2. i \in 1 .. n - m + 1 /\ m + i - 1 \in m .. n
      BY <1>3
    <2>3. QED BY <1>4, <2>1, <2>2
  <1>7. ASSUME NEW i \in m .. n PROVE s[i] \in ToSet(t)
    <2>1. i - m + 1 \in 1 .. n - m + 1 /\ i - m + 1 \in 1 .. Len(t) /\ m + (i - m + 1) - 1 = i
      BY <1>3
    <2>2. t[i - m + 1] = s[i]
      BY <1>4, <2>1
    <2>3. QED BY <1>5, <2>1, <2>2 DEF ToSet
  <1>8. QED BY <1>6, <1>7 DEF t

\* Training stops short of its targets only on a plateau of `patience` rounds,
\* and on every such plateau (ConvergenceMonitor.update, should_stop).
THEOREM PlateauStops == VSpec => []StopsOnPlateau
  <1>1. PlateauInv => StopsOnPlateau
    <2> SUFFICES ASSUME PlateauInv, status # "none" PROVE StopsOnPlateau
      BY DEF StopsOnPlateau
    <2> DEFINE Count == Len(metrics)
               LastRound == metrics[Count]
    <2>1. /\ Count # 0 /\ (stop <=> status = "converged" \/ idle >= Patience)
          /\ status = "converged" => idle >= Patience \/ LastRound[1] <= TargetLoss \/ LastRound[2] >= TargetAccuracy
      BY DEF PlateauInv, ReportInv
    <2>2. MonitorInv(bestLoss, bestAccuracy, idle, metrics)
      BY DEF PlateauInv
    <2>3. /\ metrics \in Seq(Rows) /\ Count \in Nat /\ idle \in Nat /\ bestLoss \in Nat
          /\ bestAccuracy \in Nat /\ Patience \in Nat \ {0} /\ MinDelta \in Nat
          /\ TargetLoss \in Int /\ TargetAccuracy \in Int
      BY <2>2, ConvergenceAssumption DEF MonitorInv
    <2>4. \A i \in 1 .. Count : metrics[i][1] \in Nat /\ metrics[i][2] \in Nat
      BY <2>3, RowsNat
    <2>5. \A r : r \in ToSet(Earlier) <=> \E i \in 1 .. Count - Patience : r = metrics[i]
      <3>1. Count - Patience \in Int /\ Count - Patience <= Count /\ 1 \in Nat \ {0}
        BY <2>3
      <3>2. QED BY <2>3, <3>1, ToSetOfSubSeq DEF Earlier
    <2> DEFINE m == IF Count > Patience THEN Count - Patience + 1 ELSE 1
    <2>6. \A r : r \in ToSet(Recent) <=> \E i \in m .. Count : r = metrics[i]
      <3>1. m \in Nat \ {0} /\ Count \in Int /\ Count <= Count
        BY <2>3
      <3>2. Recent = SubSeq(metrics, m, Count)
        BY DEF Recent, LastOf
      <3> HIDE DEF m, Count
      <3>3. Count <= Len(metrics)
        BY <3>1 DEF Count
      <3>4. QED BY <2>3, <3>1, <3>2, <3>3, ToSetOfSubSeq
    <2>7. m .. Count \subseteq 1 .. Count /\ \A i \in 1 .. Count : i > Count - Patience <=> i \in m .. Count
      BY <2>3
    <2> HIDE DEF m
    <2>8. /\ idle < Count
          /\ \E i \in 1 .. Count - idle : bestLoss = metrics[i][1]
          /\ bestAccuracy = 0 \/ \E i \in 1 .. Count - idle : bestAccuracy = metrics[i][2]
          /\ \/ \A i \in 1 .. Count - idle - 1 : metrics[Count - idle][1] < metrics[i][1]
             \/ /\ 0 < metrics[Count - idle][2]
                /\ \A i \in 1 .. Count - idle - 1 : metrics[i][2] < metrics[Count - idle][2]
          /\ \A i \in 1 .. Count : bestLoss <= metrics[i][1] + MinDelta
                               /\ metrics[i][2] <= bestAccuracy + MinDelta
      BY <2>1, <2>2 DEF MonitorInv
    <2> HIDE DEF Count
    <2> DEFINE NotBetter(r, d) ==
                 /\ \E e \in ToSet(Earlier) : r[1] + d >= e[1]
                 /\ r[2] <= d \/ \E e \in ToSet(Earlier) : r[2] <= e[2] + d
    <2>9. ASSUME stop, LastRound[1] > TargetLoss, LastRound[2] < TargetAccuracy, NEW r \in ToSet(Recent)
          PROVE  NotBetter(r, MinDelta)
      <3>1. LastRound[1] \in Nat /\ LastRound[2] \in Nat
        BY <2>1, <2>3, <2>4
      <3>2. ~(LastRound[1] <= TargetLoss) /\ ~(LastRound[2] >= TargetAccuracy)
        BY <2>3, <2>9, <3>1
      <3>3. idle >= Patience
        BY <2>1, <2>9, <3>2
      <3>4. \A i \in 1 .. Count - idle : i \in 1 .. Count - Patience
        BY <2>3, <3>3
      <3>5. PICK k \in 1 .. Count : r = metrics[k]
        BY <2>6, <2>7
      <3>6. /\ r[1] \in Nat /\ r[2] \in Nat
            /\ bestLoss <= r[1] + MinDelta /\ r[2] <= bestAccuracy + MinDelta
        BY <2>4, <2>8, <3>5
      <3>7. \E e \in ToSet(Earlier) : r[1] + MinDelta >= e[1]
        <4>1. PICK i \in 1 .. Count - idle : bestLoss = metrics[i][1]
          BY <2>8
        <4>2. metrics[i] \in ToSet(Earlier)
          BY <2>5, <3>4
        <4>3. r[1] + MinDelta >= metrics[i][1]
          BY <2>3, <3>6, <4>1
        <4>4. QED BY <4>2, <4>3
      <3>8. r[2] <= MinDelta \/ \E e \in ToSet(Earlier) : r[2] <= e[2] + MinDelta
        <4>1. CASE bestAccuracy = 0
          BY <2>3, <3>6, <4>1
        <4>2. CASE bestAccuracy # 0
          <5>1. PICK i \in 1 .. Count - idle : bestAccuracy = metrics[i][2]
            BY <2>8, <4>2
          <5>2. metrics[i] \in ToSet(Earlier)
            BY <2>5, <3>4
          <5>3. r[2] <= metrics[i][2] + MinDelta
            BY <3>6, <5>1
          <5>4. QED BY <5>2, <5>3
        <4>3. QED BY <4>1, <4>2
      <3>9. QED BY <3>7, <3>8
    <2>10. ASSUME \A r \in ToSet(Recent) : NotBetter(r, 0) PROVE stop
      <3>1. SUFFICES ASSUME ~stop PROVE FALSE
        OBVIOUS
      <3>2. ~(idle >= Patience)
        BY <2>1, <3>1
      <3> DEFINE j == Count - idle
      <3>3. j \in 1 .. Count /\ j > Count - Patience
        BY <2>3, <2>8, <3>2
      <3>4. metrics[j] \in ToSet(Recent)
        BY <2>6, <2>7, <3>3
      <3>5. NotBetter(metrics[j], 0)
        BY <2>10, <3>4
      <3>6. \A i \in 1 .. Count - Patience : i \in 1 .. j - 1 /\ i \in 1 .. Count
        BY <2>3, <3>3
      <3> HIDE DEF j
      <3>7. metrics[j][1] \in Nat /\ metrics[j][2] \in Nat
        BY <2>4, <3>3
      <3>8. CASE \A i \in 1 .. j - 1 : metrics[j][1] < metrics[i][1]
        <4>1. PICK e \in ToSet(Earlier) : metrics[j][1] + 0 >= e[1]
          BY <3>5
        <4>2. PICK i \in 1 .. Count - Patience : e = metrics[i]
          BY <2>5
        <4>3. metrics[j][1] < metrics[i][1] /\ metrics[i][1] \in Nat
          BY <2>4, <3>6, <3>8
        <4>4. QED BY <3>7, <4>1, <4>2, <4>3
      <3>9. CASE 0 < metrics[j][2] /\ \A i \in 1 .. j - 1 : metrics[i][2] < metrics[j][2]
        <4>1. ~(metrics[j][2] <= 0)
          BY <3>7, <3>9
        <4>2. PICK e \in ToSet(Earlier) : metrics[j][2] <= e[2] + 0
          BY <3>5, <4>1
        <4>3. PICK i \in 1 .. Count - Patience : e = metrics[i]
          BY <2>5
        <4>4. metrics[i][2] < metrics[j][2] /\ metrics[i][2] \in Nat
          BY <2>4, <3>6, <3>9
        <4>5. QED BY <3>7, <4>2, <4>3, <4>4
      <3>10. QED BY <2>8, <3>8, <3>9 DEF j
    <2>11. QED BY <2>9, <2>10 DEF StopsOnPlateau, Count
  <1>2. QED BY <1>1, PlateauInit, PlateauNext, PTL DEF VSpec

-----------------------------------------------------------------------------
(* The compression pipeline.                                                 *)

\* A set of numbers that is not empty has a least one.
LEMMA LeastNumber ==
    ASSUME NEW S \in SUBSET Nat, S # {}
    PROVE  \E m \in S : \A n \in S : m <= n
  <1>1. \E m \in S : \A n \in S : ~(<<n, m>> \in OpToRel(<, Nat))
    BY NatLessThanWellFounded, WFMin
  <1>2. PICK m \in S : \A n \in S : ~(<<n, m>> \in OpToRel(<, Nat))
    BY <1>1
  <1>3. ASSUME NEW n \in S PROVE m <= n
    <2>1. ~(n < m)
      BY <1>2 DEF OpToRel
    <2>2. QED BY <2>1
  <1>4. QED BY <1>3

\* A finite set of integers that is not empty has a least and a greatest one.
LEMMA Extremes ==
    ASSUME NEW S \in SUBSET Int, IsFiniteSet(S), S # {}
    PROVE  /\ Min(S) \in S /\ \A y \in S : Min(S) <= y
           /\ Max(S) \in S /\ \A y \in S : y <= Max(S)
  <1> DEFINE Both(T) == \E lo, hi \in T : \A y \in T : lo <= y /\ y <= hi
             bad == {n \in Nat : \E T \in SUBSET Int : IsFiniteSet(T) /\ T # {} /\ Cardinality(T) = n /\ ~Both(T)}
  <1>1. bad = {}
    <2>1. SUFFICES ASSUME bad # {} PROVE FALSE
      OBVIOUS
    <2>2. bad \in SUBSET Nat
      OBVIOUS
    <2>3. PICK n \in bad : \A m \in bad : n <= m
      BY <2>1, <2>2, LeastNumber
    <2>4. PICK T \in SUBSET Int : IsFiniteSet(T) /\ T # {} /\ Cardinality(T) = n /\ ~Both(T)
      BY <2>3
    <2>5. PICK x \in T : TRUE
      BY <2>4
    <2> DEFINE R == T \ {x}
    <2>6. IsFiniteSet(R) /\ Cardinality(R) = n - 1
      BY <2>4, <2>5, FS_RemoveElement
    <2>7. n - 1 \in Nat
      BY <2>6, FS_CardinalityType
    <2>8. R # {}
      <3>1. SUFFICES ASSUME R = {} PROVE FALSE
        OBVIOUS
      <3>2. T = {x}
        BY <2>5, <3>1
      <3>3. QED BY <2>4, <2>5, <3>2
    <2>9. Both(R)
      <3>1. SUFFICES ASSUME ~Both(R) PROVE FALSE
        OBVIOUS
      <3>2. R \in SUBSET Int
        OBVIOUS
      <3>3. n - 1 \in bad
        BY <2>6, <2>7, <2>8, <3>1, <3>2
      <3>4. QED BY <2>3, <2>7, <3>3
    <2>10. PICK lo \in R, hi \in R : \A y \in R : lo <= y /\ y <= hi
      BY <2>9
    <2> DEFINE a == IF x <= lo THEN x ELSE lo
               b == IF hi <= x THEN x ELSE hi
    <2>11. a \in T /\ b \in T
      BY <2>5, <2>10
    <2>12. ASSUME NEW y \in T PROVE a <= y /\ y <= b
      <3>1. x \in Int /\ y \in Int /\ lo \in Int /\ hi \in Int
        BY <2>4, <2>5, <2>10
      <3>2. y = x \/ (lo <= y /\ y <= hi)
        BY <2>10
      <3>3. QED BY <3>1, <3>2
    <2>13. QED BY <2>4, <2>11, <2>12
  <1>2. Cardinality(S) \in Nat
    BY FS_CardinalityType
  <1>3. Both(S)
    BY <1>1, <1>2
  <1>4. PICK lo \in S, hi \in S : \A y \in S : lo <= y /\ y <= hi
    BY <1>3
  <1>5. \A y \in S : hi >= y
    BY <1>4
  <1>6. Min(S) \in S /\ \A y \in S : Min(S) <= y
    BY <1>4 DEF Min
  <1>7. Max(S) \in S /\ \A y \in S : Max(S) >= y
    BY <1>4, <1>5 DEF Max
  <1>8. QED BY <1>6, <1>7

LEMMA Division ==
    ASSUME NEW a \in Nat, NEW b \in Nat \ {0}
    PROVE  a \div b \in Nat /\ a % b \in Nat /\ a % b < b /\ a = ((a \div b) * b) + (a % b)
  OBVIOUS

LEMMA Products ==
    ASSUME NEW a \in Nat, NEW b \in Nat, NEW d \in Nat, a < b
    PROVE  a * d \in Nat /\ b * d \in Nat /\ a * d + d <= b * d
  <1>1. (b - a - 1) * d >= 0
    OBVIOUS
  <1>2. (b - a - 1) * d = b * d - a * d - d
    OBVIOUS
  <1>3. QED BY <1>1, <1>2

\* np.round of a / b is within one half, and not above a whole bound.
LEMMA Rounded ==
    ASSUME NEW a \in Nat, NEW b \in Nat \ {0}, NEW u \in Nat, a <= u * b
    PROVE  /\ RoundHalfEven(a, b) \in Nat /\ RoundHalfEven(a, b) <= u
           /\ 2 * Size(RoundHalfEven(a, b) * b - a) <= b
  <1> DEFINE q == a \div b
             r == a % b
  <1>1. q \in Nat /\ r \in Nat /\ r < b /\ a = q * b + r
    BY Division
  <1>2. RoundHalfEven(a, b) = IF 2 * r > b \/ (2 * r = b /\ q % 2 = 1) THEN q + 1 ELSE q
    BY DEF RoundHalfEven
  <1> HIDE DEF q, r
  <1>3. q * b \in Nat /\ u * b \in Nat
    BY <1>1
  <1>4. q <= u
    <2>1. SUFFICES ASSUME u < q PROVE FALSE
      BY <1>1
    <2>2. u * b + b <= q * b
      BY <1>1, <2>1, Products
    <2>3. QED BY <1>1, <1>3, <2>2
  <1>5. CASE RoundHalfEven(a, b) = q
    <2>1. ~(2 * r > b)
      BY <1>1, <1>2, <1>5
    <2>2. q * b - a = -r
      BY <1>1, <1>3
    <2>3. 2 * Size(q * b - a) <= b
      BY <1>1, <2>1, <2>2 DEF Size
    <2>4. QED BY <1>1, <1>4, <1>5, <2>3
  <1>6. CASE RoundHalfEven(a, b) = q + 1 /\ 2 * r >= b
    <2>1. (q + 1) * b = q * b + b
      BY <1>1
    <2>2. (q + 1) * b - a = b - r
      BY <1>1, <1>3, <2>1
    <2>3. 2 * Size((q + 1) * b - a) <= b
      BY <1>1, <1>6, <2>2 DEF Size
    <2>4. q < u
      <3>1. SUFFICES ASSUME q = u PROVE FALSE
        BY <1>1, <1>4
      <3>2. r = 0
        BY <1>1, <1>3, <3>1
      <3>3. QED BY <1>6, <3>2
    <2>5. q + 1 \in Nat /\ q + 1 <= u
      BY <1>1, <2>4
    <2>6. QED BY <1>6, <2>3, <2>5
  <1>7. QED BY <1>1, <1>2, <1>5, <1>6

Tensor == [Pos -> Int]

LEMMA PosFacts == IsFiniteSet(Pos) /\ Cardinality(Pos) = N /\ Pos # {} /\ N \in Nat \ {0}
  <1>1. N \in Nat \ {0}
    BY CompressionAssumption
  <1>2. IsFiniteSet(1..N) /\ Cardinality(1..N) = N
    BY <1>1, FS_Interval
  <1>3. 1 \in 1..N
    BY <1>1
  <1>4. QED BY <1>1, <1>2, <1>3 DEF Pos

\* Sparsification keeps some of the largest, as many as configured, and their
\* values.
LEMMA Sparsified ==
    ASSUME cfg \in CompressionConfig, NEW v \in Tensor, NEW values \in Sparsify(v)
    PROVE  /\ DOMAIN values \subseteq Pos /\ DOMAIN values # {}
           /\ values \in [DOMAIN values -> Int]
           /\ \A i \in DOMAIN values : values[i] = v[i]
           /\ Cardinality(DOMAIN values) = IF IsSparse THEN cfg.k ELSE N
           /\ ~IsSparse => DOMAIN values = Pos
           /\ \A i \in Pos \ DOMAIN values, j \in DOMAIN values : Size(v[j]) >= Size(v[i])
  <1>1. cfg.k \in 0..N /\ N \in Nat \ {0}
    BY CompressionAssumption DEF CompressionConfig
  <1>2. CASE ~IsSparse
    <2>1. values = v
      BY <1>1, <1>2 DEF IsSparse, Sparsify
    <2>2. DOMAIN values = Pos
      BY <2>1 DEF Tensor
    <2>3. QED BY <1>2, <2>1, <2>2, PosFacts DEF Tensor
  <1>3. CASE IsSparse
    <2>1. PICK S \in TopK(v, cfg.k) : values = Restrict(v, S)
      BY <1>1, <1>3 DEF IsSparse, Sparsify
    <2>2. S \subseteq Pos /\ Cardinality(S) = cfg.k /\ \A i \in S, j \in Pos \ S : Size(v[i]) >= Size(v[j])
      BY <2>1 DEF TopK, kSubset
    <2>3. values = [x \in S |-> v[x]]
      BY <2>1 DEF Restrict
    <2>4. S # {}
      <3>1. cfg.k # 0
        BY <1>3 DEF IsSparse
      <3>2. QED BY <2>2, <3>1, FS_EmptySet
    <2>5. DOMAIN values = S /\ \A i \in S : values[i] = v[i] /\ v[i] \in Int
      BY <2>2, <2>3 DEF Tensor
    <2>6. values \in [S -> Int]
      BY <2>3, <2>5
    <2>7. QED BY <1>3, <2>2, <2>4, <2>5, <2>6
  <1>4. QED BY <1>2, <1>3

\* The values that a step of the quantizer is measured by
Span(values) ==
    IF Quantizes THEN Max({values[i] : i \in DOMAIN values}) - Min({values[i] : i \in DOMAIN values})
    ELSE 0

LEMMA UnitTyped ==
    ASSUME cfg \in CompressionConfig
    PROVE  Unit \in Nat /\ (Quantizes => cfg.levels = Unit + 1) /\ (~Quantizes => Unit = 1) /\ Cell \in Nat
  <1>1. cfg.levels \in Nat \ {1}
    BY DEF CompressionConfig
  <1>2. Narrow \in Nat
    BY CompressionAssumption
  <1>3. Narrow * Narrow \in Nat
    BY <1>2
  <1>4. Cell \in Nat
    BY <1>2, <1>3 DEF Cell
  <1>5. QED BY <1>1, <1>4 DEF Unit, Quantizes

\* Through the quantizer and back, a value that fits its cell moves by half a
\* step at most.
LEMMA CarriedClose ==
    ASSUME cfg \in CompressionConfig, cfg.levels <= Cell,
           NEW K \in SUBSET Pos, K # {}, NEW values \in [K -> Int],
           NEW carried \in Carried(values)
    PROVE  /\ DOMAIN carried = K
           /\ \A i \in K : carried[i] \in Int /\ 2 * Size(carried[i] - Unit * values[i]) <= Span(values)
  <1>0. Unit \in Nat /\ (Quantizes => cfg.levels = Unit + 1) /\ (~Quantizes => Unit = 1) /\ Cell \in Nat
    BY UnitTyped
  <1>1. CASE ~Quantizes
    <2>1. carried = values /\ Unit = 1 /\ Span(values) = 0
      BY <1>0, <1>1 DEF Carried, Span
    <2>2. ASSUME NEW i \in K PROVE carried[i] \in Int /\ 2 * Size(carried[i] - Unit * values[i]) <= 0
      <3>1. values[i] \in Int
        OBVIOUS
      <3>2. carried[i] - Unit * values[i] = 0
        BY <2>1, <3>1
      <3>3. Size(0) = 0
        BY DEF Size
      <3>4. QED BY <2>1, <3>1, <3>2, <3>3
    <2>3. QED BY <2>1, <2>2
  <1>2. CASE Quantizes
    <2> DEFINE R == {values[i] : i \in K}
               lo == Min(R)
               hi == Max(R)
               b == hi - lo
    <2>1. R = Range(values) /\ DOMAIN values = K
      BY DEF Range
    <2>2. R \in SUBSET Int /\ R # {}
      OBVIOUS
    <2>3. IsFiniteSet(R)
      <3>1. IsFiniteSet(K)
        BY PosFacts, FS_Subset
      <3>2. values \in Surjection(K, R)
        BY DEF Surjection
      <3>3. QED BY <3>1, <3>2, FS_Surjection
    <2>4. lo \in R /\ hi \in R /\ \A y \in R : lo <= y /\ y <= hi
      BY <2>2, <2>3, Extremes
    <2>5. Span(values) = b
      BY <1>2, <2>1 DEF Span
    <2>6. PICK code \in Quantize(values) : carried = Dequantize(code)
      BY <1>2 DEF Carried
    <2>7. lo = Min(Range(values)) /\ hi = Max(Range(values))
      BY <2>1
    <2>8. lo \in Int /\ hi \in Int /\ lo <= hi
      BY <2>2, <2>4
    <2> HIDE DEF lo, hi
    <2>9. ASSUME NEW i \in K PROVE values[i] \in Int /\ lo <= values[i] /\ values[i] <= hi
      BY <2>4
    <2>10. CASE lo = hi
      <3>1. code = [q |-> [i \in K |-> 0], scale |-> 0, zero |-> lo]
        BY <2>1, <2>6, <2>7, <2>10 DEF Quantize
      <3>2. DOMAIN carried = K /\ \A i \in K : carried[i] = Unit * lo
        BY <2>6, <3>1 DEF Dequantize
      <3>3. ASSUME NEW i \in K PROVE carried[i] \in Int /\ 2 * Size(carried[i] - Unit * values[i]) <= b
        <4>1. values[i] = lo
          BY <2>8, <2>9, <2>10
        <4>2. carried[i] = Unit * lo /\ Unit * lo \in Int
          BY <1>0, <2>8, <3>2
        <4>3. carried[i] - Unit * values[i] = 0
          BY <4>1, <4>2
        <4>4. Size(0) = 0 /\ b = 0
          BY <2>8, <2>10 DEF Size
        <4>5. QED BY <4>2, <4>3, <4>4
      <3>4. QED BY <2>5, <3>2, <3>3
    <2>11. CASE lo # hi
      <3> DEFINE A(i) == (values[i] - lo) * Unit
      <3>1. /\ DOMAIN code.q = K /\ code.scale = b /\ code.zero = lo
            /\ \A i \in K : code.q[i] \in Stored(RoundHalfEven(A(i), b))
        BY <2>1, <2>6, <2>7, <2>11 DEF Quantize
      <3>2. b \in Nat \ {0}
        BY <2>8, <2>11
      <3>3. DOMAIN carried = K /\ \A i \in K : carried[i] = code.q[i] * b + Unit * lo
        BY <2>6, <3>1, <3>2 DEF Dequantize
      <3>4. ASSUME NEW i \in K PROVE carried[i] \in Int /\ 2 * Size(carried[i] - Unit * values[i]) <= b
        <4> DEFINE x == values[i] - lo
                   q == RoundHalfEven(A(i), b)
        <4>1. x \in Nat /\ x <= b /\ values[i] = x + lo
          BY <2>8, <2>9
        <4>2. A(i) \in Nat /\ A(i) <= Unit * b
          <5> HIDE DEF x, b
          <5>1. x * Unit \in Nat /\ b * Unit \in Nat
            BY <1>0, <3>2, <4>1
          <5>2. x * Unit <= b * Unit
            <6>1. CASE x = b
              BY <5>1, <6>1
            <6>2. CASE x < b
              BY <1>0, <3>2, <4>1, <5>1, <6>2, Products
            <6>3. QED BY <3>2, <4>1, <6>1, <6>2
          <5>3. b * Unit = Unit * b
            BY <1>0, <3>2
          <5>4. QED BY <5>1, <5>2, <5>3 DEF x
        <4>3. q \in Nat /\ q <= Unit /\ 2 * Size(q * b - A(i)) <= b
          <5> HIDE DEF b
          <5>1. QED BY <1>0, <3>2, <4>2, Rounded
        <4>4. q < Cell
          BY <1>0, <1>2, <4>3
        <4>5. code.q[i] = q
          BY <3>1, <4>4 DEF Stored
        <4>6. carried[i] = q * b + Unit * lo
          BY <3>3, <4>5
        <4> HIDE DEF q
        <4>7. carried[i] - Unit * values[i] = q * b - A(i) /\ carried[i] \in Int
          <5> HIDE DEF b
          <5>1. q * b \in Int /\ Unit * lo \in Int /\ x * Unit \in Int
            BY <1>0, <2>8, <3>2, <4>1, <4>3
          <5>2. Unit * values[i] = x * Unit + Unit * lo
            BY <1>0, <2>8, <4>1
          <5>3. QED BY <4>6, <5>1, <5>2
        <4>8. QED BY <4>3, <4>7
      <3>5. QED BY <2>5, <3>3, <3>4
    <2>12. QED BY <2>10, <2>11
  <1>3. QED BY <1>1, <1>2

LEMMA TensorOps ==
    ASSUME NEW v \in Tensor, NEW u \in Tensor, NEW c \in Int
    PROVE  Plus(v, u) \in Tensor /\ Minus(v, u) \in Tensor /\ Times(c, v) \in Tensor /\ Zero \in Tensor
  <1>1. ASSUME NEW i \in Pos PROVE v[i] + u[i] \in Int /\ v[i] - u[i] \in Int /\ c * v[i] \in Int
    BY DEF Tensor
  <1>2. QED BY <1>1 DEF Plus, Minus, Times, Zero, Tensor

\* Decompression puts what was carried where it belongs and the base's weights,
\* or none, in the other places.
LEMMA DecompressedRight ==
    ASSUME cfg \in CompressionConfig, NEW base \in Bases \cup {NoBase}, NEW carried,
           NEW K \in SUBSET Pos, DOMAIN carried = K, \A i \in K : carried[i] \in Int,
           ~IsSparse => K = Pos,
           ~(cfg.k >= N /\ ~cfg.delta /\ base # NoBase)
    PROVE  /\ \A i \in K : Decompressed(carried, base)[i]
                             = IF HasDelta(base) THEN Unit * base[i] + carried[i] ELSE carried[i]
           /\ \A i \in Pos \ K : Decompressed(carried, base)[i]
                             = IF base = NoBase THEN 0 ELSE Unit * base[i]
  <1> DEFINE rest == IF HasDelta(base) THEN NoBase ELSE base
             D == Desparsify(Unit, carried, rest)
  <1>1. Unit \in Nat
    BY UnitTyped
  <1>2. base # NoBase => base \in Tensor
    BY CompressionAssumption DEF Tensor, Pos
  <1>3. cfg.k \in 0..N /\ N \in Nat
    BY CompressionAssumption DEF CompressionConfig
  <1>4. \A i \in K : D[i] = carried[i]
    <2>1. CASE IsSparse
      <3>1. D = [i \in Pos |-> IF i \in DOMAIN carried THEN carried[i]
                               ELSE IF rest = NoBase THEN 0 ELSE Unit * rest[i]]
        BY <2>1 DEF Desparsify, IsSparse
      <3>2. QED BY <3>1
    <2>2. CASE cfg.k = 0
      BY <2>2 DEF Desparsify
    <2>3. CASE ~IsSparse /\ cfg.k # 0
      <3>1. cfg.k >= N
        BY <1>3, <2>3 DEF IsSparse
      <3>2. rest = NoBase
        BY <3>1 DEF HasDelta
      <3>3. D = carried
        BY <2>3, <3>2 DEF Desparsify
      <3>4. QED BY <3>3
    <2>4. QED BY <2>1, <2>2, <2>3
  <1>5. \A i \in Pos \ K : D[i] = IF rest = NoBase THEN 0 ELSE Unit * rest[i]
    <2>1. CASE IsSparse
      <3>1. D = [i \in Pos |-> IF i \in DOMAIN carried THEN carried[i]
                               ELSE IF rest = NoBase THEN 0 ELSE Unit * rest[i]]
        BY <2>1 DEF Desparsify, IsSparse
      <3>2. QED BY <3>1
    <2>2. CASE ~IsSparse
      BY <2>2
    <2>3. QED BY <2>1, <2>2
  <1>6. CASE HasDelta(base)
    <2>1. Decompressed(carried, base) = Plus(Times(Unit, base), D)
      BY <1>6 DEF Decompressed, ApplyDelta
    <2>2. ASSUME NEW i \in Pos
          PROVE  Decompressed(carried, base)[i] = Unit * base[i] + D[i] /\ base[i] \in Int /\ Unit * base[i] \in Int
      <3>1. base[i] \in Int
        BY <1>2, <1>6 DEF HasDelta, Tensor
      <3>2. Times(Unit, base)[i] = Unit * base[i]
        BY DEF Times
      <3> HIDE DEF D
      <3>3. Decompressed(carried, base)[i] = Times(Unit, base)[i] + D[i]
        BY <2>1 DEF Plus
      <3>4. QED BY <1>1, <3>1, <3>2, <3>3
    <2>3. base # NoBase /\ rest = NoBase
      BY <1>6 DEF HasDelta
    <2> HIDE DEF D
    <2>4. \A i \in Pos \ K : D[i] = 0
      BY <1>5, <2>3
    <2>5. QED BY <1>4, <1>6, <2>2, <2>3, <2>4
  <1>7. CASE ~HasDelta(base)
    <2>1. Decompressed(carried, base) = D
      BY <1>7 DEF Decompressed
    <2>2. QED BY <1>4, <1>5, <1>7, <2>1
  <1>8. QED BY <1>6, <1>7

PipelineInv ==
    /\ cfg \in CompressionConfig
    /\ residual \in Tensor /\ stored.residual \in Tensor
    /\ RoundTrip

LEMMA PipelineInit == CInit => PipelineInv
  <1> SUFFICES ASSUME CInit PROVE PipelineInv
    OBVIOUS
  <1>1. cfg \in CompressionConfig
    BY CompressionAssumption DEF CInit
  <1>2. residual \in Tensor /\ stored.residual \in Tensor
    BY DEF CInit, Fresh, Zero, Tensor
  <1>3. RoundTrip
    BY DEF CInit, Fresh, RoundTrip
  <1>4. QED BY <1>1, <1>2, <1>3 DEF PipelineInv

\* What the residual becomes is a tensor again.
LEMMA ResidualTyped ==
    ASSUME cfg \in CompressionConfig, NEW d \in Tensor, NEW v \in Tensor, NEW values \in Sparsify(v),
           EFActive
    PROVE  Residual(d, values) \in Tensor
  <1>1. /\ DOMAIN values \subseteq Pos /\ values \in [DOMAIN values -> Int]
        /\ ~IsSparse => DOMAIN values = Pos
    BY Sparsified
  <1>2. Dense(values) \in Tensor
    <2>1. CASE IsSparse
      <3>1. Dense(values) = [i \in Pos |-> IF i \in DOMAIN values THEN values[i] ELSE 0]
        BY <2>1 DEF Dense, Desparsify, IsSparse
      <3>2. \A i \in Pos : (IF i \in DOMAIN values THEN values[i] ELSE 0) \in Int
        BY <1>1
      <3>3. QED BY <3>1, <3>2 DEF Tensor
    <2>2. CASE ~IsSparse
      <3>1. Dense(values) = values
        BY <2>2 DEF Dense, Desparsify, EFActive
      <3>2. QED BY <1>1, <2>2, <3>1 DEF Tensor
    <2>3. QED BY <2>1, <2>2
  <1>3. Residual(d, values) = Minus(d, Dense(values))
    BY DEF Residual
  <1>4. 0 \in Int
    OBVIOUS
  <1>5. QED BY <1>2, <1>3, <1>4, TensorOps

\* A call of the pipeline.
LEMMA RoundtripFine ==
    ASSUME PipelineInv, NEW w \in Weights, NEW base \in Bases \cup {NoBase}, Roundtrip(w, base)
    PROVE  PipelineInv'
  <1> DEFINE d == IF HasDelta(base) THEN ComputeDelta(w, base) ELSE w
             fails == Quantizes /\ ~cfg.linear
             v == Corrected(d)
  <1>1. PICK values \in Sparsify(v) : \E carried \in IF fails THEN {values} ELSE Carried(values) :
            /\ residual' = IF EFActive THEN Residual(d, values) ELSE residual
            /\ last' = [w |-> w, base |-> base, input |-> v, kept |-> DOMAIN values,
                        out |-> IF fails THEN Zero ELSE Decompressed(carried, base), ok |-> ~fails]
    BY DEF Roundtrip
  <1>2. PICK carried \in IF fails THEN {values} ELSE Carried(values) :
            /\ residual' = IF EFActive THEN Residual(d, values) ELSE residual
            /\ last' = [w |-> w, base |-> base, input |-> v, kept |-> DOMAIN values,
                        out |-> IF fails THEN Zero ELSE Decompressed(carried, base), ok |-> ~fails]
    BY <1>1
  <1>3. cfg' = cfg /\ stored' = stored /\ cfg \in CompressionConfig
    BY DEF Roundtrip, PipelineInv
  <1>4. w \in Tensor /\ (base # NoBase => base \in Tensor) /\ residual \in Tensor /\ 0 \in Int
    BY CompressionAssumption DEF PipelineInv, Tensor, Pos
  <1>5. d \in Tensor
    <2>1. CASE HasDelta(base)
      BY <1>4, <2>1, TensorOps DEF HasDelta, ComputeDelta
    <2>2. CASE ~HasDelta(base)
      BY <1>4, <2>2
    <2>3. QED BY <2>1, <2>2
  <1> HIDE DEF d
  <1>6. v \in Tensor
    BY <1>4, <1>5, TensorOps DEF Corrected
  <1>7. residual' \in Tensor
    <2> HIDE DEF v
    <2>1. CASE EFActive
      BY <1>2, <1>3, <1>5, <1>6, <2>1, ResidualTyped
    <2>2. CASE ~EFActive
      BY <1>2, <1>4, <2>2
    <2>3. QED BY <2>1, <2>2
  <1> HIDE DEF v
  <1> DEFINE K == DOMAIN values
  <1>8. /\ K \subseteq Pos /\ K # {} /\ values \in [K -> Int]
        /\ \A i \in K : values[i] = v[i]
        /\ Cardinality(K) = IF IsSparse THEN cfg.k ELSE N
        /\ ~IsSparse => K = Pos
        /\ \A i \in Pos \ K, j \in K : Size(v[j]) >= Size(v[i])
    BY <1>3, <1>6, Sparsified
  <1>9. ASSUME ~fails, cfg.levels <= Cell, ~(cfg.k >= N /\ ~cfg.delta /\ base # NoBase)
        PROVE  LET target == IF HasDelta(base) THEN Plus(base, v) ELSE v
                   kept == {v[i] : i \in K}
                   step == IF Quantizes THEN Max(kept) - Min(kept) ELSE 0
                   rest == IF base = NoBase THEN Zero ELSE base
                   out == Decompressed(carried, base)
               IN /\ Cardinality(K) = IF IsSparse THEN cfg.k ELSE N
                  /\ \A i \in K : 2 * Size(out[i] - Unit * target[i]) <= step
                  /\ \A i \in Pos \ K :
                       /\ out[i] = Unit * rest[i]
                       /\ \A j \in K : Size(v[j]) >= Size(v[i])
    <2> DEFINE target == IF HasDelta(base) THEN Plus(base, v) ELSE v
               kept == {v[i] : i \in K}
               step == IF Quantizes THEN Max(kept) - Min(kept) ELSE 0
               rest == IF base = NoBase THEN Zero ELSE base
               out == Decompressed(carried, base)
    <2>1. carried \in Carried(values)
      BY <1>9
    <2>2. DOMAIN carried = K /\ \A i \in K : carried[i] \in Int /\ 2 * Size(carried[i] - Unit * values[i]) <= Span(values)
      BY <1>3, <1>8, <1>9, <2>1, CarriedClose
    <2>3. kept = {values[i] : i \in K}
      BY <1>8
    <2>4. Span(values) = step
      BY <2>3 DEF Span
    <2>5. /\ \A i \in K : out[i] = IF HasDelta(base) THEN Unit * base[i] + carried[i] ELSE carried[i]
          /\ \A i \in Pos \ K : out[i] = IF base = NoBase THEN 0 ELSE Unit * base[i]
      BY <1>3, <1>8, <1>9, <2>2, DecompressedRight
    <2>6. Unit \in Nat
      BY <1>3, UnitTyped
    <2> HIDE DEF out, step
    <2>7. ASSUME NEW i \in K PROVE 2 * Size(out[i] - Unit * target[i]) <= step
      <3>1. v[i] \in Int /\ values[i] = v[i] /\ carried[i] \in Int /\ i \in Pos
        BY <1>6, <1>8, <2>2 DEF Tensor
      <3>2. out[i] - Unit * target[i] = carried[i] - Unit * values[i]
        <4>1. CASE HasDelta(base)
          <5>1. base[i] \in Int
            BY <1>4, <3>1, <4>1 DEF HasDelta, Tensor
          <5>2. target[i] = base[i] + v[i]
            BY <3>1, <4>1 DEF Plus
          <5>3. Unit * target[i] = Unit * base[i] + Unit * v[i]
            BY <2>6, <3>1, <5>1, <5>2
          <5>4. Unit * base[i] \in Int /\ Unit * v[i] \in Int
            BY <2>6, <3>1, <5>1
          <5>5. out[i] = Unit * base[i] + carried[i]
            BY <2>5, <4>1
          <5>6. QED BY <3>1, <5>3, <5>4, <5>5
        <4>2. CASE ~HasDelta(base)
          BY <2>5, <3>1, <4>2
        <4>3. QED BY <4>1, <4>2
      <3>3. QED BY <2>2, <2>4, <3>2
    <2>8. ASSUME NEW i \in Pos \ K PROVE out[i] = Unit * rest[i]
      <3>1. CASE base = NoBase
        BY <2>5, <2>6, <3>1 DEF Zero
      <3>2. CASE base # NoBase
        BY <2>5, <3>2
      <3>3. QED BY <3>1, <3>2
    <2>9. QED BY <1>8, <2>7, <2>8 DEF step, out
  <1>10. RoundTrip'
    <2>1. /\ last'.base = base /\ last'.input = v /\ last'.kept = K /\ last'.ok = ~fails
          /\ ~fails => last'.out = Decompressed(carried, base)
      BY <1>2
    <2> HIDE DEF K
    <2>2. CASE fails
      BY <2>1, <2>2 DEF RoundTrip
    <2>3. CASE ~fails
      <3>1. /\ HasDelta(base)' = HasDelta(base) /\ Quantizes' = Quantizes /\ Unit' = Unit
            /\ IsSparse' = IsSparse /\ Cell' = Cell
        BY <1>3 DEF HasDelta, Quantizes, Unit, IsSparse, Cell
      <3>2. QED BY <1>3, <1>9, <2>1, <2>3, <3>1 DEF RoundTrip, InRange, HasDelta
    <2>4. QED BY <2>2, <2>3
  <1>11. QED BY <1>3, <1>4, <1>7, <1>10 DEF PipelineInv

LEMMA PipelineStep == PipelineInv /\ [CNext]_cVars => PipelineInv'
  <1> SUFFICES ASSUME PipelineInv, [CNext]_cVars PROVE PipelineInv'
    OBVIOUS
  <1>1. ASSUME NEW w \in Weights, NEW base \in Bases \cup {NoBase}, Roundtrip(w, base)
        PROVE  PipelineInv'
    BY <1>1, RoundtripFine
  <1>2. ASSUME UNCHANGED <<cfg, last>>, residual' \in Tensor, stored'.residual \in Tensor
        PROVE  PipelineInv'
    <2>1. RoundTrip'
      BY <1>2 DEF PipelineInv, RoundTrip, InRange, HasDelta, Quantizes, Unit, IsSparse, Cell
    <2>2. QED BY <1>2, <2>1 DEF PipelineInv
  <1>3. Zero \in Tensor
    BY DEF Zero, Tensor
  <1>4. CASE Reset
    BY <1>2, <1>3, <1>4 DEF Reset, PipelineInv
  <1>5. CASE Save
    BY <1>2, <1>5 DEF Save, PipelineInv
  <1>6. CASE Reload
    BY <1>2, <1>6 DEF Reload, PipelineInv
  <1>7. CASE UNCHANGED cVars
    BY <1>2, <1>7 DEF cVars, PipelineInv
  <1>8. QED BY <1>1, <1>4, <1>5, <1>6, <1>7 DEF CNext

\* What a receiver reconstructs is right to half a step of the quantizer where
\* weights were kept, which are the largest, and the base elsewhere: for
\* tensors of any size and any configuration, with the residual of any earlier
\* calls, saved and loaded at any time.
THEOREM RoundTripsAreClose == CSpec => []RoundTrip
  <1>1. PipelineInv => RoundTrip
    BY DEF PipelineInv
  <1>2. QED BY <1>1, PipelineInit, PipelineStep, PTL DEF CSpec

-----------------------------------------------------------------------------
(* The aggregation strategies.                                               *)

\* Induction over the first numbers, for membership in a set.
LEMMA Stays ==
    ASSUME NEW n \in Nat, NEW S, NEW f, f[0] \in S, \A i \in 1..n : f[i - 1] \in S => f[i] \in S
    PROVE  \A i \in 0..n : f[i] \in S
  <1> DEFINE bad == {i \in 0..n : f[i] \notin S}
  <1>1. SUFFICES ASSUME bad # {} PROVE FALSE
    OBVIOUS
  <1>2. bad \in SUBSET Nat
    OBVIOUS
  <1>3. PICK i \in bad : \A m \in bad : i <= m
    BY <1>1, <1>2, LeastNumber
  <1>4. i \in 0..n /\ f[i] \notin S /\ i # 0
    BY <1>3
  <1>5. i - 1 \in 0..n /\ ~(i <= i - 1) /\ i \in 1..n
    BY <1>4
  <1>6. f[i - 1] \in S
    BY <1>3, <1>5
  <1>7. QED BY <1>4, <1>5, <1>6

\* A recursion over the first numbers has a solution.
LEMMA Unwound ==
    ASSUME NEW n \in Nat, NEW S, NEW c \in S, NEW h \in [1..n -> [S -> S]]
    PROVE  \E t \in [0..n -> S] : t[0] = c /\ \A i \in 1..n : t[i] = h[i][t[i - 1]]
  <1> DEFINE Upto(t, k) == t[0] = c /\ \A i \in 1..k : t[i] = h[i][t[i - 1]]
             bad == {k \in 0..n : ~ \E t \in [0..k -> S] : Upto(t, k)}
  <1>1. bad = {}
    <2>1. SUFFICES ASSUME bad # {} PROVE FALSE
      OBVIOUS
    <2>2. bad \in SUBSET Nat
      OBVIOUS
    <2>3. PICK k \in bad : \A m \in bad : k <= m
      BY <2>1, <2>2, LeastNumber
    <2>4. k \in 0..n /\ ~ \E t \in [0..k -> S] : Upto(t, k)
      BY <2>3
    <2>5. k # 0
      <3>1. SUFFICES ASSUME k = 0 PROVE FALSE
        OBVIOUS
      <3> DEFINE z == [i \in 0..k |-> c]
      <3>2. z \in [0..k -> S] /\ 0 \in 0..k /\ 1..k = {}
        BY <3>1
      <3>3. Upto(z, k)
        BY <3>2
      <3>4. QED BY <2>4, <3>2, <3>3
    <2>6. k - 1 \in 0..n /\ ~(k <= k - 1) /\ k \in 1..n
      BY <2>4, <2>5
    <2>7. PICK t \in [0..k - 1 -> S] : Upto(t, k - 1)
      BY <2>3, <2>6
    <2> DEFINE last1 == h[k][t[k - 1]]
               u == [i \in 0..k |-> IF i = k THEN last1 ELSE t[i]]
    <2>8. last1 \in S
      BY <2>6
    <2>9. u \in [0..k -> S]
      <3> HIDE DEF last1
      <3>1. ASSUME NEW i \in 0..k, i # k PROVE t[i] \in S
        <4>1. i \in 0..k - 1
          BY <2>6, <3>1
        <4>2. QED BY <4>1
      <3>2. QED BY <2>8, <3>1
    <2>10. u[0] = c
      BY <2>6, <2>7
    <2>11. ASSUME NEW i \in 1..k PROVE u[i] = h[i][u[i - 1]]
      <3>1. i - 1 \in 0..k /\ i - 1 # k /\ i \in 0..k
        BY <2>6
      <3>2. u[i - 1] = t[i - 1]
        BY <3>1
      <3>3. CASE i = k
        <4>1. u[i] = h[k][t[k - 1]]
          BY <3>1, <3>3
        <4>2. QED BY <3>2, <3>3, <4>1
      <3>4. CASE i # k
        <4>1. i \in 1..k - 1
          BY <2>6, <3>4
        <4>2. u[i] = t[i]
          BY <3>1, <3>4
        <4>3. QED BY <2>7, <3>2, <4>1, <4>2
      <3>5. QED BY <3>3, <3>4
    <2> HIDE DEF u
    <2>12. QED BY <2>4, <2>9, <2>10, <2>11
  <1>2. n \in 0..n
    OBVIOUS
  <1>3. QED BY <1>1, <1>2

\* What Total computes, one term at a time.
LEMMA Partials ==
    ASSUME NEW s \in Seq(Int)
    PROVE  \E t \in [0..Len(s) -> Int] :
             /\ t[0] = 0 /\ \A i \in 1..Len(s) : t[i] = t[i - 1] + s[i]
             /\ Total(s) = t[Len(s)]
  <1> DEFINE n == Len(s)
             Solves(t) == t = [i \in 0..n |-> IF i = 0 THEN 0 ELSE t[i - 1] + s[i]]
             h == [i \in 1..n |-> [y \in Int |-> y + s[i]]]
             f == CHOOSE t : t = [i \in 0..Len(s) |-> IF i = 0 THEN 0 ELSE t[i - 1] + s[i]]
  <1>1. n \in Nat /\ (\A i \in 1..n : s[i] \in Int) /\ 0 \in Int
    OBVIOUS
  <1>2. /\ h \in [1..n -> [Int -> Int]]
        /\ \A i \in 1..n : \A y \in Int : h[i][y] = y + s[i]
    <2>1. ASSUME NEW i \in 1..n, NEW y \in Int PROVE y + s[i] \in Int
      BY <1>1
    <2>2. QED BY <2>1
  <1> HIDE DEF h
  <1>3. PICK t \in [0..n -> Int] : t[0] = 0 /\ \A i \in 1..n : t[i] = h[i][t[i - 1]]
    <2> DEFINE Solvable(S, c, g) ==
                 \E t \in [0..n -> S] : t[0] = c /\ \A i \in 1..n : t[i] = g[i][t[i - 1]]
    <2>1. \A S : \A c \in S : \A g \in [1..n -> [S -> S]] : Solvable(S, c, g)
      BY <1>1, Unwound
    <2> HIDE DEF Solvable
    <2>2. Solvable(Int, 0, h)
      BY <1>1, <1>2, <2>1
    <2>3. QED BY <2>2 DEF Solvable
  <1>4. Solves(t)
    <2>1. ASSUME NEW i \in 0..n PROVE t[i] = IF i = 0 THEN 0 ELSE t[i - 1] + s[i]
      <3>1. CASE i = 0
        BY <1>3, <3>1
      <3>2. CASE i # 0
        <4>1. i \in 1..n /\ i - 1 \in 0..n
          BY <1>1, <3>2
        <4>2. t[i] = h[i][t[i - 1]] /\ t[i - 1] \in Int
          BY <1>3, <4>1
        <4>3. QED BY <1>2, <3>2, <4>1, <4>2
      <3>3. QED BY <3>1, <3>2
    <2>2. t = [i \in 0..n |-> t[i]]
      OBVIOUS
    <2>3. QED BY <2>1, <2>2
  <1>5. Solves(f)
    BY <1>4
  <1>6. Total(s) = f[n]
    BY DEF Total
  <1> HIDE DEF f
  <1>7. f[0] = 0 /\ \A i \in 1..n : f[i] = f[i - 1] + s[i]
    BY <1>1, <1>5
  <1>8. \A i \in 0..n : f[i] \in Int
    <2>1. ASSUME NEW i \in 1..n, f[i - 1] \in Int PROVE f[i] \in Int
      BY <1>1, <1>7, <2>1
    <2>2. QED BY <1>1, <1>7, <2>1, Stays
  <1>9. f \in [0..n -> Int]
    BY <1>5, <1>8
  <1>10. QED BY <1>6, <1>7, <1>9

\* What Product computes, one factor at a time.
LEMMA Multiplied ==
    ASSUME NEW s \in Seq(Nat)
    PROVE  \E t \in [0..Len(s) -> Nat] :
             /\ t[0] = 1 /\ \A i \in 1..Len(s) : t[i] = t[i - 1] * s[i]
             /\ Product(s) = t[Len(s)]
  <1> DEFINE n == Len(s)
             Solves(t) == t = [i \in 0..n |-> IF i = 0 THEN 1 ELSE t[i - 1] * s[i]]
             h == [i \in 1..n |-> [y \in Nat |-> y * s[i]]]
             f == CHOOSE t : t = [i \in 0..Len(s) |-> IF i = 0 THEN 1 ELSE t[i - 1] * s[i]]
  <1>1. n \in Nat /\ (\A i \in 1..n : s[i] \in Nat) /\ 1 \in Nat
    OBVIOUS
  <1>2. /\ h \in [1..n -> [Nat -> Nat]]
        /\ \A i \in 1..n : \A y \in Nat : h[i][y] = y * s[i]
    <2>1. ASSUME NEW i \in 1..n, NEW y \in Nat PROVE y * s[i] \in Nat
      BY <1>1
    <2>2. QED BY <2>1
  <1> HIDE DEF h
  <1>3. PICK t \in [0..n -> Nat] : t[0] = 1 /\ \A i \in 1..n : t[i] = h[i][t[i - 1]]
    <2> DEFINE Solvable(S, c, g) ==
                 \E t \in [0..n -> S] : t[0] = c /\ \A i \in 1..n : t[i] = g[i][t[i - 1]]
    <2>1. \A S : \A c \in S : \A g \in [1..n -> [S -> S]] : Solvable(S, c, g)
      BY <1>1, Unwound
    <2> HIDE DEF Solvable
    <2>2. Solvable(Nat, 1, h)
      BY <1>1, <1>2, <2>1
    <2>3. QED BY <2>2 DEF Solvable
  <1>4. Solves(t)
    <2>1. ASSUME NEW i \in 0..n PROVE t[i] = IF i = 0 THEN 1 ELSE t[i - 1] * s[i]
      <3>1. CASE i = 0
        BY <1>3, <3>1
      <3>2. CASE i # 0
        <4>1. i \in 1..n /\ i - 1 \in 0..n
          BY <1>1, <3>2
        <4>2. t[i] = h[i][t[i - 1]] /\ t[i - 1] \in Nat
          BY <1>3, <4>1
        <4>3. QED BY <1>2, <3>2, <4>1, <4>2
      <3>3. QED BY <3>1, <3>2
    <2>2. t = [i \in 0..n |-> t[i]]
      OBVIOUS
    <2>3. QED BY <2>1, <2>2
  <1>5. Solves(f)
    BY <1>4
  <1>6. Product(s) = f[n]
    BY DEF Product
  <1> HIDE DEF f
  <1>7. f[0] = 1 /\ \A i \in 1..n : f[i] = f[i - 1] * s[i]
    BY <1>1, <1>5
  <1>8. \A i \in 0..n : f[i] \in Nat
    <2>1. ASSUME NEW i \in 1..n, f[i - 1] \in Nat PROVE f[i] \in Nat
      BY <1>1, <1>7, <2>1
    <2>2. QED BY <1>1, <1>7, <2>1, Stays
  <1>9. f \in [0..n -> Nat]
    BY <1>5, <1>8
  <1>10. QED BY <1>6, <1>7, <1>9

LEMMA Distribute ==
    ASSUME NEW a \in Int, NEW b \in Int, NEW c \in Int
    PROVE  a * b \in Int /\ a * c \in Int /\ a * (b + c) = a * b + a * c
  OBVIOUS

\* A sum whose every term, times u, is at most a step of g is at most g's last.
LEMMA TotalBound ==
    ASSUME NEW s \in Seq(Int), NEW u \in Int, NEW g \in [0..Len(s) -> Int], g[0] = 0,
           \A i \in 1..Len(s) : u * s[i] <= g[i] - g[i - 1]
    PROVE  Total(s) \in Int /\ u * Total(s) <= g[Len(s)]
  <1> DEFINE n == Len(s)
  <1>1. n \in Nat /\ \A i \in 1..n : s[i] \in Int
    OBVIOUS
  <1>2. PICK t \in [0..n -> Int] : /\ t[0] = 0 /\ \A i \in 1..n : t[i] = t[i - 1] + s[i]
                                   /\ Total(s) = t[n]
    BY Partials
  <1> DEFINE bad == {i \in 0..n : ~(u * t[i] <= g[i])}
  <1>3. bad = {}
    <2>1. SUFFICES ASSUME bad # {} PROVE FALSE
      OBVIOUS
    <2>2. bad \in SUBSET Nat
      OBVIOUS
    <2>3. PICK i \in bad : \A m \in bad : i <= m
      BY <2>1, <2>2, LeastNumber
    <2>4. i \in 0..n /\ ~(u * t[i] <= g[i])
      BY <2>3
    <2>5. i # 0
      BY <1>2, <2>4
    <2>6. i - 1 \in 0..n /\ ~(i <= i - 1) /\ i \in 1..n
      BY <1>1, <2>4, <2>5
    <2>7. u * t[i - 1] <= g[i - 1]
      BY <2>3, <2>6
    <2>8. t[i] = t[i - 1] + s[i] /\ t[i - 1] \in Int /\ s[i] \in Int /\ g[i] \in Int /\ g[i - 1] \in Int
      BY <1>1, <1>2, <2>6
    <2>9. u * t[i] = u * t[i - 1] + u * s[i] /\ u * t[i - 1] \in Int /\ u * s[i] \in Int
      <3> DEFINE c == t[i - 1]
                 d == s[i]
      <3>1. c \in Int /\ d \in Int /\ t[i] = c + d
        BY <2>8
      <3> HIDE DEF c, d
      <3>2. u * (c + d) = u * c + u * d /\ u * c \in Int /\ u * d \in Int
        BY <3>1, Distribute
      <3>3. QED BY <3>1, <3>2 DEF c, d
    <2>10. u * s[i] <= g[i] - g[i - 1]
      BY <2>6
    <2> DEFINE a == u * t[i - 1]
               b == u * s[i]
    <2>11. a \in Int /\ b \in Int /\ a <= g[i - 1] /\ b <= g[i] - g[i - 1] /\ ~(a + b <= g[i])
      BY <2>4, <2>7, <2>9, <2>10
    <2> HIDE DEF a, b
    <2>12. QED BY <2>8, <2>11
  <1>4. n \in 0..n
    BY <1>1
  <1>5. QED BY <1>2, <1>3, <1>4

\* Terms, times v, that are at most b.
LEMMA TotalAtMost ==
    ASSUME NEW s \in Seq(Int), NEW b \in Int, NEW v \in Int, \A i \in 1..Len(s) : v * s[i] <= b
    PROVE  Total(s) \in Int /\ v * Total(s) <= Len(s) * b
  <1> DEFINE n == Len(s)
             g == [i \in 0..n |-> i * b]
  <1>1. n \in Nat
    OBVIOUS
  <1>2. \A i \in 0..n : g[i] = i * b /\ i * b \in Int
    BY <1>1
  <1>3. g \in [0..n -> Int]
    BY <1>2
  <1>4. ASSUME NEW i \in 1..n PROVE v * s[i] <= g[i] - g[i - 1]
    <2>1. i \in 0..n /\ i - 1 \in 0..n /\ i \in Int
      BY <1>1
    <2>2. g[i] = i * b /\ g[i - 1] = (i - 1) * b
      BY <1>2, <2>1
    <2>3. i * b = (i - 1) * b + b /\ (i - 1) * b \in Int
      BY <2>1
    <2> HIDE DEF g
    <2>4. g[i] - g[i - 1] = b
      BY <2>2, <2>3
    <2>5. QED BY <2>4
  <1>5. 0 \in 0..n /\ n \in 0..n
    BY <1>1
  <1>6. g[0] = 0 /\ g[n] = n * b
    BY <1>2, <1>5
  <1> HIDE DEF g
  <1>7. QED BY <1>3, <1>4, <1>6, TotalBound

\* Terms between two bounds.
LEMMA TotalBetween ==
    ASSUME NEW s \in Seq(Int), NEW lo \in Int, NEW hi \in Int, NEW u \in Int,
           \A i \in 1..Len(s) : lo <= u * s[i] /\ u * s[i] <= hi
    PROVE  Total(s) \in Int /\ Len(s) * lo <= u * Total(s) /\ u * Total(s) <= Len(s) * hi
  <1> DEFINE n == Len(s)
  <1>1. n \in Nat /\ \A i \in 1..n : s[i] \in Int
    OBVIOUS
  <1>2. Total(s) \in Int /\ u * Total(s) <= n * hi
    BY TotalAtMost
  <1>3. (-u) * Total(s) <= n * (-lo)
    <2>1. ASSUME NEW i \in 1..n PROVE (-u) * s[i] <= -lo
      <3>1. s[i] \in Int /\ lo <= u * s[i]
        BY <1>1
      <3>2. (-u) * s[i] = -(u * s[i]) /\ u * s[i] \in Int
        BY <3>1
      <3>3. QED BY <3>1, <3>2
    <2>2. -lo \in Int /\ -u \in Int
      OBVIOUS
    <2>3. QED BY <2>1, <2>2, TotalAtMost
  <1>4. (-u) * Total(s) = -(u * Total(s)) /\ n * (-lo) = -(n * lo) /\ u * Total(s) \in Int /\ n * lo \in Int
    BY <1>1, <1>2
  <1>5. n * lo <= u * Total(s)
    BY <1>3, <1>4
  <1>6. QED BY <1>2, <1>5

\* Numbers that are not negative add up to at least each of them.
LEMMA TotalOfNats ==
    ASSUME NEW s \in Seq(Int), \A i \in 1..Len(s) : s[i] >= 0
    PROVE  Total(s) \in Nat /\ \A i \in 1..Len(s) : s[i] <= Total(s)
  <1> DEFINE n == Len(s)
  <1>1. n \in Nat /\ \A i \in 1..n : s[i] \in Int
    OBVIOUS
  <1>2. ASSUME NEW k \in 0..n PROVE Total(s) \in Int /\ (IF k = 0 THEN 0 ELSE s[k]) <= Total(s)
    <2> DEFINE b == IF k = 0 THEN 0 ELSE s[k]
               g == [i \in 0..n |-> IF k = 0 \/ i < k THEN 0 ELSE -b]
    <2>1. b \in Int /\ b >= 0
      BY <1>1
    <2>2. g \in [0..n -> Int] /\ \A i \in 0..n : g[i] = IF k = 0 \/ i < k THEN 0 ELSE -b
      BY <2>1
    <2>3. 0 \in 0..n /\ n \in 0..n
      BY <1>1
    <2>4. g[0] = 0 /\ g[n] = -b
      BY <2>2, <2>3
    <2>5. ASSUME NEW i \in 1..n PROVE (-1) * s[i] <= g[i] - g[i - 1]
      <3>1. i \in 0..n /\ i - 1 \in 0..n /\ s[i] \in Int /\ s[i] >= 0 /\ (-1) * s[i] = -s[i]
        BY <1>1
      <3>2. CASE i = k
        <4>1. g[i] = -s[i] /\ g[i - 1] = 0
          BY <2>2, <3>1, <3>2
        <4>2. QED BY <3>1, <4>1
      <3>3. CASE i # k
        <4>1. g[i] = g[i - 1] /\ g[i] \in Int
          <5>1. i < k <=> i - 1 < k
            BY <3>1, <3>3
          <5>2. QED BY <2>1, <2>2, <3>1, <5>1
        <4>2. QED BY <3>1, <4>1
      <3>4. QED BY <3>2, <3>3
    <2> HIDE DEF g, b
    <2>6. -1 \in Int
      OBVIOUS
    <2>7. Total(s) \in Int /\ (-1) * Total(s) <= -b
      BY <2>2, <2>4, <2>5, <2>6, TotalBound
    <2>8. b <= Total(s)
      BY <2>1, <2>7
    <2>9. QED BY <2>7, <2>8 DEF b
  <1>3. Total(s) \in Nat
    BY <1>1, <1>2
  <1>4. ASSUME NEW i \in 1..n PROVE s[i] <= Total(s)
    <2>1. i \in 0..n /\ i # 0
      BY <1>1
    <2>2. QED BY <1>2, <2>1
  <1>5. QED BY <1>3, <1>4

\* An average lies between bounds of those that have a weight.
LEMMA WeightedBetween ==
    ASSUME NEW w \in Seq(Int), NEW x \in [1..Len(w) -> Int], NEW lo \in Int, NEW hi \in Int,
           \A i \in 1..Len(w) : w[i] >= 0 /\ (w[i] # 0 => lo <= x[i] /\ x[i] <= hi)
    PROVE  LET num == Total([i \in 1..Len(w) |-> w[i] * x[i]])
           IN  num \in Int /\ Total(w) * lo <= num /\ num <= Total(w) * hi
  <1> DEFINE n == Len(w)
             p == [i \in 1..n |-> w[i] * x[i]]
  <1>1. n \in Nat /\ \A i \in 1..n : w[i] \in Int /\ x[i] \in Int /\ w[i] * x[i] \in Int
    OBVIOUS
  <1>2. p \in Seq(Int) /\ Len(p) = n /\ \A i \in 1..n : p[i] = w[i] * x[i]
    BY <1>1
  <1>3. PICK t \in [0..n -> Int] : /\ t[0] = 0 /\ \A i \in 1..n : t[i] = t[i - 1] + w[i]
                                   /\ Total(w) = t[n]
    BY Partials
  <1>4. ASSUME NEW u \in Int, NEW b \in Int, \A i \in 1..n : u * (w[i] * x[i]) <= w[i] * b
        PROVE  Total(p) \in Int /\ u * Total(p) <= Total(w) * b
    <2> DEFINE g == [i \in 0..n |-> t[i] * b]
    <2>1. ASSUME NEW i \in 0..n PROVE g[i] = t[i] * b /\ t[i] * b \in Int
      <3>1. t[i] \in Int
        BY <1>3
      <3>2. QED BY <3>1
    <2>2. g \in [0..n -> Int]
      BY <2>1
    <2>3. 0 \in 0..n /\ n \in 0..n
      BY <1>1
    <2>4. g[0] = 0 /\ g[n] = Total(w) * b
      BY <1>3, <2>1, <2>3
    <2>5. ASSUME NEW i \in 1..n PROVE u * p[i] <= g[i] - g[i - 1]
      <3>0. i \in 0..n /\ i - 1 \in 0..n /\ w[i] \in Int
        BY <1>1
      <3>1. t[i - 1] \in Int /\ w[i] \in Int /\ t[i] = t[i - 1] + w[i]
        BY <1>3, <3>0
      <3>2. g[i] = (t[i - 1] + w[i]) * b /\ g[i - 1] = t[i - 1] * b
        <4>1. g[i] = t[i] * b /\ g[i - 1] = t[i - 1] * b
          BY <2>1, <3>0
        <4>2. QED BY <3>1, <4>1
      <3>3. (t[i - 1] + w[i]) * b = t[i - 1] * b + w[i] * b /\ t[i - 1] * b \in Int /\ w[i] * b \in Int
        BY <3>1
      <3>4. g[i] - g[i - 1] = w[i] * b
        BY <3>2, <3>3
      <3>5. QED BY <1>2, <1>4, <3>4
    <2> HIDE DEF g, p
    <2>6. QED BY <1>2, <2>2, <2>4, <2>5, TotalBound
  <1>5. ASSUME NEW i \in 1..n PROVE w[i] * lo <= w[i] * x[i] /\ w[i] * x[i] <= w[i] * hi
    <2>1. w[i] \in Nat /\ x[i] \in Int
      BY <1>1
    <2>2. CASE w[i] = 0
      BY <2>1, <2>2
    <2>3. CASE w[i] # 0
      <3>1. lo <= x[i] /\ x[i] <= hi
        BY <2>3
      <3>2. w[i] * (x[i] - lo) >= 0 /\ w[i] * (hi - x[i]) >= 0
        BY <2>1, <3>1
      <3>3. w[i] * (x[i] - lo) = w[i] * x[i] - w[i] * lo /\ w[i] * (hi - x[i]) = w[i] * hi - w[i] * x[i]
        BY <2>1
      <3>4. w[i] * x[i] \in Int /\ w[i] * lo \in Int /\ w[i] * hi \in Int
        BY <2>1
      <3>5. QED BY <3>2, <3>3, <3>4
    <2>4. QED BY <2>2, <2>3
  <1>6. Total(p) \in Int /\ 1 * Total(p) <= Total(w) * hi
    <2>1. \A i \in 1..n : 1 * (w[i] * x[i]) <= w[i] * hi
      BY <1>1, <1>5
    <2>2. 1 \in Int /\ hi \in Int
      OBVIOUS
    <2> HIDE DEF p
    <2>3. QED BY <1>4, <2>1, <2>2
  <1>7. (-1) * Total(p) <= Total(w) * (-lo)
    <2>1. ASSUME NEW i \in 1..n PROVE (-1) * (w[i] * x[i]) <= w[i] * (-lo)
      <3>1. w[i] \in Int /\ w[i] * x[i] \in Int /\ w[i] * lo \in Int
        BY <1>1
      <3>2. w[i] * (-lo) = -(w[i] * lo)
        BY <3>1
      <3>3. (-1) * (w[i] * x[i]) = -(w[i] * x[i])
        BY <3>1
      <3>4. QED BY <1>5, <3>1, <3>2, <3>3
    <2>2. -1 \in Int /\ -lo \in Int
      OBVIOUS
    <2>3. QED BY <1>4, <2>1, <2>2
  <1>8. Total(w) \in Int
    <2>1. n \in 0..n
      BY <1>1
    <2>2. QED BY <1>3, <2>1
  <1>9. Total(w) * lo <= Total(p) /\ Total(p) <= Total(w) * hi
    <2> DEFINE T == Total(p)
               V == Total(w)
    <2> HIDE DEF T, V
    <2>1. T \in Int /\ V \in Int /\ V * lo \in Int /\ V * hi \in Int
      BY <1>6, <1>8 DEF T, V
    <2>2. V * (-lo) = -(V * lo)
      BY <2>1
    <2>3. 1 * T <= V * hi /\ (-1) * T <= V * (-lo)
      BY <1>6, <1>7 DEF T, V
    <2>4. 1 * T = T /\ (-1) * T = -T
      BY <2>1
    <2>5. V * lo <= T /\ T <= V * hi
      BY <2>1, <2>2, <2>3, <2>4
    <2>6. QED BY <2>5 DEF T, V
  <1>10. QED BY <1>6, <1>9

\* The values of a finite number of arguments are finite in number.
LEMMA ValuesFinite ==
    ASSUME NEW S, IsFiniteSet(S), NEW f
    PROVE  IsFiniteSet({f[i] : i \in S})
  <1> DEFINE g == [i \in S |-> f[i]]
             T == {f[i] : i \in S}
  <1>1. g \in Surjection(S, T)
    BY DEF Surjection
  <1> HIDE DEF g, T
  <1>2. IsFiniteSet(T)
    BY <1>1, FS_Surjection
  <1>3. QED BY <1>2 DEF T

\* The numbers from 1 to n are n.
LEMMA FirstNumbers ==
    ASSUME NEW n \in Nat
    PROVE  IsFiniteSet(1..n) /\ Cardinality(1..n) = n
  <1>1. 1 \in Int /\ n \in Int /\ (1 > n => n = 0)
    OBVIOUS
  <1>2. IsFiniteSet(1..n) /\ Cardinality(1..n) = IF 1 > n THEN 0 ELSE n - 1 + 1
    BY <1>1, FS_Interval
  <1>3. QED BY <1>1, <1>2

\* Sorting: the value in place j exists, with fewer than j below it and at least
\* j not above it.
LEMMA Sorted ==
    ASSUME NEW xs \in Seq(Int)
    PROVE  /\ Ascending(xs) \in Seq(Int) /\ Len(Ascending(xs)) = Len(xs)
           /\ \A j \in 1..Len(xs) :
                /\ Ascending(xs)[j] \in Range(xs)
                /\ Cardinality({i \in 1..Len(xs) : xs[i] < Ascending(xs)[j]}) < j
                /\ Cardinality({i \in 1..Len(xs) : xs[i] <= Ascending(xs)[j]}) >= j
  <1> DEFINE n == Len(xs)
             Below(v) == {i \in DOMAIN xs : xs[i] < v}
             UpTo(v) == {i \in DOMAIN xs : xs[i] <= v}
  <1>1. n \in Nat /\ DOMAIN xs = 1..n /\ \A i \in 1..n : xs[i] \in Int
    OBVIOUS
  <1>2. IsFiniteSet(1..n) /\ Cardinality(1..n) = n
    BY <1>1, FirstNumbers
  <1>3. ASSUME NEW S \in SUBSET (1..n)
        PROVE  IsFiniteSet(S) /\ Cardinality(S) \in Nat /\ Cardinality(S) <= n
    BY <1>2, FS_Subset, FS_CardinalityType
  <1>4. IsFiniteSet(Range(xs)) /\ Range(xs) \in SUBSET Int
    <2>1. Range(xs) = {xs[i] : i \in 1..n}
      BY <1>1 DEF Range
    <2>2. IsFiniteSet({xs[i] : i \in 1..n})
      BY <1>2, ValuesFinite
    <2>3. QED BY <1>1, <2>1, <2>2
  <1>5. ASSUME NEW j \in 1..n
        PROVE  \E v \in Range(xs) : Cardinality(Below(v)) < j /\ Cardinality(UpTo(v)) >= j
    <2> DEFINE good == {v \in Range(xs) : Cardinality(UpTo(v)) >= j}
    <2>1. Range(xs) # {}
      BY <1>1 DEF Range
    <2>2. Max(Range(xs)) \in Range(xs) /\ \A y \in Range(xs) : y <= Max(Range(xs))
      BY <1>4, <2>1, Extremes
    <2>3. UpTo(Max(Range(xs))) = 1..n
      BY <1>1, <2>2 DEF Range
    <2>4. Max(Range(xs)) \in good
      <3>1. Cardinality(UpTo(Max(Range(xs)))) = n /\ n >= j
        <4> HIDE DEF UpTo
        <4>1. Cardinality(UpTo(Max(Range(xs)))) = n
          BY <1>2, <2>3
        <4>2. QED BY <1>1, <4>1
      <3>2. QED BY <2>2, <3>1
    <2>5. IsFiniteSet(good) /\ good \in SUBSET Int
      <3>1. good \in SUBSET Range(xs)
        OBVIOUS
      <3>2. QED BY <1>4, <3>1, FS_Subset
    <2>6. Min(good) \in good /\ \A y \in good : Min(good) <= y
      <3> HIDE DEF good
      <3>1. QED BY <2>4, <2>5, Extremes
    <2> DEFINE v == Min(good)
               L == Below(v)
    <2>7. v \in good /\ v \in Int /\ \A y \in good : v <= y
      BY <2>5, <2>6
    <2> HIDE DEF v
    <2>8. Cardinality(L) < j
      <3>1. SUFFICES ASSUME ~(Cardinality(L) < j) PROVE FALSE
        OBVIOUS
      <3>2. L \in SUBSET (1..n)
        BY <1>1
      <3>3. IsFiniteSet(L) /\ Cardinality(L) \in Nat
        BY <1>3, <3>2
      <3>4. L # {}
        <4> HIDE DEF L
        <4>1. SUFFICES ASSUME L = {} PROVE FALSE
          OBVIOUS
        <4>2. Cardinality(L) = 0
          BY <4>1, FS_EmptySet
        <4>3. QED BY <3>1, <4>2
      <3> DEFINE W == {xs[i] : i \in L}
      <3>5. W \in SUBSET Int /\ W # {}
        BY <1>1, <3>4
      <3>6. IsFiniteSet(W)
        <4> HIDE DEF L
        <4>1. QED BY <3>3, ValuesFinite
      <3>7. Max(W) \in W /\ \A y \in W : y <= Max(W)
        <4> HIDE DEF W
        <4>1. QED BY <3>5, <3>6, Extremes
      <3> DEFINE w == Max(W)
      <3>8. w \in W /\ \A y \in W : y <= w
        BY <3>7
      <3> HIDE DEF w
      <3>9. w \in Int /\ w < v /\ w \in Range(xs)
        BY <1>1, <3>8 DEF Range
      <3>10. UpTo(w) = L
        BY <1>1, <2>7, <3>8, <3>9
      <3>11. Cardinality(UpTo(w)) >= j
        <4> HIDE DEF L, UpTo
        <4>1. Cardinality(L) >= j
          BY <1>1, <3>1, <3>3
        <4>2. QED BY <3>10, <4>1
      <3>12. w \in good
        BY <3>9, <3>11
      <3>13. QED BY <2>7, <3>9, <3>12
    <2>9. v \in Range(xs) /\ Cardinality(UpTo(v)) >= j
      BY <2>7
    <2>10. QED BY <2>8, <2>9
  <1> DEFINE a == Ascending(xs)
  <1>6. a = [j \in DOMAIN xs |-> CHOOSE v \in Range(xs) : /\ Cardinality(Below(v)) < j
                                                        /\ Cardinality(UpTo(v)) >= j]
    BY DEF Ascending
  <1>7. ASSUME NEW j \in 1..n
        PROVE  a[j] \in Range(xs) /\ Cardinality(Below(a[j])) < j /\ Cardinality(UpTo(a[j])) >= j
    <2> HIDE DEF Below, UpTo, a
    <2>1. a[j] = CHOOSE v \in Range(xs) : /\ Cardinality(Below(v)) < j
                                          /\ Cardinality(UpTo(v)) >= j
      BY <1>1, <1>6
    <2>2. QED BY <1>5, <2>1
  <1> HIDE DEF a
  <1>8. \A j \in 1..n : a[j] \in Int
    BY <1>4, <1>7
  <1>9. a \in Seq(Int) /\ Len(a) = n
    <2> DEFINE val(j) == CHOOSE v \in Range(xs) : /\ Cardinality(Below(v)) < j
                                                  /\ Cardinality(UpTo(v)) >= j
    <2>1. a = [j \in 1..n |-> val(j)]
      BY <1>1, <1>6
    <2> HIDE DEF val
    <2>2. a = [j \in 1..n |-> a[j]]
      BY <2>1
    <2>3. QED BY <1>1, <1>8, <2>2
  <1>10. QED BY <1>1, <1>7, <1>9 DEF a

\* Whatever a few of the values are, each place of the sorted sequence has one
\* of the others at or below it, and one at or above it.
LEMMA Outvoted ==
    ASSUME NEW xs \in Seq(Int), NEW j \in 1..Len(xs), NEW F \in SUBSET (1..Len(xs))
    PROVE  /\ Ascending(xs)[j] \in Int /\ Cardinality(F) \in Nat
           /\ Cardinality(F) < j => \E i \in 1..Len(xs) \ F : xs[i] <= Ascending(xs)[j]
           /\ Cardinality(F) <= Len(xs) - j => \E i \in 1..Len(xs) \ F : Ascending(xs)[j] <= xs[i]
  <1> DEFINE n == Len(xs)
             v == Ascending(xs)[j]
             L == {i \in 1..n : xs[i] < v}
             U == {i \in 1..n : xs[i] <= v}
  <1>1. n \in Nat /\ (\A i \in 1..n : xs[i] \in Int) /\ j \in Nat
    OBVIOUS
  <1>2. v \in Int /\ Cardinality(L) < j /\ Cardinality(U) >= j
    <2>1. Ascending(xs) \in Seq(Int) /\ Len(Ascending(xs)) = n
      BY Sorted
    <2>2. v \in Int
      BY <2>1
    <2>3. QED BY <2>2, Sorted
  <1> HIDE DEF v
  <1>3. IsFiniteSet(1..n) /\ Cardinality(1..n) = n
    BY <1>1, FirstNumbers
  <1>4. IsFiniteSet(F) /\ IsFiniteSet(L)
    <2>1. F \in SUBSET (1..n) /\ L \in SUBSET (1..n)
      OBVIOUS
    <2> HIDE DEF L
    <2>2. QED BY <1>3, <2>1, FS_Subset
  <1>5. Cardinality(F) \in Nat /\ Cardinality(L) \in Nat
    <2> HIDE DEF L
    <2>1. QED BY <1>4, FS_CardinalityType
  <1>6. ASSUME Cardinality(F) < j PROVE \E i \in 1..n \ F : xs[i] <= v
    <2>1. SUFFICES ASSUME \A i \in 1..n \ F : ~(xs[i] <= v) PROVE FALSE
      OBVIOUS
    <2>2. U \in SUBSET F
      BY <2>1
    <2> HIDE DEF U
    <2>3. Cardinality(U) <= Cardinality(F) /\ IsFiniteSet(U)
      BY <1>4, <2>2, FS_Subset
    <2>4. Cardinality(U) \in Nat
      BY <2>3, FS_CardinalityType
    <2>5. QED BY <1>1, <1>2, <1>5, <1>6, <2>3, <2>4
  <1>7. ASSUME Cardinality(F) <= n - j PROVE \E i \in 1..n \ F : v <= xs[i]
    <2>1. SUFFICES ASSUME \A i \in 1..n \ F : ~(v <= xs[i]) PROVE FALSE
      OBVIOUS
    <2>2. 1..n = L \cup F
      <3>1. ASSUME NEW i \in 1..n, i \notin F PROVE i \in L
        <4>1. ~(v <= xs[i]) /\ xs[i] \in Int
          BY <1>1, <2>1, <3>1
        <4>2. xs[i] < v
          BY <1>2, <4>1
        <4>3. QED BY <4>2
      <3>2. QED BY <3>1
    <2> HIDE DEF L
    <2>3. Cardinality(L \cup F) = Cardinality(L) + Cardinality(F) - Cardinality(L \cap F)
      BY <1>4, FS_Union
    <2>4. IsFiniteSet(L \cap F)
      BY <1>4, FS_Intersection
    <2>5. Cardinality(L \cap F) \in Nat
      BY <2>4, FS_CardinalityType
    <2>6. n = Cardinality(L) + Cardinality(F) - Cardinality(L \cap F)
      BY <1>3, <2>2, <2>3
    <2>7. QED BY <1>1, <1>2, <1>5, <1>7, <2>5, <2>6
  <1>8. QED BY <1>2, <1>5, <1>6, <1>7 DEF v

\* What the fields of an update are.
LEMMA UpdateFields ==
    ASSUME NEW us \in Seq(ModelUpdate)
    PROVE  /\ Len(us) \in Nat /\ DOMAIN us = 1..Len(us)
           /\ \A i \in 1..Len(us) : /\ us[i] \in ToSet(us) /\ us[i].x \in Int /\ us[i].samples \in Nat
                                    /\ us[i].round \in Nat /\ us[i].honest \in BOOLEAN
  <1>1. Len(us) \in Nat /\ DOMAIN us = 1..Len(us) /\ \A i \in 1..Len(us) : us[i] \in ModelUpdate
    OBVIOUS
  <1>2. ASSUME NEW i \in 1..Len(us)
        PROVE  /\ us[i].x \in Int /\ us[i].samples \in Nat
               /\ us[i].round \in Nat /\ us[i].honest \in BOOLEAN
    <2>1. us[i] \in ModelUpdate
      BY <1>1
    <2>2. QED BY <2>1 DEF ModelUpdate
  <1>3. \A i \in 1..Len(us) : us[i] \in ToSet(us)
    BY <1>1 DEF ToSet
  <1>4. QED BY <1>1, <1>2, <1>3

\* Some of the updates lie between their least and their greatest weight.
LEMMA SpanOf ==
    ASSUME NEW us \in Seq(ModelUpdate), NEW H \in SUBSET ToSet(us), H # {}
    PROVE  /\ Min({u.x : u \in H}) \in Int /\ Max({u.x : u \in H}) \in Int
           /\ \A u \in H : u.x \in Int /\ Min({v.x : v \in H}) <= u.x /\ u.x <= Max({v.x : v \in H})
  <1> DEFINE X == {u.x : u \in H}
             g == [u \in H |-> u.x]
  <1>1. IsFiniteSet(ToSet(us)) /\ \A u \in ToSet(us) : u.x \in Int
    <2>1. ToSet(us) = {us[i] : i \in 1..Len(us)}
      BY UpdateFields DEF ToSet
    <2>2. IsFiniteSet(1..Len(us))
      BY UpdateFields, FirstNumbers
    <2>3. IsFiniteSet({us[i] : i \in 1..Len(us)})
      BY <2>2, ValuesFinite
    <2>4. QED BY <2>1, <2>3, UpdateFields
  <1>2. IsFiniteSet(H)
    BY <1>1, FS_Subset
  <1>3. X = {g[u] : u \in H}
    OBVIOUS
  <1>4. IsFiniteSet(X)
    <2> HIDE DEF g, X
    <2>1. IsFiniteSet({g[u] : u \in H})
      BY <1>2, ValuesFinite
    <2>2. QED BY <1>3, <2>1
  <1>5. X \in SUBSET Int /\ X # {}
    BY <1>1
  <1>6. Min(X) \in X /\ Max(X) \in X /\ \A y \in X : Min(X) <= y /\ y <= Max(X)
    <2> HIDE DEF X
    <2>1. QED BY <1>4, <1>5, Extremes
  <1>7. \A u \in H : u.x \in X
    OBVIOUS
  <1> HIDE DEF X
  <1>8. Min(X) \in Int /\ Max(X) \in Int /\ \A u \in H : u.x \in Int /\ Min(X) <= u.x /\ u.x <= Max(X)
    BY <1>5, <1>6, <1>7
  <1>9. QED BY <1>8 DEF X

\* A weighted average of updates lies between those that have a weight.
LEMMA AverageBetween ==
    ASSUME NEW us \in Seq(ModelUpdate), NEW w \in Seq(Nat), Len(w) = Len(us), Total(w) # 0,
           NEW H \in SUBSET ToSet(us), \A i \in 1..Len(us) : w[i] # 0 => us[i] \in H,
           NEW lo \in Int, NEW hi \in Int, \A u \in H : lo <= u.x /\ u.x <= hi
    PROVE  LET r == Average(us, w)
           IN  r.den * lo <= r.num /\ r.num <= r.den * hi
  <1> DEFINE n == Len(us)
             x == [i \in 1..n |-> us[i].x]
             p == [i \in 1..n |-> w[i] * x[i]]
             q == [i \in DOMAIN us |-> w[i] * us[i].x]
  <1>1. n \in Nat /\ DOMAIN us = 1..n /\ \A i \in 1..n : us[i].x \in Int /\ w[i] \in Nat
    BY UpdateFields
  <1>2. p = q
    BY <1>1
  <1>3. x \in [1..n -> Int] /\ w \in Seq(Int)
    BY <1>1
  <1>4. ASSUME NEW i \in 1..n PROVE w[i] >= 0 /\ (w[i] # 0 => lo <= x[i] /\ x[i] <= hi)
    BY <1>1
  <1>5. Total(w) * lo <= Total(p) /\ Total(p) <= Total(w) * hi
    <2>1. x \in [1..Len(w) -> Int] /\ \A i \in 1..Len(w) : w[i] >= 0 /\ (w[i] # 0 => lo <= x[i] /\ x[i] <= hi)
      BY <1>3, <1>4
    <2>2. p = [i \in 1..Len(w) |-> w[i] * x[i]]
      OBVIOUS
    <2> HIDE DEF x, p
    <2>3. QED BY <1>3, <2>1, <2>2, WeightedBetween
  <1>6. Average(us, w).num = Total(q) /\ Average(us, w).den = Total(w)
    BY DEF Average, Fraction
  <1> HIDE DEF p, q
  <1>7. QED BY <1>2, <1>5, <1>6

\* FedAvg: somebody's number of samples is not zero.
LEMMA FedAvgBetween ==
    ASSUME NEW us \in Seq(ModelUpdate), us # <<>>, NEW by \in {"uniform", "data_size"},
           NEW H, H = {u \in ToSet(us) : by = "uniform" \/ u.samples > 0}, H # {},
           NEW lo \in Int, NEW hi \in Int, \A u \in H : lo <= u.x /\ u.x <= hi
    PROVE  LET r == FedAvg(us, by)
           IN  r.den * lo <= r.num /\ r.num <= r.den * hi
  <1> DEFINE n == Len(us)
             w == [i \in DOMAIN us |-> IF by = "uniform" THEN 1 ELSE us[i].samples]
  <1>1. n \in Nat /\ DOMAIN us = 1..n /\ \A i \in 1..n : us[i] \in ToSet(us) /\ us[i].samples \in Nat
    BY UpdateFields
  <1>2. w \in Seq(Nat) /\ Len(w) = n /\ \A i \in 1..n : w[i] = IF by = "uniform" THEN 1 ELSE us[i].samples
    BY <1>1
  <1>3. ASSUME NEW i \in 1..n, w[i] # 0 PROVE us[i] \in H
    BY <1>1, <1>2, <1>3
  <1>4. PICK u \in H : TRUE
    OBVIOUS
  <1>5. PICK k \in 1..n : us[k] = u
    BY <1>1, <1>4 DEF ToSet
  <1>6. w[k] > 0
    BY <1>1, <1>2, <1>4, <1>5
  <1>7. FedAvg(us, by) = Average(us, w)
    BY DEF FedAvg
  <1> HIDE DEF w
  <1>8. Total(w) # 0
    <2>1. w \in Seq(Int) /\ \A i \in 1..Len(w) : w[i] >= 0
      BY <1>2
    <2>2. Total(w) \in Nat /\ w[k] <= Total(w) /\ w[k] \in Nat
      BY <1>2, <2>1, TotalOfNats
    <2>3. QED BY <1>6, <2>2
  <1>9. H \in SUBSET ToSet(us)
    OBVIOUS
  <1>10. QED BY <1>2, <1>3, <1>7, <1>8, <1>9, AverageBetween

\* The staleness-weighted variant: only those with samples weigh, and no weight
\* is negative, however old an update is.
LEMMA StalenessBetween ==
    ASSUME NEW us \in Seq(ModelUpdate), us # <<>>,
           NEW H, H = {u \in ToSet(us) : u.samples > 0},
           NEW lo \in Int, NEW hi \in Int, \A u \in H : lo <= u.x /\ u.x <= hi,
           Staleness(us).kind = "weights"
    PROVE  LET r == Staleness(us)
           IN  r.den * lo <= r.num /\ r.num <= r.den * hi
  <1> DEFINE n == Len(us)
             now == IF CurrentRound = 0 THEN Max({us[i].round : i \in DOMAIN us}) ELSE CurrentRound
             den == [i \in DOMAIN us |->
                        1 + StaleCoef * (IF now > us[i].round THEN now - us[i].round ELSE 0)]
             w == [i \in DOMAIN us |-> us[i].samples * (Product(den) \div den[i])]
  <1>1. /\ n \in Nat /\ DOMAIN us = 1..n /\ n # 0
        /\ \A i \in 1..n : us[i] \in ToSet(us) /\ us[i].samples \in Nat /\ us[i].round \in Nat
    BY UpdateFields
  <1>2. now \in Nat
    <2> DEFINE R == {us[i].round : i \in DOMAIN us}
               g == [i \in 1..n |-> us[i].round]
    <2>1. R = {g[i] : i \in 1..n} /\ R \in SUBSET Nat /\ R # {}
      BY <1>1
    <2>2. IsFiniteSet(R)
      <3> HIDE DEF g, R
      <3>1. IsFiniteSet({g[i] : i \in 1..n})
        BY <1>1, FirstNumbers, ValuesFinite
      <3>2. QED BY <2>1, <3>1
    <2>3. Max(R) \in Nat
      <3> HIDE DEF R
      <3>1. R \in SUBSET Int
        BY <2>1
      <3>2. Max(R) \in R
        BY <2>1, <2>2, <3>1, Extremes
      <3>3. QED BY <2>1, <3>2
    <2> HIDE DEF R
    <2>4. QED BY <2>3, AggregationAssumption DEF R
  <1> HIDE DEF now
  <1>3. ASSUME NEW i \in 1..n PROVE den[i] \in Nat \ {0}
    <2> DEFINE late == IF now > us[i].round THEN now - us[i].round ELSE 0
    <2>1. late \in Nat /\ den[i] = 1 + StaleCoef * late /\ StaleCoef \in Nat
      BY <1>1, <1>2, AggregationAssumption
    <2> HIDE DEF late, den
    <2>2. StaleCoef * late \in Nat
      BY <2>1
    <2>3. QED BY <2>1, <2>2
  <1>4. den \in Seq(Nat)
    <2>1. den = [i \in 1..n |-> den[i]]
      BY <1>1
    <2> HIDE DEF den
    <2>2. QED BY <1>1, <1>3, <2>1
  <1> HIDE DEF den
  <1>5. Product(den) \in Nat
    <2>1. Len(den) \in Nat
      BY <1>4
    <2>2. PICK t \in [0..Len(den) -> Nat] : Product(den) = t[Len(den)]
      BY <1>4, Multiplied
    <2>3. QED BY <2>1, <2>2
  <1>6. ASSUME NEW i \in 1..n PROVE w[i] \in Nat /\ (w[i] # 0 => us[i] \in H)
    <2> DEFINE d == Product(den) \div den[i]
    <2>1. d \in Nat
      BY <1>3, <1>5, Division
    <2>2. w[i] = us[i].samples * d
      BY <1>1
    <2> HIDE DEF d, w
    <2>3. us[i].samples \in Nat
      BY <1>1
    <2>4. w[i] \in Nat
      BY <2>1, <2>2, <2>3
    <2>5. us[i].samples = 0 => w[i] = 0
      BY <2>1, <2>2
    <2>6. QED BY <1>1, <2>3, <2>4, <2>5
  <1>7. w \in Seq(Nat) /\ Len(w) = n
    <2>1. w = [i \in 1..n |-> w[i]]
      BY <1>1
    <2> HIDE DEF w
    <2>2. QED BY <1>1, <1>6, <2>1
  <1>8. Staleness(us) = IF Total(w) = 0 THEN Raises ELSE Average(us, w)
    BY DEF Staleness, now, den
  <1> HIDE DEF w
  <1>9. Total(w) # 0
    BY <1>8 DEF Raises
  <1>10. H \in SUBSET ToSet(us)
    OBVIOUS
  <1>11. Staleness(us) = Average(us, w)
    BY <1>8, <1>9
  <1>12. QED BY <1>6, <1>7, <1>9, <1>10, <1>11, AverageBetween

\* After trimming on both sides something is left.
LEMMA TrimLeaves ==
    ASSUME NEW n \in Nat, n # 0
    PROVE  LET k == (n * TrimNum) \div TrimDen IN k \in Nat /\ 2 * k < n
  <1> DEFINE k == (n * TrimNum) \div TrimDen
             a == n * TrimNum
  <1>1. TrimNum \in Nat /\ TrimDen \in Nat \ {0} /\ 2 * TrimNum < TrimDen
    BY AggregationAssumption
  <1>2. a \in Nat
    BY <1>1
  <1>3. n * (TrimDen - 2 * TrimNum) > 0
    BY <1>1
  <1>4. n * (TrimDen - 2 * TrimNum) = n * TrimDen - 2 * a /\ n * TrimDen \in Nat
    BY <1>1
  <1>5. 2 * a < n * TrimDen
    BY <1>2, <1>3, <1>4
  <1> HIDE DEF a
  <1>6. k \in Nat /\ a % TrimDen \in Nat /\ a = (k * TrimDen) + (a % TrimDen)
    BY <1>1, <1>2, Division DEF a
  <1> HIDE DEF k
  <1>7. k * TrimDen \in Nat /\ k * TrimDen <= a
    BY <1>1, <1>2, <1>6
  <1>8. SUFFICES ASSUME ~(2 * k < n) PROVE FALSE
    BY <1>6 DEF k
  <1>9. (2 * k - n) * TrimDen >= 0
    BY <1>1, <1>6, <1>8
  <1>10. (2 * k - n) * TrimDen = 2 * (k * TrimDen) - n * TrimDen
    BY <1>1, <1>6
  <1>11. QED BY <1>2, <1>4, <1>5, <1>7, <1>9, <1>10

\* TrimmedMean: what is left after trimming lies between honest updates, and so
\* does its mean.
LEMMA TrimmedBetween ==
    ASSUME NEW us \in Seq(ModelUpdate), NEW lo \in Int, NEW hi \in Int,
           \A i \in 1..Len(us) : us[i].honest => lo <= us[i].x /\ us[i].x <= hi,
           Cardinality({i \in 1..Len(us) : ~us[i].honest}) <= (Len(us) * TrimNum) \div TrimDen,
           TrimmedMean(us).kind = "weights"
    PROVE  LET r == TrimmedMean(us)
           IN  r.den * lo <= r.num /\ r.num <= r.den * hi
  <1> DEFINE n == Len(us)
             k == (n * TrimNum) \div TrimDen
             xs == [i \in 1..n |-> us[i].x]
             kept == Trim(Ascending(xs), k)
             F == {i \in 1..n : ~us[i].honest}
  <1>1. n \in Nat /\ \A i \in 1..n : us[i].x \in Int
    BY UpdateFields
  <1>2. xs \in Seq(Int) /\ Len(xs) = n /\ \A i \in 1..n : xs[i] = us[i].x
    BY <1>1
  <1>3. TrimmedMean(us) = IF n < 3 THEN Raises ELSE Fraction(Total(kept), Len(kept))
    BY DEF TrimmedMean
  <1>4. ~(n < 3)
    BY <1>3 DEF Raises
  <1>5. k \in Nat /\ 2 * k < n
    BY <1>1, <1>4, TrimLeaves
  <1>6. Cardinality(F) <= k /\ F \in SUBSET (1..n)
    OBVIOUS
  <1> HIDE DEF k, xs
  <1>7. Ascending(xs) \in Seq(Int) /\ Len(Ascending(xs)) = n
    BY <1>2, Sorted
  <1>8. /\ kept \in Seq(Int) /\ Len(kept) = n - 2 * k
        /\ \A j \in 1..n - 2 * k : kept[j] = Ascending(xs)[k + j]
    <2> DEFINE a == Ascending(xs)
    <2> HIDE DEF a
    <2>1. a \in Seq(Int) /\ Len(a) = n /\ kept = SubSeq(a, k + 1, n - k)
      BY <1>7 DEF Trim, a
    <2>2. k + 1 \in 1..n /\ n - k \in 1..n /\ (n - k) - (k + 1) + 1 = n - 2 * k
      BY <1>1, <1>5
    <2> HIDE DEF kept
    <2>3. kept \in Seq(Int) /\ Len(kept) = n - 2 * k
      <3>1. kept \in Seq(Int)
        BY <2>1, <2>2
      <3>2. Len(kept) = (n - k) - (k + 1) + 1
        <4>1. k + 1 <= n - k
          BY <1>1, <1>5
        <4>2. QED BY <2>1, <2>2, <4>1
      <3>3. QED BY <2>2, <3>1, <3>2
    <2>4. ASSUME NEW j \in 1..n - 2 * k PROVE kept[j] = a[k + j]
      <3>1. kept[j] = a[(k + 1) + j - 1]
        BY <2>1, <2>2
      <3>2. (k + 1) + j - 1 = k + j
        BY <1>1, <1>5
      <3>3. QED BY <3>1, <3>2
    <2>5. QED BY <2>3, <2>4 DEF a
  <1>9. ASSUME NEW j \in 1..Len(kept) PROVE lo <= 1 * kept[j] /\ 1 * kept[j] <= hi
    <2> DEFINE v == Ascending(xs)[k + j]
    <2>1. k + j \in 1..n /\ k < k + j /\ k <= n - (k + j) /\ j \in 1..n - 2 * k
      BY <1>1, <1>5, <1>8
    <2>2. kept[j] = v
      BY <1>8, <2>1
    <2>3. v \in Int /\ Cardinality(F) \in Nat
      BY <1>2, <1>6, <2>1, Outvoted
    <2>4. Cardinality(F) < k + j /\ Cardinality(F) <= n - (k + j)
      BY <1>1, <1>5, <1>6, <2>1, <2>3
    <2>5. (\E i \in 1..n \ F : xs[i] <= v) /\ (\E i \in 1..n \ F : v <= xs[i])
      BY <1>2, <1>6, <2>1, <2>4, Outvoted
    <2> HIDE DEF v
    <2>6. ASSUME NEW i \in 1..n \ F PROVE xs[i] \in Int /\ lo <= xs[i] /\ xs[i] <= hi
      BY <1>1, <1>2
    <2>7. lo <= v /\ v <= hi
      BY <2>3, <2>5, <2>6
    <2>8. QED BY <2>2, <2>3, <2>7
  <1> HIDE DEF kept
  <1>10. Total(kept) \in Int /\ Len(kept) * lo <= 1 * Total(kept) /\ 1 * Total(kept) <= Len(kept) * hi
    <2>1. 1 \in Int
      OBVIOUS
    <2>2. QED BY <1>8, <1>9, <2>1, TotalBetween
  <1>11. TrimmedMean(us).num = Total(kept) /\ TrimmedMean(us).den = Len(kept)
    BY <1>3, <1>4 DEF Fraction
  <1>12. 1 * Total(kept) = Total(kept)
    BY <1>10
  <1>13. QED BY <1>10, <1>11, <1>12

\* The update at place j of those that are not update i
Other(i, j) == IF j < i THEN j ELSE j + 1

\* The distances that the score of update i sums up
Distances(us, i) == [j \in 1..Len(us) - 1 |-> Abs(us[i].x - us[Other(i, j)].x)]

\* The number of distances that a score sums up
Summed(us) == Len(us) - NumByzantines - 2

\* The score of an update is the sum of the first of the sorted distances.
LEMMA ScoreShape ==
    ASSUME NEW us \in Seq(ModelUpdate), EnoughForKrum(us), NEW i \in 1..Len(us)
    PROVE  /\ Distances(us, i) \in Seq(Int) /\ Len(Distances(us, i)) = Len(us) - 1
           /\ Summed(us) \in Nat /\ Summed(us) <= Len(us) - 1
           /\ \E s \in Seq(Int) :
                 /\ Len(s) = Summed(us) /\ KrumScore(us, i) = Total(s)
                 /\ \A j \in 1..Summed(us) : s[j] = Ascending(Distances(us, i))[j]
  <1> DEFINE n == Len(us)
             m == Summed(us)
             d == Distances(us, i)
             others == [j \in 1..Len(us) - 1 |-> us[IF j < i THEN j ELSE j + 1]]
             dist == [j \in DOMAIN others |-> Abs(us[i].x - others[j].x)]
             s == SubSeq(Ascending(d), 1, m)
  <1>1. n \in Nat /\ \A k \in 1..n : us[k].x \in Int
    BY UpdateFields
  <1>2. NumByzantines \in Nat /\ n >= 2 * NumByzantines + 3
    BY AggregationAssumption DEF EnoughForKrum
  <1>3. m \in Nat /\ m <= n - 1 /\ m >= 1
    BY <1>1, <1>2 DEF Summed
  <1>4. ASSUME NEW j \in 1..n - 1 PROVE Other(i, j) \in 1..n /\ d[j] \in Int
    <2>1. Other(i, j) \in 1..n
      BY <1>1 DEF Other
    <2>2. us[i].x \in Int /\ us[Other(i, j)].x \in Int
      BY <1>1, <2>1
    <2>3. d[j] = Abs(us[i].x - us[Other(i, j)].x)
      BY DEF Distances
    <2>4. QED BY <2>1, <2>2, <2>3 DEF Abs
  <1>5. d \in Seq(Int) /\ Len(d) = n - 1
    <2>1. d = [j \in 1..n - 1 |-> d[j]]
      BY DEF Distances
    <2> HIDE DEF d
    <2>2. QED BY <1>1, <1>2, <1>4, <2>1
  <1>6. dist = d
    BY DEF Distances, Other
  <1>7. KrumScore(us, i) = Total(SubSeq(Ascending(dist), 1, Len(us) - NumByzantines - 2))
    BY DEF KrumScore
  <1> HIDE DEF dist, d
  <1>8. KrumScore(us, i) = Total(s)
    BY <1>6, <1>7 DEF Summed
  <1>9. Ascending(d) \in Seq(Int) /\ Len(Ascending(d)) = n - 1
    BY <1>5, Sorted
  <1> HIDE DEF m
  <1>10. s \in Seq(Int) /\ Len(s) = m /\ \A j \in 1..m : s[j] = Ascending(d)[j]
    BY <1>1, <1>3, <1>9
  <1> HIDE DEF s
  <1>11. QED BY <1>3, <1>5, <1>8, <1>10 DEF d, m

\* Of the others than i, no more are faulty than of all but i.
LEMMA OtherFaulty ==
    ASSUME NEW us \in Seq(ModelUpdate), NEW i \in 1..Len(us),
           NEW B, B = {k \in 1..Len(us) : ~us[k].honest}
    PROVE  LET F == {j \in 1..Len(us) - 1 : ~us[Other(i, j)].honest}
           IN  Cardinality(F) \in Nat /\ Cardinality(F) <= Cardinality(B \ {i})
  <1> DEFINE n == Len(us)
             F == {j \in 1..Len(us) - 1 : ~us[Other(i, j)].honest}
             T == B \ {i}
             g == [j \in F |-> Other(i, j)]
  <1>1. n \in Nat
    BY UpdateFields
  <1>2. IsFiniteSet(T)
    <2>1. T \in SUBSET (1..n)
      OBVIOUS
    <2>2. QED BY <1>1, <2>1, FirstNumbers, FS_Subset
  <1>3. \A j \in F : Other(i, j) \in T
    BY <1>1 DEF Other
  <1>4. \A j, k \in F : Other(i, j) = Other(i, k) => j = k
    BY <1>1 DEF Other
  <1>5. g \in Injection(F, T)
    <2> HIDE DEF F, T
    <2>1. g \in [F -> T]
      BY <1>3
    <2>2. \A j \in F : g[j] = Other(i, j)
      OBVIOUS
    <2> HIDE DEF g
    <2>3. \A j, k \in F : g[j] = g[k] => j = k
      BY <1>4, <2>2
    <2>4. QED BY <2>1, <2>3 DEF Injection, IsInjective
  <1> HIDE DEF g, F, T
  <1>6. IsFiniteSet(F) /\ Cardinality(F) <= Cardinality(T)
    BY <1>2, <1>5, FS_Injection
  <1>7. Cardinality(F) \in Nat
    BY <1>6, FS_CardinalityType
  <1>8. QED BY <1>6, <1>7 DEF F, T

\* The score of an honest update.
LEMMA HonestScore ==
    ASSUME NEW us \in Seq(ModelUpdate), EnoughForKrum(us), NEW i \in 1..Len(us), us[i].honest,
           NEW lo \in Int, NEW hi \in Int,
           \A k \in 1..Len(us) : us[k].honest => lo <= us[k].x /\ us[k].x <= hi,
           NEW B, B = {k \in 1..Len(us) : ~us[k].honest}, Cardinality(B) <= NumByzantines
    PROVE  KrumScore(us, i) <= Summed(us) * (hi - lo)
  <1> DEFINE n == Len(us)
             m == Summed(us)
             d == Distances(us, i)
             F == {j \in 1..n - 1 : ~us[Other(i, j)].honest}
  <1>1. n \in Nat /\ NumByzantines \in Nat /\ \A k \in 1..n : us[k].x \in Int
    BY UpdateFields, AggregationAssumption
  <1>2. d \in Seq(Int) /\ Len(d) = n - 1 /\ m \in Nat /\ m <= n - 1
    BY ScoreShape
  <1>3. PICK s \in Seq(Int) : /\ Len(s) = m /\ KrumScore(us, i) = Total(s)
                              /\ \A j \in 1..m : s[j] = Ascending(d)[j]
    BY ScoreShape
  <1>4. Cardinality(F) \in Nat /\ Cardinality(F) <= NumByzantines
    <2>1. B \ {i} = B
      OBVIOUS
    <2>2. Cardinality(F) \in Nat /\ Cardinality(F) <= Cardinality(B)
      BY <2>1, OtherFaulty
    <2>3. IsFiniteSet(B)
      <3>1. B \in SUBSET (1..n)
        OBVIOUS
      <3>2. QED BY <1>1, <3>1, FirstNumbers, FS_Subset
    <2>4. Cardinality(B) \in Nat
      BY <2>3, FS_CardinalityType
    <2>5. QED BY <1>1, <2>2, <2>4
  <1>5. ASSUME NEW j \in 1..n - 1 \ F PROVE d[j] \in Int /\ d[j] <= hi - lo
    <2>1. Other(i, j) \in 1..n /\ us[Other(i, j)].honest
      BY <1>1 DEF Other
    <2>2. /\ us[i].x \in Int /\ us[Other(i, j)].x \in Int /\ lo <= us[i].x /\ us[i].x <= hi
          /\ lo <= us[Other(i, j)].x /\ us[Other(i, j)].x <= hi
      BY <1>1, <2>1
    <2>3. d[j] = Abs(us[i].x - us[Other(i, j)].x)
      BY DEF Distances
    <2>4. QED BY <2>2, <2>3 DEF Abs
  <1> HIDE DEF d, F
  <1>6. ASSUME NEW j \in 1..Len(s) PROVE 1 * s[j] <= hi - lo
    <2>1. j \in 1..n - 1 /\ j \in 1..m /\ NumByzantines <= (n - 1) - j
      BY <1>1, <1>2, <1>3 DEF Summed
    <2>2. s[j] = Ascending(d)[j] /\ F \in SUBSET (1..n - 1)
      BY <1>3, <2>1 DEF F
    <2>3. Cardinality(F) <= Len(d) - j
      BY <1>1, <1>2, <1>4, <2>1
    <2>4. Ascending(d)[j] \in Int /\ \E k \in 1..Len(d) \ F : Ascending(d)[j] <= d[k]
      BY <1>2, <2>1, <2>2, <2>3, Outvoted
    <2>5. PICK k \in 1..n - 1 \ F : Ascending(d)[j] <= d[k]
      BY <1>2, <2>4
    <2>6. s[j] \in Int /\ s[j] <= hi - lo
      BY <1>5, <2>2, <2>4, <2>5
    <2>7. QED BY <2>6
  <1>7. 1 * Total(s) <= Len(s) * (hi - lo) /\ Total(s) \in Int
    <2>1. 1 \in Int /\ hi - lo \in Int
      OBVIOUS
    <2>2. QED BY <1>6, <2>1, TotalAtMost
  <1>8. QED BY <1>3, <1>7

\* The score of a faulty update that is at least D away from every honest one:
\* at most f - 1 of the distances are to other faulty ones.
LEMMA FaultyScore ==
    ASSUME NEW us \in Seq(ModelUpdate), EnoughForKrum(us), NEW i \in 1..Len(us), ~us[i].honest,
           NEW D \in Nat,
           \A k \in 1..Len(us) : us[k].honest => D <= Abs(us[i].x - us[k].x),
           NEW B, B = {k \in 1..Len(us) : ~us[k].honest}, Cardinality(B) <= NumByzantines
    PROVE  /\ KrumScore(us, i) \in Int
           /\ (Len(us) - 2 * NumByzantines - 1) * D <= KrumScore(us, i)
  <1> DEFINE n == Len(us)
             m == Summed(us)
             f == NumByzantines
             d == Distances(us, i)
             F == {j \in 1..n - 1 : ~us[Other(i, j)].honest}
  <1>1. n \in Nat /\ f \in Nat /\ n >= 2 * f + 3 /\ \A k \in 1..n : us[k].x \in Int
    BY UpdateFields, AggregationAssumption DEF EnoughForKrum
  <1>2. d \in Seq(Int) /\ Len(d) = n - 1 /\ m \in Nat /\ m <= n - 1
    BY ScoreShape
  <1>3. PICK s \in Seq(Int) : /\ Len(s) = m /\ KrumScore(us, i) = Total(s)
                              /\ \A j \in 1..m : s[j] = Ascending(d)[j]
    BY ScoreShape
  <1>4. Cardinality(F) \in Nat /\ Cardinality(F) <= f - 1 /\ f >= 1
    <2>1. IsFiniteSet(B) /\ i \in B
      <3>1. B \in SUBSET (1..n)
        OBVIOUS
      <3>2. QED BY <1>1, <3>1, FirstNumbers, FS_Subset
    <2>2. IsFiniteSet(B \ {i}) /\ Cardinality(B \ {i}) = Cardinality(B) - 1
      BY <2>1, FS_RemoveElement
    <2>3. Cardinality(B) \in Nat /\ Cardinality(B \ {i}) \in Nat
      BY <2>1, <2>2, FS_CardinalityType
    <2>4. Cardinality(F) \in Nat /\ Cardinality(F) <= Cardinality(B \ {i})
      BY OtherFaulty
    <2>5. QED BY <1>1, <2>2, <2>3, <2>4
  <1>5. ASSUME NEW j \in 1..n - 1 PROVE d[j] \in Int /\ d[j] >= 0 /\ (j \notin F => D <= d[j])
    <2>1. Other(i, j) \in 1..n /\ (j \notin F => us[Other(i, j)].honest)
      BY <1>1 DEF Other
    <2>2. us[i].x \in Int /\ us[Other(i, j)].x \in Int
      BY <1>1, <2>1
    <2>3. d[j] = Abs(us[i].x - us[Other(i, j)].x)
      BY DEF Distances
    <2>4. d[j] \in Int /\ d[j] >= 0
      BY <2>2, <2>3 DEF Abs
    <2>5. j \notin F => D <= d[j]
      BY <2>1, <2>3
    <2>6. QED BY <2>4, <2>5
  <1>6. ASSUME NEW j \in 1..m PROVE s[j] \in Int /\ s[j] >= 0 /\ (j >= f => D <= s[j])
    <2> DEFINE v == Ascending(d)[j]
    <2>1. j \in 1..Len(d) /\ {} \in SUBSET (1..Len(d)) /\ F \in SUBSET (1..Len(d)) /\ s[j] = v
      BY <1>2, <1>3
    <2>2. v \in Int /\ \E k \in 1..Len(d) : d[k] <= v
      <3>1. Cardinality({}) < j
        BY FS_EmptySet
      <3>2. v \in Int /\ \E k \in 1..Len(d) \ {} : d[k] <= v
        BY <1>2, <2>1, <3>1, Outvoted
      <3>3. QED BY <3>2
    <2>3. v >= 0
      BY <1>2, <1>5, <2>2
    <2>4. ASSUME j >= f PROVE D <= v
      <3>1. Cardinality(F) < j
        BY <1>1, <1>4, <2>4
      <3> HIDE DEF F
      <3>2. \E k \in 1..Len(d) \ F : d[k] <= v
        BY <1>2, <2>1, <3>1, Outvoted
      <3>3. PICK k \in 1..n - 1 : k \notin F /\ d[k] <= v
        BY <1>2, <3>2
      <3>4. d[k] \in Int /\ D <= d[k]
        BY <1>5, <3>3
      <3> HIDE DEF v
      <3>5. QED BY <2>2, <3>3, <3>4
    <2>5. QED BY <2>1, <2>2, <2>3, <2>4
  <1> DEFINE g == [j \in 0..m |-> IF j < f THEN 0 ELSE -((j - f + 1) * D)]
             slack == n - 2 * f - 1
  <1>7. slack \in Nat /\ m - f + 1 = slack /\ ~(m < f)
    BY <1>1 DEF Summed
  <1> HIDE DEF d, F, m
  <1>8. ASSUME NEW j \in 0..m
        PROVE  g[j] \in Int /\ g[j] = IF j < f THEN 0 ELSE -((j - f + 1) * D)
    <2>1. (j - f + 1) * D \in Int
      BY <1>1, <1>2
    <2>2. QED BY <2>1
  <1>9. g \in [0..m -> Int]
    BY <1>8
  <1>10. g[0] = 0 /\ g[m] = -(slack * D)
    <2>1. 0 \in 0..m /\ m \in 0..m /\ 0 < f
      <3>1. 0 \in 0..m /\ m \in 0..m
        BY <1>2
      <3>2. 0 < f
        BY <1>1, <1>4
      <3>3. QED BY <3>1, <3>2
    <2>2. QED BY <1>7, <1>8, <2>1
  <1> HIDE DEF g
  <1>11. ASSUME NEW j \in 1..m PROVE (-1) * s[j] <= g[j] - g[j - 1]
    <2>1. j \in 0..m /\ j - 1 \in 0..m /\ j \in Nat
      BY <1>2
    <2>2. (-1) * s[j] = -s[j] /\ s[j] \in Int /\ s[j] >= 0
      BY <1>6
    <2>3. CASE j < f
      <3>1. g[j] = 0 /\ g[j - 1] = 0
        BY <1>1, <1>8, <2>1, <2>3
      <3>2. QED BY <2>2, <3>1
    <2>4. CASE ~(j < f)
      <3>1. D <= s[j]
        BY <1>1, <1>6, <2>1, <2>4
      <3>2. g[j] - g[j - 1] = -D
        <4> DEFINE q == (j - f) * D
        <4>1. q \in Int /\ (j - f + 1) * D = q + D
          BY <1>1, <2>1
        <4>2. g[j] = -(q + D)
          BY <1>8, <2>1, <2>4, <4>1
        <4>3. g[j - 1] = -q
          <5>1. CASE j = f
            <6>1. g[j - 1] = 0
              BY <1>1, <1>8, <2>1, <5>1
            <6>2. q = 0
              BY <5>1
            <6>3. QED BY <6>1, <6>2
          <5>2. CASE j # f
            <6>1. ~(j - 1 < f) /\ (j - 1) - f + 1 = j - f
              BY <1>1, <2>1, <2>4, <5>2
            <6>2. QED BY <1>8, <2>1, <6>1
          <5>3. QED BY <5>1, <5>2
        <4> HIDE DEF q
        <4>4. QED BY <4>1, <4>2, <4>3
      <3>3. QED BY <2>2, <3>1, <3>2
    <2>5. QED BY <2>3, <2>4
  <1>12. Total(s) \in Int /\ (-1) * Total(s) <= -(slack * D)
    <2>1. -1 \in Int
      OBVIOUS
    <2>2. QED BY <1>3, <1>9, <1>10, <1>11, <2>1, TotalBound
  <1>13. slack * D \in Int
    BY <1>7
  <1> HIDE DEF slack
  <1>14. slack * D <= Total(s)
    BY <1>12, <1>13
  <1>15. QED BY <1>3, <1>12, <1>14 DEF slack

\* A choice whose score is at most that of some honest update is near the
\* honest ones.
LEMMA ChoiceNear ==
    ASSUME NEW us \in Seq(ModelUpdate), EnoughForKrum(us), NEW i \in 1..Len(us),
           NEW lo \in Int, NEW hi \in Int,
           \A k \in 1..Len(us) : us[k].honest => lo <= us[k].x /\ us[k].x <= hi,
           NEW B, B = {k \in 1..Len(us) : ~us[k].honest}, Cardinality(B) <= NumByzantines,
           NEW h \in 1..Len(us), us[h].honest,
           us[i].honest \/ KrumScore(us, i) <= KrumScore(us, h)
    PROVE  LET slack == Len(us) - 2 * NumByzantines - 1
               reach == Summed(us) * (hi - lo)
           IN  slack * us[i].x <= slack * hi + reach /\ slack * lo - reach <= slack * us[i].x
  <1> DEFINE n == Len(us)
             slack == n - 2 * NumByzantines - 1
             reach == Summed(us) * (hi - lo)
             x == us[i].x
  <1>1. /\ n \in Nat /\ NumByzantines \in Nat /\ n >= 2 * NumByzantines + 3
        /\ \A k \in 1..n : us[k].x \in Int
    BY UpdateFields, AggregationAssumption DEF EnoughForKrum
  <1>2. slack \in Nat /\ x \in Int /\ Summed(us) \in Nat
    BY <1>1 DEF Summed
  <1>3. hi - lo \in Nat
    <2>1. us[h].x \in Int /\ lo <= us[h].x /\ us[h].x <= hi
      BY <1>1
    <2>2. QED BY <2>1
  <1>4. reach \in Nat
    <2> DEFINE a == hi - lo
    <2> HIDE DEF a
    <2>1. Summed(us) * a \in Nat
      BY <1>2, <1>3 DEF a
    <2>2. QED BY <2>1 DEF a
  <1>5. KrumScore(us, h) <= reach
    BY HonestScore
  <1>6. KrumScore(us, h) \in Int
    <2>1. PICK s \in Seq(Int) : KrumScore(us, h) = Total(s)
      BY ScoreShape
    <2>2. PICK t \in [0..Len(s) -> Int] : Total(s) = t[Len(s)]
      BY Partials
    <2>3. Len(s) \in 0..Len(s)
      OBVIOUS
    <2>4. QED BY <2>1, <2>2, <2>3
  <1> HIDE DEF slack, reach, x
  <1>7. ASSUME NEW D \in Nat, ~us[i].honest,
               \A k \in 1..n : us[k].honest => D <= Abs(us[i].x - us[k].x)
        PROVE  slack * D <= reach
    <2>1. KrumScore(us, i) \in Int /\ slack * D <= KrumScore(us, i)
      BY <1>7, FaultyScore DEF slack
    <2>2. KrumScore(us, i) <= KrumScore(us, h) /\ slack * D \in Int
      BY <1>2, <1>7
    <2>3. QED BY <1>4, <1>5, <1>6, <2>1, <2>2
  <1>8. slack * x \in Int /\ slack * hi \in Int /\ slack * lo \in Int
    BY <1>2
  <1>9. slack * x <= slack * hi + reach
    <2>1. CASE x <= hi
      <3>1. slack * (hi - x) >= 0 /\ slack * (hi - x) = slack * hi - slack * x
        BY <1>2, <2>1
      <3>2. QED BY <1>4, <1>8, <3>1
    <2>2. CASE ~(x <= hi)
      <3>1. ~us[i].honest
        BY <2>2 DEF x
      <3>2. ASSUME NEW k \in 1..n, us[k].honest PROVE x - hi <= Abs(us[i].x - us[k].x)
        <4>1. us[k].x \in Int /\ us[k].x <= hi
          BY <1>1, <3>2
        <4>2. QED BY <1>2, <2>2, <4>1 DEF x, Abs
      <3>3. x - hi \in Nat
        BY <1>2, <2>2
      <3>4. slack * (x - hi) <= reach
        BY <1>7, <3>1, <3>2, <3>3
      <3>5. slack * (x - hi) = slack * x - slack * hi
        BY <1>2
      <3>6. QED BY <1>4, <1>8, <3>4, <3>5
    <2>3. QED BY <2>1, <2>2
  <1>10. slack * lo - reach <= slack * x
    <2>1. CASE lo <= x
      <3>1. slack * (x - lo) >= 0 /\ slack * (x - lo) = slack * x - slack * lo
        BY <1>2, <2>1
      <3>2. QED BY <1>4, <1>8, <3>1
    <2>2. CASE ~(lo <= x)
      <3>1. ~us[i].honest
        BY <2>2 DEF x
      <3>2. ASSUME NEW k \in 1..n, us[k].honest PROVE lo - x <= Abs(us[i].x - us[k].x)
        <4>1. us[k].x \in Int /\ lo <= us[k].x
          BY <1>1, <3>2
        <4>2. QED BY <1>2, <2>2, <4>1 DEF x, Abs
      <3>3. lo - x \in Nat
        BY <1>2, <2>2
      <3>4. slack * (lo - x) <= reach
        BY <1>7, <3>1, <3>2, <3>3
      <3>5. slack * (lo - x) = slack * lo - slack * x
        BY <1>2
      <3>6. QED BY <1>4, <1>8, <3>4, <3>5
    <2>3. QED BY <2>1, <2>2
  <1>11. QED BY <1>9, <1>10 DEF slack, reach, x

\* With no more than f of 2f + 3 faulty, one is honest, even outside a choice of
\* n - 2f that holds a faulty one.
LEMMA SomeHonest ==
    ASSUME NEW us \in Seq(ModelUpdate), EnoughForKrum(us),
           NEW B, B = {k \in 1..Len(us) : ~us[k].honest}, Cardinality(B) <= NumByzantines
    PROVE  /\ \E h \in 1..Len(us) : us[h].honest
           /\ \A S \in SUBSET (1..Len(us)) :
                 Cardinality(S) = Len(us) - 2 * NumByzantines /\ S \cap B # {} =>
                    \E h \in 1..Len(us) \ S : us[h].honest
  <1> DEFINE n == Len(us)
  <1>1. n \in Nat /\ NumByzantines \in Nat /\ n >= 2 * NumByzantines + 3
    BY UpdateFields, AggregationAssumption DEF EnoughForKrum
  <1>2. IsFiniteSet(1..n) /\ Cardinality(1..n) = n
    BY <1>1, FirstNumbers
  <1>3. IsFiniteSet(B) /\ B \in SUBSET (1..n)
    <2>1. B \in SUBSET (1..n)
      OBVIOUS
    <2>2. QED BY <1>2, <2>1, FS_Subset
  <1>4. Cardinality(B) \in Nat
    BY <1>3, FS_CardinalityType
  <1>5. \E h \in 1..n : us[h].honest
    <2>1. B # 1..n
      <3>1. SUFFICES ASSUME B = 1..n PROVE FALSE
        OBVIOUS
      <3>2. Cardinality(1..n) <= NumByzantines
        BY <3>1
      <3>3. QED BY <1>1, <1>2, <3>2
    <2>2. QED BY <1>3, <2>1
  <1>6. ASSUME NEW S \in SUBSET (1..n), Cardinality(S) = n - 2 * NumByzantines, S \cap B # {}
        PROVE  \E h \in 1..n \ S : us[h].honest
    <2>1. IsFiniteSet(S)
      BY <1>2, FS_Subset
    <2>2. Cardinality(S \cup B) = Cardinality(S) + Cardinality(B) - Cardinality(S \cap B)
      BY <1>3, <2>1, FS_Union
    <2>3. IsFiniteSet(S \cap B)
      BY <2>1, FS_Intersection
    <2>4. Cardinality(S \cap B) \in Nat
      BY <2>3, FS_CardinalityType
    <2>5. Cardinality(S \cap B) # 0
      BY <1>6, <2>3, FS_EmptySet
    <2>6. Cardinality(S \cup B) # n
      BY <1>1, <1>4, <1>6, <2>2, <2>4, <2>5
    <2>7. S \cup B # 1..n
      BY <1>2, <2>6
    <2>8. PICK h \in 1..n : h \notin S \cup B
      BY <1>3, <2>7
    <2>9. QED BY <2>8
  <1>7. QED BY <1>5, <1>6

LEMMA ScoreTyped ==
    ASSUME NEW us \in Seq(ModelUpdate), EnoughForKrum(us), NEW i \in 1..Len(us)
    PROVE  KrumScore(us, i) \in Int
  <1>1. PICK s \in Seq(Int) : KrumScore(us, i) = Total(s)
    BY ScoreShape
  <1>2. PICK t \in [0..Len(s) -> Int] : Total(s) = t[Len(s)]
    BY Partials
  <1>3. Len(s) \in 0..Len(s)
    OBVIOUS
  <1>4. QED BY <1>1, <1>2, <1>3

\* Krum takes an update, of a least score.
LEMMA KrumPicks ==
    ASSUME NEW us \in Seq(ModelUpdate), EnoughForKrum(us)
    PROVE  /\ KrumPick(us) \in 1..Len(us)
           /\ \A j \in 1..Len(us) : KrumScore(us, KrumPick(us)) <= KrumScore(us, j)
  <1> DEFINE n == Len(us)
             g == [i \in 1..n |-> KrumScore(us, i)]
             X == {g[i] : i \in 1..n}
             M == {i \in DOMAIN us : \A j \in DOMAIN us : KrumScore(us, i) <= KrumScore(us, j)}
  <1>1. n \in Nat /\ DOMAIN us = 1..n /\ NumByzantines \in Nat /\ n >= 2 * NumByzantines + 3
    BY UpdateFields, AggregationAssumption DEF EnoughForKrum
  <1>2. IsFiniteSet(1..n) /\ 1 \in 1..n
    BY <1>1, FirstNumbers
  <1>3. \A i \in 1..n : g[i] = KrumScore(us, i) /\ g[i] \in Int
    BY ScoreTyped
  <1> HIDE DEF g
  <1>4. IsFiniteSet(X)
    BY <1>2, ValuesFinite
  <1>5. X \in SUBSET Int /\ X # {}
    BY <1>2, <1>3
  <1>6. Min(X) \in X /\ \A y \in X : Min(X) <= y
    <2> HIDE DEF X
    <2>1. QED BY <1>4, <1>5, Extremes
  <1>7. PICK p \in 1..n : g[p] = Min(X)
    BY <1>6
  <1>8. p \in M
    BY <1>1, <1>3, <1>6, <1>7
  <1>9. M \in SUBSET (1..n) /\ M \in SUBSET Int
    BY <1>1
  <1>10. Min(M) \in M
    <2> HIDE DEF M
    <2>1. IsFiniteSet(M)
      BY <1>2, <1>9, FS_Subset
    <2>2. QED BY <1>8, <1>9, <2>1, Extremes
  <1>11. KrumPick(us) = Min(M)
    BY DEF KrumPick
  <1>12. KrumPick(us) \in M
    BY <1>10, <1>11
  <1>13. QED BY <1>1, <1>12

\* MultiKrum: the mean of the chosen ones is as near as each of them.
LEMMA MeanNear ==
    ASSUME NEW us \in Seq(ModelUpdate), NEW S \in SUBSET (1..Len(us)), Cardinality(S) # 0,
           NEW c \in Int, NEW lo \in Int, NEW hi \in Int,
           \A i \in S : lo <= c * us[i].x /\ c * us[i].x <= hi
    PROVE  LET r == FedAvg(Picked(us, S), "uniform")
           IN  r.den * lo <= c * r.num /\ c * r.num <= r.den * hi
  <1> DEFINE m == Cardinality(S)
             s == SetToSeq(S)
             P == Picked(us, S)
             w == [i \in DOMAIN P |-> IF "uniform" = "uniform" THEN 1 ELSE P[i].samples]
             q == [i \in DOMAIN P |-> w[i] * P[i].x]
  <1>1. IsFiniteSet(S) /\ \A i \in S : us[i] \in ModelUpdate /\ us[i].x \in Int
    <2>1. IsFiniteSet(S)
      BY UpdateFields, FirstNumbers, FS_Subset
    <2>2. \A i \in S : us[i] \in ModelUpdate
      OBVIOUS
    <2>3. QED BY <2>1, <2>2, UpdateFields
  <1>2. m \in Nat /\ ExistsBijection(1..m, S)
    BY <1>1, FS_CardinalityType
  <1>3. PICK e \in [1..m -> S] : IsInjective(e)
    <2>1. PICK e : e \in Bijection(1..m, S)
      BY <1>2 DEF ExistsBijection
    <2>2. QED BY <2>1 DEF Bijection, Injection
  <1>4. s \in [1..m -> S]
    BY <1>3 DEF SetToSeq
  <1>5. P = [i \in 1..m |-> us[s[i]]]
    BY <1>4 DEF Picked
  <1> HIDE DEF P, s
  <1>6. P \in Seq(ModelUpdate) /\ Len(P) = m /\ DOMAIN P = 1..m
    <2>1. \A i \in 1..m : us[s[i]] \in ModelUpdate
      BY <1>1, <1>4
    <2> DEFINE val(i) == us[s[i]]
    <2>2. P = [i \in 1..m |-> val(i)] /\ \A i \in 1..m : val(i) \in ModelUpdate
      BY <1>5, <2>1
    <2> HIDE DEF val, m
    <2>3. QED BY <1>2, <2>2
  <1>7. ASSUME NEW i \in 1..m PROVE P[i].x \in Int /\ lo <= c * P[i].x /\ c * P[i].x <= hi
    <2>1. s[i] \in S /\ P[i] = us[s[i]]
      BY <1>4, <1>5
    <2>2. QED BY <1>1, <2>1
  <1>8. w \in Seq(Int) /\ Len(w) = m /\ \A i \in 1..m : w[i] = 1
    BY <1>2, <1>6
  <1> HIDE DEF w
  <1>9. Total(w) = m
    <2>1. \A i \in 1..Len(w) : 1 <= 1 * w[i] /\ 1 * w[i] <= 1
      BY <1>8
    <2>2. 1 \in Int
      OBVIOUS
    <2>3. Total(w) \in Int /\ Len(w) * 1 <= 1 * Total(w) /\ 1 * Total(w) <= Len(w) * 1
      BY <1>8, <2>1, <2>2, TotalBetween
    <2>4. QED BY <1>2, <1>8, <2>3
  <1>10. q \in Seq(Int) /\ Len(q) = m /\ \A i \in 1..m : q[i] = P[i].x
    <2>1. \A i \in 1..m : w[i] * P[i].x = P[i].x /\ P[i].x \in Int
      BY <1>7, <1>8
    <2>2. q = [i \in 1..m |-> P[i].x]
      BY <1>6, <2>1
    <2> HIDE DEF q
    <2>3. QED BY <1>2, <2>1, <2>2
  <1>11. FedAvg(P, "uniform") = Fraction(Total(q), IF Total(w) = 0 THEN Len(P) ELSE Total(w))
    BY DEF FedAvg, Average, w
  <1> HIDE DEF q
  <1>12. Len(q) * lo <= c * Total(q) /\ c * Total(q) <= Len(q) * hi
    <2>1. \A i \in 1..Len(q) : lo <= c * q[i] /\ c * q[i] <= hi
      BY <1>7, <1>10
    <2>2. QED BY <1>10, <2>1, TotalBetween
  <1>13. FedAvg(P, "uniform") = Fraction(Total(q), m)
    BY <1>2, <1>9, <1>11
  <1>14. FedAvg(P, "uniform").num = Total(q) /\ FedAvg(P, "uniform").den = m
    BY <1>13 DEF Fraction
  <1>15. QED BY <1>10, <1>12, <1>14 DEF P

\* Robust, of a call and what it answers
SoundAnswer(c, r) ==
    r.kind = "weights" =>
        LET us == c.updates
            n == Len(us)
            good == {u \in ToSet(us) : u.honest}
            faulty == Cardinality({i \in DOMAIN us : ~us[i].honest})
            lo == Min({u.x : u \in good})
            hi == Max({u.x : u \in good})
            slack == n - 2 * NumByzantines - 1
            reach == (n - NumByzantines - 2) * (hi - lo)
        IN CASE c.strategy = "trimmed" ->
                  faulty <= (n * TrimNum) \div TrimDen =>
                     r.den * lo <= r.num /\ r.num <= r.den * hi
             [] c.strategy \in {"krum", "multikrum"} ->
                  faulty <= NumByzantines =>
                     /\ slack * r.num <= r.den * (slack * hi + reach)
                     /\ slack * r.num >= r.den * (slack * lo - reach)
             [] OTHER ->
                  LET heard == {u \in ToSet(us) : c.strategy = "uniform" \/ u.samples > 0}
                  IN heard # {} => /\ r.den * Min({u.x : u \in heard}) <= r.num
                                   /\ r.num <= r.den * Max({u.x : u \in heard})

\* Every answer of every strategy is sound.
LEMMA AnswersSound ==
    ASSUME NEW c \in Case, NEW r \in Answers(c)
    PROVE  SoundAnswer(c, r)
  <1> DEFINE us == c.updates
             n == Len(us)
             good == {u \in ToSet(us) : u.honest}
             B == {i \in DOMAIN us : ~us[i].honest}
             lo == Min({u.x : u \in good})
             hi == Max({u.x : u \in good})
             slack == n - 2 * NumByzantines - 1
             reach == (n - NumByzantines - 2) * (hi - lo)
             heard == {u \in ToSet(us) : c.strategy = "uniform" \/ u.samples > 0}
  <1>1. SUFFICES ASSUME r.kind = "weights" PROVE SoundAnswer(c, r)
    BY DEF SoundAnswer
  <1>2. us \in Seq(ModelUpdate)
        /\ c.strategy \in {"uniform", "data_size", "staleness", "trimmed", "krum", "multikrum"}
    BY DEF Case
  <1>3. /\ n \in Nat /\ DOMAIN us = 1..n /\ B = {i \in 1..n : ~us[i].honest}
        /\ \A i \in 1..n : us[i] \in ToSet(us) /\ us[i].x \in Int
    <2>1. n \in Nat /\ DOMAIN us = 1..n
      BY <1>2, UpdateFields
    <2>2. QED BY <1>2, <2>1, UpdateFields
  <1>4. r # Raises /\ Valid(us) /\ us # <<>>
    <2>1. r # Raises
      BY <1>1 DEF Raises
    <2>2. Valid(us)
      BY <2>1 DEF Answers
    <2>3. QED BY <2>1, <2>2 DEF Valid
  <1>5. ASSUME NEW k \in 1..n, us[k].honest
        PROVE  /\ lo \in Int /\ hi \in Int
               /\ \A i \in 1..n : us[i].honest => lo <= us[i].x /\ us[i].x <= hi
    <2>1. \A i \in 1..n : us[i].honest => us[i] \in good
      BY <1>3
    <2>2. good \in SUBSET ToSet(us) /\ good # {}
      BY <1>5, <2>1
    <2> HIDE DEF good
    <2>3. lo \in Int /\ hi \in Int /\ \A u \in good : lo <= u.x /\ u.x <= hi
      BY <1>2, <2>2, SpanOf
    <2>4. QED BY <2>1, <2>3
  <1>6. heard # {} => /\ Min({u.x : u \in heard}) \in Int /\ Max({u.x : u \in heard}) \in Int
                      /\ \A u \in heard : /\ Min({v.x : v \in heard}) <= u.x
                                          /\ u.x <= Max({v.x : v \in heard})
    <2>1. heard \in SUBSET ToSet(us)
      OBVIOUS
    <2> HIDE DEF heard
    <2>2. QED BY <1>2, <2>1, SpanOf
  <1>7. CASE c.strategy \in {"uniform", "data_size"}
    <2>1. r = FedAvg(us, c.strategy)
      BY <1>4, <1>7 DEF Answers
    <2>2. ASSUME heard # {}
          PROVE  /\ r.den * Min({u.x : u \in heard}) <= r.num
                 /\ r.num <= r.den * Max({u.x : u \in heard})
      BY <1>2, <1>4, <1>6, <1>7, <2>1, <2>2, FedAvgBetween
    <2> HIDE DEF us, n, good, B, lo, hi, slack, reach, heard
    <2>3. QED BY <1>7, <2>2 DEF SoundAnswer, heard, us
  <1>8. CASE c.strategy = "staleness"
    <2>1. r = Staleness(us)
      BY <1>4, <1>8 DEF Answers
    <2>2. heard = {u \in ToSet(us) : u.samples > 0}
      BY <1>8
    <2>3. ASSUME heard # {}
          PROVE  /\ r.den * Min({u.x : u \in heard}) <= r.num
                 /\ r.num <= r.den * Max({u.x : u \in heard})
      <3> HIDE DEF heard
      <3>1. QED BY <1>1, <1>2, <1>4, <1>6, <2>1, <2>2, <2>3, StalenessBetween
    <2> HIDE DEF us, n, good, B, lo, hi, slack, reach, heard
    <2>4. QED BY <1>8, <2>3 DEF SoundAnswer, heard, us
  <1>9. CASE c.strategy = "trimmed"
    <2>1. r = TrimmedMean(us)
      BY <1>4, <1>9 DEF Answers
    <2>2. ASSUME Cardinality(B) <= (n * TrimNum) \div TrimDen
          PROVE  r.den * lo <= r.num /\ r.num <= r.den * hi
      <3>1. n # 0
        BY <1>2, <1>3, <1>4
      <3> DEFINE k == (n * TrimNum) \div TrimDen
      <3>2. k \in Nat /\ 2 * k < n
        BY <1>3, <3>1, TrimLeaves
      <3> HIDE DEF k
      <3>3. Cardinality(B) <= k
        BY <2>2 DEF k
      <3>4. \E h \in 1..n : us[h].honest
        <4>1. SUFFICES ASSUME B = 1..n PROVE FALSE
          BY <1>3
        <4>2. Cardinality(B) = n
          BY <1>3, <4>1, FirstNumbers
        <4>3. QED BY <1>3, <3>2, <3>3, <4>2
      <3>5. /\ lo \in Int /\ hi \in Int
            /\ \A i \in 1..n : us[i].honest => lo <= us[i].x /\ us[i].x <= hi
        BY <1>5, <3>4
      <3>6. Cardinality({i \in 1..n : ~us[i].honest}) <= (n * TrimNum) \div TrimDen
        BY <1>3, <2>2
      <3> HIDE DEF lo, hi
      <3>7. QED BY <1>1, <1>2, <2>1, <3>5, <3>6, TrimmedBetween
    <2> HIDE DEF us, n, good, B, lo, hi, slack, reach, heard
    <2>3. QED BY <1>9, <2>2 DEF SoundAnswer, us, n, good, B, lo, hi
  <1>10. CASE c.strategy \in {"krum", "multikrum"}
    <2>1. EnoughForKrum(us)
      BY <1>4, <1>10 DEF Answers
    <2>2. ASSUME Cardinality(B) <= NumByzantines
          PROVE  /\ slack * r.num <= r.den * (slack * hi + reach)
                 /\ slack * r.num >= r.den * (slack * lo - reach)
      <3>1. PICK h \in 1..n : us[h].honest
        BY <1>2, <1>3, <2>1, <2>2, SomeHonest
      <3>2. /\ lo \in Int /\ hi \in Int
            /\ \A i \in 1..n : us[i].honest => lo <= us[i].x /\ us[i].x <= hi
        BY <1>5, <3>1
      <3> HIDE DEF lo, hi
      <3>3. /\ reach = Summed(us) * (hi - lo) /\ slack \in Int /\ reach \in Int
            /\ slack * hi + reach \in Int /\ slack * lo - reach \in Int
        <4>1. NumByzantines \in Nat /\ Summed(us) \in Int /\ Summed(us) = n - NumByzantines - 2
          BY <1>3, AggregationAssumption DEF Summed
        <4>2. reach = Summed(us) * (hi - lo) /\ slack \in Int
          BY <1>3, <4>1
        <4>3. Summed(us) * (hi - lo) \in Int /\ slack * hi \in Int /\ slack * lo \in Int
          <5> HIDE DEF slack
          <5>1. QED BY <3>2, <4>1, <4>2
        <4> HIDE DEF reach, slack
        <4>4. QED BY <4>2, <4>3
      <3>4. ASSUME NEW i \in 1..n, NEW p \in 1..n, us[p].honest,
                   us[i].honest \/ KrumScore(us, i) <= KrumScore(us, p)
            PROVE  slack * us[i].x <= slack * hi + reach /\ slack * lo - reach <= slack * us[i].x
        <4>1. /\ slack * us[i].x <= slack * hi + Summed(us) * (hi - lo)
              /\ slack * lo - Summed(us) * (hi - lo) <= slack * us[i].x
          <5> HIDE DEF n, us, B
          <5>1. QED BY <1>2, <1>3, <2>1, <2>2, <3>2, <3>4, ChoiceNear DEF n
        <4> HIDE DEF reach, slack
        <4>2. QED BY <3>3, <4>1
      <3>5. CASE c.strategy = "krum"
        <4> DEFINE p == KrumPick(us)
        <4>1. r = Fraction(us[p].x, 1)
          BY <1>4, <2>1, <3>5 DEF Answers
        <4>2. r.num = us[p].x /\ r.den = 1
          BY <4>1 DEF Fraction
        <4>3. p \in 1..n /\ KrumScore(us, p) <= KrumScore(us, h)
          BY <1>2, <2>1, <3>1, KrumPicks
        <4> HIDE DEF p, slack, reach
        <4>4. slack * us[p].x <= slack * hi + reach /\ slack * lo - reach <= slack * us[p].x
          BY <3>1, <3>4, <4>3
        <4>5. us[p].x \in Int /\ slack * us[p].x \in Int
          BY <1>3, <3>3, <4>3
        <4> DEFINE top == slack * hi + reach
                   low == slack * lo - reach
        <4>6. top \in Int /\ low \in Int /\ slack * us[p].x <= top /\ low <= slack * us[p].x
          BY <3>3, <4>4
        <4> HIDE DEF top, low
        <4>7. slack * r.num <= r.den * top /\ slack * r.num >= r.den * low
          BY <4>2, <4>5, <4>6
        <4>8. QED BY <4>7 DEF top, low
      <3>6. CASE c.strategy = "multikrum"
        <4>1. PICK S \in Closest(us, n - 2 * NumByzantines) : r = FedAvg(Picked(us, S), "uniform")
          BY <1>4, <2>1, <3>6 DEF Answers
        <4>2. /\ S \in SUBSET (1..n) /\ Cardinality(S) = n - 2 * NumByzantines
              /\ \A i \in S, j \in 1..n \ S : KrumScore(us, i) <= KrumScore(us, j)
          BY <1>3, <4>1 DEF Closest, kSubset
        <4>3. Cardinality(S) # 0
          BY <1>3, <2>1, <4>2, AggregationAssumption DEF EnoughForKrum
        <4>4. ASSUME NEW i \in S
              PROVE  slack * lo - reach <= slack * us[i].x /\ slack * us[i].x <= slack * hi + reach
          <5> HIDE DEF slack, reach
          <5>1. i \in 1..n
            BY <4>2
          <5>2. CASE us[i].honest
            BY <3>1, <3>4, <5>1, <5>2
          <5>3. CASE ~us[i].honest
            <6>1. S \cap B # {}
              BY <1>3, <5>1, <5>3
            <6>2. PICK p \in 1..n \ S : us[p].honest
              <7> HIDE DEF us, B
              <7>1. QED BY <1>2, <1>3, <2>1, <2>2, <4>2, <6>1, SomeHonest
            <6>3. KrumScore(us, i) <= KrumScore(us, p)
              BY <4>2, <6>2
            <6>4. QED BY <3>4, <5>1, <6>2, <6>3
          <5>4. QED BY <5>2, <5>3
        <4> DEFINE top == slack * hi + reach
                   low == slack * lo - reach
        <4>5. top \in Int /\ low \in Int /\ \A i \in S : low <= slack * us[i].x /\ slack * us[i].x <= top
          BY <3>3, <4>4
        <4> HIDE DEF top, low, slack, us
        <4>6. r.den * low <= slack * r.num /\ slack * r.num <= r.den * top
          BY <1>2, <3>3, <4>1, <4>2, <4>3, <4>5, MeanNear
        <4>7. QED BY <4>6 DEF top, low
      <3>7. QED BY <1>10, <3>5, <3>6
    <2> HIDE DEF us, n, good, B, lo, hi, slack, reach, heard
    <2>3. QED BY <1>10, <2>2 DEF SoundAnswer, us, n, good, B, lo, hi, slack, reach
  <1>11. QED BY <1>2, <1>7, <1>8, <1>9, <1>10

\* A call is one of Cases, and what it has answered is sound.
AnswerInv == case \in Case /\ (result.kind = "none" \/ result \in Answers(case))

LEMMA RobustAnswers == AnswerInv => Robust
  <1>1. SUFFICES ASSUME AnswerInv PROVE Robust
    OBVIOUS
  <1>2. SoundAnswer(case, result)
    <2>1. CASE result.kind = "none"
      BY <2>1 DEF SoundAnswer
    <2>2. CASE result \in Answers(case)
      BY <1>1, <2>2, AnswersSound DEF AnswerInv
    <2>3. QED BY <1>1, <2>1, <2>2 DEF AnswerInv
  <1>3. QED BY <1>2 DEF SoundAnswer, Robust, Honest, Faulty, Within, KrumReach

\* Whatever the calls, the weights and the faulty senders are: the trimmed mean
\* lies between honest updates while no more are faulty than are trimmed on a
\* side, Krum and MultiKrum stay as near to the honest ones as an honest
\* update's score allows while at most f of at least 2f + 3 are faulty, and an
\* average lies between the updates that have a weight.
THEOREM AggregationIsRobust == ASpec => []Robust
  <1>1. AInit => AnswerInv
    BY AggregationAssumption DEF AInit, AnswerInv
  <1>2. AnswerInv /\ [ANext]_aVars => AnswerInv'
    <2>1. SUFFICES ASSUME AnswerInv, [ANext]_aVars PROVE AnswerInv'
      OBVIOUS
    <2>2. CASE Aggregate
      <3>1. case' = case /\ result' \in Answers(case)
        BY <2>2 DEF Aggregate
      <3>2. result' \in Answers(case')
        BY <3>1
      <3>3. AnswerInv' <=> case' \in Case /\ (result'.kind = "none" \/ result' \in Answers(case'))
        BY DEF AnswerInv
      <3>4. QED BY <2>1, <3>1, <3>2, <3>3 DEF AnswerInv
    <2>3. CASE UNCHANGED aVars
      <3>1. case' = case /\ result' = result
        BY <2>3 DEF aVars
      <3>2. QED BY <2>1, <3>1 DEF AnswerInv
    <2>4. QED BY <2>1, <2>2, <2>3 DEF ANext
  <1>3. QED BY <1>1, <1>2, RobustAnswers, PTL DEF ASpec

-----------------------------------------------------------------------------
(* Whom a node sends to: sorting, the ring, the sizes of the samples, the    *)
(* history of the affinity strategy, and the cache of the random one.        *)

\* p comes after q in the order that Place counts in
Before(key, q, p) == key[q] > key[p] \/ (key[q] = key[p] /\ q < p)

\* The places of the members of S are the numbers from 0 on, each of one of them.
LEMMA Placed ==
    ASSUME NEW S \in SUBSET Nat, IsFiniteSet(S), NEW key, \A p \in S : key[p] \in Int
    PROVE  /\ Cardinality(S) \in Nat
           /\ \A p \in S : Place(S, key, p) \in 0..Cardinality(S) - 1
           /\ \A p, q \in S : Before(key, q, p) => Place(S, key, q) < Place(S, key, p)
           /\ \A p, q \in S : Place(S, key, q) = Place(S, key, p) => p = q
           /\ \A i \in 0..Cardinality(S) - 1 : \E p \in S : Place(S, key, p) = i
  <1> DEFINE n == Cardinality(S)
             Prior(p) == {q \in S : Before(key, q, p)}
             g == [p \in S |-> Place(S, key, p)]
  <1>1. n \in Nat
    BY FS_CardinalityType
  <1>2. \A p \in S : Place(S, key, p) = Cardinality(Prior(p))
    BY DEF Place, Before
  <1>3. \A p \in S : IsFiniteSet(Prior(p))
    <2>1. \A p \in S : Prior(p) \in SUBSET S
      OBVIOUS
    <2> HIDE DEF Prior
    <2>2. QED BY <2>1, FS_Subset
  <1>4. \A p \in S : Cardinality(Prior(p)) \in Nat
    <2> HIDE DEF Prior
    <2>1. QED BY <1>3, FS_CardinalityType
  <1>5. ASSUME NEW p \in S PROVE p \notin Prior(p) /\ Cardinality(Prior(p)) <= n - 1
    <2>1. p \notin Prior(p)
      BY DEF Before
    <2>2. Prior(p) \in SUBSET (S \ {p})
      BY <2>1
    <2>3. IsFiniteSet(S \ {p}) /\ Cardinality(S \ {p}) = n - 1
      BY FS_RemoveElement
    <2> HIDE DEF Prior
    <2>4. QED BY <2>1, <2>2, <2>3, FS_Subset
  <1>6. ASSUME NEW p \in S, NEW q \in S, Before(key, q, p)
        PROVE  Cardinality(Prior(q)) < Cardinality(Prior(p))
    <2>1. Prior(q) \cup {q} \in SUBSET Prior(p)
      <3>1. ASSUME NEW x \in S, Before(key, x, q) PROVE Before(key, x, p)
        <4>1. /\ key[x] \in Int /\ key[q] \in Int /\ key[p] \in Int
              /\ x \in Nat /\ q \in Nat /\ p \in Nat
          OBVIOUS
        <4>2. QED BY <1>6, <3>1, <4>1 DEF Before
      <3>2. QED BY <1>6, <3>1
    <2>2. q \notin Prior(q)
      BY <1>5
    <2> HIDE DEF Prior
    <2>3. Cardinality(Prior(q) \cup {q}) = Cardinality(Prior(q)) + 1
      BY <1>3, <2>2, FS_AddElement
    <2>4. Cardinality(Prior(q) \cup {q}) <= Cardinality(Prior(p))
      BY <1>3, <2>1, FS_Subset
    <2>5. QED BY <1>4, <2>3, <2>4
  <1> HIDE DEF Prior
  <1>7. ASSUME NEW p \in S, NEW q \in S, p # q
        PROVE  Place(S, key, p) # Place(S, key, q)
    <2>1. Before(key, p, q) \/ Before(key, q, p)
      BY <1>7 DEF Before
    <2>2. QED BY <1>2, <1>4, <1>6, <2>1
  <1>8. \A p \in S : Place(S, key, p) \in 0..n - 1
    <2>1. ASSUME NEW p \in S PROVE Place(S, key, p) \in 0..n - 1
      BY <1>1, <1>2, <1>4, <1>5
    <2>2. QED BY <2>1
  <1>9. g \in Surjection(S, 0..n - 1)
    <2>1. g \in [S -> 0..n - 1] /\ \A p \in S : g[p] = Place(S, key, p)
      BY <1>8
    <2> HIDE DEF g
    <2>2. \A p, q \in S : g[p] = g[q] => p = q
      BY <1>7, <2>1
    <2>3. g \in Injection(S, 0..n - 1)
      BY <2>1, <2>2 DEF Injection, IsInjective
    <2>4. IsFiniteSet(0..n - 1) /\ Cardinality(0..n - 1) = n
      <3>1. 0 \in Int /\ n - 1 \in Int /\ (0 > n - 1 => n = 0) /\ (~(0 > n - 1) => n - 1 - 0 + 1 = n)
        BY <1>1
      <3>2. IsFiniteSet(0..n - 1) /\ Cardinality(0..n - 1) = IF 0 > n - 1 THEN 0 ELSE n - 1 - 0 + 1
        BY <3>1, FS_Interval
      <3>3. QED BY <3>1, <3>2
    <2>5. QED BY <2>3, <2>4, FS_Injection
  <1>10. \A i \in 0..n - 1 : \E p \in S : Place(S, key, p) = i
    <2>1. \A i \in 0..n - 1 : \E p \in S : g[p] = i
      <3> HIDE DEF g
      <3>1. QED BY <1>9 DEF Surjection
    <2>2. QED BY <2>1
  <1>11. \A p, q \in S : Before(key, q, p) => Place(S, key, q) < Place(S, key, p)
    BY <1>2, <1>6
  <1>12. QED BY <1>1, <1>7, <1>8, <1>10, <1>11

\* The first k are k, or all there are.
LEMMA RankedSize ==
    ASSUME NEW S \in SUBSET Nat, IsFiniteSet(S), NEW key, \A p \in S : key[p] \in Int, NEW k \in Nat
    PROVE  /\ Ranked(S, key, k) \in SUBSET S
           /\ Cardinality(Ranked(S, key, k)) = IF k <= Cardinality(S) THEN k ELSE Cardinality(S)
  <1> DEFINE n == Cardinality(S)
             R == Ranked(S, key, k)
             g == [p \in R |-> Place(S, key, p)]
  <1>1. n \in Nat /\ \A p \in S : Place(S, key, p) \in 0..n - 1
    BY Placed
  <1>2. R \in SUBSET S /\ \A p \in S : p \in R <=> Place(S, key, p) < k
    BY DEF Ranked
  <1>3. CASE k <= n
    <2>1. \A p \in R : Place(S, key, p) \in 0..k - 1
      <3>1. ASSUME NEW p \in R PROVE Place(S, key, p) \in 0..k - 1
        <4>1. Place(S, key, p) \in 0..n - 1 /\ Place(S, key, p) < k
          BY <1>1, <1>2
        <4>2. QED BY <1>1, <4>1
      <3>2. QED BY <3>1
    <2>2. \A i \in 0..k - 1 : \E p \in R : Place(S, key, p) = i
      <3>1. ASSUME NEW i \in 0..k - 1 PROVE \E p \in R : Place(S, key, p) = i
        <4>1. i \in 0..n - 1 /\ i < k
          BY <1>1, <1>3
        <4>2. PICK p \in S : Place(S, key, p) = i
          BY <4>1, Placed
        <4>3. QED BY <1>2, <4>1, <4>2
      <3>2. QED BY <3>1
    <2>3. \A p, q \in R : Place(S, key, p) = Place(S, key, q) => p = q
      <3>1. \A p, q \in S : Place(S, key, q) = Place(S, key, p) => p = q
        BY Placed
      <3>2. QED BY <1>2, <3>1
    <2>4. g \in [R -> 0..k - 1] /\ \A p \in R : g[p] = Place(S, key, p)
      BY <2>1
    <2> HIDE DEF g, R
    <2>5. g \in Injection(R, 0..k - 1)
      <3>1. \A p, q \in R : g[p] = g[q] => p = q
        BY <2>3, <2>4
      <3>2. QED BY <2>4, <3>1 DEF Injection, IsInjective
    <2>6. g \in Surjection(R, 0..k - 1)
      <3>1. \A i \in 0..k - 1 : \E p \in R : g[p] = i
        BY <2>2, <2>4
      <3>2. QED BY <2>4, <3>1 DEF Surjection
    <2>7. IsFiniteSet(0..k - 1) /\ Cardinality(0..k - 1) = k
      <3>1. 0 \in Int /\ k - 1 \in Int /\ (0 > k - 1 => k = 0) /\ (~(0 > k - 1) => k - 1 - 0 + 1 = k)
        OBVIOUS
      <3>2. IsFiniteSet(0..k - 1) /\ Cardinality(0..k - 1) = IF 0 > k - 1 THEN 0 ELSE k - 1 - 0 + 1
        BY <3>1, FS_Interval
      <3>3. QED BY <3>1, <3>2
    <2>8. Cardinality(R) = k
      BY <2>5, <2>6, <2>7, FS_Injection
    <2>9. QED BY <1>2, <1>3, <2>8 DEF R
  <1>4. CASE ~(k <= n)
    <2>1. ASSUME NEW p \in S PROVE p \in R
      <3>1. Place(S, key, p) \in 0..n - 1
        BY <1>1
      <3>2. Place(S, key, p) < k
        BY <1>1, <1>4, <3>1
      <3>3. QED BY <1>2, <3>2
    <2>2. R = S
      BY <1>2, <2>1
    <2>3. QED BY <1>2, <1>4, <2>2
  <1>5. QED BY <1>3, <1>4

\* Sorting a set: every member is in its place.
LEMMA Ordered ==
    ASSUME NEW S \in SUBSET Nat, IsFiniteSet(S), NEW key, \A p \in S : key[p] \in Int
    PROVE  /\ InOrder(S, key) \in Seq(S) /\ Len(InOrder(S, key)) = Cardinality(S)
           /\ \A i \in 1..Cardinality(S) : Place(S, key, InOrder(S, key)[i]) = i - 1
           /\ \A p \in S : InOrder(S, key)[Place(S, key, p) + 1] = p
  <1> DEFINE n == Cardinality(S)
             o == InOrder(S, key)
             val(i) == CHOOSE p \in S : Place(S, key, p) = i - 1
  <1>1. n \in Nat /\ \A p \in S : Place(S, key, p) \in 0..n - 1
    BY Placed
  <1>2. ASSUME NEW i \in 1..n PROVE val(i) \in S /\ Place(S, key, val(i)) = i - 1
    <2>1. i - 1 \in 0..n - 1
      BY <1>1
    <2>2. \E p \in S : Place(S, key, p) = i - 1
      BY <2>1, Placed
    <2>3. QED BY <2>2
  <1>3. o = [i \in 1..n |-> val(i)]
    BY DEF InOrder
  <1> HIDE DEF val
  <1>4. \A i \in 1..n : o[i] = val(i) /\ o[i] \in S
    BY <1>2, <1>3
  <1>5. o \in Seq(S) /\ Len(o) = n
    BY <1>1, <1>2, <1>3
  <1> HIDE DEF o
  <1>6. ASSUME NEW p \in S PROVE o[Place(S, key, p) + 1] = p
    <2> DEFINE i == Place(S, key, p) + 1
    <2>1. i \in 1..n /\ i - 1 = Place(S, key, p)
      BY <1>1
    <2> HIDE DEF i
    <2>2. o[i] \in S /\ Place(S, key, o[i]) = Place(S, key, p)
      BY <1>2, <1>4, <2>1
    <2>3. o[i] = p
      <3>1. \A x, y \in S : Place(S, key, y) = Place(S, key, x) => x = y
        BY Placed
      <3>2. QED BY <2>2, <3>1
    <2>4. QED BY <2>3 DEF i
  <1>7. QED BY <1>2, <1>4, <1>5, <1>6 DEF o

\* This node knows only others.
Around == me \in Nodes /\ peers \in SUBSET (Nodes \ {me})

\* The place of a node on the ring
Spot(p) == Place(Ring, [q \in Ring |-> 0], p)

\* Where a steps from the first place lead on a ring of n
Turn(a, n) == IF a < n THEN a ELSE a - n

LEMMA RingFacts ==
    ASSUME Around
    PROVE  /\ CompatiblePeers \in SUBSET Nat /\ CompatiblePeers \in SUBSET Nodes
           /\ IsFiniteSet(CompatiblePeers) /\ Cardinality(CompatiblePeers) \in Nat
           /\ me \in Nat /\ me \notin CompatiblePeers
           /\ Ring \in SUBSET Nat /\ IsFiniteSet(Ring)
           /\ Cardinality(Ring) = Cardinality(CompatiblePeers) + 1
  <1>1. Nodes \in SUBSET Nat /\ IsFiniteSet(Nodes)
    BY SelectionAssumption
  <1>2. CompatiblePeers \in SUBSET Nodes /\ me \notin CompatiblePeers /\ me \in Nodes
    BY DEF CompatiblePeers, Around
  <1>3. IsFiniteSet(CompatiblePeers)
    BY <1>1, <1>2, FS_Subset
  <1>4. Cardinality(CompatiblePeers) \in Nat
    BY <1>3, FS_CardinalityType
  <1>5. IsFiniteSet(Ring) /\ Cardinality(Ring) = Cardinality(CompatiblePeers) + 1
    BY <1>2, <1>3, FS_AddElement DEF Ring
  <1>6. Ring \in SUBSET Nat
    BY <1>1, <1>2 DEF Ring
  <1>7. QED BY <1>1, <1>2, <1>3, <1>4, <1>5, <1>6

LEMMA SpotFacts ==
    ASSUME Around
    PROVE  /\ \A p \in Ring : Spot(p) \in 0..Cardinality(Ring) - 1
           /\ \A p, q \in Ring : q < p => Spot(q) < Spot(p)
           /\ \A p, q \in Ring : Spot(q) = Spot(p) => p = q
           /\ \A p \in Ring : Spot(p) = Cardinality({q \in Ring : q < p})
  <1> DEFINE z == [q \in Ring |-> 0]
  <1>1. Ring \in SUBSET Nat /\ IsFiniteSet(Ring)
    BY RingFacts
  <1>2. \A p \in Ring : z[p] \in Int /\ z[p] = 0
    OBVIOUS
  <1>3. \A p \in Ring : Place(Ring, z, p) = Cardinality({q \in Ring : q < p})
    <2>1. ASSUME NEW p \in Ring
          PROVE  {q \in Ring : z[q] > z[p] \/ (z[q] = z[p] /\ q < p)} = {q \in Ring : q < p}
      BY <1>1
    <2> HIDE DEF z
    <2>2. QED BY <2>1 DEF Place
  <1>4. \A p, q \in Ring : q < p => Before(z, q, p)
    BY DEF Before
  <1> HIDE DEF z
  <1>5. \A p \in Ring : Place(Ring, z, p) \in 0..Cardinality(Ring) - 1
    BY <1>1, <1>2, Placed
  <1>6. \A p, q \in Ring : Before(z, q, p) => Place(Ring, z, q) < Place(Ring, z, p)
    BY <1>1, <1>2, Placed
  <1>7. \A p, q \in Ring : Place(Ring, z, q) = Place(Ring, z, p) => p = q
    BY <1>1, <1>2, Placed
  <1>8. \A p \in Ring : Spot(p) = Place(Ring, z, p)
    BY DEF Spot, z
  <1>9. QED BY <1>3, <1>4, <1>5, <1>6, <1>7, <1>8

LEMMA TurnMod ==
    ASSUME NEW n \in Nat \ {0}, NEW a \in 0..2 * n - 1
    PROVE  a % n = Turn(a, n) /\ Turn(a, n) \in 0..n - 1
  <1> DEFINE d == a \div n
             m == a % n
  <1>1. d \in Nat /\ m \in Nat /\ m < n /\ a = (d * n) + m /\ a \in Nat
    <2>1. a \in Nat
      OBVIOUS
    <2>2. QED BY <2>1, Division
  <1> HIDE DEF d, m
  <1>2. d = 0 \/ d = 1
    <2>1. SUFFICES ASSUME d >= 2 PROVE FALSE
      BY <1>1
    <2>2. (d - 2) * n >= 0 /\ (d - 2) * n = d * n - 2 * n /\ d * n \in Nat
      BY <1>1, <2>1
    <2>3. QED BY <1>1, <2>2
  <1>3. m = Turn(a, n)
    BY <1>1, <1>2 DEF Turn
  <1>4. QED BY <1>1, <1>3 DEF m

\* The i-th candidate is another node, (i + 1) \div 2 steps from this one, to
\* the right when i is odd.
LEMMA CandidateSpot ==
    ASSUME Around, NEW i \in 1..2 * (Cardinality(Ring) - 1)
    PROVE  LET n == Cardinality(Ring)
               d == (i + 1) \div 2
           IN  /\ d \in 1..n - 1 /\ Candidate(i) \in CompatiblePeers
               /\ Spot(Candidate(i)) = Turn(Spot(me) + (IF i % 2 = 1 THEN d ELSE n - d), n)
  <1> DEFINE n == Cardinality(Ring)
             d == (i + 1) \div 2
             z == [p \in Ring |-> 0]
             order == InOrder(Ring, z)
             own == CHOOSE j \in 1..n : order[j] = me
             e == IF i % 2 = 1 THEN d ELSE n - d
             x == (own - 1 + e) % n
  <1>1. Ring \in SUBSET Nat /\ IsFiniteSet(Ring) /\ n \in Nat /\ n >= 1 /\ me \in Ring
    BY RingFacts DEF Ring
  <1>2. d \in 1..n - 1 /\ n > 1
    BY <1>1
  <1>3. e \in 1..n - 1
    BY <1>1, <1>2
  <1>4. Candidate(i) = order[x + 1]
    BY DEF Candidate
  <1>5. \A p \in Ring : z[p] \in Int
    OBVIOUS
  <1>6. \A p \in Ring : Spot(p) = Place(Ring, z, p)
    BY DEF Spot
  <1> HIDE DEF z, order, d, n
  <1>7. order \in Seq(Ring) /\ Len(order) = n
    BY <1>1, <1>5, Ordered DEF order, n
  <1>8. \A j \in 1..n : Place(Ring, z, order[j]) = j - 1
    BY <1>1, <1>5, Ordered DEF order, n
  <1>9. \A p \in Ring : order[Place(Ring, z, p) + 1] = p
    BY <1>1, <1>5, Ordered DEF order
  <1>10. Spot(me) \in 0..n - 1
    BY <1>1, SpotFacts DEF n
  <1>11. own \in 1..n /\ order[own] = me
    <2>1. Spot(me) + 1 \in 1..n /\ order[Spot(me) + 1] = me
      BY <1>1, <1>6, <1>9, <1>10
    <2>2. QED BY <2>1
  <1> HIDE DEF own, e
  <1>12. own - 1 = Spot(me)
    BY <1>1, <1>6, <1>8, <1>11
  <1>13. own - 1 + e \in 0..2 * n - 1 /\ n \in Nat \ {0}
    BY <1>1, <1>3, <1>11
  <1>14. x = Turn(Spot(me) + e, n) /\ x \in 0..n - 1
    BY <1>12, <1>13, TurnMod
  <1> HIDE DEF x
  <1>15. x + 1 \in 1..n /\ x + 1 - 1 = x
    BY <1>1, <1>14
  <1>16. Candidate(i) \in Ring /\ Spot(Candidate(i)) = x
    <2>1. order[x + 1] \in Ring
      BY <1>7, <1>15
    <2>2. Place(Ring, z, order[x + 1]) = x
      <3> DEFINE y == x + 1
      <3>1. y \in 1..n /\ y - 1 = x
        BY <1>1, <1>14
      <3> HIDE DEF y
      <3>2. Place(Ring, z, order[y]) = y - 1
        BY <1>8, <3>1
      <3>3. QED BY <3>1, <3>2 DEF y
    <2>3. QED BY <1>4, <1>6, <2>1, <2>2
  <1>17. Candidate(i) # me
    <2>1. Turn(Spot(me) + e, n) # Spot(me)
      BY <1>1, <1>3, <1>10 DEF Turn
    <2>2. QED BY <1>14, <1>16, <2>1
  <1>18. Candidate(i) \in CompatiblePeers
    BY <1>16, <1>17 DEF Ring
  <1>19. QED BY <1>2, <1>14, <1>16, <1>18 DEF n, d, e

\* The distance on the ring, by the places.
LEMMA DistanceIs ==
    ASSUME Around, NEW p \in CompatiblePeers
    PROVE  LET n == Cardinality(Ring)
               b == IF p > me THEN Spot(p) - Spot(me) ELSE Spot(me) - Spot(p)
           IN  /\ b \in 1..n - 1
               /\ RingDistance(CompatiblePeers, p) = IF b <= n - b THEN b ELSE n - b
  <1> DEFINE S == CompatiblePeers
             n == Cardinality(Ring)
             b == IF p > me THEN Spot(p) - Spot(me) ELSE Spot(me) - Spot(p)
             T == {q \in S : (q > me /\ q <= p) \/ (q < me /\ q >= p)}
             Low(x) == {q \in Ring : q < x}
  <1>1. /\ S \in SUBSET Nat /\ IsFiniteSet(S) /\ me \in Nat /\ me \notin S /\ p \in Nat /\ p # me
        /\ IsFiniteSet(Ring) /\ n = Cardinality(S) + 1 /\ Cardinality(S) \in Nat
    BY RingFacts
  <1>2. p \in Ring /\ me \in Ring /\ \A x \in Ring : x \in Nat
    BY <1>1 DEF Ring
  <1>3. /\ Spot(p) \in 0..n - 1 /\ Spot(me) \in 0..n - 1
        /\ Spot(p) = Cardinality(Low(p)) /\ Spot(me) = Cardinality(Low(me))
        /\ (p < me => Spot(p) < Spot(me)) /\ (me < p => Spot(me) < Spot(p))
    BY <1>2, SpotFacts
  <1>4. b \in 1..n - 1
    BY <1>1, <1>3
  <1>5. IsFiniteSet(T) /\ \A x \in Ring : IsFiniteSet(Low(x))
    <2>1. T \in SUBSET S /\ \A x \in Ring : Low(x) \in SUBSET Ring
      OBVIOUS
    <2> HIDE DEF T, Low
    <2>2. QED BY <1>1, <2>1, FS_Subset
  <1>6. Cardinality(T) \in Nat
    <2> HIDE DEF T
    <2>1. QED BY <1>5, FS_CardinalityType
  <1>7. Cardinality(T) = b
    <2>1. CASE p > me
      <3> DEFINE U == (Low(me) \cup T) \cup {me}
      <3>1. Low(p) \cup {p} = U
        <4>1. ASSUME NEW x \in Ring PROVE x < p \/ x = p <=> x < me \/ x \in T \/ x = me
          BY <1>1, <1>2, <2>1 DEF Ring
        <4>2. QED BY <1>2, <4>1 DEF Ring
      <3>2. Low(me) \cap T = {} /\ me \notin Low(me) \cup T /\ p \notin Low(p)
        <4>1. ASSUME NEW x \in S, x < me PROVE x \notin T
          <5>1. x \in Nat
            BY <1>1
          <5>2. QED BY <1>1, <2>1, <4>1, <5>1
        <4>2. me \notin T /\ \A x \in T : x \in S
          BY <1>1
        <4>3. me \notin Low(me) /\ p \notin Low(p) /\ \A x \in Low(me) : x < me
          BY <1>1
        <4> HIDE DEF Low, T
        <4>4. QED BY <4>1, <4>2, <4>3
      <3> HIDE DEF Low, T
      <3>3. Cardinality(Low(p) \cup {p}) = Cardinality(Low(p)) + 1
        BY <1>2, <1>5, <3>2, FS_AddElement
      <3>4. IsFiniteSet(Low(me) \cup T) /\ Cardinality(Low(me) \cup T) = Cardinality(Low(me)) + Cardinality(T) - 0
        BY <1>2, <1>5, <3>2, FS_Union, FS_EmptySet
      <3>5. Cardinality(U) = Cardinality(Low(me) \cup T) + 1
        BY <3>2, <3>4, FS_AddElement
      <3> HIDE DEF U
      <3>6. Spot(p) + 1 = Spot(me) + Cardinality(T) - 0 + 1
        BY <1>3, <3>1, <3>3, <3>4, <3>5
      <3>7. QED BY <1>1, <1>3, <1>6, <2>1, <3>6
    <2>2. CASE p < me
      <3>1. Low(me) = Low(p) \cup T
        <4>1. ASSUME NEW x \in Ring PROVE x < me <=> x < p \/ x \in T
          BY <1>1, <1>2, <2>2 DEF Ring
        <4>2. QED BY <4>1 DEF Ring
      <3>2. Low(p) \cap T = {}
        <4>1. ASSUME NEW x \in S, x < p PROVE x \notin T
          <5>1. x \in Nat
            BY <1>1
          <5>2. QED BY <1>1, <2>2, <4>1, <5>1
        <4>2. \A x \in T : x \in S
          OBVIOUS
        <4>3. \A x \in Low(p) : x < p
          OBVIOUS
        <4> HIDE DEF Low, T
        <4>4. QED BY <4>1, <4>2, <4>3
      <3> HIDE DEF Low, T
      <3>3. Cardinality(Low(p) \cup T) = Cardinality(Low(p)) + Cardinality(T) - 0
        BY <1>2, <1>5, <3>2, FS_Union, FS_EmptySet
      <3>4. Spot(me) = Spot(p) + Cardinality(T)
        BY <1>3, <1>6, <3>1, <3>3
      <3>5. QED BY <1>1, <1>3, <1>6, <2>2, <3>4
    <2>3. QED BY <1>1, <2>1, <2>2
  <1>8. RingDistance(S, p) = Min({Cardinality(T), Cardinality(S) + 1 - Cardinality(T)})
    BY DEF RingDistance
  <1> HIDE DEF T, b
  <1>9. n \in Int /\ b \in Int /\ n - b \in Int
    BY <1>1, <1>4
  <1>10. RingDistance(S, p) = Min({b, n - b})
    <2>1. Cardinality(S) + 1 - Cardinality(T) = n - b
      BY <1>1, <1>6, <1>7
    <2> HIDE DEF n, S
    <2>2. QED BY <1>7, <1>8, <2>1
  <1>11. Min({b, n - b}) = IF b <= n - b THEN b ELSE n - b
    BY <1>9 DEF Min
  <1>12. QED BY <1>4, <1>10, <1>11 DEF b

\* A candidate is no farther than the steps made to it.
LEMMA CandidateNear ==
    ASSUME Around, NEW i \in 1..2 * (Cardinality(Ring) - 1)
    PROVE  RingDistance(CompatiblePeers, Candidate(i)) <= (i + 1) \div 2
  <1> DEFINE n == Cardinality(Ring)
             d == (i + 1) \div 2
             p == Candidate(i)
             o == Spot(me)
             e == IF i % 2 = 1 THEN d ELSE n - d
             b == IF p > me THEN Spot(p) - o ELSE o - Spot(p)
  <1>1. d \in 1..n - 1 /\ p \in CompatiblePeers /\ Spot(p) = Turn(o + e, n)
    BY CandidateSpot
  <1>2. n \in Nat /\ p \in Ring /\ me \in Ring /\ p \in Nat /\ me \in Nat /\ p # me
    BY <1>1, RingFacts DEF Ring
  <1> HIDE DEF p
  <1>3. b \in 1..n - 1 /\ RingDistance(CompatiblePeers, p) = IF b <= n - b THEN b ELSE n - b
    BY <1>1, DistanceIs
  <1>4. o \in 0..n - 1 /\ Spot(p) \in 0..n - 1
    BY <1>2, SpotFacts
  <1>5. b = d \/ b = n - d
    <2> DEFINE sp == Spot(p)
    <2>1. sp = IF o + e < n THEN o + e ELSE o + e - n
      <3>1. sp = Turn(o + e, n)
        BY <1>1
      <3>2. n \in Int /\ d \in Int /\ o \in Int
        BY <1>1, <1>2, <1>4
      <3>3. e \in Int
        <4> HIDE DEF n, d
        <4>1. QED BY <3>2
      <3> HIDE DEF sp, o, e, n
      <3>4. QED BY <3>1, <3>2, <3>3 DEF Turn
    <2>2. e = d \/ e = n - d
      OBVIOUS
    <2>3. b = sp - o \/ b = o - sp
      OBVIOUS
    <2> HIDE DEF e, d, o, sp, b, n
    <2>4. sp \in Int /\ o \in Int /\ n \in Int /\ d \in Int /\ e \in Int /\ b \in Int /\ b > 0 /\ b < n /\ 0 < e /\ e < n
      <3>1. sp \in Int /\ o \in Int /\ n \in Int
        BY <1>2, <1>4 DEF sp
      <3>2. d \in Int /\ d > 0 /\ d < n /\ b \in Int /\ b > 0 /\ b < n
        BY <1>1, <1>2, <1>3
      <3>3. QED BY <2>2, <3>1, <3>2
    <2>5. b = e \/ b = n - e
      BY <2>1, <2>3, <2>4
    <2>6. QED BY <2>2, <2>4, <2>5
  <1> HIDE DEF b, d, n
  <1>6. QED BY <1>1, <1>2, <1>3, <1>5 DEF d, p

\* A peer is met after as many steps as it is away.
LEMMA MetInTime ==
    ASSUME Around, NEW q \in CompatiblePeers
    PROVE  LET D == RingDistance(CompatiblePeers, q)
           IN  D \in 1..Cardinality(Ring) - 1 /\ (Candidate(2 * D - 1) = q \/ Candidate(2 * D) = q)
  <1> DEFINE n == Cardinality(Ring)
             o == Spot(me)
             sq == Spot(q)
             b == IF q > me THEN sq - o ELSE o - sq
             D == RingDistance(CompatiblePeers, q)
  <1>1. n \in Nat /\ q \in Ring /\ me \in Ring /\ q \in Nat /\ me \in Nat /\ q # me
    BY RingFacts DEF Ring
  <1>2. b \in 1..n - 1 /\ D = IF b <= n - b THEN b ELSE n - b
    BY DistanceIs
  <1>3. o \in 0..n - 1 /\ sq \in 0..n - 1
    BY <1>1, SpotFacts
  <1>4. \A x, y \in Ring : Spot(x) = Spot(y) => x = y
    BY SpotFacts
  <1> HIDE DEF D, o, sq, n
  <1>5. D \in 1..n - 1
    BY <1>1, <1>2
  <1>6. ASSUME NEW i \in 1..2 * (n - 1), NEW e \in Int, (i + 1) \div 2 = D,
               e = IF i % 2 = 1 THEN D ELSE n - D, Turn(o + e, n) = sq
        PROVE  Candidate(i) = q
    <2>1. Candidate(i) \in CompatiblePeers /\ Spot(Candidate(i)) = Turn(o + e, n)
      BY <1>6, CandidateSpot DEF n, o
    <2>2. Candidate(i) \in Ring /\ Spot(Candidate(i)) = Spot(q)
      BY <1>6, <2>1 DEF Ring, sq
    <2>3. QED BY <1>1, <1>4, <2>2
  <1>7. /\ 2 * D - 1 \in 1..2 * (n - 1) /\ (2 * D - 1 + 1) \div 2 = D /\ (2 * D - 1) % 2 = 1
        /\ 2 * D \in 1..2 * (n - 1) /\ (2 * D + 1) \div 2 = D /\ (2 * D) % 2 = 0
    BY <1>1, <1>5
  <1>8. Turn(o + D, n) = sq \/ Turn(o + (n - D), n) = sq
    BY <1>1, <1>2, <1>3 DEF Turn
  <1>9. CASE Turn(o + D, n) = sq
    <2>1. Candidate(2 * D - 1) = q
      <3> DEFINE i == 2 * D - 1
      <3>1. i \in 1..2 * (n - 1) /\ (i + 1) \div 2 = D /\ D = (IF i % 2 = 1 THEN D ELSE n - D) /\ D \in Int
        BY <1>5, <1>7
      <3> HIDE DEF i
      <3>2. QED BY <1>6, <1>9, <3>1 DEF i
    <2>2. QED BY <1>5, <2>1 DEF n, D
  <1>10. CASE Turn(o + (n - D), n) = sq
    <2>1. Candidate(2 * D) = q
      <3> DEFINE i == 2 * D
                 e == n - D
      <3>1. /\ i \in 1..2 * (n - 1) /\ (i + 1) \div 2 = D /\ e \in Int
            /\ e = IF i % 2 = 1 THEN D ELSE n - D
        BY <1>1, <1>5, <1>7
      <3>2. Turn(o + e, n) = sq
        BY <1>10
      <3> HIDE DEF i, e
      <3>3. QED BY <1>6, <3>1, <3>2 DEF i
    <2>2. QED BY <1>5, <2>1 DEF n, D
  <1>11. QED BY <1>8, <1>9, <1>10

LEMMA MetFacts ==
    ASSUME Around
    PROVE  LET m == 2 * (Cardinality(Ring) - 1)
           IN  /\ m \in Nat /\ Met(0) = {} /\ Met(m) = CompatiblePeers
               /\ \A i \in 0..m : /\ Met(i) \in SUBSET CompatiblePeers /\ IsFiniteSet(Met(i))
                                  /\ Cardinality(Met(i)) \in Nat
               /\ \A i \in 1..m : Met(i) = Met(i - 1) \cup {Candidate(i)}
               /\ \A i, j \in 0..m : i <= j => Met(i) \in SUBSET Met(j)
  <1> DEFINE m == 2 * (Cardinality(Ring) - 1)
  <1>1. m \in Nat
    BY RingFacts
  <1>2. \A i \in 1..m : Candidate(i) \in CompatiblePeers
    BY CandidateSpot
  <1>3. Met(0) = {}
    BY DEF Met
  <1>4. ASSUME NEW i \in 0..m PROVE Met(i) \in SUBSET CompatiblePeers
    <2>1. \A j \in 1..i : j \in 1..m
      BY <1>1
    <2>2. QED BY <1>2, <2>1 DEF Met
  <1>5. ASSUME NEW i \in 0..m PROVE IsFiniteSet(Met(i)) /\ Cardinality(Met(i)) \in Nat
    BY <1>4, RingFacts, FS_Subset, FS_CardinalityType
  <1>6. ASSUME NEW i \in 1..m PROVE Met(i) = Met(i - 1) \cup {Candidate(i)}
    <2>1. 1..i = (1..i - 1) \cup {i}
      BY <1>1
    <2>2. QED BY <2>1 DEF Met
  <1>7. ASSUME NEW i \in 0..m, NEW j \in 0..m, i <= j PROVE Met(i) \in SUBSET Met(j)
    <2>1. \A k \in 1..i : k \in 1..j
      BY <1>1, <1>7
    <2>2. QED BY <2>1 DEF Met
  <1>8. ASSUME NEW q \in CompatiblePeers PROVE q \in Met(m)
    <2> DEFINE D == RingDistance(CompatiblePeers, q)
    <2>1. D \in 1..Cardinality(Ring) - 1 /\ (Candidate(2 * D - 1) = q \/ Candidate(2 * D) = q)
      BY MetInTime
    <2>2. Cardinality(Ring) \in Int
      BY RingFacts
    <2> HIDE DEF D
    <2>3. 2 * D - 1 \in 1..m /\ 2 * D \in 1..m
      BY <2>1, <2>2
    <2>4. \E i \in 1..m : Candidate(i) = q
      BY <2>1, <2>3
    <2>5. QED BY <2>4 DEF Met
  <1>9. Met(m) = CompatiblePeers
    <2>1. m \in 0..m
      BY <1>1
    <2>2. QED BY <1>4, <1>8, <2>1
  <1> HIDE DEF m
  <1>10. QED BY <1>1, <1>3, <1>4, <1>5, <1>6, <1>7, <1>9 DEF m

\* The walk stops with exactly as many as were asked for.
LEMMA RingStops ==
    ASSUME Around, NEW k \in Nat, k <= Cardinality(CompatiblePeers)
    PROVE  \E i \in 0..2 * (Cardinality(Ring) - 1) : RingTargets(k) = Met(i) /\ Cardinality(Met(i)) = k
  <1> DEFINE m == 2 * (Cardinality(Ring) - 1)
             enough == {i \in 0..m : k <= Cardinality(Met(i))}
             few == {i \in 0..m : Cardinality(Met(i)) <= k}
  <1>1. m \in Nat /\ Met(0) = {} /\ Met(m) = CompatiblePeers
    BY MetFacts
  <1>2. \A i \in 0..m : Met(i) \in SUBSET CompatiblePeers /\ IsFiniteSet(Met(i)) /\ Cardinality(Met(i)) \in Nat
    BY MetFacts
  <1>3. \A i \in 1..m : Met(i) = Met(i - 1) \cup {Candidate(i)}
    BY MetFacts
  <1>4. \A i, j \in 0..m : i <= j => Met(i) \in SUBSET Met(j)
    BY MetFacts
  <1>5. RingTargets(k) = UNION {Met(i) : i \in few}
    BY DEF RingTargets
  <1> HIDE DEF m
  <1>6. m \in enough /\ enough \in SUBSET Nat
    BY <1>1
  <1>7. PICK i \in enough : \A j \in enough : i <= j
    <2> HIDE DEF enough
    <2>1. QED BY <1>6, LeastNumber
  <1>8. i \in 0..m /\ k <= Cardinality(Met(i))
    BY <1>7
  <1>9. Cardinality(Met(i)) <= k
    <2>1. CASE i = 0
      <3>1. Cardinality(Met(i)) = 0
        BY <1>1, <2>1, FS_EmptySet
      <3>2. QED BY <3>1
    <2>2. CASE i # 0
      <3>1. i \in 1..m /\ i - 1 \in 0..m /\ ~(i <= i - 1)
        BY <1>1, <1>8, <2>2
      <3>2. ~(k <= Cardinality(Met(i - 1))) /\ Cardinality(Met(i - 1)) \in Nat /\ IsFiniteSet(Met(i - 1))
        BY <1>2, <1>7, <3>1
      <3>3. /\ Met(i) = Met(i - 1) \cup {Candidate(i)}
            /\ Cardinality(Met(i - 1) \cup {Candidate(i)}) =
                  IF Candidate(i) \in Met(i - 1) THEN Cardinality(Met(i - 1)) ELSE Cardinality(Met(i - 1)) + 1
        BY <1>3, <3>1, <3>2, FS_AddElement
      <3>4. Cardinality(Met(i)) <= Cardinality(Met(i - 1)) + 1
        BY <3>2, <3>3
      <3>5. Cardinality(Met(i)) \in Nat
        BY <1>2, <1>8
      <3>6. QED BY <3>2, <3>4, <3>5
    <2>3. QED BY <2>1, <2>2
  <1>10. Cardinality(Met(i)) = k /\ i \in few
    BY <1>2, <1>8, <1>9
  <1>11. ASSUME NEW j \in few PROVE Met(j) \in SUBSET Met(i)
    <2>1. j \in 0..m /\ Cardinality(Met(j)) <= k
      OBVIOUS
    <2>2. CASE j <= i
      BY <1>4, <1>8, <2>1, <2>2
    <2>3. CASE ~(j <= i)
      <3>1. Met(i) \in SUBSET Met(j)
        BY <1>4, <1>8, <2>1, <2>3
      <3>2. Cardinality(Met(i)) <= Cardinality(Met(j)) /\ (Cardinality(Met(j)) = Cardinality(Met(i)) => Met(j) = Met(i))
        BY <1>2, <2>1, <3>1, FS_Subset
      <3>3. Cardinality(Met(j)) \in Nat
        BY <1>2, <2>1
      <3>4. QED BY <1>10, <2>1, <3>2, <3>3
    <2>4. QED BY <2>2, <2>3
  <1> HIDE DEF few
  <1>12. RingTargets(k) = Met(i)
    BY <1>5, <1>10, <1>11
  <1>13. QED BY <1>8, <1>10, <1>12 DEF m

\* Nobody is taken who is farther than one left out.
LEMMA RingNearest ==
    ASSUME Around, NEW i \in 0..2 * (Cardinality(Ring) - 1), NEW p \in Met(i),
           NEW q \in CompatiblePeers \ Met(i)
    PROVE  RingDistance(CompatiblePeers, p) <= RingDistance(CompatiblePeers, q)
  <1> DEFINE n == Cardinality(Ring)
             D == RingDistance(CompatiblePeers, q)
             E == RingDistance(CompatiblePeers, p)
  <1>1. n \in Nat
    BY RingFacts
  <1>2. PICK j \in 1..i : p = Candidate(j)
    BY DEF Met
  <1>3. j \in 1..2 * (n - 1)
    BY <1>1
  <1>4. E <= (j + 1) \div 2
    BY <1>2, <1>3, CandidateNear
  <1>5. E \in Int
    <2>1. p \in CompatiblePeers
      BY MetFacts
    <2>2. E \in 1..n - 1
      BY <2>1, MetInTime
    <2>3. QED BY <2>2
  <1>6. D \in 1..n - 1 /\ (Candidate(2 * D - 1) = q \/ Candidate(2 * D) = q)
    BY MetInTime
  <1>7. \A l \in 1..i : Candidate(l) # q
    BY DEF Met
  <1> HIDE DEF D, E
  <1>8. 2 * D > i
    <2>1. SUFFICES ASSUME 2 * D <= i PROVE FALSE
      BY <1>1, <1>6
    <2>2. 2 * D - 1 \in 1..i /\ 2 * D \in 1..i
      BY <1>1, <1>6, <2>1
    <2>3. QED BY <1>6, <1>7, <2>2
  <1>9. (j + 1) \div 2 <= D
    BY <1>1, <1>3, <1>6, <1>8
  <1>10. E <= D
    BY <1>1, <1>3, <1>4, <1>5, <1>6, <1>9
  <1>11. QED BY <1>10 DEF D, E

LEMMA LesserOf ==
    ASSUME NEW a \in Int, NEW b \in Int
    PROVE  /\ Min({a, b}) = IF a <= b THEN a ELSE b
           /\ Max({a, b}) = IF a <= b THEN b ELSE a
  <1>1. Min({a, b}) = IF a <= b THEN a ELSE b
    BY DEF Min
  <1>2. Max({a, b}) = IF a <= b THEN b ELSE a
    BY DEF Max
  <1>3. QED BY <1>1, <1>2

LEMMA Sampled ==
    ASSUME NEW S, IsFiniteSet(S), NEW k \in Nat, NEW T \in Sample(S, k)
    PROVE  /\ T \in SUBSET S /\ IsFiniteSet(T) /\ Cardinality(S) \in Nat
           /\ Cardinality(T) = IF k <= Cardinality(S) THEN k ELSE Cardinality(S)
  <1>1. Cardinality(S) \in Nat
    BY FS_CardinalityType
  <1>2. T \in SUBSET S /\ Cardinality(T) = Min({k, Cardinality(S)})
    BY DEF Sample, kSubset
  <1>3. IsFiniteSet(T)
    BY <1>2, FS_Subset
  <1>4. k \in Int /\ Cardinality(S) \in Int
    BY <1>1
  <1>5. Min({k, Cardinality(S)}) = IF k <= Cardinality(S) THEN k ELSE Cardinality(S)
    BY <1>4, LesserOf
  <1>6. QED BY <1>1, <1>2, <1>3, <1>5

\* The fanout is no more than the number of peers, and not 0 when there is one.
LEMMA FanoutFits ==
    ASSUME NEW n \in Nat
    PROVE  SelectFanout(n) \in Nat /\ SelectFanout(n) <= n /\ (n # 0 => SelectFanout(n) >= 1)
  <1>1. n < 3 \/ n \in 3..100 \/ n \in 101..250 \/ n \in 251..500 \/ n > 500
    OBVIOUS
  <1>2. CASE n < 3
    <2>1. SelectFanout(n) = n
      BY <1>2 DEF SelectFanout
    <2>2. QED BY <2>1
  <1>3. CASE n \in 3..100
    <2>1. SelectFanout(n) = 3
      BY <1>3 DEF SelectFanout
    <2>2. QED BY <1>3, <2>1
  <1>4. CASE n \in 101..250
    <2>1. SelectFanout(n) = 5
      BY <1>4 DEF SelectFanout
    <2>2. QED BY <1>4, <2>1
  <1>5. CASE n \in 251..500
    <2>1. SelectFanout(n) = 7
      BY <1>5 DEF SelectFanout
    <2>2. QED BY <1>5, <2>1
  <1>6. CASE n > 500
    <2>1. SelectFanout(n) = 10
      BY <1>6 DEF SelectFanout
    <2>2. QED BY <1>6, <2>1
  <1>7. QED BY <1>1, <1>2, <1>3, <1>4, <1>5, <1>6

\* Ring neighbours and shortcuts are disjoint, and together as many as asked for.
LEMMA WorldSize ==
    ASSUME Around, NEW k \in Nat, 1 <= k, k <= Cardinality(CompatiblePeers), NEW t \in WorldTargets(k)
    PROVE  t \in SUBSET CompatiblePeers /\ Cardinality(t) = k
  <1> DEFINE S == CompatiblePeers
             a == (k * LocalPercent + 50) \div 100
             l == Min({k, Max({1, a})})
             near == RingTargets(l)
  <1>1. IsFiniteSet(S) /\ Cardinality(S) \in Nat
    BY RingFacts
  <1>2. l \in Nat /\ l <= k
    <2>1. LocalPercent \in Nat
      BY SelectionAssumption
    <2>2. k * LocalPercent \in Nat
      BY <2>1
    <2>3. a \in Int
      <3> DEFINE b == k * LocalPercent
      <3> HIDE DEF b
      <3>1. (b + 50) \div 100 \in Int
        BY <2>2 DEF b
      <3>2. QED BY <3>1 DEF b
    <2> HIDE DEF a
    <2>4. Max({1, a}) = IF 1 <= a THEN a ELSE 1
      BY <2>3, LesserOf
    <2> DEFINE c == Max({1, a})
    <2>5. c \in Int /\ c >= 1
      BY <2>3, <2>4
    <2> HIDE DEF c
    <2>6. Min({k, c}) = IF k <= c THEN k ELSE c
      BY <2>5, LesserOf
    <2>7. l = Min({k, c})
      BY DEF c
    <2>8. QED BY <2>5, <2>6, <2>7
  <1> HIDE DEF l
  <1>3. PICK i \in 0..2 * (Cardinality(Ring) - 1) : near = Met(i) /\ Cardinality(Met(i)) = l
    <2>1. l <= Cardinality(S)
      BY <1>1, <1>2
    <2>2. QED BY <1>2, <2>1, RingStops
  <1>4. near \in SUBSET S /\ IsFiniteSet(near) /\ Cardinality(near) = l
    BY <1>3, MetFacts
  <1>5. PICK far \in Sample(S \ near, k - Cardinality(near)) : t = near \cup far
    BY DEF WorldTargets, l
  <1> HIDE DEF near
  <1>6. IsFiniteSet(S \ near) /\ Cardinality(S \ near) = Cardinality(S) - l
    <2>1. S \cap near = near
      BY <1>4
    <2>2. QED BY <1>1, <1>4, <2>1, FS_Difference
  <1>7. k - Cardinality(near) \in Nat /\ k - Cardinality(near) <= Cardinality(S \ near)
    BY <1>1, <1>2, <1>4, <1>6
  <1>8. far \in SUBSET (S \ near) /\ IsFiniteSet(far) /\ Cardinality(far) = k - Cardinality(near)
    BY <1>5, <1>6, <1>7, Sampled
  <1>9. near \cap far = {}
    BY <1>8
  <1>10. Cardinality(near \cup far) = Cardinality(near) + Cardinality(far) - 0
    BY <1>4, <1>8, <1>9, FS_Union, FS_EmptySet
  <1>11. QED BY <1>2, <1>4, <1>5, <1>8, <1>10

\* Scores are numbers where they are used.
LEMMA ScoresTyped ==
    ASSUME Around
    PROVE  /\ \A p \in CompatiblePeers : HybridAffinity(p) \in Int /\ Reliable[p] \in Int
           /\ \A p \in Scored : p \in CompatiblePeers /\ Scores[<<me, p>>] \in Int
  <1>1. me \in Nodes /\ CompatiblePeers \in SUBSET Nodes
    BY RingFacts DEF Around
  <1>2. \A p \in CompatiblePeers : Reliable[p] \in Int /\ (Scores[<<me, p>>] = NoScore \/ Scores[<<me, p>>] \in Int)
    BY <1>1, SelectionAssumption
  <1>3. \A p \in CompatiblePeers : HybridAffinity(p) \in Int
    BY <1>2 DEF HybridAffinity
  <1>4. QED BY <1>2, <1>3 DEF Scored

LEMMA HybridSize ==
    ASSUME Around, NEW k \in Nat
    PROVE  HybridTargets(k) \in SUBSET CompatiblePeers /\ Cardinality(HybridTargets(k)) <= k
  <1> DEFINE S == {p \in CompatiblePeers : HybridAffinity(p) >= MinScore}
             key == [p \in CompatiblePeers |-> 6 * HybridAffinity(p) + 4 * Reliable[p]]
  <1>1. S \in SUBSET CompatiblePeers /\ CompatiblePeers \in SUBSET Nat /\ IsFiniteSet(CompatiblePeers)
    BY RingFacts
  <1>2. \A p \in S : key[p] \in Int
    BY ScoresTyped
  <1>3. HybridTargets(k) = Ranked(S, key, k)
    BY DEF HybridTargets
  <1> HIDE DEF S, key
  <1>4. S \in SUBSET Nat /\ IsFiniteSet(S)
    BY <1>1, FS_Subset
  <1>5. Cardinality(S) \in Nat
    BY <1>4, FS_CardinalityType
  <1>6. /\ Ranked(S, key, k) \in SUBSET S
        /\ Cardinality(Ranked(S, key, k)) = IF k <= Cardinality(S) THEN k ELSE Cardinality(S)
    BY <1>2, <1>4, RankedSize
  <1>7. HybridTargets(k) \in SUBSET CompatiblePeers
    BY <1>1, <1>3, <1>6
  <1>8. Cardinality(HybridTargets(k)) <= k
    <2> DEFINE c == Cardinality(S)
    <2>1. c \in Nat /\ Cardinality(HybridTargets(k)) = IF k <= c THEN k ELSE c
      BY <1>3, <1>5, <1>6
    <2> HIDE DEF c
    <2>2. QED BY <2>1
  <1>9. QED BY <1>7, <1>8

\* What is exploited is at least one and no more than asked for.
LEMMA ExploitedFits ==
    ASSUME ratio \in 0..100, NEW k \in Nat, 1 <= k
    PROVE  Exploited(k) \in Nat /\ Exploited(k) <= k
  <1> DEFINE w == k * (100 - ratio)
             a == w \div 100
  <1>1. w \in Nat /\ w <= 100 * k
    <2>1. k * ratio >= 0 /\ k * ratio \in Int /\ k * (100 - ratio) = 100 * k - k * ratio
      OBVIOUS
    <2>2. 100 - ratio \in Nat
      OBVIOUS
    <2>3. QED BY <2>1, <2>2
  <1>2. Exploited(k) = Max({1, a})
    BY DEF Exploited
  <1> HIDE DEF w
  <1>3. a \in Nat /\ a <= k
    BY <1>1
  <1> HIDE DEF a
  <1>4. Max({1, a}) = IF 1 <= a THEN a ELSE 1
    BY <1>3, LesserOf
  <1>5. QED BY <1>2, <1>3, <1>4

LEMMA AffinitySize ==
    ASSUME Around, ratio \in 0..100, NEW k \in Nat, 1 <= k, NEW t \in AffinityTargets(k)
    PROVE  t \in SUBSET CompatiblePeers /\ Cardinality(t) <= k
  <1>1. IsFiniteSet(CompatiblePeers)
    BY RingFacts
  <1>2. CASE ~HasFingerprint
    <2>1. t \in Sample(CompatiblePeers, k)
      BY <1>2 DEF AffinityTargets
    <2>2. QED BY <1>1, <2>1, Sampled
  <1>3. CASE HasFingerprint
    <2> DEFINE e == Exploited(k)
               chosen == {s \in Sample(Good, e) :
                            \A p \in s, q \in Good \ s : Scores[<<me, p>>] >= Scores[<<me, q>>]}
               rest == Sample(CompatiblePeers \ Good, k - e)
    <2>1. PICK best \in Sample(Good, e), other \in rest : t = best \cup other
      <3>1. AffinityTargets(k) = {best \cup other : best \in chosen, other \in rest}
        BY <1>3 DEF AffinityTargets
      <3>2. chosen \in SUBSET Sample(Good, e)
        OBVIOUS
      <3> HIDE DEF chosen, rest, e
      <3>3. \E best \in chosen, other \in rest : t = best \cup other
        BY <3>1
      <3>4. QED BY <3>2, <3>3
    <2>2. e \in Nat /\ e <= k /\ k - e \in Nat
      BY ExploitedFits
    <2>3. Good \in SUBSET CompatiblePeers
      BY DEF Good, Scored
    <2>4. IsFiniteSet(Good) /\ IsFiniteSet(CompatiblePeers \ Good)
      BY <1>1, <2>3, FS_Subset, FS_Difference
    <2> HIDE DEF e
    <2>5. best \in SUBSET Good /\ IsFiniteSet(best) /\ Cardinality(best) <= e
      BY <2>1, <2>2, <2>4, Sampled
    <2>6. other \in SUBSET (CompatiblePeers \ Good) /\ IsFiniteSet(other) /\ Cardinality(other) <= k - e
      BY <2>1, <2>2, <2>4, Sampled
    <2>7. Cardinality(best) \in Nat /\ Cardinality(other) \in Nat
      BY <2>5, <2>6, FS_CardinalityType
    <2>8. best \cap other = {}
      BY <2>5, <2>6
    <2>9. Cardinality(best \cup other) = Cardinality(best) + Cardinality(other) - 0
      BY <2>5, <2>6, <2>8, FS_Union, FS_EmptySet
    <2>10. QED BY <2>1, <2>2, <2>3, <2>5, <2>6, <2>7, <2>9
  <1>4. QED BY <1>2, <1>3

\* Whatever the strategy: the targets are no more than the fanout, and what the
\* strategies promise besides.
LEMMA TargetsFine ==
    ASSUME Around, ratio \in 0..100, IsFiniteSet(CacheAfter.ids), strategy \in Strategies,
           NEW k, k = SelectFanout(Cardinality(CompatiblePeers)), NEW t \in Targets(k)
    PROVE  /\ t \in SUBSET (IF strategy = "random" THEN CacheAfter.ids ELSE CompatiblePeers)
           /\ Cardinality(t) <= k
           /\ strategy \in {"ring", "world", "reliable"} => Cardinality(t) = k
           /\ strategy = "ring" =>
                 \A p \in t, q \in CompatiblePeers \ t :
                    RingDistance(CompatiblePeers, p) <= RingDistance(CompatiblePeers, q)
  <1> DEFINE S == CompatiblePeers
  <1>1. IsFiniteSet(S) /\ Cardinality(S) \in Nat /\ S \in SUBSET Nat
    BY RingFacts
  <1>2. k \in Nat /\ k <= Cardinality(S) /\ (Cardinality(S) # 0 => 1 <= k)
    BY <1>1, FanoutFits
  <1>3. CASE S = {} /\ strategy # "random"
    <2>1. t = {}
      BY <1>3 DEF Targets
    <2>2. Cardinality(S) = 0 /\ Cardinality(t) = 0
      BY <1>3, <2>1, FS_EmptySet
    <2>3. k = 0
      BY <1>2, <2>2
    <2>4. QED BY <1>3, <2>1, <2>2, <2>3
  <1>4. CASE strategy = "random"
    <2>1. t \in Sample(CacheAfter.ids, k)
      BY <1>4 DEF Targets
    <2>2. QED BY <1>2, <1>4, <2>1, Sampled
  <1>5. CASE S # {} /\ strategy # "random"
    <2>1. 1 <= k
      BY <1>1, <1>2, <1>5, FS_EmptySet
    <2>2. CASE strategy = "ring"
      <3>1. t = RingTargets(k)
        BY <1>5, <2>2 DEF Targets
      <3>2. PICK i \in 0..2 * (Cardinality(Ring) - 1) : t = Met(i) /\ Cardinality(Met(i)) = k
        BY <1>2, <3>1, RingStops
      <3>3. t \in SUBSET S
        BY <3>2, MetFacts
      <3>4. \A p \in t, q \in S \ t : RingDistance(S, p) <= RingDistance(S, q)
        BY <3>2, RingNearest
      <3>5. QED BY <1>2, <2>2, <3>2, <3>3, <3>4
    <2>3. CASE strategy = "regular"
      <3>1. t \in Sample(S, Min({k, Degree})) /\ Degree \in Nat
        BY <1>5, <2>3, SelectionAssumption DEF Targets
      <3> DEFINE d == Min({k, Degree})
      <3>2. d \in Nat /\ d <= k
        <4>1. d = IF k <= Degree THEN k ELSE Degree
          BY <1>2, <3>1, LesserOf
        <4>2. QED BY <1>2, <3>1, <4>1
      <3> HIDE DEF d
      <3>3. t \in SUBSET S /\ Cardinality(t) = IF d <= Cardinality(S) THEN d ELSE Cardinality(S)
        BY <1>1, <3>1, <3>2, Sampled DEF d
      <3>4. QED BY <1>1, <1>2, <2>3, <3>2, <3>3
    <2>4. CASE strategy = "world"
      <3>1. t \in WorldTargets(k)
        BY <1>5, <2>4 DEF Targets
      <3>2. QED BY <1>2, <2>1, <2>4, <3>1, WorldSize
    <2>5. CASE strategy = "reliable"
      <3>1. t = Ranked(S, Reliable, k)
        BY <1>5, <2>5 DEF Targets
      <3>2. \A p \in S : Reliable[p] \in Int
        BY ScoresTyped
      <3>3. t \in SUBSET S /\ Cardinality(t) = k
        BY <1>1, <1>2, <3>1, <3>2, RankedSize
      <3>4. QED BY <1>2, <2>5, <3>3
    <2>6. CASE strategy = "hybrid"
      <3>1. t = HybridTargets(k)
        BY <1>5, <2>6 DEF Targets
      <3>2. QED BY <1>2, <2>6, <3>1, HybridSize
    <2>7. CASE strategy = "affinity"
      <3>1. t \in AffinityTargets(k)
        BY <1>5, <2>7 DEF Targets
      <3>2. QED BY <1>2, <2>1, <2>7, <3>1, AffinitySize
    <2>8. QED BY <1>5, <2>2, <2>3, <2>4, <2>5, <2>6, <2>7, SelectionAssumption
  <1>6. QED BY <1>3, <1>4, <1>5

\* Collaboration histories within max_peers
Histories ==
    {e \in UNION {[D -> Int] : D \in SUBSET Nodes} : Cardinality(DOMAIN e) <= MaxEdges}

LEMMA HistoryFacts ==
    ASSUME NEW e
    PROVE  /\ e \in Histories => /\ DOMAIN e \in SUBSET Nodes /\ e \in [DOMAIN e -> Int]
                                 /\ IsFiniteSet(DOMAIN e) /\ Cardinality(DOMAIN e) \in Nat
                                 /\ Cardinality(DOMAIN e) <= MaxEdges
           /\ \A D \in SUBSET Nodes :
                 e \in [D -> Int] /\ Cardinality(D) <= MaxEdges => e \in Histories
  <1>1. ASSUME e \in Histories PROVE DOMAIN e \in SUBSET Nodes /\ e \in [DOMAIN e -> Int]
    <2>1. PICK D \in SUBSET Nodes : e \in [D -> Int]
      BY <1>1 DEF Histories
    <2>2. DOMAIN e = D
      BY <2>1
    <2>3. QED BY <2>1, <2>2
  <1>2. ASSUME e \in Histories PROVE Cardinality(DOMAIN e) <= MaxEdges
    BY <1>2 DEF Histories
  <1>3. ASSUME e \in Histories PROVE IsFiniteSet(DOMAIN e) /\ Cardinality(DOMAIN e) \in Nat
    <2>1. IsFiniteSet(Nodes) /\ DOMAIN e \in SUBSET Nodes
      BY <1>1, <1>3, SelectionAssumption
    <2>2. IsFiniteSet(DOMAIN e)
      BY <2>1, FS_Subset
    <2>3. QED BY <2>2, FS_CardinalityType
  <1>4. ASSUME NEW D \in SUBSET Nodes, e \in [D -> Int], Cardinality(D) <= MaxEdges
        PROVE  e \in Histories
    <2>1. DOMAIN e = D
      BY <1>4
    <2>2. e \in UNION {[C -> Int] : C \in SUBSET Nodes}
      BY <1>4
    <2>3. QED BY <1>4, <2>1, <2>2 DEF Histories
  <1>5. QED BY <1>1, <1>2, <1>3, <1>4

\* The edge to evict is one of the history.
LEMMA WeakestIn ==
    ASSUME NEW e \in Histories, DOMAIN e # {}
    PROVE  Weakest(e) \in DOMAIN e
  <1> DEFINE D == DOMAIN e
             key == [p \in D |-> 0 - e[p]]
             W == {p \in D : \A q \in D : e[p] <= e[q]}
  <1>1. D \in SUBSET Nat /\ IsFiniteSet(D) /\ Cardinality(D) \in Nat /\ \A p \in D : e[p] \in Int
    <2>1. D \in SUBSET Nodes /\ e \in [D -> Int] /\ IsFiniteSet(D) /\ Cardinality(D) \in Nat
      BY HistoryFacts
    <2>2. QED BY <2>1, SelectionAssumption
  <1>2. \A p \in D : key[p] \in Int /\ key[p] = 0 - e[p]
    BY <1>1
  <1> HIDE DEF key
  <1>3. Cardinality(D) # 0
    BY <1>1, FS_EmptySet
  <1> HIDE DEF D
  <1>4. PICK p \in D : Place(D, key, p) = 0
    <2>1. 0 \in 0..Cardinality(D) - 1
      BY <1>1, <1>3
    <2>2. \A i \in 0..Cardinality(D) - 1 : \E p \in D : Place(D, key, p) = i
      BY <1>1, <1>2, Placed
    <2>3. QED BY <2>1, <2>2
  <1>5. ASSUME NEW q \in D PROVE e[p] <= e[q]
    <2>1. \A x \in D : Place(D, key, x) \in 0..Cardinality(D) - 1
      BY <1>1, <1>2, Placed
    <2>2. \A x, y \in D : Before(key, y, x) => Place(D, key, y) < Place(D, key, x)
      BY <1>1, <1>2, Placed
    <2>3. Place(D, key, q) \in Int /\ Place(D, key, q) >= 0
      BY <1>1, <2>1
    <2>4. ~Before(key, q, p)
      BY <1>4, <2>2, <2>3
    <2>5. key[p] \in Int /\ key[q] \in Int /\ key[p] = 0 - e[p] /\ key[q] = 0 - e[q]
          /\ e[p] \in Int /\ e[q] \in Int
      BY <1>1, <1>2
    <2>6. ~(key[q] > key[p])
      BY <2>4 DEF Before
    <2>7. QED BY <2>5, <2>6
  <1>6. W \in SUBSET D /\ p \in W
    BY <1>5
  <1>7. Weakest(e) = Min(W)
    BY DEF Weakest, D
  <1> HIDE DEF W
  <1>8. W \in SUBSET Nat /\ W # {}
    BY <1>1, <1>6
  <1>9. \E x \in W : \A y \in W : x <= y
    BY <1>8, LeastNumber
  <1>10. Min(W) \in W
    BY <1>9 DEF Min
  <1>11. QED BY <1>6, <1>7, <1>10 DEF D

\* A new edge takes the place of the weakest when the history is full.
LEMMA EnteredFits ==
    ASSUME NEW e \in Histories, NEW p \in Nodes
    PROVE  Entered(e, p) \in Histories /\ p \in DOMAIN Entered(e, p)
  <1> DEFINE D == DOMAIN e
             kept == IF Cardinality(D) >= MaxEdges THEN D \ {Weakest(e)} ELSE D
             f == [q \in kept \cup {p} |-> IF q = p THEN 50 ELSE e[q]]
  <1>1. /\ D \in SUBSET Nodes /\ e \in [D -> Int] /\ IsFiniteSet(D)
        /\ Cardinality(D) \in Nat /\ Cardinality(D) <= MaxEdges
    BY HistoryFacts
  <1>2. MaxEdges \in Nat /\ MaxEdges >= 1
    BY SelectionAssumption
  <1>3. CASE p \in D
    <2>1. Entered(e, p) = e
      BY <1>3 DEF Entered
    <2>2. QED BY <1>3, <2>1
  <1>4. CASE p \notin D
    <2>1. Entered(e, p) = f
      BY <1>4 DEF Entered
    <2>2. kept \in SUBSET D /\ IsFiniteSet(kept) /\ Cardinality(kept) \in Nat /\ Cardinality(kept) <= MaxEdges - 1
      <3>1. CASE Cardinality(D) >= MaxEdges
        <4>1. D # {}
          BY <1>1, <1>2, <3>1, FS_EmptySet
        <4>2. Weakest(e) \in D
          BY <4>1, WeakestIn
        <4>3. kept = D \ {Weakest(e)}
          BY <3>1
        <4> DEFINE w == Weakest(e)
        <4> HIDE DEF w, D
        <4>4. IsFiniteSet(D \ {w}) /\ Cardinality(D \ {w}) = Cardinality(D) - 1
          BY <1>1, <4>2, FS_RemoveElement DEF w
        <4>5. Cardinality(D \ {w}) \in Nat
          BY <4>4, FS_CardinalityType
        <4>6. Cardinality(D \ {w}) <= MaxEdges - 1
          BY <1>1, <1>2, <4>4
        <4>7. kept = D \ {w}
          BY <4>3 DEF w, D
        <4> HIDE DEF kept
        <4>8. QED BY <4>4, <4>5, <4>6, <4>7
      <3>2. CASE ~(Cardinality(D) >= MaxEdges)
        <4>1. kept = D
          BY <3>2
        <4>2. Cardinality(D) <= MaxEdges - 1
          BY <1>1, <1>2, <3>2
        <4> HIDE DEF kept, D
        <4>3. QED BY <1>1, <4>1, <4>2
      <3>3. QED BY <3>1, <3>2
    <2>3. kept \cup {p} \in SUBSET Nodes
      BY <1>1, <2>2
    <2>4. f \in [kept \cup {p} -> Int]
      <3>1. ASSUME NEW q \in kept \cup {p} PROVE (IF q = p THEN 50 ELSE e[q]) \in Int
        BY <1>1, <2>2
      <3> HIDE DEF kept
      <3>2. QED BY <3>1
    <2>5. p \notin kept
      BY <1>4, <2>2
    <2> HIDE DEF kept, D
    <2>6. Cardinality(kept \cup {p}) = Cardinality(kept) + 1
      BY <2>2, <2>5, FS_AddElement
    <2>7. Cardinality(kept \cup {p}) <= MaxEdges
      BY <1>2, <2>2, <2>6
    <2>8. DOMAIN f = kept \cup {p}
      OBVIOUS
    <2> DEFINE C == kept \cup {p}
    <2> HIDE DEF f, C
    <2>9. f \in Histories
      <3>1. C \in SUBSET Nodes /\ f \in [C -> Int] /\ Cardinality(C) <= MaxEdges
        BY <2>3, <2>4, <2>7 DEF C
      <3>2. QED BY <3>1, HistoryFacts
    <2>10. QED BY <2>1, <2>8, <2>9
  <1>5. QED BY <1>3, <1>4

LEMMA UpdatePeerFits ==
    ASSUME Around, NEW e \in Histories, NEW p \in Scored
    PROVE  UpdatePeer(e, p) \in Histories
  <1> DEFINE f == Entered(e, p)
             D == DOMAIN f
             v == ((100 - Alpha) * f[p] + Alpha * Scores[<<me, p>>]) \div 100
  <1>1. p \in Nodes
    BY ScoresTyped, RingFacts
  <1>2. Scores[<<me, p>>] \in Int /\ Alpha \in 0..100
    BY ScoresTyped, SelectionAssumption
  <1>3. f \in Histories /\ p \in D
    BY <1>1, EnteredFits
  <1>4. D \in SUBSET Nodes /\ f \in [D -> Int] /\ Cardinality(D) <= MaxEdges
    BY <1>3, HistoryFacts
  <1>5. UpdatePeer(e, p) = [f EXCEPT ![p] = v]
    BY DEF UpdatePeer
  <1> HIDE DEF f
  <1>6. v \in Int
    <2> DEFINE a == (100 - Alpha) * f[p]
               b == Alpha * Scores[<<me, p>>]
    <2>1. a \in Int /\ b \in Int
      BY <1>2, <1>3, <1>4
    <2> HIDE DEF a, b
    <2>2. (a + b) \div 100 \in Int
      BY <2>1
    <2>3. QED BY <2>2 DEF a, b
  <1> HIDE DEF v, D
  <1>7. [f EXCEPT ![p] = v] \in [D -> Int]
    BY <1>3, <1>4, <1>6
  <1>8. QED BY <1>4, <1>5, <1>7, HistoryFacts

LEMMA DecayedFits ==
    ASSUME NEW e \in Histories
    PROVE  Decayed(e) \in Histories
  <1> DEFINE D == DOMAIN e
             w == [p \in D |-> (e[p] * EdgeDecay) \div 100]
             C == {q \in D : w[q] >= MinWeight}
  <1>1. /\ D \in SUBSET Nodes /\ e \in [D -> Int] /\ IsFiniteSet(D)
        /\ Cardinality(D) \in Nat /\ Cardinality(D) <= MaxEdges
    BY HistoryFacts
  <1>2. w \in [D -> Int]
    <2>1. ASSUME NEW p \in D PROVE (e[p] * EdgeDecay) \div 100 \in Int
      <3> DEFINE a == e[p] * EdgeDecay
      <3>1. a \in Int
        BY <1>1, SelectionAssumption
      <3> HIDE DEF a
      <3>2. a \div 100 \in Int
        BY <3>1
      <3>3. QED BY <3>2 DEF a
    <2>2. QED BY <2>1
  <1>3. Decayed(e) = [p \in C |-> w[p]]
    BY DEF Decayed
  <1> HIDE DEF w
  <1>4. C \in SUBSET D
    OBVIOUS
  <1> HIDE DEF C, D
  <1>5. [p \in C |-> w[p]] \in [C -> Int]
    BY <1>2, <1>4
  <1>6. Cardinality(C) <= Cardinality(D) /\ IsFiniteSet(C)
    BY <1>1, <1>4, FS_Subset
  <1>7. Cardinality(C) \in Nat
    BY <1>6, FS_CardinalityType
  <1>8. Cardinality(C) <= MaxEdges
    BY <1>1, <1>6, <1>7, SelectionAssumption
  <1>9. C \in SUBSET Nodes
    BY <1>1, <1>4
  <1>10. QED BY <1>3, <1>5, <1>8, <1>9, HistoryFacts

\* However many peers are met in a round, the history stays within max_peers.
LEMMA UpdateAllFits ==
    ASSUME Around, edges \in Histories
    PROVE  UpdateAll \in Histories
  <1> DEFINE key == [p \in Scored |-> Scores[<<me, p>>]]
             o == InOrder(Scored, key)
             n == Len(o)
             Solves(t) == t = [i \in 0..n |-> IF i = 0 THEN edges ELSE UpdatePeer(t[i - 1], o[i])]
             h == [i \in 1..n |-> [y \in Histories |-> UpdatePeer(y, o[i])]]
             f == CHOOSE t : t = [i \in 0..n |-> IF i = 0 THEN edges ELSE UpdatePeer(t[i - 1], o[i])]
  <1>1. Scored \in SUBSET CompatiblePeers
    BY DEF Scored
  <1>2. Scored \in SUBSET Nat /\ IsFiniteSet(Scored)
    <2>1. CompatiblePeers \in SUBSET Nat /\ IsFiniteSet(CompatiblePeers)
      BY RingFacts
    <2>2. QED BY <1>1, <2>1, FS_Subset
  <1>3. \A p \in Scored : key[p] \in Int
    BY ScoresTyped
  <1>4. UpdateAll = f[n]
    BY DEF UpdateAll
  <1> HIDE DEF key
  <1>5. o \in Seq(Scored)
    BY <1>2, <1>3, Ordered
  <1> HIDE DEF o
  <1>6. n \in Nat /\ \A i \in 1..n : o[i] \in Scored
    BY <1>5
  <1> HIDE DEF n
  <1>7. /\ h \in [1..n -> [Histories -> Histories]]
        /\ \A i \in 1..n : \A y \in Histories : h[i][y] = UpdatePeer(y, o[i])
    <2>1. ASSUME NEW i \in 1..n, NEW y \in Histories PROVE UpdatePeer(y, o[i]) \in Histories
      BY <1>6, UpdatePeerFits
    <2>2. QED BY <2>1
  <1> HIDE DEF h
  <1>8. PICK t \in [0..n -> Histories] : t[0] = edges /\ \A i \in 1..n : t[i] = h[i][t[i - 1]]
    <2> DEFINE Solvable(S, c, g) ==
                 \E t \in [0..n -> S] : t[0] = c /\ \A i \in 1..n : t[i] = g[i][t[i - 1]]
    <2>1. \A S : \A c \in S : \A g \in [1..n -> [S -> S]] : Solvable(S, c, g)
      BY <1>6, Unwound
    <2> HIDE DEF Solvable
    <2>2. Solvable(Histories, edges, h)
      BY <1>7, <2>1
    <2>3. QED BY <2>2 DEF Solvable
  <1>9. Solves(t)
    <2>1. ASSUME NEW i \in 0..n PROVE t[i] = IF i = 0 THEN edges ELSE UpdatePeer(t[i - 1], o[i])
      <3>1. CASE i = 0
        BY <1>8, <3>1
      <3>2. CASE i # 0
        <4>1. i \in 1..n /\ i - 1 \in 0..n
          BY <1>6, <3>2
        <4>2. t[i] = h[i][t[i - 1]] /\ t[i - 1] \in Histories
          BY <1>8, <4>1
        <4>3. QED BY <1>7, <3>2, <4>1, <4>2
      <3>3. QED BY <3>1, <3>2
    <2>2. t = [i \in 0..n |-> t[i]]
      OBVIOUS
    <2>3. QED BY <2>1, <2>2
  <1>10. Solves(f)
    BY <1>9
  <1> HIDE DEF f
  <1>11. f[0] = edges /\ \A i \in 1..n : f[i] = UpdatePeer(f[i - 1], o[i])
    BY <1>6, <1>10
  <1>12. \A i \in 0..n : f[i] \in Histories
    <2>1. ASSUME NEW i \in 1..n, f[i - 1] \in Histories PROVE f[i] \in Histories
      BY <1>6, <1>11, <2>1, UpdatePeerFits
    <2>2. QED BY <1>6, <1>11, <2>1, Stays
  <1>13. QED BY <1>4, <1>6, <1>12

SelectionTyped ==
    /\ Around /\ strategy \in Strategies
    /\ lastIds \in [ids : SUBSET Nodes, key : Nat, age : 0..CacheDuration]
    /\ gone \in [Nodes -> 0..CacheDuration]
    /\ ratio \in 0..100 /\ edges \in Histories

\* Whoever is in the cache is another, compatible node, and is known or left no
\* longer ago than the cache is old.
Cached == \A p \in lastIds.ids : /\ p # me /\ IsCompatible(p)
                                 /\ p \in peers \/ gone[p] <= lastIds.age

SelectionInv == SelectionTyped /\ Cached

LEMMA SelectionStarts == PInit => SelectionInv
  <1> SUFFICES ASSUME PInit PROVE SelectionInv
    OBVIOUS
  <1> USE DEF PInit
  <1>1. CacheDuration \in Nat /\ InitialRatio \in 0..100 /\ MaxEdges \in Nat
    BY SelectionAssumption
  <1>2. edges \in Histories
    <2>1. edges \in [{} -> Int] /\ {} \in SUBSET Nodes
      OBVIOUS
    <2>2. Cardinality({}) <= MaxEdges
      BY <1>1, FS_EmptySet
    <2>3. QED BY <2>1, <2>2, HistoryFacts
  <1>3. Around /\ strategy \in Strategies
    BY DEF Around
  <1>4. lastIds \in [ids : SUBSET Nodes, key : Nat, age : 0..CacheDuration]
    BY <1>1
  <1>5. gone \in [Nodes -> 0..CacheDuration] /\ ratio \in 0..100
    BY <1>1
  <1>6. QED BY <1>2, <1>3, <1>4, <1>5 DEF SelectionInv, SelectionTyped, Cached

\* What the random strategy picks from
LEMMA CacheAfterFine ==
    ASSUME SelectionInv
    PROVE  /\ CacheAfter \in [ids : SUBSET Nodes, key : Nat, age : 0..CacheDuration]
           /\ IsFiniteSet(CacheAfter.ids)
           /\ \A p \in CacheAfter.ids : /\ p # me /\ IsCompatible(p)
                                        /\ p \in peers \/ gone[p] <= CacheAfter.age
                                        /\ p \in peers \/ gone[p] < CacheDuration
  <1>1. /\ Around /\ lastIds \in [ids : SUBSET Nodes, key : Nat, age : 0..CacheDuration]
        /\ gone \in [Nodes -> 0..CacheDuration] /\ Cached
    BY DEF SelectionInv, SelectionTyped
  <1>2. IsFiniteSet(Nodes) /\ CacheDuration \in Nat
    BY SelectionAssumption
  <1>3. CASE IsCacheValid(Cardinality(peers))
    <2>1. CacheAfter = lastIds /\ lastIds.age < CacheDuration
      BY <1>3 DEF CacheAfter, IsCacheValid
    <2>2. IsFiniteSet(lastIds.ids)
      BY <1>1, <1>2, FS_Subset
    <2>3. ASSUME NEW p \in lastIds.ids, gone[p] <= lastIds.age PROVE gone[p] < CacheDuration
      BY <1>1, <1>2, <2>1, <2>3
    <2>4. QED BY <1>1, <2>1, <2>2, <2>3 DEF Cached
  <1>4. CASE ~IsCacheValid(Cardinality(peers))
    <2>1. CacheAfter = [ids |-> CompatiblePeers, key |-> Cardinality(peers), age |-> 0]
      BY <1>4 DEF CacheAfter
    <2>2. CompatiblePeers \in SUBSET Nodes /\ IsFiniteSet(CompatiblePeers)
      BY <1>1, RingFacts
    <2>3. Cardinality(peers) \in Nat
      <3>1. peers \in SUBSET Nodes
        BY <1>1 DEF Around
      <3>2. IsFiniteSet(peers)
        BY <1>2, <3>1, FS_Subset
      <3>3. QED BY <3>2, FS_CardinalityType
    <2>4. \A p \in CompatiblePeers : p # me /\ IsCompatible(p) /\ p \in peers
      BY DEF CompatiblePeers
    <2>5. CacheAfter.ids = CompatiblePeers
      BY <2>1
    <2>6. CacheAfter \in [ids : SUBSET Nodes, key : Nat, age : 0..CacheDuration]
      BY <1>2, <2>1, <2>2, <2>3
    <2>7. QED BY <2>2, <2>4, <2>5, <2>6
  <1>5. QED BY <1>3, <1>4

LEMMA AffinityKeeps ==
    ASSUME SelectionInv, AffinityAfter
    PROVE  ratio' \in 0..100 /\ edges' \in Histories
  <1>1. Around /\ ratio \in 0..100 /\ edges \in Histories
    BY DEF SelectionInv, SelectionTyped
  <1>2. CASE strategy = "affinity" /\ CompatiblePeers # {} /\ HasFingerprint
    <2> DEFINE a == (ratio * RatioDecay) \div 100
    <2>1. ratio' = Max({MinRatio, a}) /\ edges' = Decayed(UpdateAll)
      BY <1>2 DEF AffinityAfter
    <2>2. edges' \in Histories
      BY <1>1, <2>1, UpdateAllFits, DecayedFits
    <2>3. RatioDecay \in 0..100 /\ MinRatio \in 0..100
      BY SelectionAssumption
    <2>4. a \in 0..100
      <3> DEFINE b == ratio * RatioDecay
      <3>1. b \in Nat /\ b <= 100 * 100
        <4>1. b \in Int /\ 0 <= b
          BY <1>1, <2>3
        <4>2. 100 * RatioDecay <= 100 * 100 /\ 100 * RatioDecay \in Int
          BY <2>3
        <4>3. (100 - ratio) * RatioDecay >= 0 /\ (100 - ratio) * RatioDecay = 100 * RatioDecay - b
          BY <1>1, <2>3
        <4> HIDE DEF b
        <4>4. QED BY <4>1, <4>2, <4>3
      <3> HIDE DEF b
      <3>2. b \div 100 \in 0..100
        BY <3>1
      <3>3. QED BY <3>2 DEF b
    <2> HIDE DEF a
    <2>5. Max({MinRatio, a}) = IF MinRatio <= a THEN a ELSE MinRatio
      BY <2>3, <2>4, LesserOf
    <2>6. QED BY <2>1, <2>2, <2>3, <2>4, <2>5
  <1>3. CASE ~(strategy = "affinity" /\ CompatiblePeers # {} /\ HasFingerprint)
    BY <1>1, <1>3 DEF AffinityAfter
  <1>4. QED BY <1>2, <1>3

LEMMA SelectionStays == SelectionInv /\ [PNext]_pVars => SelectionInv'
  <1> SUFFICES ASSUME SelectionInv, [PNext]_pVars PROVE SelectionInv'
    OBVIOUS
  <1>1. /\ Around /\ strategy \in Strategies
        /\ lastIds \in [ids : SUBSET Nodes, key : Nat, age : 0..CacheDuration]
        /\ gone \in [Nodes -> 0..CacheDuration] /\ Cached
        /\ ratio \in 0..100 /\ edges \in Histories
    BY DEF SelectionInv, SelectionTyped
  <1>2. CacheDuration \in Nat
    BY SelectionAssumption
  <1>3. ASSUME NEW b \in BOOLEAN, Select(b) PROVE SelectionInv'
    <2>1. ratio' \in 0..100 /\ edges' \in Histories
      BY <1>3, AffinityKeeps DEF Select
    <2>2. UNCHANGED <<me, strategy, peers, gone>>
      BY <1>3 DEF Select
    <2>3. lastIds' = lastIds \/ lastIds' = CacheAfter
      BY <1>3 DEF Select
    <2>4. /\ lastIds' \in [ids : SUBSET Nodes, key : Nat, age : 0..CacheDuration]
          /\ \A p \in lastIds'.ids : /\ p # me /\ IsCompatible(p)
                                     /\ p \in peers \/ gone[p] <= lastIds'.age
      BY <1>1, <2>3, CacheAfterFine DEF Cached
    <2>5. Cached'
      BY <2>2, <2>4 DEF Cached, IsCompatible
    <2>6. SelectionTyped'
      BY <1>1, <2>1, <2>2, <2>4 DEF SelectionTyped, Around, Histories
    <2>7. QED BY <2>5, <2>6 DEF SelectionInv
  <1>4. CASE SendModel
    <2>1. UNCHANGED <<me, strategy, peers, lastIds, ratio, edges, gone>>
      BY <1>4 DEF SendModel
    <2>2. QED BY <1>1, <2>1 DEF SelectionInv, SelectionTyped, Around, Histories, Cached, IsCompatible
  <1>5. ASSUME NEW p \in Nodes, PeerJoins(p) PROVE SelectionInv'
    <2>1. /\ p # me /\ peers' = peers \cup {p} /\ gone' = [gone EXCEPT ![p] = CacheDuration]
          /\ UNCHANGED <<me, strategy, lastIds, ratio, edges>>
      BY <1>5 DEF PeerJoins
    <2>2. Around'
      BY <1>1, <2>1 DEF Around
    <2>3. gone' \in [Nodes -> 0..CacheDuration]
      BY <1>1, <1>2, <2>1
    <2>4. Cached'
      <3>1. ASSUME NEW q \in lastIds.ids PROVE q \in peers' \/ gone'[q] <= lastIds.age
        <4>1. CASE q = p
          BY <2>1, <4>1
        <4>2. CASE q # p
          <5>1. q \in Nodes
            BY <1>1
          <5>2. gone'[q] = gone[q]
            BY <1>1, <2>1, <4>2, <5>1
          <5>3. q \in peers \/ gone[q] <= lastIds.age
            BY <1>1 DEF Cached
          <5>4. QED BY <2>1, <5>2, <5>3
        <4>3. QED BY <4>1, <4>2
      <3>2. QED BY <1>1, <2>1, <3>1 DEF Cached, IsCompatible
    <2>5. QED BY <1>1, <2>1, <2>2, <2>3, <2>4 DEF SelectionInv, SelectionTyped, Histories
  <1>6. ASSUME NEW p \in Nodes, PeerLeaves(p) PROVE SelectionInv'
    <2>1. /\ peers' = peers \ {p} /\ gone' = [gone EXCEPT ![p] = IF p \in lastIds.ids THEN 0 ELSE gone[p]]
          /\ UNCHANGED <<me, strategy, lastIds, ratio, edges>>
      BY <1>6 DEF PeerLeaves
    <2>2. Around'
      BY <1>1, <2>1 DEF Around
    <2>3. gone' \in [Nodes -> 0..CacheDuration]
      BY <1>1, <1>2, <2>1
    <2>4. Cached'
      <3>1. ASSUME NEW q \in lastIds.ids PROVE q \in peers' \/ gone'[q] <= lastIds.age
        <4>1. q \in Nodes /\ lastIds.age \in 0..CacheDuration
          BY <1>1
        <4>2. CASE q = p
          <5>1. gone'[q] = 0
            BY <1>1, <2>1, <4>1, <4>2
          <5>2. QED BY <1>2, <4>1, <5>1
        <4>3. CASE q # p
          <5>1. gone'[q] = gone[q]
            BY <1>1, <2>1, <4>1, <4>3
          <5>2. q \in peers \/ gone[q] <= lastIds.age
            BY <1>1 DEF Cached
          <5>3. QED BY <2>1, <4>3, <5>1, <5>2
        <4>4. QED BY <4>2, <4>3
      <3>2. QED BY <1>1, <2>1, <3>1 DEF Cached, IsCompatible
    <2>5. QED BY <1>1, <2>1, <2>2, <2>3, <2>4 DEF SelectionInv, SelectionTyped, Histories
  <1>7. CASE Ticks
    <2> DEFINE c == CacheDuration
               Up(x) == IF x + 1 <= c THEN x + 1 ELSE c
    <2>1. /\ lastIds' = [lastIds EXCEPT !.age = Min({lastIds.age + 1, c})]
          /\ gone' = [p \in Nodes |-> Min({gone[p] + 1, c})]
          /\ UNCHANGED <<me, strategy, peers, ratio, edges>>
      BY <1>7 DEF Ticks
    <2>2. ASSUME NEW x \in 0..c PROVE Min({x + 1, c}) = Up(x) /\ Up(x) \in 0..c
      <3>1. x + 1 \in Int /\ c \in Int
        BY <1>2
      <3>2. Min({x + 1, c}) = Up(x)
        BY <3>1, LesserOf
      <3>3. QED BY <1>2, <3>1, <3>2
    <2>3. lastIds.age \in 0..c /\ \A p \in Nodes : gone[p] \in 0..c
      BY <1>1
    <2>4. lastIds' = [lastIds EXCEPT !.age = Up(lastIds.age)] /\ Up(lastIds.age) \in 0..c
      BY <2>1, <2>2, <2>3
    <2>5. \A p \in Nodes : gone'[p] = Up(gone[p]) /\ gone'[p] \in 0..c
      BY <2>1, <2>2, <2>3
    <2>6. gone' \in [Nodes -> 0..c]
      <3> HIDE DEF Up
      <3>1. QED BY <2>1, <2>5
    <2>7. lastIds' \in [ids : SUBSET Nodes, key : Nat, age : 0..c]
          /\ lastIds'.ids = lastIds.ids /\ lastIds'.age = Up(lastIds.age)
      <3> HIDE DEF Up
      <3>1. QED BY <1>1, <2>4
    <2>8. Cached'
      <3>1. ASSUME NEW q \in lastIds.ids PROVE q \in peers' \/ gone'[q] <= lastIds'.age
        <4>1. q \in Nodes
          BY <1>1
        <4>2. q \in peers \/ gone[q] <= lastIds.age
          BY <1>1 DEF Cached
        <4>3. CASE gone[q] <= lastIds.age
          <5>1. gone'[q] = Up(gone[q]) /\ lastIds'.age = Up(lastIds.age)
            BY <2>5, <2>7, <4>1
          <5>2. gone[q] \in 0..c /\ lastIds.age \in 0..c
            BY <2>3, <4>1
          <5>3. Up(gone[q]) <= Up(lastIds.age)
            BY <1>2, <4>3, <5>2
          <5>4. QED BY <5>1, <5>3
        <4>4. QED BY <2>1, <4>2, <4>3
      <3>2. QED BY <1>1, <2>1, <2>7, <3>1 DEF Cached, IsCompatible
    <2>9. QED BY <1>1, <2>1, <2>6, <2>7, <2>8 DEF SelectionInv, SelectionTyped, Around, Histories
  <1>8. CASE UNCHANGED pVars
    BY <1>1, <1>8 DEF SelectionInv, SelectionTyped, Around, Histories, Cached, IsCompatible, pVars
  <1>9. QED BY <1>3, <1>4, <1>5, <1>6, <1>7, <1>8 DEF PNext

\* A round chooses well.
LEMMA RoundFine ==
    ASSUME SelectionInv, [PNext]_pVars, targets = {}, targets' # {}
    PROVE  Chosen
  <1> DEFINE S == CompatiblePeers
             t == targets'
             k == SelectFanout(Cardinality(S))
  <1>1. PICK b \in BOOLEAN : Select(b)
    BY DEF PNext, SendModel, PeerJoins, PeerLeaves, Ticks, pVars
  <1>2. t \in Targets(k) /\ k = SelectFanout(Cardinality(CompatiblePeers))
    BY <1>1 DEF Select
  <1>3. Around /\ ratio \in 0..100 /\ strategy \in Strategies
    BY DEF SelectionInv, SelectionTyped
  <1>4. /\ IsFiniteSet(CacheAfter.ids)
        /\ \A p \in CacheAfter.ids : /\ p # me /\ IsCompatible(p)
                                     /\ p \in peers \/ gone[p] < CacheDuration
    BY CacheAfterFine
  <1>5. \A p \in S : p # me /\ IsCompatible(p) /\ p \in peers
    BY DEF CompatiblePeers
  <1> HIDE DEF t, k
  <1>6. t \in SUBSET (IF strategy = "random" THEN CacheAfter.ids ELSE CompatiblePeers)
    BY <1>2, <1>3, <1>4, TargetsFine
  <1>7. Cardinality(t) <= k
    BY <1>2, <1>3, <1>4, TargetsFine
  <1>8. strategy \in {"ring", "world", "reliable"} => Cardinality(t) = k
    BY <1>2, <1>3, <1>4, TargetsFine
  <1>9. strategy = "ring" =>
           \A p \in t, q \in CompatiblePeers \ t :
              RingDistance(CompatiblePeers, p) <= RingDistance(CompatiblePeers, q)
    BY <1>2, <1>3, <1>4, TargetsFine
  <1>10. \A p \in t : p # me /\ IsCompatible(p)
    BY <1>4, <1>5, <1>6
  <1>11. \A p \in t : p \in peers \/ (strategy = "random" /\ gone[p] < CacheDuration)
    BY <1>4, <1>5, <1>6
  <1>12. QED BY <1>7, <1>8, <1>9, <1>10, <1>11 DEF Chosen, t, k

\* The choice of whom to send to is sound: the targets are other, compatible
\* nodes, known or gone for less than cache_duration, within the fanout and
\* nearest on the ring, and the history of collaborations keeps within
\* max_peers, for every set of nodes, every score and every strategy.
THEOREM SelectionIsSound == PSpec => SelectionSound
  <1>1. SelectionInv' => Cardinality(DOMAIN edges') <= MaxEdges
    BY DEF SelectionInv, SelectionTyped, Histories
  <1>2. SelectionInv /\ SelectionInv' /\ [PNext]_pVars =>
           [/\ targets = {} /\ targets' # {} => Chosen
            /\ Cardinality(DOMAIN edges') <= MaxEdges]_pVars
    BY <1>1, RoundFine
  <1>3. QED BY <1>2, SelectionStarts, SelectionStays, PTL DEF PSpec, SelectionSound
=============================================================================
