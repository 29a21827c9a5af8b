---------------------------- MODULE PeerSelection ----------------------------
(***************************************************************************)
(* Whom a node sends its model to in a round: the fanout, the topology     *)
(* strategies but Cyclon (topology/random.py, graph.py, affinity.py; for   *)
(* Cyclon see Membership), and the sends of the aggregator, each of which  *)
(* may fail on its own.  Peers join and leave at any await.  Node ids are  *)
(* numbers, in the order of their names.  Scores, weights and ratios are   *)
(* in percent, rounded down.                                               *)
(***************************************************************************)
EXTENDS Integers, FiniteSetsExt, SequencesExt

CONSTANTS
    Nodes,          \* ids
    Meta,           \* of a node: its manifest, its domain with its schema, its major version
    NoManifest,
    Strategies,     \* topology strategies
    Scores,         \* affinity of two nodes' fingerprints; NoScore when one has none
    NoScore,
    Reliable,       \* reliability_score of a node
    CacheDuration,  \* cache_duration of the random strategy, in ticks
    Degree,         \* degree of the random regular strategy
    LocalPercent,   \* local_ratio of the small world
    MinScore,       \* min_affinity
    InitialRatio, RatioDecay, MinRatio,  \* exploration of the affinity strategy
    Alpha, EdgeDecay, MinWeight,         \* its collaboration history
    MaxEdges,       \* max_peers of the history
    LogCap          \* entries of comm_log (50)

ASSUME SelectionAssumption ==
    /\ Nodes \subseteq Nat /\ IsFiniteSet(Nodes) /\ CacheDuration \in Nat \ {0}
    /\ Strategies \subseteq {"random", "ring", "regular", "world", "reliable", "hybrid", "affinity"}
    /\ MaxEdges \in Nat \ {0} /\ LogCap \in Nat \ {0} /\ Degree \in Nat
    /\ {LocalPercent, InitialRatio, RatioDecay, MinRatio, Alpha, EdgeDecay} \subseteq 0..100
    /\ MinScore \in Int /\ MinWeight \in Int
    /\ \A p, q \in Nodes : Reliable[p] \in Int /\ (Scores[<<p, q>>] = NoScore \/ Scores[<<p, q>>] \in Int)

VARIABLES
    me,        \* this node
    strategy,  \* its topology strategy
    peers,     \* aggregator.known_peers
    lastIds,   \* the random strategy's cache: ids, len(known_peers), its age
    ratio,     \* exploration_ratio
    edges,     \* CollaborationHistory: weight of each peer in it
    trained,   \* _last_training_result is there
    targets,   \* those _send_model is sending to; none between the rounds' sends
    log,       \* number of entries of comm_log
    gone       \* history: ticks since a cached peer left, up to CacheDuration

pVars == <<me, strategy, peers, lastIds, ratio, edges, trained, targets, log, gone>>

PInit ==
    /\ me \in Nodes /\ strategy \in Strategies
    /\ peers = {} /\ lastIds = [ids |-> {}, key |-> 0, age |-> CacheDuration]
    /\ ratio = InitialRatio /\ edges = <<>> /\ trained = FALSE
    /\ targets = {} /\ log = 0
    /\ gone = [p \in Nodes |-> CacheDuration]

-----------------------------------------------------------------------------
(* What the strategies choose from *)

\* A manifest on both sides decides alone; else domain, schema and version do
IsCompatible(p) ==
    IF NoManifest \notin {Meta[me].manifest, Meta[p].manifest}
    THEN Meta[me].manifest = Meta[p].manifest
    ELSE Meta[me].place = Meta[p].place /\ Meta[me].major = Meta[p].major

CompatiblePeers == {p \in peers : p # me /\ IsCompatible(p)}

SelectFanout(n) ==
    CASE n < 3 -> n
      [] n \in 3..100 -> 3
      [] n \in 101..250 -> 5
      [] n \in 251..500 -> 7
      [] OTHER -> 10

\* Samples of up to k members
Sample(S, k) == kSubset(Min({k, Cardinality(S)}), S)

\* How many of S come before p: the greatest keys first, of equals the smaller id
Place(S, key, p) ==
    Cardinality({q \in S : key[q] > key[p] \/ (key[q] = key[p] /\ q < p)})

\* The first k of S in this order, and all of it
Ranked(S, key, k) == {p \in S : Place(S, key, p) < k}
InOrder(S, key) == [i \in 1..Cardinality(S) |-> CHOOSE p \in S : Place(S, key, p) = i - 1]

-----------------------------------------------------------------------------
(* The strategies: the sets of targets each may return *)

\* Mutant: the age of the cache is not looked at.
SameKey(key) == lastIds.key = key

IsCacheValid(key) == lastIds.key = key /\ lastIds.age < CacheDuration

\* _get_compatible_peer_ids: the key has the number of known peers, not which
CacheAfter ==
    IF IsCacheValid(Cardinality(peers)) THEN lastIds
    ELSE [ids |-> CompatiblePeers, key |-> Cardinality(peers), age |-> 0]

\* Ring: order is the sorted ids, the candidates are the neighbours at distance
\* 1, 2, ... on either side, taken until k different ones are met
Ring == CompatiblePeers \cup {me}

Candidate(i) ==
    LET n == Cardinality(Ring)
        order == InOrder(Ring, [p \in Ring |-> 0])
        own == CHOOSE j \in 1..n : order[j] = me
        distance == (i + 1) \div 2
    IN order[((own - 1 + (IF i % 2 = 1 THEN distance ELSE n - distance)) % n) + 1]

Met(i) == {Candidate(j) : j \in 1..i}

RingTargets(k) ==
    UNION {Met(i) : i \in {i \in 0..2 * (Cardinality(Ring) - 1) : Cardinality(Met(i)) <= k}}

\* SmallWorld: a share of ring neighbours, shortcuts for the rest
WorldTargets(k) ==
    LET near == RingTargets(Min({k, Max({1, (k * LocalPercent + 50) \div 100})}))
    IN {near \cup far : far \in Sample(CompatiblePeers \ near, k - Cardinality(near))}

\* HybridAffinityReliability: both scores with weights 6 and 4; a missing
\* fingerprint counts as one half, a low affinity excludes
HybridAffinity(p) == IF Scores[<<me, p>>] = NoScore THEN 50 ELSE Scores[<<me, p>>]

HybridTargets(k) ==
    LET score == [p \in CompatiblePeers |-> 6 * HybridAffinity(p) + 4 * Reliable[p]]
    IN Ranked({p \in CompatiblePeers : HybridAffinity(p) >= MinScore}, score, k)

\* AffinityTopology: the best of those with enough affinity are exploited, the
\* others and those without fingerprint explored; a good peer that is not
\* among the best is neither
Scored == {p \in CompatiblePeers : Scores[<<me, p>>] # NoScore}
Good == {p \in Scored : Scores[<<me, p>>] >= MinScore}
HasFingerprint == \E p \in Nodes : Scores[<<me, p>>] # NoScore

Exploited(k) == Max({1, (k * (100 - ratio)) \div 100})

AffinityTargets(k) ==
    IF ~HasFingerprint THEN Sample(CompatiblePeers, k)
    ELSE {best \cup other :
            best \in {s \in Sample(Good, Exploited(k)) :
                        \A p \in s, q \in Good \ s : Scores[<<me, p>>] >= Scores[<<me, q>>]},
            other \in Sample(CompatiblePeers \ Good, k - Exploited(k))}

\* Nobody is compatible, or count is 0: no target
Targets(k) ==
    IF CompatiblePeers = {} /\ strategy # "random" THEN {{}}
    ELSE CASE strategy = "random" -> Sample(CacheAfter.ids, k)
           [] strategy = "ring" -> {RingTargets(k)}
           [] strategy = "regular" -> Sample(CompatiblePeers, Min({k, Degree}))
           [] strategy = "world" -> WorldTargets(k)
           [] strategy = "reliable" -> {Ranked(CompatiblePeers, Reliable, k)}
           [] strategy = "hybrid" -> {HybridTargets(k)}
           [] strategy = "affinity" -> AffinityTargets(k)

-----------------------------------------------------------------------------
(* The history of the affinity strategy *)

\* _evict_weakest; the least id stands for the first of equals
Weakest(e) ==
    Min({p \in DOMAIN e : \A q \in DOMAIN e : e[p] <= e[q]})

\* get_or_create_edge
Entered(e, p) ==
    IF p \in DOMAIN e THEN e
    ELSE LET kept == IF Cardinality(DOMAIN e) >= MaxEdges THEN DOMAIN e \ {Weakest(e)} ELSE DOMAIN e
         IN [q \in kept \cup {p} |-> IF q = p THEN 50 ELSE e[q]]

\* update_peer
UpdatePeer(e, p) ==
    LET f == Entered(e, p)
    IN [f EXCEPT ![p] = ((100 - Alpha) * @ + Alpha * Scores[<<me, p>>]) \div 100]

\* decay_all, evict_dead_edges
Decayed(e) ==
    LET w == [p \in DOMAIN e |-> (e[p] * EdgeDecay) \div 100]
    IN [p \in {q \in DOMAIN e : w[q] >= MinWeight} |-> w[p]]

\* All that have a score, the best first
UpdateAll ==
    LET order == InOrder(Scored, [p \in Scored |-> Scores[<<me, p>>]])
        after[i \in 0..Len(order)] ==
            IF i = 0 THEN edges ELSE UpdatePeer(after[i - 1], order[i])
    IN after[Len(order)]

\* The end of select_targets; without peers or fingerprint it is not reached
AffinityAfter ==
    IF strategy = "affinity" /\ CompatiblePeers # {} /\ HasFingerprint
    THEN /\ ratio' = Max({MinRatio, (ratio * RatioDecay) \div 100})
         /\ edges' = Decayed(UpdateAll)
    ELSE UNCHANGED <<ratio, edges>>

-----------------------------------------------------------------------------
(* A round *)

\* run_continuous from the training to the start of _send_model: without data
\* there is no training, and an untrained model is not sent
Select(train) ==
    /\ targets = {}
    /\ trained' = (trained \/ train)
    /\ \E t \in Targets(SelectFanout(Cardinality(CompatiblePeers))) :
          targets' = IF trained' THEN t ELSE {}
    /\ lastIds' = IF strategy = "random" THEN CacheAfter ELSE lastIds
    /\ AffinityAfter
    /\ UNCHANGED <<me, strategy, peers, log, gone>>

\* _send_model: the sends are gathered, each catches its own exception and is
\* entered in comm_log; whether they succeed changes nothing else
SendModel ==
    /\ targets # {}
    /\ targets' = {}
    /\ log' = Min({LogCap, log + Cardinality(targets)})
    /\ UNCHANGED <<me, strategy, peers, lastIds, ratio, edges, trained, gone>>

PeerJoins(p) ==
    /\ p \notin peers /\ p # me
    /\ peers' = peers \cup {p}
    /\ gone' = [gone EXCEPT ![p] = CacheDuration]
    /\ UNCHANGED <<me, strategy, lastIds, ratio, edges, trained, targets, log>>

PeerLeaves(p) ==
    /\ p \in peers
    /\ peers' = peers \ {p}
    /\ gone' = [gone EXCEPT ![p] = IF p \in lastIds.ids THEN 0 ELSE @]
    /\ UNCHANGED <<me, strategy, lastIds, ratio, edges, trained, targets, log>>

\* Time passes for the cache
Ticks ==
    /\ lastIds' = [lastIds EXCEPT !.age = Min({@ + 1, CacheDuration})]
    /\ gone' = [p \in Nodes |-> Min({gone[p] + 1, CacheDuration})]
    /\ UNCHANGED <<me, strategy, peers, ratio, edges, trained, targets, log>>

PNext ==
    \/ \E t \in BOOLEAN : Select(t)
    \/ SendModel
    \/ \E p \in Nodes : PeerJoins(p) \/ PeerLeaves(p)
    \/ Ticks

PSpec == PInit /\ [][PNext]_pVars

-----------------------------------------------------------------------------
\* Steps from this node to p, the shorter way round the ring of those in S
RingDistance(S, p) ==
    LET between == Cardinality({q \in S : (q > me /\ q <= p) \/ (q < me /\ q >= p)})
    IN Min({between, Cardinality(S) + 1 - between})

\* What a round that chooses targets chooses
Chosen ==
    LET S == CompatiblePeers
        all == SelectFanout(Cardinality(S))
    IN  /\ me \notin targets' /\ \A p \in targets' : IsCompatible(p)
        /\ Cardinality(targets') <= all
        /\ \A p \in targets' : \/ p \in peers
                               \/ strategy = "random" /\ gone[p] < CacheDuration
        /\ strategy \in {"ring", "world", "reliable"} => Cardinality(targets') = all
        /\ strategy = "ring" =>
              \A p \in targets', q \in S \ targets' : RingDistance(S, p) <= RingDistance(S, q)

\* The targets of a round are other, compatible nodes, no more than the fanout.
\* They are known, except that the random strategy's may have left less than
\* cache_duration ago.  The ring, the small world and the reliability order
\* leave nobody out while the fanout is not reached, and the ring takes nobody
\* farther than one it leaves out.  The history of the affinity strategy keeps
\* within max_peers.  (select_targets of the strategies, _select_fanout.)
SelectionSound ==
    [][/\ targets = {} /\ targets' # {} => Chosen
       /\ Cardinality(DOMAIN edges') <= MaxEdges]_pVars
=============================================================================
