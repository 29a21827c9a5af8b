--------------------------- MODULE TelemetryProofs ---------------------------
(***************************************************************************)
(* Proofs about telemetry, for any number of nodes, swarms, viewers and    *)
(* reports and for any limits: the tables of the store, the streams of the *)
(* dashboards, the tokens, and the order in which a client delivers.       *)
(***************************************************************************)
EXTENDS TelemetryClient, FiniteSetTheorems, SequenceTheorems, WellFoundedInduction, TLAPS

-----------------------------------------------------------------------------
(* Numbers and finite sets.                                                  *)

\* A set of numbers that is not empty has a least one.
LEMMA LeastExists ==
    ASSUME NEW S \in SUBSET Nat, S # {}
    PROVE  Min(S) \in S /\ \A n \in S : Min(S) <= n
  <1>1. \E m \in S : \A n \in S : ~(<<n, m>> \in OpToRel(<, Nat))
    BY NatLessThanWellFounded, WFMin
  <1>2. PICK m \in S : \A n \in S : ~(<<n, m>> \in OpToRel(<, Nat))
    BY <1>1
  <1>3. ASSUME NEW n \in S PROVE m <= n
    <2>1. ~(n < m)
      BY <1>2 DEF OpToRel
    <2>2. QED BY <2>1
  <1>4. QED BY <1>3 DEF Min

\* An eviction makes room for the node that comes.
LEMMA RoomForOne ==
    ASSUME NEW S, IsFiniteSet(S), NEW n, NEW max \in Nat \ {0}, NEW D \in SUBSET S,
           Cardinality(S) <= max,
           \/ D = {} /\ (n \in S \/ Cardinality(S) < max)
           \/ Cardinality(D) = Cardinality(S) - max + 1
    PROVE  IsFiniteSet((S \ D) \cup {n}) /\ Cardinality((S \ D) \cup {n}) <= max
  <1>1. Cardinality(S) \in Nat
    BY FS_CardinalityType
  <1>2. /\ IsFiniteSet(S \ D) /\ IsFiniteSet(D)
        /\ Cardinality(S \ D) = Cardinality(S) - Cardinality(D)
        /\ Cardinality(S \ D) \in Nat /\ Cardinality(D) \in Nat
    <2>1. S \cap D = D
      OBVIOUS
    <2>2. IsFiniteSet(S \ D) /\ Cardinality(S \ D) = Cardinality(S) - Cardinality(S \cap D)
      BY FS_Difference
    <2>3. IsFiniteSet(D)
      BY FS_Subset
    <2>4. Cardinality(S \ D) \in Nat /\ Cardinality(D) \in Nat
      BY <2>2, <2>3, FS_CardinalityType
    <2>5. QED BY <2>1, <2>2, <2>3, <2>4
  <1>3. /\ IsFiniteSet((S \ D) \cup {n})
        /\ Cardinality((S \ D) \cup {n})
             = IF n \in S \ D THEN Cardinality(S \ D) ELSE Cardinality(S \ D) + 1
    BY <1>2, FS_AddElement
  <1>4. Cardinality((S \ D) \cup {n}) <= max
    <2>1. CASE D = {} /\ (n \in S \/ Cardinality(S) < max)
      <3>1. S \ D = S
        BY <2>1
      <3>2. QED BY <1>1, <1>3, <2>1, <3>1
    <2>2. CASE Cardinality(D) = Cardinality(S) - max + 1
      BY <1>1, <1>2, <1>3, <2>2
    <2>3. QED BY <2>1, <2>2
  <1>5. QED BY <1>3, <1>4

\* A table of rounds keeps to its limit (_prune_rounds_if_needed).
LEMMA WithRoundBound ==
    ASSUME NEW R \in SUBSET Nat, IsFiniteSet(R), NEW r \in Nat, Cardinality(R) <= MaxRounds
    PROVE  /\ WithRound(R, r) \in SUBSET Nat /\ IsFiniteSet(WithRound(R, r))
           /\ Cardinality(WithRound(R, r)) <= MaxRounds
  <1>1. MaxRounds \in Nat \ {0} /\ Cardinality(R) \in Nat
    BY ServerAssumption, FS_CardinalityType
  <1>2. CASE r \in R \/ Cardinality(R) < MaxRounds
    <2>1. WithRound(R, r) = (R \ {}) \cup {r}
      BY <1>2 DEF WithRound
    <2>2. IsFiniteSet((R \ {}) \cup {r}) /\ Cardinality((R \ {}) \cup {r}) <= MaxRounds
      BY <1>1, <1>2, RoomForOne
    <2>3. QED BY <2>1, <2>2
  <1>3. CASE ~(r \in R \/ Cardinality(R) < MaxRounds)
    <2>1. WithRound(R, r) = (R \ {Min(R)}) \cup {r} /\ Cardinality(R) = MaxRounds
      BY <1>1, <1>3 DEF WithRound
    <2>2. R # {}
      BY <1>1, <2>1, FS_EmptySet
    <2>3. {Min(R)} \in SUBSET R
      BY <2>2, LeastExists
    <2>4. Cardinality({Min(R)}) = 1
      BY FS_Singleton
    <2>5. Cardinality({Min(R)}) = Cardinality(R) - MaxRounds + 1
      BY <1>1, <2>1, <2>4
    <2>6. /\ IsFiniteSet((R \ {Min(R)}) \cup {r})
          /\ Cardinality((R \ {Min(R)}) \cup {r}) <= MaxRounds
      BY <1>1, <2>3, <2>5, RoomForOne
    <2>7. QED BY <2>1, <2>6
  <1>4. QED BY <1>2, <1>3

-----------------------------------------------------------------------------
(* The tables of the store.                                                  *)

NodesInv == known \subseteq Nodes /\ IsFiniteSet(known) /\ Cardinality(known) <= MaxNodes

\* The index and the nodes' own swarms.
IndexInv ==
    /\ swarmOf \in [Nodes -> Swarms \cup {NoSwarm}]
    /\ swarmNodes \in [Swarms -> SUBSET Nodes]
    /\ \A s \in Swarms : swarmNodes[s] = {n \in known : swarmOf[n] = s}
    /\ \A n \in Nodes \ known : swarmOf[n] = NoSwarm

\* What is kept of a node: nothing of one that is not there.
RecordsInv ==
    /\ peers \in [Nodes -> SUBSET Nodes]
    /\ events \in [Nodes -> Seq(STRING)]
    /\ rounds \in [Nodes -> SUBSET Nat]
    /\ \A n \in Nodes : /\ Len(events[n]) <= MaxEvents
                        /\ IsFiniteSet(rounds[n]) /\ Cardinality(rounds[n]) <= MaxRounds
                        /\ n \notin known => events[n] = <<>> /\ rounds[n] = {}

EdgesInv ==
    /\ edges \subseteq Nodes \X Nodes \X {"transfer", "link"}
    /\ Cardinality(edges) <= MaxEdges
    /\ \A e \in edges : e[1] \in known \/ e[2] \in known

TablesInv == NodesInv /\ IndexInv /\ RecordsInv /\ EdgesInv

\* What is dropped is known; it makes room.
LEMMA DroppedMakesRoom ==
    ASSUME NodesInv, NEW n \in Nodes, NEW D \in Dropped(n)
    PROVE  /\ D \subseteq known
           /\ (known \ D) \cup {n} \subseteq Nodes
           /\ IsFiniteSet((known \ D) \cup {n})
           /\ Cardinality((known \ D) \cup {n}) <= MaxNodes
           /\ n \notin D
  <1>1. MaxNodes \in Nat \ {0} /\ Cardinality(known) \in Nat /\ IsFiniteSet(known)
    BY ServerAssumption, FS_CardinalityType DEF NodesInv
  <1>2. CASE n \in known \/ Cardinality(known) < MaxNodes
    <2>1. D = {}
      BY <1>2 DEF Dropped
    <2>2. QED BY <1>1, <1>2, <2>1, RoomForOne DEF NodesInv
  <1>3. CASE ~(n \in known \/ Cardinality(known) < MaxNodes)
    <2>1. D \in SUBSET known /\ Cardinality(D) = Cardinality(known) - MaxNodes + 1
      BY <1>3 DEF Dropped
    <2>2. QED BY <1>1, <1>3, <2>1, RoomForOne DEF NodesInv
  <1>4. QED BY <1>2, <1>3

LEMMA IndexKept ==
    ASSUME NodesInv, IndexInv, NEW rep \in Reports, NEW D \in SUBSET known, rep.node \notin D,
           known' = (known \ D) \cup {rep.node},
           swarmOf' = [n \in Nodes |-> SwarmAfter(rep, D, n)],
           swarmNodes' = [s \in Swarms |-> ListedAfter(rep, D, s)]
    PROVE  IndexInv'
  <1>1. rep.node \in Nodes /\ rep.swarm \in Swarms /\ NoSwarm \notin Swarms
    BY ServerAssumption DEF Reports, NoSwarm
  <1>2. swarmOf' \in [Nodes -> Swarms \cup {NoSwarm}]
    BY <1>1 DEF IndexInv, SwarmAfter
  <1>3. swarmNodes' \in [Swarms -> SUBSET Nodes]
    BY <1>1 DEF IndexInv, ListedAfter, Unlist
  <1>4. ASSUME NEW s \in Swarms, NEW n \in Nodes
        PROVE  n \in ListedAfter(rep, D, s) <=> n \in known' /\ SwarmAfter(rep, D, n) = s
    <2>1. n \in swarmNodes[s] <=> n \in known /\ swarmOf[n] = s
      BY DEF IndexInv
    <2>2. n \in Unlist(D, s) <=> n \in known /\ n \notin D /\ swarmOf[n] = s
      BY <2>1 DEF Unlist
    <2>3. CASE ~Joins(rep)
      <3>1. n \in ListedAfter(rep, D, s) <=> n \in Unlist(D, s)
        BY <2>3 DEF ListedAfter
      <3>2. SwarmAfter(rep, D, n) = IF n \in D THEN NoSwarm ELSE swarmOf[n]
        BY <2>3 DEF SwarmAfter
      <3>3. n \notin known /\ n = rep.node => swarmOf[n] # s
        BY <1>1 DEF IndexInv
      <3>4. QED BY <1>1, <2>2, <3>1, <3>2, <3>3
    <2>4. CASE Joins(rep)
      BY <1>1, <2>2, <2>4 DEF ListedAfter, SwarmAfter
    <2>5. QED BY <2>3, <2>4
  <1>5. ASSUME NEW s \in Swarms PROVE swarmNodes'[s] = {n \in known' : swarmOf'[n] = s}
    <2>1. swarmNodes'[s] = ListedAfter(rep, D, s) /\ swarmNodes'[s] \subseteq Nodes
      BY <1>3
    <2>2. known' \subseteq Nodes
      BY <1>1 DEF NodesInv
    <2>3. QED BY <1>4, <2>1, <2>2
  <1>6. \A n \in Nodes \ known' : swarmOf'[n] = NoSwarm
    BY DEF IndexInv, SwarmAfter
  <1>7. QED BY <1>2, <1>3, <1>5, <1>6 DEF IndexInv

LEMMA RecordsKept ==
    ASSUME NodesInv, RecordsInv, NEW rep \in Reports, NEW D \in SUBSET known,
           rep.node \notin D,
           known' = (known \ D) \cup {rep.node},
           peers' = [n \in Nodes |-> PeersAfter(rep, D, n)],
           events' = [n \in Nodes |-> EventsAfter(rep, D, n)],
           rounds' = [n \in Nodes |-> RoundsAfter(rep, D, n)]
    PROVE  RecordsInv'
  <1>1. /\ rep.node \in Nodes /\ rep.kind \in STRING /\ rep.round \in Nat
        /\ rep.peers \in SUBSET Nodes
    BY DEF Reports
  <1>2. MaxEvents \in Nat \ {0} /\ MaxRounds \in Nat \ {0}
    BY ServerAssumption
  <1>3. ASSUME NEW n \in Nodes PROVE PeersAfter(rep, D, n) \in SUBSET Nodes
    BY <1>1 DEF RecordsInv, PeersAfter
  <1>4. ASSUME NEW n \in Nodes
        PROVE  /\ EventsAfter(rep, D, n) \in Seq(STRING)
               /\ Len(EventsAfter(rep, D, n)) <= MaxEvents
               /\ n \notin known' => EventsAfter(rep, D, n) = <<>>
    <2>1. events[n] \in Seq(STRING) /\ Len(events[n]) <= MaxEvents /\ Len(events[n]) \in Nat
      BY DEF RecordsInv
    <2>2. CASE n \in D
      <3>1. EventsAfter(rep, D, n) = <<>>
        BY <2>2 DEF EventsAfter
      <3>2. <<>> \in Seq(STRING) /\ Len(<<>>) = 0
        OBVIOUS
      <3>3. QED BY <1>2, <3>1, <3>2
    <2>3. CASE n \notin D /\ (n # rep.node \/ rep.kind = "heartbeat")
      <3>1. EventsAfter(rep, D, n) = events[n]
        BY <2>3 DEF EventsAfter
      <3>2. n \notin known' => events[n] = <<>>
        BY <2>3 DEF RecordsInv
      <3>3. QED BY <2>1, <3>1, <3>2
    <2>4. CASE n \notin D /\ n = rep.node /\ rep.kind # "heartbeat"
      <3> DEFINE all == Append(events[n], rep.kind)
      <3>1. EventsAfter(rep, D, n) = IF Len(all) > MaxEvents THEN Tail(all) ELSE all
        BY <2>4 DEF EventsAfter
      <3>2. all \in Seq(STRING) /\ Len(all) = Len(events[n]) + 1 /\ all # <<>>
        BY <1>1, <2>1, AppendProperties
      <3>3. Tail(all) \in Seq(STRING) /\ Len(Tail(all)) = Len(all) - 1
        BY <3>2, HeadTailProperties
      <3>4. n \in known'
        BY <2>4
      <3> HIDE DEF all
      <3>5. CASE Len(all) > MaxEvents
        <4>1. EventsAfter(rep, D, n) = Tail(all)
          BY <3>1, <3>5
        <4>2. Len(Tail(all)) <= MaxEvents
          BY <1>2, <2>1, <3>2, <3>3
        <4>3. QED BY <3>3, <3>4, <4>1, <4>2
      <3>6. CASE ~(Len(all) > MaxEvents)
        <4>1. EventsAfter(rep, D, n) = all
          BY <3>1, <3>6
        <4>2. Len(all) <= MaxEvents
          BY <1>2, <2>1, <3>2, <3>6
        <4>3. QED BY <3>2, <3>4, <4>1, <4>2
      <3>7. QED BY <3>5, <3>6
    <2>5. QED BY <2>2, <2>3, <2>4
  <1>5. ASSUME NEW n \in Nodes
        PROVE  /\ RoundsAfter(rep, D, n) \in SUBSET Nat
               /\ IsFiniteSet(RoundsAfter(rep, D, n))
               /\ Cardinality(RoundsAfter(rep, D, n)) <= MaxRounds
               /\ n \notin known' => RoundsAfter(rep, D, n) = {}
    <2>1. rounds[n] \in SUBSET Nat /\ IsFiniteSet(rounds[n])
          /\ Cardinality(rounds[n]) <= MaxRounds
      BY DEF RecordsInv
    <2>2. CASE n \in D
      <3>1. RoundsAfter(rep, D, n) = {}
        BY <2>2 DEF RoundsAfter
      <3>2. QED BY <1>2, <3>1, FS_EmptySet
    <2>3. CASE n \notin D /\ (n # rep.node \/ rep.round = 0)
      <3>1. RoundsAfter(rep, D, n) = rounds[n]
        BY <2>3 DEF RoundsAfter
      <3>2. n \notin known' => rounds[n] = {}
        BY <2>3 DEF RecordsInv
      <3>3. QED BY <2>1, <3>1, <3>2
    <2>4. CASE n \notin D /\ n = rep.node /\ rep.round # 0
      <3>1. RoundsAfter(rep, D, n) = WithRound(rounds[n], rep.round)
        BY <2>4 DEF RoundsAfter
      <3>2. QED BY <1>1, <2>1, <2>4, <3>1, WithRoundBound
    <2>5. QED BY <2>2, <2>3, <2>4
  <1>6. peers' \in [Nodes -> SUBSET Nodes]
    BY <1>3
  <1>7. events' \in [Nodes -> Seq(STRING)] /\ rounds' \in [Nodes -> SUBSET Nat]
    BY <1>4, <1>5
  <1>8. \A n \in Nodes : events'[n] = EventsAfter(rep, D, n) /\ rounds'[n] = RoundsAfter(rep, D, n)
    OBVIOUS
  <1>9. QED BY <1>4, <1>5, <1>6, <1>7, <1>8 DEF RecordsInv

\* Every edge a report touches has the reporting node as an end.
LEMMA TouchedEnds ==
    ASSUME NEW rep \in Reports, NEW D, NEW e \in Touched(rep, D)
    PROVE  /\ e \in Nodes \X Nodes \X {"transfer", "link"}
           /\ e[1] = rep.node \/ e[2] = rep.node
  <1>1. rep.node \in Nodes /\ rep.peers \subseteq Nodes
    BY DEF Reports
  <1>2. \E p \in rep.peers :
           \/ e = <<rep.node, p, "transfer">> \/ e = <<p, rep.node, "transfer">>
           \/ e = <<rep.node, p, "link">>
    BY DEF Touched
  <1>3. QED BY <1>1, <1>2

LEMMA EdgesKept ==
    ASSUME NodesInv, EdgesInv, NEW rep \in Reports, NEW D \in SUBSET known,
           known' = (known \ D) \cup {rep.node},
           edges' \in EdgeTables(EdgesWithout(D), Touched(rep, D))
    PROVE  EdgesInv'
  <1> DEFINE E == EdgesWithout(D)
             T == Touched(rep, D)
  <1>1. MaxEdges \in Nat \ {0}
    BY ServerAssumption
  <1>2. edges' \subseteq E \cup T
    BY DEF EdgeTables
  <1>3. Cardinality(edges') <= MaxEdges
    <2>1. CASE Cardinality(E \cup T) <= MaxEdges
      BY <2>1 DEF EdgeTables
    <2>2. CASE ~(Cardinality(E \cup T) <= MaxEdges)
      <3>1. Cardinality(edges') = MaxEdges
        BY <2>2 DEF EdgeTables
      <3>2. QED BY <1>1, <3>1
    <2>3. QED BY <2>1, <2>2
  <1>4. ASSUME NEW e \in edges'
        PROVE  /\ e \in Nodes \X Nodes \X {"transfer", "link"}
               /\ e[1] \in known' \/ e[2] \in known'
    <2>1. CASE e \in E
      BY <2>1 DEF EdgesWithout, EdgesInv
    <2>2. CASE e \in T
      BY <2>2, TouchedEnds
    <2>3. QED BY <1>2, <2>1, <2>2
  <1>5. QED BY <1>3, <1>4 DEF EdgesInv

LEMMA IngestKeepsTables ==
    ASSUME TablesInv, NEW rep \in Reports, Ingest(rep)
    PROVE  TablesInv'
  <1>1. PICK D \in Dropped(rep.node) :
          /\ known' = (known \ D) \cup {rep.node}
          /\ swarmOf' = [n \in Nodes |-> SwarmAfter(rep, D, n)]
          /\ swarmNodes' = [s \in Swarms |-> ListedAfter(rep, D, s)]
          /\ peers' = [n \in Nodes |-> PeersAfter(rep, D, n)]
          /\ events' = [n \in Nodes |-> EventsAfter(rep, D, n)]
          /\ rounds' = [n \in Nodes |-> RoundsAfter(rep, D, n)]
          /\ edges' \in EdgeTables(EdgesWithout(D), Touched(rep, D))
    BY DEF Ingest
  <1>2. rep.node \in Nodes
    BY DEF Reports
  <1>3. D \in SUBSET known /\ rep.node \notin D /\ NodesInv'
    BY <1>1, <1>2, DroppedMakesRoom DEF TablesInv, NodesInv
  <1>4. IndexInv'
    BY <1>1, <1>3, IndexKept DEF TablesInv
  <1>5. RecordsInv'
    BY <1>1, <1>3, RecordsKept DEF TablesInv
  <1>6. EdgesInv'
    BY <1>1, <1>3, EdgesKept DEF TablesInv
  <1>7. QED BY <1>3, <1>4, <1>5, <1>6 DEF TablesInv

\* The tables of a process that has just been started.
LEMMA EmptyTablesFine == EmptyTables => TablesInv
  <1> SUFFICES ASSUME EmptyTables PROVE TablesInv
    OBVIOUS
  <1>1. IsFiniteSet({}) /\ Cardinality({}) = 0
    BY FS_EmptySet
  <1>2. /\ {MaxNodes, MaxEvents, MaxRounds, MaxEdges} \subseteq Nat \ {0}
        /\ 0 <= MaxNodes /\ 0 <= MaxEvents /\ 0 <= MaxRounds /\ 0 <= MaxEdges
    BY ServerAssumption
  <1>3. <<>> \in Seq(STRING) /\ Len(<<>>) = 0
    OBVIOUS
  <1>4. NodesInv
    BY <1>1, <1>2 DEF EmptyTables, NodesInv
  <1>5. IndexInv
    BY DEF EmptyTables, IndexInv
  <1>6. RecordsInv
    BY <1>1, <1>2, <1>3 DEF EmptyTables, RecordsInv
  <1>7. EdgesInv
    BY <1>1, <1>2 DEF EmptyTables, EdgesInv
  <1>8. QED BY <1>4, <1>5, <1>6, <1>7 DEF TablesInv

-----------------------------------------------------------------------------
(* The streams of the dashboards.                                            *)

\* Numbers of published messages; a queue may hold the closing message too.
Marks == 0 .. QueueCap + 1
Connections == [ws : BOOLEAN, sub : BOOLEAN, q : Seq(Marks \cup {Closed}), got : Marks]

\* What waits in the queue follows what the viewer was sent, number by number,
\* up to the newest message p.
InARow(c, p) ==
    /\ \A i \in 1 .. Len(c.q) :
          c.q[i] \in Marks /\ c.q[i] = After(IF i = 1 THEN c.got ELSE c.q[i - 1])
    /\ p = IF Len(c.q) = 0 THEN c.got ELSE c.q[Len(c.q)]

\* A subscriber has missed nothing; one that was too slow has only the closing
\* message left to read.
ConnInv(c, p) ==
    /\ c \in Connections
    /\ Len(c.q) <= QueueCap
    /\ ~c.ws => c = NotOpen
    /\ c.ws /\ ~c.sub => c.q = <<Closed>>
    /\ c.sub => c.ws /\ InARow(c, p)

StreamInv ==
    /\ pub \in Marks
    /\ stream \in [Viewers -> Connections]
    /\ \A v \in Viewers : ConnInv(stream[v], pub)

LEMMA AfterIsMark == ASSUME NEW m \in Marks PROVE After(m) \in Marks
  <1>1. QueueCap \in Nat \ {0}
    BY ServerAssumption
  <1>2. m + 1 \in Nat /\ QueueCap + 2 \in Nat \ {0}
    BY <1>1 DEF Marks
  <1>3. (m + 1) % (QueueCap + 2) \in 0 .. (QueueCap + 2) - 1
    BY <1>2
  <1>4. QED BY <1>1, <1>3 DEF After, Marks

LEMMA NotOpenFine == ASSUME NEW p \in Marks PROVE ConnInv(NotOpen, p)
  <1>1. QueueCap \in Nat \ {0}
    BY ServerAssumption
  <1>2. <<>> \in Seq(Marks \cup {Closed}) /\ Len(<<>>) = 0 /\ 0 \in Marks
    BY <1>1 DEF Marks
  <1>3. NotOpen \in Connections
    BY <1>2 DEF NotOpen, Connections
  <1>4. QED BY <1>1, <1>2, <1>3 DEF ConnInv, NotOpen

\* publish: a subscriber gets the message, or is closed.
LEMMA PushFine ==
    ASSUME NEW p \in Marks, NEW c, ConnInv(c, p)
    PROVE  /\ ConnInv(Push(c, After(p)), After(p))
           /\ Push(c, After(p)).got = c.got
  <1> DEFINE m == After(p)
  <1>0. m \in Marks
    BY AfterIsMark
  <1> HIDE DEF m
  <1>1. QueueCap \in Nat \ {0} /\ Closed \notin Marks
    BY ServerAssumption DEF Closed, Marks
  <1>2. c \in Connections /\ c.q \in Seq(Marks \cup {Closed}) /\ Len(c.q) \in Nat
    BY DEF ConnInv, Connections
  <1>3. CASE ~c.sub
    <2>1. Push(c, m) = c
      BY <1>3 DEF Push
    <2>2. ConnInv(c, m)
      BY <1>3 DEF ConnInv
    <2>3. QED BY <2>1, <2>2 DEF m
  <1>4. CASE c.sub /\ Len(c.q) < QueueCap
    <2> DEFINE d == [c EXCEPT !.q = Append(@, m)]
    <2>1. Push(c, m) = d
      BY <1>4 DEF Push
    <2>2. d.q = Append(c.q, m) /\ d.ws = c.ws /\ d.sub = c.sub /\ d.got = c.got
      BY <1>2 DEF Connections
    <2>3. d \in Connections
      <3>1. Append(c.q, m) \in Seq(Marks \cup {Closed})
        BY <1>0, <1>2
      <3>2. QED BY <1>2, <3>1 DEF Connections
    <2>4. /\ d.q \in Seq(Marks \cup {Closed}) /\ Len(d.q) = Len(c.q) + 1 /\ d.q[Len(c.q) + 1] = m
          /\ \A i \in 1 .. Len(c.q) : d.q[i] = c.q[i]
      BY <1>0, <1>2, <2>2
    <2> HIDE DEF d
    <2>5. InARow(c, p) /\ c.ws
      BY <1>4 DEF ConnInv
    <2>6. ASSUME NEW i \in 1 .. Len(d.q)
          PROVE  d.q[i] \in Marks /\ d.q[i] = After(IF i = 1 THEN d.got ELSE d.q[i - 1])
      <3>1. CASE i \in 1 .. Len(c.q)
        <4>1. c.q[i] \in Marks /\ c.q[i] = After(IF i = 1 THEN c.got ELSE c.q[i - 1])
          BY <2>5, <3>1 DEF InARow
        <4>2. i # 1 => i - 1 \in 1 .. Len(c.q)
          BY <1>2, <3>1
        <4>3. (IF i = 1 THEN c.got ELSE c.q[i - 1]) = (IF i = 1 THEN d.got ELSE d.q[i - 1])
          BY <2>2, <2>4, <4>2
        <4>4. d.q[i] = c.q[i]
          BY <2>4, <3>1
        <4>5. QED BY <4>1, <4>3, <4>4
      <3>2. CASE i = Len(c.q) + 1
        <4>1. d.q[i] = m
          BY <2>4, <3>2
        <4>2. p = IF i = 1 THEN d.got ELSE d.q[i - 1]
          <5>1. p = IF Len(c.q) = 0 THEN c.got ELSE c.q[Len(c.q)]
            BY <2>5 DEF InARow
          <5>2. CASE Len(c.q) = 0
            BY <2>2, <3>2, <5>1, <5>2
          <5>3. CASE Len(c.q) # 0
            <6>1. i # 1 /\ i - 1 = Len(c.q) /\ Len(c.q) \in 1 .. Len(c.q)
              BY <1>2, <3>2, <5>3
            <6>2. d.q[i - 1] = c.q[Len(c.q)]
              BY <2>4, <6>1
            <6>3. QED BY <5>1, <5>3, <6>1, <6>2
          <5>4. QED BY <5>2, <5>3
        <4>3. QED BY <1>0, <4>1, <4>2 DEF m
      <3>3. QED BY <1>2, <2>4, <3>1, <3>2
    <2>7. m = IF Len(d.q) = 0 THEN d.got ELSE d.q[Len(d.q)]
      BY <1>2, <2>4
    <2>8. InARow(d, m)
      BY <2>6, <2>7 DEF InARow
    <2>9. Len(d.q) <= QueueCap
      BY <1>1, <1>2, <1>4, <2>4
    <2>10. ConnInv(d, m)
      BY <1>4, <2>2, <2>3, <2>5, <2>8, <2>9 DEF ConnInv
    <2>11. QED BY <2>1, <2>2, <2>10 DEF m
  <1>5. CASE c.sub /\ ~(Len(c.q) < QueueCap)
    <2> DEFINE d == [c EXCEPT !.q = <<Closed>>, !.sub = FALSE]
    <2>1. Push(c, m) = d
      BY <1>5 DEF Push, PushFull
    <2>2. d.q = <<Closed>> /\ d.ws = c.ws /\ d.sub = FALSE /\ d.got = c.got
      BY <1>2 DEF Connections
    <2>3. <<Closed>> \in Seq(Marks \cup {Closed}) /\ Len(<<Closed>>) = 1
      OBVIOUS
    <2>4. d \in Connections
      BY <1>2, <2>3 DEF Connections
    <2>5. c.ws
      BY <1>5 DEF ConnInv
    <2> HIDE DEF d
    <2>6. ConnInv(d, m)
      BY <1>1, <2>2, <2>3, <2>4, <2>5 DEF ConnInv
    <2>7. QED BY <2>1, <2>2, <2>6 DEF m
  <1>6. QED BY <1>3, <1>4, <1>5

\* One turn of a viewer's loop.
LEMMA TakenFine ==
    ASSUME NEW p \in Marks, NEW c, ConnInv(c, p), c.ws, c.q # <<>>
    PROVE  /\ ConnInv(Taken(c), p)
           /\ Taken(c).ws => Taken(c).got = After(c.got)
  <1>1. QueueCap \in Nat \ {0} /\ Closed \notin Marks
    BY ServerAssumption DEF Closed, Marks
  <1>2. c \in Connections /\ c.q \in Seq(Marks \cup {Closed}) /\ Len(c.q) \in Nat
        /\ Len(c.q) <= QueueCap
    BY DEF ConnInv, Connections
  <1>3. /\ Len(c.q) >= 1 /\ Head(c.q) = c.q[1]
        /\ Tail(c.q) \in Seq(Marks \cup {Closed}) /\ Len(Tail(c.q)) = Len(c.q) - 1
        /\ \A i \in 1 .. Len(Tail(c.q)) : Tail(c.q)[i] = c.q[i + 1]
    <2>1. Len(c.q) >= 1 /\ Head(c.q) = c.q[1]
      BY <1>2
    <2>2. Tail(c.q) \in Seq(Marks \cup {Closed}) /\ Len(Tail(c.q)) = Len(c.q) - 1
      BY <1>2, HeadTailProperties
    <2>3. \A i \in 1 .. Len(Tail(c.q)) : Tail(c.q)[i] = c.q[i + 1]
      BY <1>2, HeadTailProperties
    <2>4. QED BY <2>1, <2>2, <2>3
  <1>4. CASE Head(c.q) = Closed
    <2>1. Taken(c) = NotOpen
      BY <1>4 DEF Taken
    <2>2. QED BY <2>1, NotOpenFine DEF NotOpen
  <1>5. CASE Head(c.q) # Closed
    <2>1. c.sub
      <3>1. ASSUME ~c.sub PROVE FALSE
        <4>1. c.q = <<Closed>>
          BY <3>1 DEF ConnInv
        <4>2. QED BY <1>3, <1>5, <4>1
      <3>2. QED BY <3>1, <1>2 DEF Connections
    <2>2. InARow(c, p)
      BY <2>1 DEF ConnInv
    <2> DEFINE d == [c EXCEPT !.got = Head(c.q), !.q = Tail(c.q)]
    <2>3. Taken(c) = d
      BY <1>5 DEF Taken
    <2>4. c.q[1] \in Marks /\ c.q[1] = After(c.got)
      <3>1. 1 \in 1 .. Len(c.q)
        BY <1>2, <1>3
      <3>2. QED BY <2>2, <3>1 DEF InARow
    <2>5. d.q = Tail(c.q) /\ d.got = c.q[1] /\ d.ws = c.ws /\ d.sub = c.sub
      BY <1>2, <1>3 DEF Connections
    <2>6. d \in Connections
      BY <1>2, <1>3, <2>4 DEF Connections
    <2> HIDE DEF d
    <2>7. ASSUME NEW i \in 1 .. Len(d.q)
          PROVE  d.q[i] \in Marks /\ d.q[i] = After(IF i = 1 THEN d.got ELSE d.q[i - 1])
      <3>1. i \in 1 .. Len(c.q) - 1 /\ i + 1 \in 1 .. Len(c.q) /\ i + 1 # 1 /\ (i + 1) - 1 = i
        BY <1>2, <1>3, <2>5
      <3>2. d.q[i] = c.q[i + 1]
        BY <1>3, <2>5
      <3>3. c.q[i + 1] \in Marks /\ c.q[i + 1] = After(c.q[i])
        <4>1. c.q[i + 1] \in Marks
              /\ c.q[i + 1] = After(IF i + 1 = 1 THEN c.got ELSE c.q[(i + 1) - 1])
          BY <2>2, <3>1 DEF InARow
        <4>2. QED BY <3>1, <4>1
      <3>4. c.q[i] = IF i = 1 THEN d.got ELSE d.q[i - 1]
        <4>1. CASE i = 1
          BY <2>5, <4>1
        <4>2. CASE i # 1
          <5>1. i - 1 \in 1 .. Len(Tail(c.q)) /\ (i - 1) + 1 = i
            BY <1>3, <3>1, <4>2
          <5>2. QED BY <1>3, <2>5, <4>2, <5>1
        <4>3. QED BY <4>1, <4>2
      <3>5. QED BY <3>2, <3>3, <3>4
    <2>8. p = IF Len(d.q) = 0 THEN d.got ELSE d.q[Len(d.q)]
      <3>1. p = c.q[Len(c.q)]
        BY <1>2, <1>3, <2>2 DEF InARow
      <3>2. CASE Len(c.q) = 1
        BY <1>3, <2>5, <3>1, <3>2
      <3>3. CASE Len(c.q) # 1
        <4>1. Len(d.q) # 0 /\ Len(d.q) \in 1 .. Len(Tail(c.q)) /\ Len(d.q) + 1 = Len(c.q)
          <5>1. Len(d.q) = Len(Tail(c.q)) /\ Len(Tail(c.q)) = Len(c.q) - 1 /\ Len(c.q) >= 1
            BY <1>3, <2>5
          <5>2. Len(c.q) \in Nat /\ Len(c.q) # 1
            BY <1>2, <3>3
          <5>3. \A k \in Nat : k >= 1 /\ k # 1 => k - 1 # 0 /\ k - 1 \in 1 .. k - 1 /\ (k - 1) + 1 = k
            OBVIOUS
          <5>4. Len(c.q) - 1 # 0 /\ Len(c.q) - 1 \in 1 .. Len(c.q) - 1 /\ (Len(c.q) - 1) + 1 = Len(c.q)
            BY <5>1, <5>2, <5>3
          <5>5. QED BY <5>1, <5>4
        <4>2. d.q[Len(d.q)] = c.q[Len(c.q)]
          BY <1>3, <2>5, <4>1
        <4>3. QED BY <3>1, <4>1, <4>2
      <3>4. QED BY <3>2, <3>3
    <2>9. InARow(d, p)
      BY <2>7, <2>8 DEF InARow
    <2>10. Len(d.q) <= QueueCap
      BY <1>1, <1>2, <1>3, <2>5
    <2>11. ConnInv(d, p)
      BY <2>1, <2>5, <2>6, <2>9, <2>10 DEF ConnInv
    <2>12. QED BY <2>3, <2>4, <2>5, <2>11
  <1>6. QED BY <1>4, <1>5

-----------------------------------------------------------------------------
(* The process and the tokens.                                               *)

\* A running server has loaded the file, and the file holds every token handed
\* out, unless a rewrite was cut short.
TokensInv ==
    /\ up \in BOOLEAN /\ torn \in BOOLEAN
    /\ code \in {"none", "issued", "viewer"}
    /\ registry \subseteq Swarms /\ file \subseteq Swarms /\ issued \subseteq Swarms
    /\ crashes \in 0 .. MaxCrashes
    /\ up => registry = file
    /\ ~torn => issued \subseteq file

ServerInv == TablesInv /\ StreamInv /\ TokensInv

LEMMA ServerStarted == ServerInit => ServerInv
  <1> SUFFICES ASSUME ServerInit PROVE ServerInv
    OBVIOUS
  <1>1. QueueCap \in Nat \ {0} /\ MaxCrashes \in Nat
    BY ServerAssumption
  <1>2. TablesInv
    BY EmptyTablesFine DEF ServerInit
  <1>3. pub \in Marks
    BY <1>1 DEF ServerInit, Marks
  <1>4. ConnInv(NotOpen, pub)
    BY <1>3, NotOpenFine
  <1>5. NotOpen \in Connections
    BY <1>4 DEF ConnInv
  <1>6. StreamInv
    BY <1>3, <1>4, <1>5 DEF StreamInv, ServerInit
  <1>7. TokensInv
    <2>1. crashes \in 0 .. MaxCrashes
      BY <1>1 DEF ServerInit
    <2>2. up = TRUE /\ torn = FALSE /\ code = "none" /\ registry = {} /\ file = {} /\ issued = {}
      BY DEF ServerInit
    <2>3. QED BY <2>1, <2>2 DEF TokensInv
  <1>8. QED BY <1>2, <1>6, <1>7 DEF ServerInv

\* A state invariant depends on the server's variables only.
LEMMA ServerIdle == ServerInv /\ UNCHANGED serverVars => ServerInv'
  <1> SUFFICES ASSUME ServerInv, UNCHANGED serverVars PROVE ServerInv'
    OBVIOUS
  <1>1. TablesInv'
    BY DEF ServerInv, TablesInv, NodesInv, IndexInv, RecordsInv, EdgesInv, serverVars, tables
  <1>2. StreamInv'
    BY DEF ServerInv, StreamInv, serverVars
  <1>3. TokensInv'
    BY DEF ServerInv, TokensInv, serverVars, tokens
  <1>4. QED BY <1>1, <1>2, <1>3 DEF ServerInv

LEMMA TablesIdle == TablesInv /\ UNCHANGED tables => TablesInv'
  BY DEF TablesInv, NodesInv, IndexInv, RecordsInv, EdgesInv, tables

\* What a step shows an open viewer: the next message, or nothing new.
NoGap ==
    \A v \in Viewers :
       stream[v].ws /\ stream'[v].ws /\ stream'[v].got # stream[v].got
          => stream'[v].got = After(stream[v].got)

LEMMA PublishFine ==
    ASSUME StreamInv, Publish
    PROVE  StreamInv' /\ NoGap
  <1>1. pub \in Marks /\ pub' = After(pub) /\ pub' \in Marks
    BY AfterIsMark DEF StreamInv, Publish
  <1>2. ASSUME NEW v \in Viewers
        PROVE  stream'[v] = Push(stream[v], After(pub))
    BY <1>1 DEF Publish
  <1>3. ASSUME NEW v \in Viewers
        PROVE  /\ ConnInv(Push(stream[v], After(pub)), After(pub))
               /\ Push(stream[v], After(pub)).got = stream[v].got
    BY <1>1, PushFine DEF StreamInv
  <1>4. ASSUME NEW v \in Viewers PROVE Push(stream[v], After(pub)) \in Connections
    BY <1>3 DEF ConnInv
  <1>5. stream' \in [Viewers -> Connections]
    <2>1. stream' = [v \in Viewers |-> Push(stream[v], After(pub))]
      BY <1>1 DEF Publish
    <2>2. QED BY <1>4, <2>1
  <1>6. StreamInv'
    BY <1>1, <1>2, <1>3, <1>5 DEF StreamInv
  <1>7. QED BY <1>2, <1>3, <1>6 DEF NoGap

LEMMA IngestFine ==
    ASSUME ServerInv, NEW rep \in Reports, Ingest(rep)
    PROVE  ServerInv' /\ NoGap
  <1>1. TablesInv'
    BY IngestKeepsTables DEF ServerInv
  <1>2. StreamInv' /\ NoGap
    BY PublishFine DEF ServerInv, Ingest
  <1>3. TokensInv'
    BY DEF ServerInv, TokensInv, Ingest, tokens
  <1>4. QED BY <1>1, <1>2, <1>3 DEF ServerInv

\* One viewer's connection is replaced by c.
LEMMA OneStream ==
    ASSUME StreamInv, pub' = pub, NEW v \in Viewers, NEW c, ConnInv(c, pub),
           stream' = [stream EXCEPT ![v] = c],
           stream[v].ws /\ c.ws /\ c.got # stream[v].got => c.got = After(stream[v].got)
    PROVE  StreamInv' /\ NoGap
  <1>1. c \in Connections
    BY DEF ConnInv
  <1>2. stream' \in [Viewers -> Connections]
    BY <1>1 DEF StreamInv
  <1>3. ASSUME NEW w \in Viewers PROVE stream'[w] = IF w = v THEN c ELSE stream[w]
    BY DEF StreamInv
  <1>4. \A w \in Viewers : ConnInv(stream'[w], pub)
    BY <1>3 DEF StreamInv
  <1>5. StreamInv'
    BY <1>2, <1>4 DEF StreamInv
  <1>6. NoGap
    BY <1>3 DEF NoGap
  <1>7. QED BY <1>5, <1>6

LEMMA GoneFine ==
    ASSUME ServerInv, Gone, pub' = pub
    PROVE  TablesInv' /\ StreamInv' /\ NoGap
  <1>1. EmptyTables'
    BY DEF Gone, EmptyTables
  <1>2. EmptyTables' => TablesInv'
    BY EmptyTablesFine, PTL
  <1>3. pub \in Marks
    BY DEF ServerInv, StreamInv
  <1>4. ConnInv(NotOpen, pub)
    BY <1>3, NotOpenFine
  <1>5. NotOpen \in Connections
    BY <1>4 DEF ConnInv
  <1>6. stream' = [v \in Viewers |-> NotOpen]
    BY DEF Gone
  <1>7. StreamInv'
    BY <1>3, <1>4, <1>5, <1>6 DEF StreamInv
  <1>8. NoGap
    BY <1>6 DEF NoGap, NotOpen
  <1>9. QED BY <1>1, <1>2, <1>7, <1>8

LEMMA ServerStepFine ==
    ASSUME ServerInv, ServerStep
    PROVE  ServerInv' /\ NoGap
  <1> USE DEF ServerInv
  <1>0. ASSUME UNCHANGED stream, UNCHANGED pub PROVE StreamInv' /\ NoGap
    BY <1>0 DEF StreamInv, NoGap
  <1>1. ASSUME NEW s \in Swarms, Enroll(s) PROVE ServerInv' /\ NoGap
    <2>1. TablesInv'
      BY <1>1, TablesIdle DEF Enroll
    <2>2. TokensInv'
      BY <1>1 DEF Enroll, TokensInv, FileAfter
    <2>3. QED BY <1>0, <1>1, <2>1, <2>2 DEF Enroll
  <1>2. ASSUME CreateCode \/ RedeemCode \/ AccessExpires PROVE ServerInv' /\ NoGap
    <2>1. TablesInv'
      BY <1>2, TablesIdle DEF CreateCode, RedeemCode, AccessExpires
    <2>2. TokensInv'
      BY <1>2 DEF CreateCode, RedeemCode, AccessExpires, TokensInv, tokens
    <2>3. UNCHANGED stream /\ UNCHANGED pub
      BY <1>2 DEF CreateCode, RedeemCode, AccessExpires
    <2>4. QED BY <1>0, <2>1, <2>2, <2>3
  <1>3. ASSUME NEW v \in Viewers, OpenStream(v) \/ StreamStep(v) \/ CloseStream(v)
        PROVE  ServerInv' /\ NoGap
    <2>1. TablesInv'
      BY <1>3, TablesIdle DEF OpenStream, StreamStep, CloseStream
    <2>2. TokensInv'
      BY <1>3 DEF OpenStream, StreamStep, CloseStream, TokensInv, tokens
    <2>3. /\ pub \in Marks /\ ConnInv(stream[v], pub) /\ stream \in [Viewers -> Connections]
          /\ pub' = pub /\ QueueCap \in Nat \ {0}
      BY <1>3, ServerAssumption DEF StreamInv, OpenStream, StreamStep, CloseStream
    <2>4. CASE OpenStream(v)
      <3> DEFINE c == [ws |-> TRUE, sub |-> TRUE, q |-> <<>>, got |-> pub]
      <3>1. <<>> \in Seq(Marks \cup {Closed}) /\ Len(<<>>) = 0
        OBVIOUS
      <3>2. c \in Connections
        BY <2>3, <3>1 DEF Connections
      <3>3. ConnInv(c, pub)
        BY <2>3, <3>1, <3>2 DEF ConnInv, InARow
      <3>4. stream' = [stream EXCEPT ![v] = c] /\ ~stream[v].ws
        BY <2>4 DEF OpenStream
      <3> HIDE DEF c
      <3>5. QED BY <2>1, <2>2, <2>3, <3>3, <3>4, OneStream
    <2>5. CASE StreamStep(v)
      <3> DEFINE c == Taken(stream[v])
      <3>1. stream[v].ws /\ stream[v].q # <<>>
        BY <2>5 DEF StreamStep
      <3>2. ConnInv(c, pub) /\ (c.ws => c.got = After(stream[v].got))
        BY <2>3, <3>1, TakenFine
      <3>3. stream' = [stream EXCEPT ![v] = c]
        BY <2>5 DEF StreamStep
      <3> HIDE DEF c
      <3>4. QED BY <2>1, <2>2, <2>3, <3>2, <3>3, OneStream
    <2>6. CASE CloseStream(v)
      <3>1. ConnInv(NotOpen, pub) /\ ~NotOpen.ws
        BY <2>3, NotOpenFine DEF NotOpen
      <3>2. stream' = [stream EXCEPT ![v] = NotOpen]
        BY <2>6 DEF CloseStream
      <3>3. QED BY <2>1, <2>2, <2>3, <3>1, <3>2, OneStream
    <2>7. QED BY <1>3, <2>4, <2>5, <2>6
  <1>4. ASSUME ServerDies \/ DiesInPersist PROVE ServerInv' /\ NoGap
    <2>1. Gone /\ pub' = pub /\ crashes < MaxCrashes
      BY <1>4 DEF ServerDies, DiesInPersist
    <2>2. TablesInv' /\ StreamInv' /\ NoGap
      BY <2>1, GoneFine
    <2>3. crashes' \in 0 .. MaxCrashes
      <3>1. crashes \in 0 .. MaxCrashes /\ MaxCrashes \in Nat /\ crashes' = crashes + 1
        BY <2>1, ServerAssumption DEF TokensInv, Gone
      <3>2. QED BY <2>1, <3>1
    <2>4. TokensInv'
      <3>1. up' = FALSE /\ code' = "none" /\ registry' = {}
        BY <2>1 DEF Gone
      <3>2. /\ issued' = issued
            /\ \/ file' = file /\ torn' = torn
               \/ file' = {} /\ torn' = TRUE
        BY <1>4 DEF ServerDies, DiesInPersist
      <3>3. QED BY <2>3, <3>1, <3>2 DEF TokensInv
    <2>5. QED BY <2>2, <2>4
  <1>5. ASSUME ServerStarts PROVE ServerInv' /\ NoGap
    <2>1. TablesInv'
      BY <1>5, TablesIdle DEF ServerStarts
    <2>2. TokensInv'
      BY <1>5 DEF ServerStarts, TokensInv
    <2>3. QED BY <1>0, <1>5, <2>1, <2>2 DEF ServerStarts
  <1>6. QED BY <1>1, <1>2, <1>3, <1>4, <1>5 DEF ServerStep

-----------------------------------------------------------------------------
(* The items of the client.                                                  *)

Items == [id : 1 .. MaxEmit, kind : STRING]

\* Who delivers has an item; who flushes has a queue to flush, and who delivers
\* an item of its own has flushed the queue.
ClientInv ==
    /\ waiters \in Seq(Items) /\ pending \in Seq(Items)
    /\ cur \in Items \cup {NoItem}
    /\ stage \in {"own", "flush"}
    /\ emitted \in 0 .. MaxEmit /\ last \in 0 .. MaxEmit
    /\ cur # NoItem => (stage = "flush" <=> pending # <<>>)


LEMMA TargetIsItem ==
    ASSUME ClientInv, cur # NoItem
    PROVE  Target \in Items /\ Report(Target) \in Reports
  <1>1. Target \in Items
    <2>1. CASE stage = "flush"
      <3>1. pending \in Seq(Items) /\ pending # <<>>
        BY <2>1 DEF ClientInv
      <3>2. Head(pending) \in Items
        BY <3>1
      <3>3. QED BY <2>1, <3>2 DEF Target
    <2>2. CASE stage # "flush"
      BY <2>2 DEF Target, ClientInv
    <2>3. QED BY <2>1, <2>2
  <1>2. Target.kind \in STRING /\ Target.id \in Nat
    <2>1. MaxEmit \in Nat
      BY ClientAssumption
    <2>2. QED BY <1>1, <2>1 DEF Items
  <1>3. (IF Target.kind \in {"heartbeat", "node.started"} THEN 0 ELSE Target.id) \in Nat
    BY <1>2
  <1>4. Self \in Nodes /\ MySwarm \in Swarms /\ Peers \in SUBSET Nodes
    BY ClientAssumption
  <1>5. QED BY <1>1, <1>2, <1>3, <1>4 DEF Report, Reports

\* The next number is not below the last.
LEMMA NextIdFine ==
    ASSUME emitted \in 0 .. MaxEmit
    PROVE  /\ NextId \in 1 .. MaxEmit /\ emitted <= NextId
           /\ \A k \in STRING : Item(k) \in Items /\ Item(k).id = NextId
  <1>1. MaxEmit \in Nat \ {0}
    BY ClientAssumption
  <1>2. NextId \in 1 .. MaxEmit /\ emitted <= NextId
    BY <1>1 DEF NextId
  <1>3. QED BY <1>2 DEF Item, Items

-----------------------------------------------------------------------------
(* Sequences of which some elements are taken out.                           *)

Thinned(t, s) ==
    \E f \in [1 .. Len(t) -> 1 .. Len(s)] :
       /\ \A i \in 1 .. Len(t) : t[i] = s[f[i]]
       /\ \A i, j \in 1 .. Len(t) : i <= j => f[i] <= f[j]

LEMMA WholeIsThinned == ASSUME NEW s \in Seq(Items) PROVE Thinned(s, s)
  <1> DEFINE f == [i \in 1 .. Len(s) |-> i]
  <1>1. f \in [1 .. Len(s) -> 1 .. Len(s)]
    OBVIOUS
  <1>2. \A i \in 1 .. Len(s) : s[i] = s[f[i]]
    OBVIOUS
  <1>3. \A i, j \in 1 .. Len(s) : i <= j => f[i] <= f[j]
    OBVIOUS
  <1>4. QED BY <1>1, <1>2, <1>3 DEF Thinned

LEMMA EmptyIsThinned == ASSUME NEW s \in Seq(Items) PROVE <<>> \in Seq(Items) /\ Thinned(<<>>, s)
  <1> DEFINE f == [i \in {} |-> 1]
  <1>1. <<>> \in Seq(Items) /\ Len(<<>>) = 0 /\ 1 .. 0 = {}
    OBVIOUS
  <1>2. f \in [{} -> 1 .. Len(s)]
    OBVIOUS
  <1>3. f \in [1 .. Len(<<>>) -> 1 .. Len(s)]
    BY <1>1, <1>2
  <1>4. QED BY <1>1, <1>3 DEF Thinned

LEMMA TailIsThinned ==
    ASSUME NEW s \in Seq(Items), s # <<>>
    PROVE  /\ Tail(s) \in Seq(Items) /\ Thinned(Tail(s), s)
           /\ Head(s) \in Items /\ Head(s) = s[1] /\ 1 \in 1 .. Len(s)
           /\ \A i \in 1 .. Len(Tail(s)) : i + 1 \in 1 .. Len(s) /\ Tail(s)[i] = s[i + 1]
  <1>1. Len(s) \in Nat \ {0} /\ Head(s) = s[1] /\ Head(s) \in Items
    BY HeadTailProperties
  <1>2. Tail(s) \in Seq(Items) /\ Len(Tail(s)) = Len(s) - 1
    BY HeadTailProperties
  <1>3. \A i \in 1 .. Len(Tail(s)) : Tail(s)[i] = s[i + 1]
    BY HeadTailProperties
  <1> DEFINE f == [i \in 1 .. Len(Tail(s)) |-> i + 1]
  <1>4. \A i \in 1 .. Len(Tail(s)) : i + 1 \in 1 .. Len(s)
    <2>1. \A n \in Nat \ {0} : \A i \in 1 .. n - 1 : i + 1 \in 1 .. n
      OBVIOUS
    <2>2. QED BY <1>1, <1>2, <2>1
  <1>5. f \in [1 .. Len(Tail(s)) -> 1 .. Len(s)]
    BY <1>4
  <1>6. \A i \in 1 .. Len(Tail(s)) : Tail(s)[i] = s[f[i]]
    BY <1>3
  <1>7. \A i, j \in 1 .. Len(Tail(s)) : i <= j => f[i] <= f[j]
    OBVIOUS
  <1> HIDE DEF f
  <1>8. Thinned(Tail(s), s)
    BY <1>5, <1>6, <1>7 DEF Thinned
  <1>9. 1 \in 1 .. Len(s)
    BY <1>1
  <1>10. QED BY <1>1, <1>2, <1>3, <1>4, <1>8, <1>9

LEMMA OneTakenOut ==
    ASSUME NEW s \in Seq(Items), NEW k \in 1 .. Len(s)
    PROVE  RemoveAt(s, k) \in Seq(Items) /\ Thinned(RemoveAt(s, k), s)
  <1> DEFINE n == Len(s)
             a == SubSeq(s, 1, k - 1)
             b == SubSeq(s, k + 1, n)
             t == a \o b
  <1>1. n \in Nat /\ k \in Nat /\ 1 <= k /\ k <= n
    OBVIOUS
  <1>2. /\ a \in Seq(Items) /\ Len(a) = k - 1
        /\ \A i \in 1 .. k - 1 : a[i] = s[i]
    <2>1. 1 \in 1 .. n /\ k - 1 \in 0 .. n
      BY <1>1
    <2>2. \A i \in 1 .. k - 1 : i \in 1 .. n
      BY <1>1
    <2>3. QED BY <1>1, <2>1, <2>2, SubSeqProperties
  <1>3. /\ b \in Seq(Items) /\ Len(b) = n - k
        /\ \A i \in 1 .. n - k : b[i] = s[k + i]
    <2>1. QED BY <1>1, SubSeqProperties
  <1> HIDE DEF a, b
  <1>4. /\ t \in Seq(Items) /\ Len(t) = n - 1
        /\ \A i \in 1 .. Len(t) : t[i] = IF i <= k - 1 THEN a[i] ELSE b[i - (k - 1)]
    <2>1. t \in Seq(Items) /\ Len(t) = Len(a) + Len(b)
      BY <1>2, <1>3, ConcatProperties
    <2>2. \A i \in 1 .. Len(t) : t[i] = IF i <= Len(a) THEN a[i] ELSE b[i - Len(a)]
      BY <1>2, <1>3, <2>1, ConcatProperties
    <2>3. Len(t) = n - 1
      BY <1>1, <1>2, <1>3, <2>1
    <2>4. QED BY <1>2, <2>1, <2>2, <2>3
  <1>5. RemoveAt(s, k) = t
    BY DEF RemoveAt, a, b
  <1> HIDE DEF t
  <1> DEFINE f == [i \in 1 .. Len(t) |-> IF i <= k - 1 THEN i ELSE i + 1]
  <1>6. f \in [1 .. Len(t) -> 1 .. n]
    BY <1>1, <1>4
  <1>7. ASSUME NEW i \in 1 .. Len(t) PROVE t[i] = s[f[i]]
    <2>1. CASE i <= k - 1
      <3>1. i \in 1 .. k - 1 /\ f[i] = i
        BY <1>1, <2>1
      <3>2. QED BY <1>2, <1>4, <2>1, <3>1
    <2>2. CASE ~(i <= k - 1)
      <3>1. i - (k - 1) \in 1 .. n - k /\ f[i] = i + 1 /\ k + (i - (k - 1)) = i + 1
        BY <1>1, <1>4, <2>2
      <3>2. t[i] = b[i - (k - 1)]
        BY <1>4, <2>2
      <3>3. b[i - (k - 1)] = s[k + (i - (k - 1))]
        BY <1>3, <3>1
      <3>4. QED BY <3>1, <3>2, <3>3
    <2>3. QED BY <2>1, <2>2
  <1>8. \A i, j \in 1 .. Len(t) : i <= j => f[i] <= f[j]
    BY <1>1, <1>4
  <1> HIDE DEF f
  <1>9. Thinned(t, s)
    BY <1>6, <1>7, <1>8 DEF Thinned
  <1>10. QED BY <1>4, <1>5, <1>9

LEMMA HeartbeatTakenOut ==
    ASSUME NEW s \in Seq(Items)
    PROVE  /\ RemoveFirstMatch(s, IsHeartbeat) \in Seq(Items)
           /\ Thinned(RemoveFirstMatch(s, IsHeartbeat), s)
  <1> DEFINE I == {i \in 1 .. Len(s) : IsHeartbeat(s[i])}
  <1>1. CASE I # {}
    <2>1. RemoveFirstMatch(s, IsHeartbeat) = RemoveAt(s, Min(I))
      BY <1>1 DEF RemoveFirstMatch, SelectInSeq
    <2>2. Min(I) \in I
      <3>1. I \in SUBSET Nat
        OBVIOUS
      <3>2. QED BY <1>1, <3>1, LeastExists
    <2>3. QED BY <2>1, <2>2, OneTakenOut
  <1>2. CASE I = {}
    <2>1. RemoveFirstMatch(s, IsHeartbeat) = s
      BY <1>2 DEF RemoveFirstMatch
    <2>2. QED BY <2>1, WholeIsThinned
  <1>3. QED BY <1>1, <1>2

-----------------------------------------------------------------------------
(* The line of items: the queue, then the item being delivered, then the     *)
(* tasks that wait, in the order of their numbers.                           *)

Ordered(s) == \A i, j \in 1 .. Len(s) : i <= j => s[i].id <= s[j].id

\* p: the queue, c: the item in delivery, w: the waiting tasks, e: the newest
\* number, l: the newest number stored
InLine(p, c, w, e, l) ==
    /\ p \in Seq(Items) /\ w \in Seq(Items) /\ c \in Items \cup {NoItem}
    /\ e \in Nat /\ l \in Nat /\ l <= e
    /\ Ordered(p) /\ Ordered(w)
    /\ \A i \in 1 .. Len(p) : l <= p[i].id /\ p[i].id <= e
    /\ \A j \in 1 .. Len(w) : l <= w[j].id /\ w[j].id <= e
    /\ \A i \in 1 .. Len(p) : \A j \in 1 .. Len(w) : p[i].id <= w[j].id
    /\ c # NoItem => /\ l <= c.id /\ c.id <= e
                     /\ \A i \in 1 .. Len(p) : p[i].id <= c.id
                     /\ \A j \in 1 .. Len(w) : c.id <= w[j].id

LEMMA ItemIds ==
    /\ \A i \in Items : i.id \in Nat
    /\ \A s \in Seq(Items) : \A i \in 1 .. Len(s) : s[i] \in Items /\ s[i].id \in Nat
    /\ NoItem \notin Items
  <1>1. MaxEmit \in Nat
    BY ClientAssumption
  <1>2. \A i \in Items : i.id \in Nat /\ i.id # 0
    BY <1>1 DEF Items
  <1>3. NoItem.id = 0
    BY DEF NoItem
  <1>4. QED BY <1>2, <1>3

LEMMA LineThinned ==
    ASSUME NEW p, NEW c, NEW w, NEW e, NEW l, InLine(p, c, w, e, l),
           NEW p2 \in Seq(Items), Thinned(p2, p), NEW w2 \in Seq(Items), Thinned(w2, w),
           NEW c2 \in {c, NoItem}
    PROVE  InLine(p2, c2, w2, e, l)
  <1>1. PICK f \in [1 .. Len(p2) -> 1 .. Len(p)] :
          /\ \A i \in 1 .. Len(p2) : p2[i] = p[f[i]]
          /\ \A i, j \in 1 .. Len(p2) : i <= j => f[i] <= f[j]
    BY DEF Thinned
  <1>2. PICK g \in [1 .. Len(w2) -> 1 .. Len(w)] :
          /\ \A i \in 1 .. Len(w2) : w2[i] = w[g[i]]
          /\ \A i, j \in 1 .. Len(w2) : i <= j => g[i] <= g[j]
    BY DEF Thinned
  <1>3. \A i \in 1 .. Len(p2) : f[i] \in 1 .. Len(p)
    BY <1>1
  <1>4. \A i \in 1 .. Len(w2) : g[i] \in 1 .. Len(w)
    BY <1>2
  <1>5. Ordered(p2)
    BY <1>1, <1>3 DEF Ordered, InLine
  <1>6. Ordered(w2)
    BY <1>2, <1>4 DEF Ordered, InLine
  <1>7. \A i \in 1 .. Len(p2) : l <= p2[i].id /\ p2[i].id <= e
    BY <1>1, <1>3 DEF InLine
  <1>8. \A j \in 1 .. Len(w2) : l <= w2[j].id /\ w2[j].id <= e
    BY <1>2, <1>4 DEF InLine
  <1>9. \A i \in 1 .. Len(p2) : \A j \in 1 .. Len(w2) : p2[i].id <= w2[j].id
    BY <1>1, <1>2, <1>3, <1>4 DEF InLine
  <1>10. ASSUME c2 # NoItem
         PROVE  /\ l <= c2.id /\ c2.id <= e
                /\ \A i \in 1 .. Len(p2) : p2[i].id <= c2.id
                /\ \A j \in 1 .. Len(w2) : c2.id <= w2[j].id
    BY <1>1, <1>2, <1>3, <1>4, <1>10 DEF InLine
  <1>11. /\ c2 \in Items \cup {NoItem} /\ e \in Nat /\ l \in Nat /\ l <= e
    BY DEF InLine
  <1>12. QED BY <1>5, <1>6, <1>7, <1>8, <1>9, <1>10, <1>11 DEF InLine

\* A new task waits behind the others.
LEMMA LineGrows ==
    ASSUME NEW p, NEW c, NEW w, NEW e, NEW l, InLine(p, c, w, e, l),
           NEW x \in Items, e <= x.id
    PROVE  InLine(p, c, Append(w, x), x.id, l)
  <1> DEFINE v == Append(w, x)
             n == Len(w)
  <1>1. /\ w \in Seq(Items) /\ p \in Seq(Items) /\ n \in Nat /\ x.id \in Nat
        /\ e \in Nat /\ l \in Nat /\ l <= e
    BY ItemIds DEF InLine
  <1>2. v \in Seq(Items) /\ Len(v) = n + 1 /\ v[n + 1] = x
    BY <1>1, AppendProperties
  <1>3. \A i \in 1 .. n : v[i] = w[i]
    BY <1>1, AppendProperties
  <1> HIDE DEF v, n
  <1>4. \A j \in 1 .. Len(v) : j \in 1 .. n \/ j = n + 1
    BY <1>1, <1>2
  <1>5. \A j \in 1 .. n : w[j] \in Items /\ w[j].id \in Nat /\ l <= w[j].id /\ w[j].id <= e
    BY <1>1, ItemIds DEF InLine, n
  <1>6. \A j \in 1 .. Len(v) : l <= v[j].id /\ v[j].id <= x.id /\ v[j].id \in Nat
    <2>1. \A j \in 1 .. n : l <= v[j].id /\ v[j].id <= x.id /\ v[j].id \in Nat
      BY <1>1, <1>3, <1>5
    <2>2. l <= v[n + 1].id /\ v[n + 1].id <= x.id
      BY <1>1, <1>2
    <2>3. QED BY <1>1, <1>2, <1>4, <2>1, <2>2
  <1>7. Ordered(v)
    <2> SUFFICES ASSUME NEW i \in 1 .. Len(v), NEW j \in 1 .. Len(v), i <= j
                 PROVE  v[i].id <= v[j].id
      BY DEF Ordered
    <2>1. CASE j \in 1 .. n
      <3>1. i \in 1 .. n
        BY <1>1, <1>2, <2>1
      <3>2. w[i].id <= w[j].id
        BY <2>1, <3>1 DEF InLine, Ordered, n
      <3>3. QED BY <1>3, <2>1, <3>1, <3>2
    <2>2. CASE j = n + 1
      BY <1>2, <1>6, <2>2
    <2>3. QED BY <1>4, <2>1, <2>2
  <1>8. \A i \in 1 .. Len(p) : l <= p[i].id /\ p[i].id <= x.id /\ p[i].id \in Nat
    <2>1. \A i \in 1 .. Len(p) : l <= p[i].id /\ p[i].id <= e /\ p[i].id \in Nat
      BY <1>1, ItemIds DEF InLine
    <2>2. QED BY <1>1, <2>1
  <1>9. ASSUME NEW i \in 1 .. Len(p), NEW j \in 1 .. Len(v) PROVE p[i].id <= v[j].id
    <2>1. CASE j \in 1 .. n
      BY <1>3, <2>1 DEF InLine, n
    <2>2. CASE j = n + 1
      BY <1>2, <1>8, <2>2
    <2>3. QED BY <1>4, <2>1, <2>2
  <1>10. ASSUME c # NoItem
         PROVE  /\ l <= c.id /\ c.id <= x.id
                /\ \A i \in 1 .. Len(p) : p[i].id <= c.id
                /\ \A j \in 1 .. Len(v) : c.id <= v[j].id
    <2>1. c \in Items /\ c.id \in Nat /\ l <= c.id /\ c.id <= e
      BY <1>10, ItemIds DEF InLine
    <2>2. c.id <= x.id
      BY <1>1, <2>1
    <2>3. \A i \in 1 .. Len(p) : p[i].id <= c.id
      BY <1>10 DEF InLine
    <2>4. ASSUME NEW j \in 1 .. Len(v) PROVE c.id <= v[j].id
      <3>1. CASE j \in 1 .. n
        BY <1>3, <1>10, <3>1 DEF InLine, n
      <3>2. CASE j = n + 1
        BY <1>2, <2>2, <3>2
      <3>3. QED BY <1>4, <3>1, <3>2
    <2>5. QED BY <2>1, <2>2, <2>3, <2>4
  <1>11. l <= x.id /\ Ordered(p) /\ c \in Items \cup {NoItem}
    BY <1>1 DEF InLine
  <1>12. InLine(p, c, v, x.id, l)
    BY <1>1, <1>2, <1>6, <1>7, <1>8, <1>9, <1>10, <1>11 DEF InLine
  <1>13. QED BY <1>12 DEF v

\* The first waiting task gets the lock.
LEMMA LineAdvances ==
    ASSUME NEW p, NEW w, NEW e, NEW l, InLine(p, NoItem, w, e, l), w # <<>>
    PROVE  InLine(p, Head(w), Tail(w), e, l)
  <1>1. w \in Seq(Items)
    BY DEF InLine
  <1>2. /\ Tail(w) \in Seq(Items) /\ Thinned(Tail(w), w)
        /\ Head(w) \in Items /\ Head(w) = w[1] /\ 1 \in 1 .. Len(w)
    BY <1>1, TailIsThinned
  <1>3. \A i \in 1 .. Len(Tail(w)) : i + 1 \in 1 .. Len(w) /\ Tail(w)[i] = w[i + 1]
    BY <1>1, TailIsThinned
  <1>4. InLine(p, NoItem, Tail(w), e, l)
    <2>1. p \in Seq(Items) /\ Thinned(p, p)
      BY WholeIsThinned DEF InLine
    <2>2. QED BY <1>2, <2>1, LineThinned
  <1>5. l <= w[1].id /\ w[1].id <= e /\ \A i \in 1 .. Len(p) : p[i].id <= w[1].id
    BY <1>2 DEF InLine
  <1>6. ASSUME NEW j \in 1 .. Len(Tail(w)) PROVE w[1].id <= Tail(w)[j].id
    <2>1. 1 <= j + 1 /\ j + 1 \in 1 .. Len(w) /\ Tail(w)[j] = w[j + 1]
      BY <1>3
    <2>2. QED BY <1>2, <2>1 DEF InLine, Ordered
  <1>7. QED BY <1>2, <1>4, <1>5, <1>6 DEF InLine

\* The item in delivery goes to the end of the queue.
LEMMA LineQueues ==
    ASSUME NEW p, NEW c, NEW w, NEW e, NEW l, InLine(p, c, w, e, l), c # NoItem
    PROVE  InLine(Append(p, c), NoItem, w, e, l)
  <1> DEFINE v == Append(p, c)
             n == Len(p)
  <1>1. /\ w \in Seq(Items) /\ p \in Seq(Items) /\ n \in Nat /\ c \in Items /\ c.id \in Nat
        /\ e \in Nat /\ l \in Nat /\ l <= e /\ Ordered(w)
        /\ l <= c.id /\ c.id <= e
    BY ItemIds DEF InLine
  <1>2. v \in Seq(Items) /\ Len(v) = n + 1 /\ v[n + 1] = c
    BY <1>1, AppendProperties
  <1>3. \A i \in 1 .. n : v[i] = p[i]
    BY <1>1, AppendProperties
  <1> HIDE DEF v, n
  <1>4. \A j \in 1 .. Len(v) : j \in 1 .. n \/ j = n + 1
    BY <1>1, <1>2
  <1>5. ASSUME NEW i \in 1 .. Len(v)
        PROVE  /\ l <= v[i].id /\ v[i].id <= e /\ v[i].id <= c.id
               /\ \A j \in 1 .. Len(w) : v[i].id <= w[j].id
    <2>1. CASE i \in 1 .. n
      BY <1>3, <2>1 DEF InLine, n
    <2>2. CASE i = n + 1
      <3>1. v[i] = c /\ c.id <= c.id
        BY <1>1, <1>2, <2>2
      <3>2. \A j \in 1 .. Len(w) : c.id <= w[j].id
        BY DEF InLine
      <3>3. QED BY <1>1, <3>1, <3>2
    <2>3. QED BY <1>4, <2>1, <2>2
  <1>6. Ordered(v)
    <2> SUFFICES ASSUME NEW i \in 1 .. Len(v), NEW j \in 1 .. Len(v), i <= j
                 PROVE  v[i].id <= v[j].id
      BY DEF Ordered
    <2>1. CASE j \in 1 .. n
      <3>1. i \in 1 .. n
        BY <1>1, <1>2, <2>1
      <3>2. p[i].id <= p[j].id
        BY <2>1, <3>1 DEF InLine, Ordered, n
      <3>3. QED BY <1>3, <2>1, <3>1, <3>2
    <2>2. CASE j = n + 1
      BY <1>2, <1>5, <2>2
    <2>3. QED BY <1>4, <2>1, <2>2
  <1>7. \A j \in 1 .. Len(w) : l <= w[j].id /\ w[j].id <= e
    BY DEF InLine
  <1>8. InLine(v, NoItem, w, e, l)
    BY <1>1, <1>2, <1>5, <1>6, <1>7 DEF InLine
  <1>9. QED BY <1>8 DEF v

\* The server stores the first item of the line.
LEMMA LineStored ==
    ASSUME NEW p, NEW c, NEW w, NEW e, NEW l, InLine(p, c, w, e, l), c # NoItem
    PROVE  /\ p = <<>> => l <= c.id /\ InLine(p, c, w, e, c.id)
           /\ p # <<>> => l <= Head(p).id /\ InLine(p, c, w, e, Head(p).id)
  <1>1. /\ p \in Seq(Items) /\ w \in Seq(Items) /\ c \in Items /\ c.id \in Nat /\ c.id <= c.id
        /\ l <= c.id /\ c.id <= e /\ e \in Nat
    BY ItemIds DEF InLine
  <1>2. CASE p = <<>>
    <2>1. Len(p) = 0 /\ 1 .. Len(p) = {}
      BY <1>2
    <2>2. InLine(p, c, w, e, c.id)
      BY <1>1, <2>1 DEF InLine
    <2>3. QED BY <1>1, <1>2, <2>2
  <1>3. CASE p # <<>>
    <2>1. Head(p) = p[1] /\ 1 \in 1 .. Len(p) /\ Head(p) \in Items /\ p[1].id \in Nat
      BY <1>1, <1>3, TailIsThinned, ItemIds
    <2>2. l <= p[1].id /\ p[1].id <= e /\ p[1].id <= c.id
          /\ \A j \in 1 .. Len(w) : p[1].id <= w[j].id
      BY <2>1 DEF InLine
    <2>3. \A i \in 1 .. Len(p) : p[1].id <= p[i].id
      BY <2>1 DEF InLine, Ordered
    <2>4. InLine(p, c, w, e, p[1].id)
      BY <1>1, <2>1, <2>2, <2>3 DEF InLine
    <2>5. QED BY <1>3, <2>1, <2>2, <2>4
  <1>4. QED BY <1>2, <1>3

-----------------------------------------------------------------------------
(* The steps of the client.                                                  *)

LineInv == InLine(pending, cur, waiters, emitted, last)

ClientOK == ClientInv /\ LineInv

\* The queue and the waiting tasks as they are.
LEMMA LineOfNow ==
    ASSUME ClientInv
    PROVE  /\ pending \in Seq(Items) /\ Thinned(pending, pending)
           /\ waiters \in Seq(Items) /\ Thinned(waiters, waiters)
  BY WholeIsThinned DEF ClientInv

\* An item that a task starts with: Emit, Heartbeat, telemetry.events_dropped.
LEMMA NewTask ==
    ASSUME NEW k \in STRING, emitted \in 0 .. MaxEmit, NEW p, NEW c, NEW w, NEW l,
           InLine(p, c, w, emitted, l)
    PROVE  /\ Append(w, Item(k)) \in Seq(Items) /\ NextId \in 0 .. MaxEmit
           /\ InLine(p, c, Append(w, Item(k)), NextId, l)
  <1>1. NextId \in 1 .. MaxEmit /\ emitted <= NextId /\ Item(k) \in Items /\ Item(k).id = NextId
    BY NextIdFine
  <1>2. InLine(p, c, Append(w, Item(k)), Item(k).id, l)
    BY <1>1, LineGrows
  <1>3. Append(w, Item(k)) \in Seq(Items)
    BY <1>2 DEF InLine
  <1>4. NextId \in 0 .. MaxEmit
    <2>1. MaxEmit \in Nat
      BY ClientAssumption
    <2>2. QED BY <1>1, <2>1
  <1>5. QED BY <1>1, <1>2, <1>3, <1>4

\* What an attempt delivers comes first in the line.
LEMMA TargetStored ==
    ASSUME ClientOK, cur # NoItem
    PROVE  /\ last <= Target.id /\ Target.id \in 0 .. MaxEmit
           /\ InLine(pending, cur, waiters, emitted, Target.id)
  <1>1. Target = IF pending = <<>> THEN cur ELSE Head(pending)
    BY DEF ClientOK, ClientInv, Target
  <1>2. Target \in Items
    BY TargetIsItem DEF ClientOK
  <1>3. Target.id \in 0 .. MaxEmit
    <2>1. MaxEmit \in Nat
      BY ClientAssumption
    <2>2. Target.id \in 1 .. MaxEmit
      BY <1>2 DEF Items
    <2>3. QED BY <2>1, <2>2
  <1>4. QED BY <1>1, <1>3, LineStored DEF ClientOK, LineInv

\* _enqueue_delivery: the own item is queued, at the limit the oldest goes.
LEMMA QueuedFine ==
    ASSUME NEW p, NEW c, NEW w, NEW e, NEW l, InLine(p, c, w, e, l), c # NoItem
    PROVE  InLine(Queued(p, c), NoItem, w, e, l)
  <1>1. p \in Seq(Items) /\ w \in Seq(Items) /\ Thinned(w, w)
    BY WholeIsThinned DEF InLine
  <1>2. CASE Len(p) >= MaxPending
    <2>1. p # <<>>
      <3>1. MaxPending \in Nat \ {0} /\ Len(<<>>) = 0
        BY ClientAssumption
      <3>2. QED BY <1>2, <3>1
    <2>2. Tail(p) \in Seq(Items) /\ Thinned(Tail(p), p)
      BY <1>1, <2>1, TailIsThinned
    <2>3. InLine(Tail(p), c, w, e, l)
      BY <1>1, <2>2, LineThinned
    <2>4. Queued(p, c) = Append(Tail(p), c)
      BY <1>2 DEF Queued
    <2>5. QED BY <2>3, <2>4, LineQueues
  <1>3. CASE ~(Len(p) >= MaxPending)
    <2>1. Queued(p, c) = Append(p, c)
      BY <1>3 DEF Queued
    <2>2. QED BY <2>1, LineQueues
  <1>4. QED BY <1>2, <1>3

\* A step that leaves the newest stored number alone.
LEMMA LineToInv ==
    ASSUME InLine(pending', cur', waiters', emitted', last'),
           stage' \in {"own", "flush"}, emitted' \in 0 .. MaxEmit, last' \in 0 .. MaxEmit,
           cur' # NoItem => (stage' = "flush" <=> pending' # <<>>)
    PROVE  ClientOK'
  <1>1. LineInv'
    BY DEF LineInv
  <1>2. pending' \in Seq(Items) /\ waiters' \in Seq(Items) /\ cur' \in Items \cup {NoItem}
    BY DEF InLine
  <1>3. ClientInv'
    BY <1>2 DEF ClientInv
  <1>4. QED BY <1>1, <1>3 DEF ClientOK

LEMMA SourcesFine ==
    ASSUME ClientOK, (\E k \in EventKinds : Emit(k)) \/ Heartbeat \/ Start \/ Pause \/ Stop \/ Acquire
    PROVE  ClientOK' /\ last' = last
  <1>0. /\ last \in 0 .. MaxEmit /\ emitted \in 0 .. MaxEmit /\ stage \in {"own", "flush"}
        /\ InLine(pending, cur, waiters, emitted, last)
        /\ cur # NoItem => (stage = "flush" <=> pending # <<>>)
    BY DEF ClientOK, ClientInv, LineInv
  <1>1. ASSUME NEW k \in EventKinds, Emit(k) PROVE ClientOK' /\ last' = last
    <2>1. k \in STRING
      BY ClientAssumption
    <2>2. /\ waiters' = Append(waiters, Item(k)) /\ emitted' = NextId
          /\ UNCHANGED <<cur, stage, pending, last>>
      BY <1>1 DEF Emit
    <2>3. /\ NextId \in 0 .. MaxEmit
          /\ InLine(pending, cur, Append(waiters, Item(k)), NextId, last)
      BY <1>0, <2>1, NewTask
    <2>4. InLine(pending', cur', waiters', emitted', last')
      BY <2>2, <2>3
    <2>5. QED BY <1>0, <2>2, <2>3, <2>4, LineToInv
  <1>2. CASE Heartbeat
    <2>1. "heartbeat" \in STRING
      BY ClientAssumption
    <2>2. /\ waiters' = Append(waiters, Item("heartbeat")) /\ emitted' = NextId
          /\ UNCHANGED <<cur, stage, pending, last>>
      BY <1>2 DEF Heartbeat
    <2>3. /\ NextId \in 0 .. MaxEmit
          /\ InLine(pending, cur, Append(waiters, Item("heartbeat")), NextId, last)
      BY <1>0, <2>1, NewTask
    <2>4. InLine(pending', cur', waiters', emitted', last')
      BY <2>2, <2>3
    <2>5. QED BY <1>0, <2>2, <2>3, <2>4, LineToInv
  <1>3. CASE Start
    <2>1. UNCHANGED <<waiters, cur, stage, pending, emitted, last>>
      BY <1>3 DEF Start
    <2>2. InLine(pending', cur', waiters', emitted', last')
      BY <1>0, <2>1
    <2>3. QED BY <1>0, <2>1, <2>2, LineToInv
  <1>4. CASE Pause
    <2> DEFINE w == RemoveFirstMatch(waiters, IsHeartbeat)
    <2>1. /\ waiters' = w /\ cur' \in {cur, NoItem}
          /\ UNCHANGED <<stage, pending, emitted, last>>
      BY <1>4 DEF Pause
    <2>2. w \in Seq(Items) /\ Thinned(w, waiters)
      BY HeartbeatTakenOut DEF ClientOK, ClientInv
    <2> HIDE DEF w
    <2>3. InLine(pending, cur', w, emitted, last)
      BY <1>0, <2>1, <2>2, LineOfNow, LineThinned DEF ClientOK
    <2>4. InLine(pending', cur', waiters', emitted', last')
      BY <2>1, <2>3
    <2>5. QED BY <1>0, <2>1, <2>4, LineToInv
  <1>5. CASE Stop
    <2>1. /\ waiters' = <<>> /\ cur' = NoItem
          /\ UNCHANGED <<stage, pending, emitted, last>>
      BY <1>5 DEF Stop
    <2>2. <<>> \in Seq(Items) /\ Thinned(<<>>, waiters)
      BY EmptyIsThinned DEF ClientOK, ClientInv
    <2>3. InLine(pending, NoItem, <<>>, emitted, last)
      BY <1>0, <2>2, LineOfNow, LineThinned DEF ClientOK
    <2>4. InLine(pending', cur', waiters', emitted', last')
      BY <2>1, <2>3
    <2>5. QED BY <1>0, <2>1, <2>4, LineToInv
  <1>6. CASE Acquire
    <2>1. /\ cur = NoItem /\ waiters # <<>> /\ cur' = Head(waiters) /\ waiters' = Tail(waiters)
          /\ stage' = IF pending = <<>> THEN "own" ELSE "flush"
          /\ UNCHANGED <<pending, emitted, last>>
      BY <1>6 DEF Acquire
    <2>2. InLine(pending, NoItem, waiters, emitted, last)
      BY <1>0, <2>1
    <2>3. InLine(pending, Head(waiters), Tail(waiters), emitted, last)
      BY <2>1, <2>2, LineAdvances
    <2>4. InLine(pending', cur', waiters', emitted', last')
      BY <2>1, <2>3
    <2>5. QED BY <1>0, <2>1, <2>4, LineToInv
  <1>7. QED BY <1>1, <1>2, <1>3, <1>4, <1>5, <1>6

LEMMA DeliverOkFine ==
    ASSUME ClientOK, DeliverOk
    PROVE  ClientOK' /\ last <= last'
  <1>0. /\ cur # NoItem /\ last' = Target.id
        /\ UNCHANGED <<waiters, emitted>>
        /\ emitted \in 0 .. MaxEmit /\ stage \in {"own", "flush"}
        /\ stage = "flush" <=> pending # <<>>
    BY DEF DeliverOk, ClientOK, ClientInv
  <1>1. /\ last <= Target.id /\ Target.id \in 0 .. MaxEmit
        /\ InLine(pending, cur, waiters, emitted, Target.id)
    BY <1>0, TargetStored
  <1>2. CASE stage = "own"
    <2>1. cur' = NoItem /\ UNCHANGED <<pending, stage>>
      BY <1>2 DEF DeliverOk, Done
    <2>2. InLine(pending, NoItem, waiters, emitted, Target.id)
      BY <1>1, LineOfNow, LineThinned DEF ClientOK
    <2>3. InLine(pending', cur', waiters', emitted', last')
      BY <1>0, <2>1, <2>2
    <2>4. QED BY <1>0, <1>1, <2>1, <2>3, LineToInv
  <1>3. CASE stage = "flush"
    <2>1. /\ pending' = Tail(pending) /\ UNCHANGED cur
          /\ stage' = IF pending' = <<>> THEN "own" ELSE "flush"
      BY <1>3 DEF DeliverOk, HeadPopped
    <2>2. Tail(pending) \in Seq(Items) /\ Thinned(Tail(pending), pending)
      BY <1>0, <1>3, TailIsThinned DEF ClientOK, ClientInv
    <2>3. InLine(Tail(pending), cur, waiters, emitted, Target.id)
      BY <1>1, <2>2, LineOfNow, LineThinned DEF ClientOK
    <2>4. InLine(pending', cur', waiters', emitted', last')
      BY <1>0, <2>1, <2>3
    <2>5. QED BY <1>0, <1>1, <2>1, <2>4, LineToInv
  <1>4. QED BY <1>0, <1>2, <1>3

LEMMA DeliverFailsFine ==
    ASSUME ClientOK, DeliverFails
    PROVE  ClientOK' /\ last <= last'
  <1>0. /\ cur # NoItem /\ UNCHANGED stage
        /\ emitted \in 0 .. MaxEmit /\ stage \in {"own", "flush"} /\ last \in 0 .. MaxEmit
        /\ stage = "flush" <=> pending # <<>>
    BY DEF DeliverFails, ClientOK, ClientInv
  <1>1. /\ last <= last' /\ last' \in 0 .. MaxEmit
        /\ InLine(pending, cur, waiters, emitted, last')
    <2>1. CASE last' = last
      <3>1. last <= last
        <4>1. MaxEmit \in Nat
          BY ClientAssumption
        <4>2. QED BY <1>0, <4>1
      <3>2. QED BY <1>0, <2>1, <3>1 DEF ClientOK, LineInv
    <2>2. CASE last' = Target.id
      BY <1>0, <2>2, TargetStored
    <2>3. QED BY <2>1, <2>2 DEF DeliverFails
  <1>2. CASE ~LastAttempt
    <2>1. UNCHANGED <<waiters, cur, pending, emitted>>
      BY <1>2 DEF DeliverFails
    <2>2. InLine(pending', cur', waiters', emitted', last')
      BY <1>1, <2>1
    <2>3. QED BY <1>0, <1>1, <2>1, <2>2, LineToInv
  <1>3. CASE LastAttempt
    <2>1. /\ pending' = Queued(pending, cur) /\ cur' = NoItem
          /\ IF Len(pending) >= MaxPending
             THEN /\ waiters' = Append(waiters, Item("telemetry.events_dropped"))
                  /\ emitted' = NextId
             ELSE UNCHANGED <<waiters, emitted>>
      BY <1>3 DEF DeliverFails, GiveUp, Done
    <2>2. InLine(Queued(pending, cur), NoItem, waiters, emitted, last')
      BY <1>0, <1>1, QueuedFine
    <2>3. CASE Len(pending) >= MaxPending
      <3>1. "telemetry.events_dropped" \in STRING
        BY ClientAssumption
      <3>2. /\ NextId \in 0 .. MaxEmit
            /\ InLine(Queued(pending, cur), NoItem,
                      Append(waiters, Item("telemetry.events_dropped")), NextId, last')
        BY <1>0, <2>2, <3>1, NewTask
      <3>3. waiters' = Append(waiters, Item("telemetry.events_dropped")) /\ emitted' = NextId
        BY <2>1, <2>3
      <3>4. InLine(pending', cur', waiters', emitted', last')
        BY <2>1, <3>2, <3>3
      <3>5. QED BY <1>0, <1>1, <2>1, <3>2, <3>3, <3>4, LineToInv
    <2>4. CASE ~(Len(pending) >= MaxPending)
      <3>1. UNCHANGED <<waiters, emitted>>
        BY <2>1, <2>4
      <3>2. InLine(pending', cur', waiters', emitted', last')
        BY <2>1, <2>2, <3>1
      <3>3. QED BY <1>0, <1>1, <2>1, <3>1, <3>2, LineToInv
    <2>5. QED BY <2>3, <2>4
  <1>4. QED BY <1>2, <1>3

-----------------------------------------------------------------------------
(* Theorems.                                                                 *)

TelemetryInv == ServerInv /\ ClientOK

LEMMA TelemetryInit == Init => TelemetryInv
  <1> SUFFICES ASSUME Init PROVE TelemetryInv
    OBVIOUS
  <1>1. ServerInv
    BY ServerStarted DEF Init
  <1>2. MaxEmit \in Nat \ {0}
    BY ClientAssumption
  <1>3. /\ waiters = <<>> /\ cur = NoItem /\ stage = "own" /\ pending = <<>>
        /\ emitted = 0 /\ last = 0
    BY DEF Init
  <1>4. <<>> \in Seq(Items) /\ Len(<<>>) = 0 /\ 1 .. 0 = {}
    OBVIOUS
  <1>5. emitted \in 0 .. MaxEmit /\ last \in 0 .. MaxEmit /\ 0 <= 0
    BY <1>2, <1>3
  <1>6. ClientInv
    BY <1>3, <1>4, <1>5 DEF ClientInv
  <1>7. LineInv
    BY <1>3, <1>4, <1>5 DEF LineInv, InLine, Ordered
  <1>8. QED BY <1>1, <1>6, <1>7 DEF TelemetryInv, ClientOK

\* Nothing happens to the client.
LEMMA ClientIdle ==
    ASSUME ClientOK, UNCHANGED <<clientVars, last>>
    PROVE  ClientOK' /\ last <= last'
  <1>1. UNCHANGED <<waiters, cur, stage, pending, emitted, last>>
    BY DEF clientVars
  <1>2. ClientInv'
    BY <1>1 DEF ClientOK, ClientInv
  <1>3. LineInv'
    BY <1>1 DEF ClientOK, LineInv
  <1>4. last \in Nat
    BY DEF ClientOK, LineInv, InLine
  <1>5. QED BY <1>1, <1>2, <1>3, <1>4 DEF ClientOK

LEMMA NothingNew == ASSUME UNCHANGED stream PROVE NoGap
  BY DEF NoGap

LEMMA TelemetryNext ==
    ASSUME TelemetryInv, [Next]_vars
    PROVE  TelemetryInv' /\ NoGap /\ last <= last'
  <1> USE DEF TelemetryInv
  <1>0. last \in Nat
    BY DEF ClientOK, LineInv, InLine
  <1>1. ASSUME (\E k \in EventKinds : Emit(k)) \/ Heartbeat \/ Start \/ Pause \/ Stop \/ Acquire
        PROVE  TelemetryInv' /\ NoGap /\ last <= last'
    <2>1. ClientOK' /\ last' = last
      BY <1>1, SourcesFine
    <2>2. UNCHANGED serverVars
      BY <1>1 DEF Emit, Heartbeat, Start, Pause, Stop, Acquire
    <2>3. ServerInv'
      BY <2>2, ServerIdle
    <2>4. NoGap
      BY <2>2, NothingNew DEF serverVars
    <2>5. QED BY <1>0, <2>1, <2>3, <2>4
  <1>2. ASSUME DeliverOk PROVE TelemetryInv' /\ NoGap /\ last <= last'
    <2>1. ClientOK' /\ last <= last'
      BY <1>2, DeliverOkFine
    <2>2. Report(Target) \in Reports /\ Ingest(Report(Target))
      BY <1>2, TargetIsItem DEF DeliverOk, ClientOK
    <2>3. ServerInv' /\ NoGap
      BY <2>2, IngestFine
    <2>4. QED BY <2>1, <2>3
  <1>3. ASSUME DeliverFails PROVE TelemetryInv' /\ NoGap /\ last <= last'
    <2>1. ClientOK' /\ last <= last'
      BY <1>3, DeliverFailsFine
    <2>2. CASE UNCHANGED serverVars
      <3>1. ServerInv' /\ NoGap
        BY <2>2, ServerIdle, NothingNew DEF serverVars
      <3>2. QED BY <2>1, <3>1
    <2>3. CASE Ingest(Report(Target))
      <3>1. Report(Target) \in Reports
        BY <1>3, TargetIsItem DEF DeliverFails, ClientOK
      <3>2. ServerInv' /\ NoGap
        BY <2>3, <3>1, IngestFine
      <3>3. QED BY <2>1, <3>2
    <2>4. QED BY <1>3, <2>2, <2>3 DEF DeliverFails
  <1>4. ASSUME NEW rep \in OtherReports, OtherReport(rep)
        PROVE  TelemetryInv' /\ NoGap /\ last <= last'
    <2>1. ClientOK' /\ last <= last'
      BY <1>4, ClientIdle DEF OtherReport
    <2>2. rep \in Reports /\ Ingest(rep)
      BY <1>4, ClientAssumption DEF OtherReport
    <2>3. ServerInv' /\ NoGap
      BY <2>2, IngestFine
    <2>4. QED BY <2>1, <2>3
  <1>5. ASSUME ServerStep, UNCHANGED <<clientVars, others, last>>
        PROVE  TelemetryInv' /\ NoGap /\ last <= last'
    <2>1. ClientOK' /\ last <= last'
      BY <1>5, ClientIdle
    <2>2. ServerInv' /\ NoGap
      BY <1>5, ServerStepFine
    <2>3. QED BY <2>1, <2>2
  <1>6. ASSUME UNCHANGED vars PROVE TelemetryInv' /\ NoGap /\ last <= last'
    <2>1. ClientOK' /\ last <= last'
      BY <1>6, ClientIdle DEF vars
    <2>2. ServerInv' /\ NoGap
      BY <1>6, ServerIdle, NothingNew DEF vars, serverVars
    <2>3. QED BY <2>1, <2>2
  <1>7. QED BY <1>1, <1>2, <1>3, <1>4, <1>5, <1>6 DEF Next

LEMMA TelemetryInvHolds == Spec => []TelemetryInv
  <1>1. TelemetryInv /\ [Next]_vars => TelemetryInv'
    BY TelemetryNext
  <1>2. QED BY <1>1, TelemetryInit, PTL DEF Spec

\* A dashboard is always shown one picture, within the store's limits
\* (TelemetryStore._drop_node, _update_node_swarm_state, _prune_*).
THEOREM StoreStaysConsistent == Spec => []StoreConsistent
  <1>1. TelemetryInv => StoreConsistent
    <2> SUFFICES ASSUME TelemetryInv PROVE StoreConsistent
      OBVIOUS
    <2>1. TablesInv /\ StreamInv /\ TokensInv
      BY DEF TelemetryInv, ServerInv
    <2>2. ServerTypeOK
      <3>1. known \subseteq Nodes /\ Cardinality(known) <= MaxNodes
        BY <2>1 DEF TablesInv, NodesInv
      <3>2. swarmOf \in [Nodes -> Swarms \cup {NoSwarm}] /\ swarmNodes \in [Swarms -> SUBSET Nodes]
        BY <2>1 DEF TablesInv, IndexInv
      <3>3. /\ peers \in [Nodes -> SUBSET Nodes]
            /\ \A n \in Nodes : /\ Len(events[n]) <= MaxEvents
                                /\ Cardinality(rounds[n]) <= MaxRounds
        BY <2>1 DEF TablesInv, RecordsInv
      <3>4. edges \subseteq Nodes \X Nodes \X {"transfer", "link"} /\ Cardinality(edges) <= MaxEdges
        BY <2>1 DEF TablesInv, EdgesInv
      <3>5. pub \in 0 .. QueueCap + 1 /\ \A v \in Viewers : Len(stream[v].q) <= QueueCap
        BY <2>1 DEF StreamInv, ConnInv, Marks
      <3>6. /\ up \in BOOLEAN /\ code \in {"none", "issued", "viewer"}
            /\ registry \subseteq Swarms /\ file \subseteq Swarms /\ issued \subseteq Swarms
            /\ torn \in BOOLEAN /\ crashes \in 0 .. MaxCrashes
        BY <2>1 DEF TokensInv
      <3>7. QED BY <3>1, <3>2, <3>3, <3>4, <3>5, <3>6 DEF ServerTypeOK
    <2>3. \A s \in Swarms : swarmNodes[s] = {n \in known : swarmOf[n] = s}
      BY <2>1 DEF TablesInv, IndexInv
    <2>4. \A p \in GetSwarms : p[2] = Cardinality({n \in known : swarmOf[n] = p[1]})
      BY <2>3 DEF GetSwarms
    <2>5. {n \in Nodes : events[n] # <<>>} \cup {n \in Nodes : rounds[n] # {}} \subseteq known
      BY <2>1 DEF TablesInv, RecordsInv
    <2>6. \A e \in edges : {e[1], e[2]} \cap known # {}
      BY <2>1 DEF TablesInv, EdgesInv
    <2> DEFINE view == GetDashboardSnapshot
    <2>7. /\ view.swarms = GetSwarms /\ view.nodes = known /\ view.edges = edges
          /\ view.events = {n \in Nodes : events[n] # <<>>}
          /\ view.rounds = {n \in Nodes : rounds[n] # {}}
      BY DEF GetDashboardSnapshot
    <2>8. QED BY <2>2, <2>3, <2>4, <2>5, <2>6, <2>7 DEF StoreConsistent
  <1>2. QED BY <1>1, TelemetryInvHolds, PTL

\* Every token handed out resolves while the server runs, unless a rewrite of
\* the token file was cut short (TelemetryTokenRegistry.persist and load).
THEOREM TokensKeepResolving == Spec => []TokensSurvive
  <1>1. TelemetryInv => TokensSurvive
    BY DEF TelemetryInv, ServerInv, TokensInv, TokensSurvive
  <1>2. QED BY <1>1, TelemetryInvHolds, PTL

\* A viewer is sent consecutive messages until its websocket closes
\* (TelemetryStreamHub.publish and telemetry_stream).
THEOREM StreamsSkipNothing == Spec => StreamHasNoGap
  <1>1. TelemetryInv /\ [Next]_vars => [NoGap]_serverVars
    BY TelemetryNext
  <1>2. QED BY <1>1, TelemetryInvHolds, PTL DEF Spec, StreamHasNoGap, NoGap

\* The server stores the items of a node in the order of their emission
\* (TelemetryClient._send_serialized, _flush_pending_locked, _enqueue_delivery).
THEOREM ItemsStoredInOrder == Spec => InOrder
  <1>1. TelemetryInv /\ [Next]_vars => [last' >= last]_vars
    <2> SUFFICES ASSUME TelemetryInv, [Next]_vars PROVE last' >= last
      OBVIOUS
    <2>1. TelemetryInv' /\ last <= last'
      BY TelemetryNext
    <2>2. last \in Nat /\ last' \in Nat
      BY <2>1 DEF TelemetryInv, ClientOK, LineInv, InLine
    <2>3. QED BY <2>1, <2>2
  <1>2. QED BY <1>1, TelemetryInvHolds, PTL DEF Spec, InOrder
=============================================================================
