------------------------------ MODULE MCLocal ------------------------------
(***************************************************************************)
(* The parts of a node that work on its own data, on small instances: the  *)
(* compression pipeline, the aggregation strategies, the convergence       *)
(* monitor, the consensus tracker, the checkpoint store and the selection  *)
(* of the peers to send to.  They share no state; `part` picks one.        *)
(***************************************************************************)
EXTENDS Compression, Aggregation, Convergence, MCConsensusTracker, MCModelStore, PeerSelection

VARIABLE part

-----------------------------------------------------------------------------
(* Compression: three weights.  The quantizer's widths 4, 8, 16 and 32 and   *)
(* its cells of 8 and 16 bits are scaled down to 1, 2, 4, 8 and 2, 4 bits.   *)

MCWeights == [1..3 -> {-1, 0, 2}]
MCBases == {(1 :> 1) @@ (2 :> 0) @@ (3 :> -2)}

MCConfigs ==
    {c \in [delta : BOOLEAN, k : 0..3, levels : {0, 2, 4, 16, 256}, linear : BOOLEAN, ef : BOOLEAN] :
        /\ c.levels # 4 => c.linear
        /\ c.ef => c.k \in {1, 2} /\ c.levels \in {0, 4}}

-----------------------------------------------------------------------------
(* Aggregation: five updates, up to one of them faulty, where f is 1; up to  *)
(* three with all weights and rounds; and some too few or not finite.        *)

MkUpdate(x, s, r, h, f) == [x |-> x, samples |-> s, round |-> r, honest |-> h, finite |-> f]

RobustCases ==
    [strategy : {"trimmed", "krum", "multikrum"},
     updates : {[i \in 1..5 |-> MkUpdate(xs[i], 1, 0, i # bad, TRUE)]
                    : xs \in [1..5 -> {0, 1, 2, 5}], bad \in 0..5}]

WeightedCases ==
    LET U == {MkUpdate(x, s, r, TRUE, TRUE) : x \in {0, 1, 3}, s \in {0, 1}, r \in {0, 2}}
    IN [strategy : {"uniform", "data_size", "staleness"},
        updates : UNION {[1..n -> U] : n \in 1..3}]

RefusedCases ==
    [strategy : {"uniform", "staleness", "trimmed", "krum", "multikrum"},
     updates : {<<>>, <<MkUpdate(1, 1, 0, TRUE, FALSE)>>,
                <<MkUpdate(0, 1, 0, TRUE, TRUE), MkUpdate(1, 1, 0, TRUE, TRUE)>>}]

MCCases == RobustCases \cup WeightedCases \cup RefusedCases

-----------------------------------------------------------------------------
(* Selection: seen from a node of a manifest, four others are compatible,    *)
(* one of them without manifest and one in another domain; one is not.  Seen *)
(* from the last node, which has no manifest, only the other one without is  *)
(* in question, and its version differs.                                     *)

MkMeta(m, p, v) == [manifest |-> m, place |-> p, major |-> v]

MCMeta == <<MkMeta(1, 1, 1), MkMeta(1, 1, 1), MkMeta(1, 2, 1), MkMeta(1, 1, 1),
            MkMeta(0, 1, 1), MkMeta(0, 1, 2)>>
MCScores ==
    [p \in (1..6) \X (1..6) |->
        IF p[1] = 6 \/ p[2] \in {4, 6} THEN NoScore ELSE 20 * ((p[1] + p[2]) % 5)]
MCReliable == <<50, 20, 50, 80, 10, 90>>

-----------------------------------------------------------------------------
mcVars == <<part, cVars, aVars, vVars, kVars, sVars, pVars>>

\* The parts that are not picked rest
RestCompression ==
    Fresh /\ cfg = [delta |-> FALSE, k |-> 0, levels |-> 0, linear |-> TRUE, ef |-> FALSE]
RestAggregation ==
    case = [strategy |-> "uniform", updates |-> <<>>] /\ result = [kind |-> "none"]
RestStore == SInit /\ opts = Opts(FALSE, TRUE, FALSE, 1)
RestSelection == PInit /\ me = 1 /\ strategy = "ring"

Init ==
    /\ VInit /\ KInit
    /\ part \in {"compression", "aggregation", "convergence", "consensus", "store", "selection"}
    /\ IF part = "compression" THEN CInit ELSE RestCompression
    /\ IF part = "aggregation" THEN AInit ELSE RestAggregation
    /\ IF part = "store" THEN SInit ELSE RestStore
    /\ IF part = "selection" THEN PInit /\ me \in {4, 6} ELSE RestSelection

Next ==
    /\ UNCHANGED part
    /\ \/ part = "compression" /\ CNext /\ UNCHANGED <<aVars, vVars, kVars, sVars, pVars>>
       \/ part = "aggregation" /\ ANext /\ UNCHANGED <<cVars, vVars, kVars, sVars, pVars>>
       \/ part = "convergence" /\ VNext /\ UNCHANGED <<cVars, aVars, kVars, sVars, pVars>>
       \/ part = "consensus" /\ KNext /\ UNCHANGED <<cVars, aVars, vVars, sVars, pVars>>
       \/ part = "store" /\ SNext /\ UNCHANGED <<cVars, aVars, vVars, kVars, pVars>>
       \/ part = "selection" /\ PNext /\ UNCHANGED <<cVars, aVars, vVars, kVars, sVars>>

Spec == Init /\ [][Next]_mcVars
=============================================================================
