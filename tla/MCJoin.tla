------------------------------- MODULE MCJoin -------------------------------
(***************************************************************************)
(* The parts that bring a node into a swarm and keep it there, each on a   *)
(* small instance of its own: finding swarms, fetching a manifest, pinning *)
(* its creator, running the node, knowing its peers and letting their      *)
(* updates through.  They share no state; `part` picks one.                *)
(***************************************************************************)
EXTENDS SwarmDirectory, ManifestExchange, TofuCache, RunCommand, Membership, UpdateAdmission

CONSTANTS s1, s2, s3, c1, c2, r1, r2, n1

VARIABLE part

\* c1's data fits s1 better than the others; c2's fits s2 only
MCAffinity ==
    [p \in {c1, c2} \X {s1, s2, s3} |->
        IF p = <<c1, s1>> \/ p = <<c2, s2>> THEN 2 ELSE IF p[1] = c1 THEN 1 ELSE 0]

\* Two chunks: one that is full and one that is not
MCManifest == <<1, 2, 3>>
MCOthers == {<<1, 2, 4>>, <<1>>}

MCIdOf == (r1 :> n1) @@ (r2 :> n1)

\* Nothing tells the tasks of updates or their senders apart
Symmetry == Permutations(UpdateTasks) \cup Permutations(Senders)

mcVars == <<part, dVars, xVars, tVars, rVars, mVars, uVars>>

Init ==
    /\ part \in {"directory", "exchange", "tofu", "run", "membership", "admission"}
    /\ DInit /\ XInit /\ TInit /\ RInit /\ MInit /\ UInit
    /\ part # "membership" => bootstrap = {}

Next ==
    /\ UNCHANGED part
    /\ \/ part = "directory" /\ DNext /\ UNCHANGED <<xVars, tVars, rVars, mVars, uVars>>
       \/ part = "exchange" /\ XNext /\ UNCHANGED <<dVars, tVars, rVars, mVars, uVars>>
       \/ part = "tofu" /\ TNext /\ UNCHANGED <<dVars, xVars, rVars, mVars, uVars>>
       \/ part = "run" /\ RNext /\ UNCHANGED <<dVars, xVars, tVars, mVars, uVars>>
       \/ part = "membership" /\ MNext /\ UNCHANGED <<dVars, xVars, tVars, rVars, uVars>>
       \/ part = "admission" /\ UNext /\ UNCHANGED <<dVars, xVars, tVars, rVars, mVars>>

Spec == Init /\ [][Next]_mcVars
=============================================================================
