----------------------------- MODULE RunCommand -----------------------------
(***************************************************************************)
(* `quinkgl run` and `quinkgl status`.  A run prepares a node, announces   *)
(* it by a JSON snapshot and a socket in the work directory, trains, and   *)
(* takes both away again; status finds nodes by these two files.  Runs     *)
(* that share a work directory and a node id overlap, are interrupted by   *)
(* Ctrl-C, and are killed at any point.                                    *)
(***************************************************************************)
EXTENDS Naturals

CONSTANTS
    Runs,       \* invocations of `quinkgl run`
    NodeIds,    \* node ids
    IdOf,       \* the node id of each run
    Rounds,     \* --rounds, as _resolve_rounds caps it
    Every,      \* rounds between two periodic checkpoints
    NoRun       \* no such file

ASSUME RunAssumption ==
    /\ IdOf \in [Runs -> NodeIds] /\ NoRun \notin Runs
    /\ Rounds \in Nat \ {0} /\ Every \in Nat \ {0}

VARIABLES
    phase,      \* how far each run is
    ctrlC,      \* Ctrl-C was pressed: the next await is cancelled
    hasJson,    \* status_json_path is not None
    hasServer,  \* status_server is not None
    round,      \* rounds whose callback has run
    saved,      \* the round of the last checkpoint saved, plus one
    exit,       \* how the run ended
    json,       \* <node_id>.json: the run that wrote it last
    sock,       \* <node_id>.sock: the run that bound it
    last        \* history: how the last run to leave the work directory ended

rVars == <<phase, ctrlC, hasJson, hasServer, round, saved, exit, json, sock, last>>
files == <<json, sock, last>>

Setup == {"off", "loaded", "built", "configured", "ready"}
Present == {"announced", "training", "closing", "closed"}
Ended == {"ended", "killed"}

RInit ==
    /\ phase = [r \in Runs |-> "off"] /\ ctrlC = [r \in Runs |-> FALSE]
    /\ hasJson = [r \in Runs |-> FALSE] /\ hasServer = [r \in Runs |-> FALSE]
    /\ round = [r \in Runs |-> 0] /\ saved = [r \in Runs |-> 0]
    /\ exit = [r \in Runs |-> "none"]
    /\ json = [i \in NodeIds |-> NoRun] /\ sock = [i \in NodeIds |-> NoRun]
    /\ last = [i \in NodeIds |-> "none"]

-----------------------------------------------------------------------------
(* Preparation.  No step of it awaits, so that a Ctrl-C only takes effect    *)
(* at the first await behind it.                                             *)

Moves(r, from, to) ==
    /\ phase[r] = from
    /\ phase' = [phase EXCEPT ![r] = to]
    /\ UNCHANGED <<ctrlC, hasJson, hasServer, round, saved, exit, files>>

Returns(r, from, codes) ==
    /\ phase[r] = from
    /\ phase' = [phase EXCEPT ![r] = "ended"]
    /\ \E code \in codes : exit' = [exit EXCEPT ![r] = code]
    /\ UNCHANGED <<ctrlC, hasJson, hasServer, round, saved, files>>

\* The manifest cannot be loaded, or is all that was asked for
LoadManifest(r) ==
    Moves(r, "off", "loaded") \/ Returns(r, "off", {"VALIDATION_ERROR", "SUCCESS"})

\* No mode; mode A, which has no standard model; a script that cannot be
\* loaded, lacks a builder or whose builder fails; a bad --script-arg, which
\* nothing catches
BuildModel(r) ==
    \/ Moves(r, "loaded", "built")
    \/ Returns(r, "loaded", {"VALIDATION_ERROR", "NODE_CONFIG_ERROR", "raised"})

\* The trusted keys, the optimizer and scheduler of the script, the strategies
\* named by the manifest, and the checks of GossipNode.__init__
Configure(r) ==
    \/ Moves(r, "built", "configured")
    \/ Returns(r, "built", {"VALIDATION_ERROR", "NODE_CONFIG_ERROR"})

\* Telemetry (a bad key file is not caught), the checkpoint store and --resume
Wire(r) == Moves(r, "configured", "ready") \/ Returns(r, "configured", {"raised"})

-----------------------------------------------------------------------------
(* The status artefacts.                                                     *)

\* _start_status_artefacts up to its await
Announce(r, wrote) ==
    /\ phase[r] = "ready"
    /\ phase' = [phase EXCEPT ![r] = "announced"]
    /\ hasJson' = [hasJson EXCEPT ![r] = wrote]
    /\ json' = IF wrote THEN [json EXCEPT ![IdOf[r]] = r] ELSE json
    /\ UNCHANGED <<ctrlC, hasServer, round, saved, exit, sock, last>>

\* StatusServer.start removes what an earlier run left and binds; a failure
\* after that leaves the run without a server.  A pending Ctrl-C takes effect
\* here, outside of the try that would take the artefacts away.
Bind(r, bound) ==
    /\ phase[r] = "announced"
    /\ sock' = [sock EXCEPT ![IdOf[r]] = IF bound THEN r ELSE NoRun]
    /\ IF ctrlC[r] /\ bound
       THEN /\ phase' = [phase EXCEPT ![r] = "ended"]
            /\ exit' = [exit EXCEPT ![r] = "SUCCESS"]
            /\ last' = [last EXCEPT ![IdOf[r]] = "untidy"]
            /\ UNCHANGED hasServer
       ELSE /\ phase' = [phase EXCEPT ![r] = "training"]
            /\ hasServer' = [hasServer EXCEPT ![r] = bound]
            /\ UNCHANGED <<exit, last>>
    /\ UNCHANGED <<ctrlC, hasJson, round, saved, json>>

-----------------------------------------------------------------------------
(* Training.                                                                 *)

\* _cb: the snapshot is written again (or that fails), and every so often a
\* checkpoint is saved
RoundEnd(r, wrote) ==
    /\ phase[r] = "training" /\ round[r] < Rounds
    /\ round' = [round EXCEPT ![r] = @ + 1]
    /\ json' = IF hasJson[r] /\ wrote THEN [json EXCEPT ![IdOf[r]] = r] ELSE json
    /\ saved' = IF (round[r] + 1) % Every = 0 THEN [saved EXCEPT ![r] = round[r] + 1] ELSE saved
    /\ UNCHANGED <<phase, ctrlC, hasJson, hasServer, exit, sock, last>>

\* `async with node` is left: the budget is used up, something raises, or the
\* task is cancelled; then the server is closed
TrainEnds(r) ==
    /\ phase[r] = "training"
    /\ phase' = [phase EXCEPT ![r] = "closing"]
    /\ \/ round[r] = Rounds /\ exit' = [exit EXCEPT ![r] = "SUCCESS"]
       \/ exit' = [exit EXCEPT ![r] = "NODE_CONFIG_ERROR"]
       \/ ctrlC[r] /\ exit' = [exit EXCEPT ![r] = "interrupted"]
    /\ UNCHANGED <<ctrlC, hasJson, hasServer, round, saved, files>>

\* StatusServer.stop, up to the end of its await
Close(r) == Moves(r, "closing", "closed")

\* Mutant: the server is closed and its socket file stays.
SocketKept(r) == FALSE

\* stop unlinks whatever is there under the socket's name
SocketGone(r) == hasServer[r]

\* The rest of stop and of the finally, then the final checkpoint.  An
\* interrupted run has none, and run answers SUCCESS for it.
Leave(r) ==
    /\ phase[r] = "closed"
    /\ phase' = [phase EXCEPT ![r] = "ended"]
    /\ sock' = IF SocketGone(r) THEN [sock EXCEPT ![IdOf[r]] = NoRun] ELSE sock
    /\ json' = IF hasJson[r] THEN [json EXCEPT ![IdOf[r]] = NoRun] ELSE json
    /\ saved' = IF exit[r] = "SUCCESS" THEN [saved EXCEPT ![r] = Rounds] ELSE saved
    /\ exit' = [exit EXCEPT ![r] = IF @ = "interrupted" THEN "SUCCESS" ELSE @]
    /\ last' = [last EXCEPT ![IdOf[r]] = IF hasJson[r] /\ hasServer[r] THEN "tidy" ELSE "untidy"]
    /\ UNCHANGED <<ctrlC, hasJson, hasServer, round>>

-----------------------------------------------------------------------------
(* The environment.                                                          *)

Interrupt(r) ==
    /\ phase[r] \notin Ended /\ phase[r] # "off" /\ ~ctrlC[r]
    /\ ctrlC' = [ctrlC EXCEPT ![r] = TRUE]
    /\ UNCHANGED <<phase, hasJson, hasServer, round, saved, exit, files>>

Kill(r) ==
    /\ phase[r] \notin Ended /\ phase[r] # "off"
    /\ phase' = [phase EXCEPT ![r] = "killed"]
    /\ last' = IF phase[r] \in Present THEN [last EXCEPT ![IdOf[r]] = "untidy"] ELSE last
    /\ UNCHANGED <<ctrlC, hasJson, hasServer, round, saved, exit, json, sock>>

RNext ==
    \E r \in Runs :
        \/ LoadManifest(r) \/ BuildModel(r) \/ Configure(r) \/ Wire(r)
        \/ \E ok \in BOOLEAN : Announce(r, ok) \/ Bind(r, ok) \/ RoundEnd(r, ok)
        \/ TrainEnds(r) \/ Close(r) \/ Leave(r)
        \/ Interrupt(r) \/ Kill(r)

RSpec == RInit /\ [][RNext]_rVars

-----------------------------------------------------------------------------
(* `quinkgl status`, which only reads.                                       *)

\* _discover_nodes
DiscoverNodes == {i \in NodeIds : sock[i] # NoRun \/ json[i] # NoRun}

\* _read_state: the socket first, the snapshot when nobody answers there
ReadState(i) ==
    IF sock[i] # NoRun /\ phase[sock[i]] = "training" THEN sock[i] ELSE json[i]

\* _show_once for a given node id
ShowOnce(i) ==
    IF i \notin DiscoverNodes THEN "TRUST_ERROR"
    ELSE IF ReadState(i) = NoRun THEN "IO_ERROR" ELSE "SUCCESS"

-----------------------------------------------------------------------------
(* Properties.                                                               *)

\* Once every run under a node id has ended and the last of them went through
\* the finally of _async_run with both artefacts, `quinkgl status` finds no
\* node, whatever runs before it were killed, interrupted while they bound the
\* socket, or overlapped with it and took each other's files.  And a node that
\* is found is one that has run: what it answers is never made up of nothing.
TidyExit ==
    \A i \in NodeIds :
        /\ (/\ last[i] = "tidy"
            /\ \A r \in Runs : IdOf[r] = i => phase[r] \notin Present)
           => ShowOnce(i) = "TRUST_ERROR"
        /\ ShowOnce(i) = "SUCCESS" => phase[ReadState(i)] \notin Setup
=============================================================================
