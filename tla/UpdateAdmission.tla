--------------------------- MODULE UpdateAdmission ---------------------------
(***************************************************************************)
(* Which model updates a node lets through to its aggregator, on the two   *)
(* paths they arrive on: directly over IPv8 (on_model_update of the        *)
(* community, whose table of last seen rounds is kept in a file) and       *)
(* through the tunnel (_on_tunnel_model_update of the node, whose table is *)
(* not).  Each direct packet has a task of its own; the tunnel's stream is *)
(* handled one message at a time.  Both await the aggregator between the   *)
(* check of a round and its entry in the table.  Packets are duplicated,   *)
(* delayed and reordered, and the process may die at any point.            *)
(***************************************************************************)
EXTENDS Naturals, FiniteSets

CONSTANTS
    Senders,        \* peers, each with one key
    UpdateRounds,   \* rounds their updates carry
    MaxRoundSkip,   \* MAX_ROUND_SKIP
    MaxLocal,       \* bound: local rounds
    UpdateTasks     \* the tasks of direct updates; bound: how many run at a time

ASSUME AdmissionAssumption ==
    /\ UpdateRounds \subseteq Nat \ {0} /\ IsFiniteSet(UpdateRounds)
    /\ MaxRoundSkip \in Nat /\ MaxLocal \in Nat

VARIABLES
    local,      \* aggregator.current_round
    names,      \* _mid_to_node_id: senders whose key is bound to their id
    seen,       \* community._last_seen_round; 0 for no entry
    file,       \* the table as last written
    tunnelSeen, \* _tunnel_last_seen_round
    handling,   \* the direct update each task awaits the aggregator with, or none
    tunnel,     \* the tunnel update that does, or none
    kept        \* history: direct updates whose entry has reached the file

uVars == <<local, names, seen, file, tunnelSeen, handling, tunnel, kept>>

\* An update comes with the key of the packet and the sender it claims
Updates == [mid : Senders, from : Senders, round : UpdateRounds]
NoTable == [s \in Senders |-> 0]

\* An update being handled, or none
Slot == {{}} \cup {{u} : u \in Updates}
AllIdle == [t \in UpdateTasks |-> {}]

UInit ==
    /\ local = 0 /\ names = {} /\ seen = NoTable /\ file = NoTable
    /\ tunnelSeen = NoTable /\ handling = AllIdle /\ tunnel = {} /\ kept = {}

-----------------------------------------------------------------------------
(* The direct path.  Updates with a bad signature, an oversized or broken    *)
(* payload are dropped without a trace; so are those no action takes.        *)

\* The identity check: a bound key may speak for its own id only
SpeaksFor(u) == u.mid \in names => u.mid = u.from

\* The two bounds on a round
Admits(table, key, u) ==
    /\ u.round <= local + MaxRoundSkip
    /\ u.round > table[key]

\* on_model_update up to the await of its callback
OnModelUpdate(t, u) ==
    /\ handling[t] = {}
    /\ SpeaksFor(u) /\ Admits(seen, u.mid, u)
    /\ handling' = [handling EXCEPT ![t] = {u}]
    /\ UNCHANGED <<local, names, seen, file, tunnelSeen, tunnel, kept>>

Handled(t, u) ==
    /\ handling[t] = {u}
    /\ handling' = [handling EXCEPT ![t] = {}]

\* The callback raises: no entry
CallbackFails(t, u) ==
    /\ Handled(t, u)
    /\ UNCHANGED <<local, names, seen, file, tunnelSeen, tunnel, kept>>

\* Mutant: the round is stored as it comes, as the tunnel path does.
Overwritten(table, u) == [table EXCEPT ![u.mid] = u.round]

\* max(last, round)
Recorded(table, u) ==
    [table EXCEPT ![u.mid] = IF u.round > @ THEN u.round ELSE @]

\* Mutant: the temporary file is written and never moved into place.
FileUnmoved(table) == file

\* _persist_last_seen_round_state: a new file replaces the old one
Persisted(table) == table

\* The callback returns, whatever the aggregator did with the update: the
\* entry, then the file, whose failure is swallowed
CallbackReturns(t, u, written) ==
    /\ Handled(t, u)
    /\ seen' = Recorded(seen, u)
    /\ file' = IF written THEN Persisted(seen') ELSE file
    /\ kept' = IF written THEN kept \cup {u} ELSE kept
    /\ UNCHANGED <<local, names, tunnelSeen, tunnel>>

-----------------------------------------------------------------------------
(* The tunnel path: required fields, stream binding, domain, signature, then *)
(* the same two bounds against its own table                                 *)

OnTunnelUpdate(u) ==
    /\ tunnel = {} /\ u.mid = u.from /\ Admits(tunnelSeen, u.from, u)
    /\ tunnel' = {u}
    /\ UNCHANGED <<local, names, seen, file, tunnelSeen, handling, kept>>

\* _handle_network_message returns: the round is stored; or it raises
TunnelReturns(ok) ==
    /\ \E u \in tunnel :
          tunnelSeen' = IF ok THEN [tunnelSeen EXCEPT ![u.from] = u.round] ELSE tunnelSeen
    /\ tunnel' = {}
    /\ UNCHANGED <<local, names, seen, file, handling, kept>>

-----------------------------------------------------------------------------
(* The node around them *)

\* Discovery binds a key, the stale cleanup forgets it
BindName(s) ==
    /\ names' \in {names \cup {s}, names \ {s}} /\ names' # names
    /\ UNCHANGED <<local, seen, file, tunnelSeen, handling, tunnel, kept>>

LocalRound ==
    /\ local < MaxLocal
    /\ local' = local + 1
    /\ UNCHANGED <<names, seen, file, tunnelSeen, handling, tunnel, kept>>

\* unload writes the table once more
Unload ==
    /\ file' = Persisted(seen)
    /\ UNCHANGED <<local, names, seen, tunnelSeen, handling, tunnel, kept>>

\* _load_last_seen_round_state
Loaded == file

\* The process dies and starts again
Restart ==
    /\ seen' = Loaded
    /\ local' = 0 /\ names' = {} /\ tunnelSeen' = NoTable
    /\ handling' = AllIdle /\ tunnel' = {}
    /\ UNCHANGED <<file, kept>>

UNext ==
    \/ \E u \in Updates, t \in UpdateTasks :
          \/ OnModelUpdate(t, u) \/ CallbackFails(t, u)
          \/ \E w \in BOOLEAN : CallbackReturns(t, u, w)
    \/ \E u \in Updates : OnTunnelUpdate(u)
    \/ \E ok \in BOOLEAN : TunnelReturns(ok)
    \/ \E s \in Senders : BindName(s)
    \/ LocalRound \/ Unload \/ Restart

USpec == UInit /\ [][UNext]_uVars

-----------------------------------------------------------------------------
\* The variables keep their types, and the file is never ahead of the table.
UTypeOK ==
    /\ local \in 0..MaxLocal /\ names \subseteq Senders
    /\ {seen, file, tunnelSeen} \subseteq [Senders -> UpdateRounds \cup {0}]
    /\ handling \in [UpdateTasks -> Slot] /\ tunnel \in Slot
    /\ kept \subseteq Updates
    /\ \A s \in Senders : file[s] <= seen[s]

\* Within the life of a process the last seen round of a key never goes back,
\* in whatever order the callbacks of its updates return (on_model_update), and
\* the file, from which the next process starts, is never ahead of it.
SeenOnlyGrows ==
    [][/\ Restart \/ \A s \in Senders : seen'[s] >= seen[s]
       /\ UTypeOK']_uVars

\* A direct update whose entry has reached the file is never let through again,
\* however often the node dies (_persist_last_seen_round_state,
\* _load_last_seen_round_state).
KeptIsFinal ==
    [][\A t \in UpdateTasks, u \in kept : u \in handling'[t] => u \in handling[t]]_uVars
=============================================================================
