------------------------------ MODULE TofuCache -----------------------------
(***************************************************************************)
(* Trust on first use: the key first seen for a swarm is pinned in a JSON  *)
(* document that every change rewrites as a whole.  Writes and reads of    *)
(* the document may fail, and the process may stop between any two calls   *)
(* and at any point of a write.                                            *)
(***************************************************************************)
EXTENDS Naturals, FiniteSets, Functions

CONSTANTS
    TofuIds,     \* swarm ids
    Keys,        \* creator keys
    MaxRestarts  \* bound

VARIABLES
    loaded,      \* _cache is not None
    mem,         \* _cache
    disk,        \* the document
    restarts,    \* processes so far
    accepted,    \* history: keys accepted for an id since it was last forgotten
    degraded     \* history: the document could not be read or written once

tVars == <<loaded, mem, disk, restarts, accepted, degraded>>

Pins == UNION {[S -> Keys] : S \in SUBSET TofuIds}
NoPins == [i \in {} |-> CHOOSE k \in Keys : TRUE]

TInit ==
    /\ loaded = FALSE /\ mem = NoPins /\ disk = NoPins /\ restarts = 0
    /\ accepted = [i \in TofuIds |-> {}] /\ degraded = FALSE

\* _load_if_needed: a document that cannot be read counts as empty
Views == IF loaded THEN {mem} ELSE {disk, NoPins}

\* _flush replaces the document by a rename, or raises and leaves it
Flushed(cache) == {cache, disk}

WithPin(cache, i, k) == [j \in DOMAIN cache \cup {i} |-> IF j = i THEN k ELSE cache[j]]

\* Mutant: a conflict replaces the pin.
PinLatest(cache, i, k) == WithPin(cache, i, k)

\* What record_or_validate leaves in memory
Pinned(cache, i, k) == IF i \in DOMAIN cache THEN cache ELSE WithPin(cache, i, k)

\* record_or_validate: the caller goes on with its key unless the call raises.
\* A failed write raises, and leaves the new pin in memory all the same.
RecordOrValidate(i, k) ==
    \E cache \in Views :
        LET new == Pinned(cache, i, k)
            first == i \notin DOMAIN cache
            returns == (first => disk' = new) /\ new[i] = k
        IN /\ loaded' = TRUE /\ mem' = new
           /\ disk' \in IF first THEN Flushed(new) ELSE {disk}
           /\ accepted' = IF returns THEN [accepted EXCEPT ![i] = @ \cup {k}] ELSE accepted
           /\ degraded' = (\/ degraded
                           \/ ~loaded /\ cache # disk
                           \/ first /\ disk' # new)
           /\ UNCHANGED restarts

\* get only loads
Get(i) ==
    /\ ~loaded
    /\ \E cache \in Views :
         /\ loaded' = TRUE /\ mem' = cache
         /\ degraded' = (degraded \/ cache # disk)
    /\ UNCHANGED <<disk, restarts, accepted>>

\* forget: nothing is written for an id that is not there
Forget(i) ==
    \E cache \in Views :
        LET new == Restrict(cache, DOMAIN cache \ {i})
        IN /\ loaded' = TRUE /\ mem' = new
           /\ disk' \in IF i \in DOMAIN cache THEN Flushed(new) ELSE {disk}
           /\ accepted' = IF i \in DOMAIN cache THEN [accepted EXCEPT ![i] = {}] ELSE accepted
           /\ degraded' = (\/ degraded
                           \/ ~loaded /\ cache # disk
                           \/ i \in DOMAIN cache /\ disk' # new)
           /\ UNCHANGED restarts

Clear ==
    /\ loaded' = TRUE /\ mem' = NoPins /\ disk' \in Flushed(NoPins)
    /\ accepted' = [i \in TofuIds |-> {}]
    /\ degraded' = (degraded \/ disk' # NoPins)
    /\ UNCHANGED restarts

\* The process ends or dies; a write it was in has replaced the document or not
ProcessRestarts ==
    /\ restarts < MaxRestarts
    /\ restarts' = restarts + 1
    /\ loaded' = FALSE /\ mem' = NoPins
    /\ UNCHANGED <<disk, accepted, degraded>>

TNext ==
    \/ \E i \in TofuIds, k \in Keys : RecordOrValidate(i, k)
    \/ \E i \in TofuIds : Get(i) \/ Forget(i)
    \/ Clear
    \/ ProcessRestarts

TSpec == TInit /\ [][TNext]_tVars

-----------------------------------------------------------------------------
(* Properties.                                                               *)

\* Whatever the calls, the conflicts and the restarts between them, as long as
\* the document could always be read and written, no swarm is entered with two
\* keys unless the operator has forgotten it in between.
OneKey ==
    /\ DOMAIN mem \subseteq TofuIds
    /\ ~degraded => \A i \in TofuIds : Cardinality(accepted[i]) <= 1
=============================================================================
