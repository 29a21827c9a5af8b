----------------------------- MODULE Membership -----------------------------
(***************************************************************************)
(* The peers one node knows, in the three places that keep them: the       *)
(* community's known_peers (network/gossip_community.py), the aggregator's *)
(* known_peers (gossip/aggregator.py), and the partial view of the Cyclon  *)
(* topology (topology/cyclon.py, topology/sampler.py).  Announcements,     *)
(* heartbeats, shuffle requests and responses of the other nodes arrive at *)
(* any time, lost or late; their contents are the environment's choice.    *)
(* Time is one bit per known peer: heard of within the stale timeout.      *)
(***************************************************************************)
EXTENDS Naturals, FiniteSetsExt

CONSTANTS
    Self,            \* this node
    Peers,           \* the other nodes
    Compatible,      \* those of its swarm: manifest, domain and schema agree
    NoPeer,          \* no entry
    ViewSize,        \* view_size of the sampler
    ShuffleLength,   \* shuffle_length of Cyclon
    MaxAge           \* bound: ages told apart

ASSUME MembershipAssumption ==
    /\ Compatible \subseteq Peers /\ Self \notin Peers
    /\ NoPeer \notin Peers \cup {Self} /\ IsFiniteSet(Peers)
    /\ {ViewSize, ShuffleLength} \subseteq Nat \ {0} /\ MaxAge \in Nat

VARIABLES
    known,     \* community.known_peers: the network peer stored for each id
    mids,      \* _mid_to_node_id: ids recorded with their key
    fresh,     \* peers heard of within the stale timeout
    agg,       \* aggregator.known_peers
    notify,    \* add_peer's tasks that have not told the topology yet
    view,      \* the sampler's view: ids, and their ages
    ages,
    leaving,   \* the stale peers _cleanup_stale_peers has still to remove
    bootstrap  \* known_peers of the context the shuffle loop was started with

mVars == <<known, mids, fresh, agg, notify, view, ages, leaving, bootstrap>>

Ids == Peers \cup {Self}
KnownIds == {p \in Peers : known[p] # NoPeer}

MInit ==
    /\ known = [p \in Peers |-> NoPeer] /\ mids = {} /\ fresh = {}
    /\ agg = {} /\ notify = {} /\ view = {} /\ ages = [p \in Ids |-> 0]
    /\ leaving = {}
    /\ bootstrap \in SUBSET Compatible

-----------------------------------------------------------------------------
(* The sampler.  Its methods hold a lock that no await interrupts.           *)

\* Entries of the greatest age; the first of them goes, any of them here
Oldest(v, a) == {p \in v : \A q \in v : a[q] <= a[p]}

\* _add_peer_unsafe: a peer in the view starts its age anew; at the limit the
\* oldest leaves
AddToView(p, v, a) ==
    /\ \E gone \in (IF p \notin v /\ Cardinality(v) >= ViewSize
                    THEN {{q} : q \in Oldest(v, a)} ELSE {{}}) :
          view' = (v \ gone) \cup {p}
    /\ ages' = [q \in Ids |-> IF q = p \/ q \notin view' THEN 0 ELSE a[q]]

\* The evictions of _merge_view_unsafe before k peers are added to n: each
\* turn of its loop evicts one while the view is not below its size, which
\* the first eviction from a view of exactly that size already makes false
Evicted(n, k) == IF n < ViewSize THEN 0 ELSE Min({k, n - ViewSize + 1})

\* The peers of a list the view takes: those it lacks, the youngest where
\* they are more than it accepts (any of them here)
Accepted(list, v) ==
    {s \in SUBSET (list \ v) :
        Cardinality(s) = Min({Cardinality(list \ v), ShuffleLength, Cardinality(list)})}

\* merge_view of a list into the view v; the age of its sender starts anew
Merge(from, list, v, a) ==
    \E new \in Accepted(list, v) :
        \E gone \in {g \in SUBSET v :
                        /\ Cardinality(g) = Evicted(Cardinality(v), Cardinality(new))
                        /\ \A p \in g, q \in v \ g : a[q] <= a[p]} :
            /\ view' = (v \ gone) \cup new
            /\ ages' = [p \in Ids |-> IF p \in new \cup {from} \/ p \notin view'
                                         THEN 0 ELSE a[p]]

-----------------------------------------------------------------------------
(* The aggregator's list, and what it tells the topology *)

\* Mutant: the aggregator keeps a peer the community has dropped.
RemoveNothing(p) == UNCHANGED <<agg, view, ages>>

\* remove_peer with Cyclon's on_peer_disconnected
RemovePeer(p) ==
    /\ agg' = agg \ {p}
    /\ view' = IF p \in agg THEN view \ {p} ELSE view
    /\ ages' = [ages EXCEPT ![p] = IF p \in agg THEN 0 ELSE @]

\* add_peer: a new peer is entered, the topology told by a task
AddPeer(p) ==
    /\ agg' = agg \cup {p}
    /\ notify' = IF p \in agg THEN notify ELSE notify \cup {p}

\* That task: on_new_peer_discovered
Notified(p) ==
    /\ p \in notify
    /\ notify' = notify \ {p}
    /\ AddToView(p, view, ages)
    /\ UNCHANGED <<known, mids, fresh, agg, leaving, bootstrap>>

\* select_targets: an empty view is filled from the context, which the round
\* has just made from the aggregator's list
SelectTargets ==
    /\ view = {} /\ agg # {}
    /\ \E s \in SUBSET (agg \cap Compatible) :
          /\ Cardinality(s) = Min({ViewSize, Cardinality(agg \cap Compatible)})
          /\ view' = s
    /\ UNCHANGED <<known, mids, fresh, agg, notify, ages, leaving, bootstrap>>

-----------------------------------------------------------------------------
(* The community *)

\* on_discovery_announce: the manifest, domain and schema filters, then a
\* known id is only marked as seen, whoever sends it
OnAnnounce(p) ==
    /\ p \in Compatible
    /\ fresh' = fresh \cup {p}
    /\ IF known[p] # NoPeer
       THEN UNCHANGED <<known, mids, agg, notify>>
       ELSE /\ known' = [known EXCEPT ![p] = p]
            /\ mids' = mids \cup {p}
            /\ AddPeer(p)
    /\ UNCHANGED <<view, ages, leaving, bootstrap>>

\* Heartbeats, checkpoints and model updates of a known id
OnHeartbeat(p) ==
    /\ known[p] # NoPeer
    /\ fresh' = fresh \cup {p}
    /\ UNCHANGED <<known, mids, agg, notify, view, ages, leaving, bootstrap>>

\* The stale timeout of a peer passes
TimePasses(p) ==
    /\ p \in fresh
    /\ fresh' = fresh \ {p}
    /\ UNCHANGED <<known, mids, agg, notify, view, ages, leaving, bootstrap>>

\* _cleanup_stale_peers collects the stale peers, then removes them one by one
\* with an await after each
CleanupBegins ==
    /\ leaving = {}
    /\ leaving' = KnownIds \ fresh
    /\ leaving' # {}
    /\ UNCHANGED <<known, mids, fresh, agg, notify, view, ages, bootstrap>>

CleanupRemoves(p) ==
    /\ p \in leaving
    /\ leaving' = leaving \ {p}
    /\ known' = [known EXCEPT ![p] = NoPeer]
    /\ mids' = mids \ {known[p]}
    /\ RemovePeer(p)
    /\ UNCHANGED <<fresh, notify, bootstrap>>

-----------------------------------------------------------------------------
(* Shuffles *)

\* periodic_maintenance ages the view and shuffles with its oldest peer; an
\* empty view is filled from the context of start instead.  send_shuffle
\* returns an empty list at once, so what was sent is discarded, nothing is
\* merged, and the age of the peer starts anew whether or not it is known.
Maintain ==
    /\ LET aged == [p \in Ids |-> IF p \in view THEN Min({ages[p] + 1, MaxAge}) ELSE 0] IN
       IF view = {}
       THEN /\ \E s \in SUBSET bootstrap :
                  /\ Cardinality(s) = Min({ViewSize, Cardinality(bootstrap)})
                  /\ view' = s
            /\ UNCHANGED ages
       ELSE \E q \in Oldest(view, aged) :
               \E sent \in kSubset(Min({ShuffleLength, Cardinality(view) - 1}), view \ {q}) :
                  /\ view' = view \ sent
                  /\ ages' = [p \in Ids |-> IF p = q \/ p \in sent THEN 0 ELSE aged[p]]
    /\ UNCHANGED <<known, mids, fresh, agg, notify, leaving, bootstrap>>

\* The lists of peers a shuffle message can carry (_deserialize_peer_list)
ShuffleLists == SUBSET Ids

\* on_shuffle_request with handle_incoming_shuffle: the answer leaves the view,
\* the list is merged; the list may name this node, when the request was meant
\* for another
OnShuffleRequest(from, list) ==
    /\ \E sent \in kSubset(Min({ShuffleLength, Cardinality(view \ {from})}), view \ {from}) :
          LET a == [p \in Ids |-> IF p \in sent THEN 0 ELSE ages[p]]
          IN  Merge(from, list, view \ sent, a)
    /\ UNCHANGED <<known, mids, fresh, agg, notify, leaving, bootstrap>>

\* on_shuffle_response: ids that are not known are entered under the network
\* peer that sent the response, and not recorded with a key
OnShuffleResponse(from, p) ==
    /\ known[p] = NoPeer
    /\ known' = [known EXCEPT ![p] = from]
    /\ fresh' = fresh \cup {p}
    /\ AddPeer(p)
    /\ UNCHANGED <<mids, view, ages, leaving, bootstrap>>

-----------------------------------------------------------------------------
MNext ==
    \/ \E p \in Peers : \/ OnAnnounce(p) \/ OnHeartbeat(p) \/ TimePasses(p)
                        \/ CleanupRemoves(p) \/ Notified(p)
                        \/ \E from \in Peers : OnShuffleResponse(from, p)
    \/ CleanupBegins \/ SelectTargets \/ Maintain
    \/ \E from \in Peers, list \in ShuffleLists : OnShuffleRequest(from, list)

MSpec == MInit /\ [][MNext]_mVars

-----------------------------------------------------------------------------
\* The variables keep their types; a cleanup removes only peers it found.
MTypeOK ==
    /\ known \in [Peers -> Peers \cup {NoPeer}]
    /\ mids \subseteq Peers /\ fresh \subseteq Peers /\ agg \subseteq Peers
    /\ notify \subseteq Peers /\ view \subseteq Ids
    /\ ages \in [Ids -> 0..MaxAge]
    /\ leaving \subseteq KnownIds
    /\ bootstrap \subseteq Peers

\* The community and the aggregator know the same peers at every await: what
\* discovery, a shuffle response or the cleanup does to one list it does to
\* the other before it yields (on_peer_discovered, on_peer_left), and a cleanup
\* that is under way has only such peers left to remove.
KnownAgree == MTypeOK /\ agg = KnownIds
=============================================================================
