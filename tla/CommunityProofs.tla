--------------------------- MODULE CommunityProofs ---------------------------
(***************************************************************************)
(* Proofs about the community of a node: which updates it lets through     *)
(* (UpdateAdmission) and which peers it knows (Membership), for any number *)
(* of senders, tasks, rounds and peers.                                    *)
(***************************************************************************)
EXTENDS UpdateAdmission, Membership, TLAPS

-----------------------------------------------------------------------------
(* Admission of updates.                                                     *)

\* The file has the round of every update whose entry has reached it.
KeptInv == \A u \in kept : u.round <= file[u.mid]

AdmissionInv == UTypeOK /\ KeptInv

\* What a table holds is a number.
LEMMA RoundsAreNat ==
    ASSUME NEW table \in [Senders -> UpdateRounds \cup {0}], NEW s \in Senders
    PROVE  table[s] \in Nat
  <1>1. table[s] \in UpdateRounds \cup {0}
    OBVIOUS
  <1>2. \A r \in UpdateRounds \cup {0} : r \in Nat
    BY AdmissionAssumption
  <1>3. QED BY <1>1, <1>2

\* A table that records a round stays a table of rounds, and no round of it
\* goes back (max(last, round) of on_model_update).
LEMMA RecordedGrows ==
    ASSUME NEW table \in [Senders -> UpdateRounds \cup {0}], NEW u \in Updates
    PROVE  /\ Recorded(table, u) \in [Senders -> UpdateRounds \cup {0}]
           /\ \A s \in Senders : Recorded(table, u)[s] >= table[s]
           /\ Recorded(table, u)[u.mid] >= u.round
  <1>1. /\ u.mid \in Senders /\ u.round \in UpdateRounds
        /\ u.round \in Nat /\ \A s \in Senders : table[s] \in Nat
    BY AdmissionAssumption, RoundsAreNat DEF Updates
  <1>2. Recorded(table, u) \in [Senders -> UpdateRounds \cup {0}]
    BY <1>1 DEF Recorded
  <1>3. ASSUME NEW s \in Senders, s # u.mid PROVE Recorded(table, u)[s] = table[s]
    BY <1>3 DEF Recorded
  <1>4. Recorded(table, u)[u.mid]
            = IF u.round > table[u.mid] THEN u.round ELSE table[u.mid]
    BY <1>1 DEF Recorded
  <1>5. Recorded(table, u)[u.mid] >= u.round /\ Recorded(table, u)[u.mid] >= table[u.mid]
    BY <1>1, <1>4
  <1>6. ASSUME NEW s \in Senders PROVE Recorded(table, u)[s] >= table[s]
    BY <1>1, <1>3, <1>5
  <1>7. QED BY <1>2, <1>5, <1>6

LEMMA AdmissionInit == UInit => AdmissionInv
  BY AdmissionAssumption DEF UInit, AdmissionInv, UTypeOK, KeptInv, NoTable, AllIdle, Slot

\* An update that returns from the aggregator: the table grows, the file
\* follows it or stays behind.
LEMMA ReturnKeeps ==
    ASSUME AdmissionInv, NEW t \in UpdateTasks, NEW u \in Updates, NEW w \in BOOLEAN,
           CallbackReturns(t, u, w)
    PROVE  AdmissionInv'
  <1>1. /\ seen \in [Senders -> UpdateRounds \cup {0}]
        /\ file \in [Senders -> UpdateRounds \cup {0}]
        /\ tunnelSeen \in [Senders -> UpdateRounds \cup {0}]
    BY DEF AdmissionInv, UTypeOK
  <1>2. /\ seen' \in [Senders -> UpdateRounds \cup {0}]
        /\ \A s \in Senders : seen'[s] >= seen[s]
        /\ seen'[u.mid] >= u.round
    BY <1>1, RecordedGrows DEF CallbackReturns
  <1>3. file' \in [Senders -> UpdateRounds \cup {0}] /\ (file' = seen' \/ file' = file)
    BY <1>1, <1>2 DEF CallbackReturns, Persisted
  <1>4. \A s \in Senders : file[s] <= seen[s]
    BY DEF AdmissionInv, UTypeOK
  <1>5. \A s \in Senders : file'[s] <= seen'[s] /\ file[s] <= file'[s]
    <2> TAKE s \in Senders
    <2>1. seen[s] \in Nat /\ file[s] \in Nat /\ seen'[s] \in Nat
      BY <1>1, <1>2, RoundsAreNat
    <2>2. QED BY <1>2, <1>3, <1>4, <2>1
  <1>6. handling' \in [UpdateTasks -> Slot]
    BY DEF AdmissionInv, UTypeOK, CallbackReturns, Handled, Slot
  <1>7. UTypeOK'
    BY <1>2, <1>3, <1>5, <1>6 DEF AdmissionInv, UTypeOK, CallbackReturns
  <1>8. ASSUME NEW k \in kept' PROVE k.round <= file'[k.mid]
    <2>1. k \in Updates /\ k.mid \in Senders /\ k.round \in Nat
      BY <1>7, <1>8, AdmissionAssumption DEF UTypeOK, Updates
    <2>2. CASE k \in kept
      <3>1. k.round <= file[k.mid]
        BY <2>2 DEF AdmissionInv, KeptInv
      <3>2. file[k.mid] \in Nat /\ file'[k.mid] \in Nat
        BY <1>1, <1>3, <2>1, RoundsAreNat
      <3>3. QED BY <2>1, <3>1, <3>2, <1>5
    <2>3. CASE k \notin kept
      <3>1. k = u /\ file' = seen'
        BY <2>3, <1>8 DEF CallbackReturns, Persisted
      <3>2. QED BY <3>1, <1>2, <2>1, AdmissionAssumption
    <2>4. QED BY <2>2, <2>3
  <1>9. QED BY <1>7, <1>8 DEF AdmissionInv, KeptInv

LEMMA AdmissionStep == AdmissionInv /\ [UNext]_uVars => AdmissionInv'
  <1> SUFFICES ASSUME AdmissionInv, [UNext]_uVars PROVE AdmissionInv'
    OBVIOUS
  <1> USE AdmissionAssumption
  <1>1. ASSUME NEW t \in UpdateTasks, NEW u \in Updates,
               OnModelUpdate(t, u) \/ CallbackFails(t, u)
        PROVE  AdmissionInv'
    <2>1. handling' \in [UpdateTasks -> Slot]
      BY <1>1 DEF AdmissionInv, UTypeOK, OnModelUpdate, CallbackFails, Handled, Slot
    <2>2. QED
      BY <1>1, <2>1 DEF AdmissionInv, UTypeOK, KeptInv, OnModelUpdate, CallbackFails
  <1>2. ASSUME NEW u \in Updates, OnTunnelUpdate(u) PROVE AdmissionInv'
    BY <1>2 DEF AdmissionInv, UTypeOK, KeptInv, OnTunnelUpdate, Slot
  <1>3. ASSUME NEW ok \in BOOLEAN, TunnelReturns(ok) PROVE AdmissionInv'
    <2>1. tunnelSeen' \in [Senders -> UpdateRounds \cup {0}]
      BY <1>3 DEF AdmissionInv, UTypeOK, TunnelReturns, Slot, Updates
    <2>2. QED
      BY <1>3, <2>1 DEF AdmissionInv, UTypeOK, KeptInv, TunnelReturns, Slot
  <1>4. ASSUME NEW s \in Senders, BindName(s) PROVE AdmissionInv'
    BY <1>4 DEF AdmissionInv, UTypeOK, KeptInv, BindName
  <1>5. CASE LocalRound
    BY <1>5 DEF AdmissionInv, UTypeOK, KeptInv, LocalRound
  <1>6. CASE Unload
    <2>1. file' = seen /\ UNCHANGED <<local, names, seen, tunnelSeen, handling, tunnel, kept>>
      BY <1>6 DEF Unload, Persisted
    <2>2. UTypeOK'
      BY <2>1 DEF AdmissionInv, UTypeOK
    <2>3. \A u \in kept : u.mid \in Senders /\ u.round \in Nat
      BY DEF AdmissionInv, UTypeOK, Updates
    <2>4. KeptInv'
      BY <2>1, <2>3 DEF AdmissionInv, UTypeOK, KeptInv
    <2>5. QED BY <2>2, <2>4 DEF AdmissionInv
  <1>7. CASE Restart
    BY <1>7 DEF AdmissionInv, UTypeOK, KeptInv, Restart, Loaded, NoTable, AllIdle, Slot
  <1>8. CASE UNCHANGED uVars
    BY <1>8 DEF AdmissionInv, UTypeOK, KeptInv, uVars
  <1>9. QED
    BY <1>1, <1>2, <1>3, <1>4, <1>5, <1>6, <1>7, <1>8, ReturnKeeps DEF UNext

LEMMA AdmissionHolds == USpec => []AdmissionInv
  BY AdmissionInit, AdmissionStep, PTL DEF USpec

\* Within the life of a process the last seen round of a key never goes back,
\* and the file is never ahead of the table (on_model_update).
THEOREM RoundsOnlyGrow == USpec => SeenOnlyGrows
  <1>1. ASSUME AdmissionInv, AdmissionInv', [UNext]_uVars
        PROVE  [/\ Restart \/ \A s \in Senders : seen'[s] >= seen[s]
                /\ UTypeOK']_uVars
    <2>1. UTypeOK'
      BY <1>1 DEF AdmissionInv
    <2>2. \A s \in Senders : seen[s] \in Nat
      BY <1>1, AdmissionAssumption DEF AdmissionInv, UTypeOK
    <2>3. ASSUME NEW t \in UpdateTasks, NEW u \in Updates, NEW w \in BOOLEAN,
                 CallbackReturns(t, u, w)
          PROVE  \A s \in Senders : seen'[s] >= seen[s]
      BY <1>1, <2>3, RecordedGrows DEF AdmissionInv, UTypeOK, CallbackReturns
    <2>4. \/ UNCHANGED seen
          \/ Restart
          \/ \E t \in UpdateTasks, u \in Updates, w \in BOOLEAN : CallbackReturns(t, u, w)
      BY <1>1 DEF UNext, uVars, OnModelUpdate, CallbackFails, OnTunnelUpdate, TunnelReturns,
                  BindName, LocalRound, Unload
    <2>5. QED BY <2>1, <2>2, <2>3, <2>4
  <1>2. QED BY <1>1, AdmissionHolds, PTL DEF USpec, SeenOnlyGrows

\* An update whose entry has reached the file is never let through again,
\* however often the node dies.
THEOREM KeptStaysOut == USpec => KeptIsFinal
  <1>1. ASSUME AdmissionInv, [UNext]_uVars
        PROVE  [\A t \in UpdateTasks, u \in kept :
                    u \in handling'[t] => u \in handling[t]]_uVars
    <2> SUFFICES ASSUME NEW t \in UpdateTasks, NEW k \in kept, k \in handling'[t],
                        k \notin handling[t]
                 PROVE  FALSE
      BY <1>1
    <2>1. PICK c \in UpdateTasks, u \in Updates : OnModelUpdate(c, u)
      BY <1>1 DEF AdmissionInv, UTypeOK, UNext, uVars, CallbackFails, CallbackReturns, Handled,
                  OnTunnelUpdate, TunnelReturns, BindName, LocalRound, Unload, Restart, AllIdle
    <2>2. k = u /\ k.round > seen[k.mid]
      BY <1>1, <2>1 DEF AdmissionInv, UTypeOK, OnModelUpdate, Admits
    <2>3. k.round <= file[k.mid] /\ k.mid \in Senders /\ k.round \in Nat
      BY <1>1, AdmissionAssumption DEF AdmissionInv, UTypeOK, KeptInv, Updates
    <2>4. file[k.mid] <= seen[k.mid] /\ file[k.mid] \in Nat /\ seen[k.mid] \in Nat
      BY <1>1, <2>3, AdmissionAssumption DEF AdmissionInv, UTypeOK
    <2>5. QED BY <2>2, <2>3, <2>4
  <1>2. QED BY <1>1, AdmissionHolds, PTL DEF USpec, KeptIsFinal

-----------------------------------------------------------------------------
(* Known peers.                                                              *)

\* The smaller of two numbers is one of them (the bound on ages).
LEMMA MinOfTwo ==
    ASSUME NEW a \in Nat, NEW b \in Nat
    PROVE  Min({a, b}) \in {a, b} /\ Min({a, b}) <= a /\ Min({a, b}) <= b
  <1>1. \E x \in {a, b} : \A y \in {a, b} : x =< y
    <2>1. CASE a <= b
      BY <2>1
    <2>2. CASE ~(a <= b)
      <3>1. b <= a /\ b <= b
        BY <2>2
      <3>2. QED BY <3>1
    <2>3. QED BY <2>1, <2>2
  <1>2. Min({a, b}) \in {a, b} /\ \A y \in {a, b} : Min({a, b}) =< y
    BY <1>1 DEF Min
  <1>3. QED BY <1>2

LEMMA MembershipInit == MInit => KnownAgree
  BY MembershipAssumption DEF MInit, KnownAgree, MTypeOK, KnownIds, Ids

\* A change of the view leaves the two lists of peers alone.
LEMMA ViewKeeps ==
    ASSUME KnownAgree, UNCHANGED <<known, mids, fresh, agg, leaving, bootstrap>>,
           notify' \subseteq Peers, view' \subseteq Ids, ages' \in [Ids -> 0..MaxAge]
    PROVE  KnownAgree'
  BY DEF KnownAgree, MTypeOK, KnownIds

\* A change of what is known, made in both lists, leaves the view alone.
LEMMA ListsKeep ==
    ASSUME KnownAgree, UNCHANGED <<view, ages, bootstrap>>,
           known' \in [Peers -> Peers \cup {NoPeer}], mids' \subseteq Peers,
           fresh' \subseteq Peers, notify' \subseteq Peers,
           agg' = KnownIds', leaving' \subseteq KnownIds'
    PROVE  KnownAgree'
  BY DEF KnownAgree, MTypeOK, KnownIds

\* _add_peer_unsafe keeps a view of ids with their ages.
LEMMA AddToViewTyped ==
    ASSUME NEW p \in Ids, view \subseteq Ids, ages \in [Ids -> 0..MaxAge],
           AddToView(p, view, ages)
    PROVE  view' \subseteq Ids /\ ages' \in [Ids -> 0..MaxAge]
  <1>1. view' \subseteq Ids
    BY DEF AddToView
  <1>2. 0 \in 0..MaxAge
    BY MembershipAssumption
  <1>3. ages' = [q \in Ids |-> IF q = p \/ q \notin view' THEN 0 ELSE ages[q]]
    BY DEF AddToView
  <1>4. QED BY <1>1, <1>2, <1>3

\* So does merge_view, with any list a message can carry.
LEMMA MergeTyped ==
    ASSUME NEW from, NEW list \in SUBSET Ids, NEW v \in SUBSET Ids,
           NEW a \in [Ids -> 0..MaxAge], Merge(from, list, v, a)
    PROVE  view' \subseteq Ids /\ ages' \in [Ids -> 0..MaxAge]
  <1>1. PICK new \in Accepted(list, v) :
           \E gone \in SUBSET v :
               /\ view' = (v \ gone) \cup new
               /\ ages' = [p \in Ids |-> IF p \in new \cup {from} \/ p \notin view'
                                         THEN 0 ELSE a[p]]
    BY DEF Merge
  <1>2. new \subseteq Ids
    BY DEF Accepted
  <1>3. 0 \in 0..MaxAge
    BY MembershipAssumption
  <1>4. QED BY <1>1, <1>2, <1>3

\* Maintenance ages the view up to the bound, and only takes from it or fills
\* it with peers of the context.
LEMMA MaintainKeeps == ASSUME KnownAgree, Maintain PROVE KnownAgree'
  <1> DEFINE aged == [p \in Ids |-> IF p \in view THEN Min({ages[p] + 1, MaxAge}) ELSE 0]
  <1>1. aged \in [Ids -> 0..MaxAge]
    <2>1. ASSUME NEW p \in Ids PROVE aged[p] \in 0..MaxAge
      <3>1. ages[p] + 1 \in Nat /\ MaxAge \in Nat
        BY MembershipAssumption DEF KnownAgree, MTypeOK
      <3>2. Min({ages[p] + 1, MaxAge}) \in 0..MaxAge
        BY <3>1, MinOfTwo
      <3>3. 0 \in 0..MaxAge
        BY <3>1
      <3>4. QED BY <3>2, <3>3
    <2>2. QED BY <2>1
  <1>2. view' \subseteq Ids /\ ages' \in [Ids -> 0..MaxAge]
    <2>1. CASE view = {}
      BY <2>1 DEF Maintain, KnownAgree, MTypeOK, Ids
    <2>2. CASE view # {}
      <3>1. \E q \in Oldest(view, aged) :
               \E sent \in kSubset(Min({ShuffleLength, Cardinality(view) - 1}), view \ {q}) :
                  /\ view' = view \ sent
                  /\ ages' = [p \in Ids |-> IF p = q \/ p \in sent THEN 0 ELSE aged[p]]
        BY <2>2, Zenon DEF Maintain
      <3>2. 0 \in 0..MaxAge
        BY MembershipAssumption
      <3> HIDE DEF aged
      <3>3. QED BY <3>1, <3>2, <1>1 DEF KnownAgree, MTypeOK
    <2>3. QED BY <2>1, <2>2
  <1>3. QED BY <1>2, ViewKeeps DEF Maintain, KnownAgree, MTypeOK

LEMMA ShuffleRequestKeeps ==
    ASSUME KnownAgree, NEW from \in Peers, NEW list \in ShuffleLists,
           OnShuffleRequest(from, list)
    PROVE  KnownAgree'
  <1>1. PICK sent : Merge(from, list, view \ sent,
                          [p \in Ids |-> IF p \in sent THEN 0 ELSE ages[p]])
    BY DEF OnShuffleRequest
  <1>2. 0 \in 0..MaxAge
    BY MembershipAssumption
  <1>3. [p \in Ids |-> IF p \in sent THEN 0 ELSE ages[p]] \in [Ids -> 0..MaxAge]
    BY <1>2 DEF KnownAgree, MTypeOK
  <1>4. view \ sent \in SUBSET Ids /\ list \in SUBSET Ids
    BY DEF KnownAgree, MTypeOK, ShuffleLists
  <1>5. view' \subseteq Ids /\ ages' \in [Ids -> 0..MaxAge]
    BY <1>1, <1>3, <1>4, MergeTyped
  <1>6. QED BY <1>5, ViewKeeps DEF OnShuffleRequest, KnownAgree, MTypeOK

\* A removal of the cleanup leaves both lists and the view without the peer.
LEMMA RemovalKeeps ==
    ASSUME KnownAgree, NEW p \in Peers, CleanupRemoves(p)
    PROVE  KnownAgree'
  <1>1. /\ known' \in [Peers -> Peers \cup {NoPeer}]
        /\ KnownIds' = KnownIds \ {p}
    BY MembershipAssumption DEF CleanupRemoves, KnownAgree, MTypeOK, KnownIds
  <1>2. agg' = KnownIds' /\ agg' \subseteq Peers /\ leaving' \subseteq KnownIds'
    BY <1>1 DEF CleanupRemoves, RemovePeer, KnownAgree, MTypeOK
  <1>3. view' \subseteq Ids
    BY DEF CleanupRemoves, RemovePeer, KnownAgree, MTypeOK
  <1>4. 0 \in 0..MaxAge
    BY MembershipAssumption
  <1>5. ages' \in [Ids -> 0..MaxAge]
    BY <1>4 DEF CleanupRemoves, RemovePeer, KnownAgree, MTypeOK, Ids
  <1>6. mids' \subseteq Peers
    BY DEF CleanupRemoves, KnownAgree, MTypeOK
  <1>7. QED
    BY <1>1, <1>2, <1>3, <1>5, <1>6 DEF CleanupRemoves, KnownAgree, MTypeOK

\* An id is entered in both lists in the same step, whichever message names it.
LEMMA EntryKeeps ==
    ASSUME KnownAgree, NEW p \in Peers, NEW from \in Peers,
           known[p] = NoPeer, known' = [known EXCEPT ![p] = from], AddPeer(p),
           fresh' = fresh \cup {p}, mids' \subseteq Peers,
           UNCHANGED <<view, ages, leaving, bootstrap>>
    PROVE  KnownAgree'
  <1>1. /\ known' \in [Peers -> Peers \cup {NoPeer}]
        /\ KnownIds' = KnownIds \cup {p}
    BY MembershipAssumption DEF KnownAgree, MTypeOK, KnownIds
  <1>2. agg' = KnownIds' /\ leaving' \subseteq KnownIds' /\ notify' \subseteq Peers
    BY <1>1 DEF AddPeer, KnownAgree, MTypeOK
  <1>3. fresh' \subseteq Peers
    BY DEF KnownAgree, MTypeOK
  <1>4. QED BY <1>1, <1>2, <1>3, ListsKeep

LEMMA MembershipStep == KnownAgree /\ [MNext]_mVars => KnownAgree'
  <1> SUFFICES ASSUME KnownAgree, [MNext]_mVars PROVE KnownAgree'
    OBVIOUS
  <1>1. ASSUME NEW p \in Peers, OnAnnounce(p) PROVE KnownAgree'
    <2>1. CASE known[p] # NoPeer
      BY <1>1, <2>1 DEF OnAnnounce, KnownAgree, MTypeOK, KnownIds
    <2>2. CASE known[p] = NoPeer
      <3>1. mids' \subseteq Peers
        BY <1>1, <2>2 DEF OnAnnounce, KnownAgree, MTypeOK
      <3>2. QED BY <1>1, <2>2, <3>1, EntryKeeps DEF OnAnnounce
    <2>3. QED BY <2>1, <2>2
  <1>2. ASSUME NEW p \in Peers, OnHeartbeat(p) \/ TimePasses(p) PROVE KnownAgree'
    BY <1>2 DEF OnHeartbeat, TimePasses, KnownAgree, MTypeOK, KnownIds
  <1>3. ASSUME NEW p \in Peers, Notified(p) PROVE KnownAgree'
    <2>1. view' \subseteq Ids /\ ages' \in [Ids -> 0..MaxAge]
      BY <1>3, AddToViewTyped DEF Notified, KnownAgree, MTypeOK, Ids
    <2>2. QED BY <1>3, <2>1, ViewKeeps DEF Notified, KnownAgree, MTypeOK
  <1>4. ASSUME NEW p \in Peers, NEW from \in Peers, OnShuffleResponse(from, p)
        PROVE  KnownAgree'
    BY <1>4, EntryKeeps DEF OnShuffleResponse, KnownAgree, MTypeOK
  <1>5. CASE CleanupBegins
    BY <1>5 DEF CleanupBegins, KnownAgree, MTypeOK, KnownIds
  <1>6. CASE SelectTargets
    <2>1. view' \subseteq Ids
      BY <1>6 DEF SelectTargets, KnownAgree, MTypeOK, Ids
    <2>2. QED BY <1>6, <2>1, ViewKeeps DEF SelectTargets, KnownAgree, MTypeOK
  <1>7. CASE UNCHANGED mVars
    BY <1>7 DEF mVars, KnownAgree, MTypeOK, KnownIds
  <1>8. QED
    BY <1>1, <1>2, <1>3, <1>4, <1>5, <1>6, <1>7, MaintainKeeps, ShuffleRequestKeeps,
       RemovalKeeps DEF MNext

\* However announcements, heartbeats, shuffles and the cleanup interleave, the
\* community and the aggregator know the same peers, and the cleanup that is
\* under way only holds such peers (_cleanup_stale_peers, on_shuffle_response).
THEOREM ListsAgree == MSpec => []KnownAgree
  BY MembershipInit, MembershipStep, PTL DEF MSpec
=============================================================================
