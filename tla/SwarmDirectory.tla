--------------------------- MODULE SwarmDirectory ---------------------------
(***************************************************************************)
(* The local directory of swarms: advertisements are ingested from peers   *)
(* or published by this node, live for a while in a bounded cache kept in  *)
(* order of arrival, and are filtered and ranked by the auto-discovery,    *)
(* which then loads the manifest of each candidate in turn while the       *)
(* directory goes on changing.  The clock never steps back.                *)
(***************************************************************************)
EXTENDS Naturals, Sequences, SequencesExt, FiniteSets

CONSTANTS
    Swarms,         \* swarm ids
    Creators,       \* keys that sign advertisements
    Trusted,        \* trusted_creator_pubkeys
    Affinity,       \* score of a swarm's data for each creator's fingerprint; 0: unusable
    Garbled,        \* swarms whose tags the wire form changes
    MinAffinity,    \* min_affinity
    MaxSwarms,      \* max_swarms
    MaxCache,       \* max_cache_entries
    Ttl,            \* default_ttl_seconds
    Day,            \* the 24 hours of the quota
    MaxPerCreator,  \* max_ads_per_creator_per_day
    MaxPerSession,  \* max_ads_per_session
    MaxTime         \* bound: the clock

ASSUME DirectoryAssumption ==
    /\ Trusted \subseteq Creators /\ Garbled \subseteq Swarms /\ MaxCache \in Nat \ {0} /\ Ttl \in Nat \ {0}
    /\ Day \in Nat /\ MaxPerCreator \in Nat /\ MaxPerSession \in Nat
    /\ Affinity \in [Creators \X Swarms -> Nat] /\ MaxTime \in Nat

VARIABLES
    now,        \* the clock
    cache,      \* _cache, oldest first
    stamps,     \* _creator_history: times kept for the quota
    session,    \* _session_publish_count
    ranked,     \* discover_and_join: candidates still to be loaded
    joined,     \* swarms it has joined, in that order
    published   \* history: every publication that passed the quota

dVars == <<now, cache, stamps, session, ranked, joined, published>>

\* A signed advertisement.  One that is held by a caller of query also has its
\* time of expiry, 0 stands for none.
Ads == [swarm : Swarms, creator : Creators, expires : 0..MaxTime + Ttl]

\* sign_advertisement: any creator signs for any swarm
New == [swarm : Swarms, creator : Creators, expires : {0}]

\* The wire form joins the tags with commas: a tag that holds one, or is empty,
\* comes back as other tags, which the signature does not cover
SurvivesWire(ad) == ad.swarm \notin Garbled

\* What verify_advertisement accepts of what arrives; ingest refuses the rest
\* before anything changes
Arriving == {ad \in New : SurvivesWire(ad)}

DInit ==
    /\ now = 0 /\ cache = <<>> /\ stamps = [c \in Creators |-> <<>>] /\ session = 0
    /\ ranked = <<>> /\ joined = <<>> /\ published = {}

-----------------------------------------------------------------------------
(* The cache.                                                                *)

\* The entries of s at the places K, in their order
Picked(s, K) ==
    [n \in 1..Cardinality(K) |->
        s[CHOOSE i \in K : Cardinality({j \in K : j < i}) = n - 1]]

Live(ads) == Picked(ads, {i \in DOMAIN ads : ads[i].expires > now})

\* The entry ingest makes of an advertisement
Received(ad) ==
    [swarm |-> ad.swarm, creator |-> ad.creator, at |-> now,
     expires |-> IF ad.expires # 0 THEN ad.expires ELSE now + Ttl]

\* An entry of the same swarm that arrived no earlier than now stays
Superseded(ad) == \E i \in DOMAIN cache : cache[i].swarm = ad.swarm /\ cache[i].at >= now

LastOnes(ads) ==
    SubSeq(ads, IF Len(ads) > MaxCache THEN Len(ads) - MaxCache + 1 ELSE 1, Len(ads))

\* ingest once the signature is checked
Ingested(ad) ==
    IF Superseded(ad) THEN cache
    ELSE LET others == Picked(cache, {i \in DOMAIN cache : cache[i].swarm # ad.swarm})
         IN LastOnes(Live(Append(others, Received(ad))))

\* ingest of an advertisement from the network
Ingest(ad) ==
    /\ ad \in Arriving
    /\ cache' = Ingested(ad)
    /\ UNCHANGED <<now, stamps, session, ranked, joined, published>>

-----------------------------------------------------------------------------
(* Publishing.                                                               *)

\* What is left of the stamps from the place `first` on; 0 stands for no place
From(q, first) == IF first = 0 THEN <<>> ELSE SubSeq(q, first, Len(q))

\* Mutant: a stamp leaves with the window's last second, not after it.
RecentHalfOpen(c) == From(stamps[c], SelectInSeq(stamps[c], LAMBDA t : t + Day > now))

\* _check_publish_quota takes stamps off the front while they are older than a
\* day ...
Recent(c) == From(stamps[c], SelectInSeq(stamps[c], LAMBDA t : t + Day >= now))

\* ... and refuses a creator or a session at its limit
WithinQuota(c) == Len(Recent(c)) < MaxPerCreator /\ session < MaxPerSession

\* publish: counted before it is ingested, which may still leave it out.
\* The advertisement is new or one that an earlier query returned.
Publish(ad) ==
    /\ IF WithinQuota(ad.creator)
       THEN /\ stamps' = [stamps EXCEPT ![ad.creator] = Append(Recent(ad.creator), now)]
            /\ session' = session + 1
            /\ published' = published \cup {<<ad.creator, session + 1, now>>}
            /\ cache' = Ingested(ad)
       ELSE /\ stamps' = [stamps EXCEPT ![ad.creator] = Recent(ad.creator)]
            /\ UNCHANGED <<session, published, cache>>
    /\ UNCHANGED <<now, ranked, joined>>

-----------------------------------------------------------------------------
(* Discovery.                                                                *)

Score(ad) == Affinity[<<ad.creator, ad.swarm>>]

\* query with the caller's filters and the pinned creators, then the checks of
\* rank_candidates
Candidates(wanted, trust) ==
    SelectSeq(Live(cache), LAMBDA ad :
        /\ ad.swarm \in wanted
        /\ trust = "pinned" => ad.creator \in Trusted
        /\ Score(ad) # 0 /\ Score(ad) >= MinAffinity)

\* A stable descending sort: each goes behind those that score as much
Ranked(ads) ==
    LET Behind(i) == {j \in DOMAIN ads : \/ Score(ads[j]) > Score(ads[i])
                                         \/ Score(ads[j]) = Score(ads[i]) /\ j < i}
    IN [n \in DOMAIN ads |-> ads[CHOOSE i \in DOMAIN ads : Cardinality(Behind(i)) = n - 1]]

Best(ads) == SubSeq(ads, 1, IF Len(ads) < MaxSwarms THEN Len(ads) ELSE MaxSwarms)

\* discover_and_join up to its first await
Discover(wanted, trust) ==
    /\ ranked = <<>>
    /\ trust = "pinned" => Trusted # {}
    /\ cache' = Live(cache)
    /\ ranked' = Best(Ranked(Candidates(wanted, trust)))
    /\ joined' = <<>>
    /\ UNCHANGED <<now, stamps, session, published>>

\* The loader returns a manifest or raises; the next candidate follows
Load(ok) ==
    /\ ranked # <<>>
    /\ joined' = IF ok THEN Append(joined, Head(ranked).swarm) ELSE joined
    /\ ranked' = Tail(ranked)
    /\ UNCHANGED <<now, cache, stamps, session, published>>

Tick ==
    /\ now < MaxTime
    /\ now' = now + 1
    /\ UNCHANGED <<cache, stamps, session, ranked, joined, published>>

\* What a caller may publish: a new advertisement, or one it was handed
Held == {[swarm |-> e.swarm, creator |-> e.creator, expires |-> e.expires]
            : e \in ToSet(cache)}
DNext ==
    \/ \E ad \in Arriving : Ingest(ad)
    \/ \E ad \in New \cup Held : Publish(ad)
    \/ \E wanted \in SUBSET Swarms, trust \in {"open", "pinned"} : Discover(wanted, trust)
    \/ \E ok \in BOOLEAN : Load(ok)
    \/ Tick

DSpec == DInit /\ [][DNext]_dVars

-----------------------------------------------------------------------------
(* Properties.                                                               *)

\* Whatever is ingested and published, the cache holds no more than its limit,
\* one entry per swarm, in order of arrival: the entry ingest evicts when it is
\* full is the one heard of longest ago.
DTypeOK ==
    /\ now \in 0..MaxTime /\ session \in 0..MaxPerSession
    /\ Len(cache) <= MaxCache
    /\ \A i, j \in DOMAIN cache :
         i < j => cache[i].swarm # cache[j].swarm /\ cache[i].at <= cache[j].at

\* Whatever two callers publish and however the kept stamps are trimmed
\* (_check_publish_quota), no 24 hours, their first and last second included,
\* hold more publications of one creator than its quota, and a process never
\* publishes more than its session's share.  The cache keeps to its own limit.
QuotaHolds ==
    /\ DTypeOK
    /\ Cardinality(published) <= MaxPerSession
    /\ \A c \in Creators, t \in 0..MaxTime :
         Cardinality({p \in published : p[1] = c /\ p[3] >= t /\ p[3] <= t + Day})
            <= MaxPerCreator
=============================================================================
