----------------------------- MODULE JoinProofs -----------------------------
(***************************************************************************)
(* Proofs about what a node does to enter a swarm: the pins of creator     *)
(* keys (TofuCache), for any number of swarms, keys and restarts, the      *)
(* files by which a run is found (RunCommand), for any number of runs and  *)
(* node ids, cache and quota of the directory (SwarmDirectory), for any    *)
(* limits, times to live and number of swarms and creators, and the fetch  *)
(* of a manifest (ManifestExchange), for any number of servers and any     *)
(* size of manifests and chunks.                                           *)
(***************************************************************************)
EXTENDS TofuCache, RunCommand, SwarmDirectory, ManifestExchange, FiniteSetTheorems, SequenceTheorems,
        NaturalsInduction, WellFoundedInduction, TLAPS

-----------------------------------------------------------------------------
(* Pins of creator keys.                                                     *)

PinTypeOK ==
    /\ loaded \in BOOLEAN /\ degraded \in BOOLEAN
    /\ mem \in Pins /\ disk \in Pins
    /\ accepted \in [TofuIds -> SUBSET Keys]

\* As long as the document could be read and written, the memory is the
\* document, and a key was accepted only where it is the one pinned there.
PinInv ==
    ~degraded =>
        /\ loaded => mem = disk
        /\ \A i \in TofuIds : \A k \in accepted[i] : i \in DOMAIN disk /\ disk[i] = k

TofuInv == PinTypeOK /\ PinInv

\* Pins are functions on some of the swarm ids.
LEMMA PinsAreFunctions ==
    ASSUME NEW f \in Pins
    PROVE  DOMAIN f \subseteq TofuIds /\ f \in [DOMAIN f -> Keys]
  BY DEF Pins

LEMMA FunctionsArePins ==
    ASSUME NEW S \in SUBSET TofuIds, NEW f \in [S -> Keys]
    PROVE  f \in Pins /\ DOMAIN f = S
  BY DEF Pins

LEMMA NoPinsTyped == NoPins \in Pins /\ DOMAIN NoPins = {}
  <1>1. NoPins \in [{} -> Keys]
    BY DEF NoPins
  <1>2. QED BY <1>1, FunctionsArePins

LEMMA TofuInit == TInit => TofuInv
  BY NoPinsTyped DEF TInit, TofuInv, PinTypeOK, PinInv

\* Whatever is read has only swarm ids; it is the document while nothing failed.
LEMMA ViewsTyped ==
    ASSUME TofuInv, NEW pins \in Views
    PROVE  /\ pins \in Pins
           /\ ~degraded /\ ~(~loaded /\ pins # disk) => pins = disk
  BY NoPinsTyped DEF TofuInv, PinTypeOK, PinInv, Views

\* A first key is entered, a later one changes nothing.
LEMMA PinnedEffect ==
    ASSUME NEW pins \in Pins, NEW i \in TofuIds, NEW k \in Keys
    PROVE  /\ Pinned(pins, i, k) \in Pins
           /\ i \in DOMAIN pins => Pinned(pins, i, k) = pins
           /\ i \notin DOMAIN pins =>
                 /\ DOMAIN Pinned(pins, i, k) = DOMAIN pins \cup {i}
                 /\ Pinned(pins, i, k)[i] = k
                 /\ \A j \in DOMAIN pins : Pinned(pins, i, k)[j] = pins[j]
  <1>1. CASE i \in DOMAIN pins
    BY <1>1 DEF Pinned
  <1>2. CASE i \notin DOMAIN pins
    <2>1. Pinned(pins, i, k) = WithPin(pins, i, k)
      BY <1>2 DEF Pinned
    <2>2. WithPin(pins, i, k) \in [DOMAIN pins \cup {i} -> Keys]
      BY PinsAreFunctions DEF WithPin
    <2>3. WithPin(pins, i, k) \in Pins
      BY <2>2, PinsAreFunctions, FunctionsArePins
    <2>4. QED BY <1>2, <2>1, <2>3 DEF WithPin
  <1>3. QED BY <1>1, <1>2

\* forget leaves the other pins.
LEMMA RestrictEffect ==
    ASSUME NEW pins \in Pins, NEW i \in TofuIds
    PROVE  LET new == Restrict(pins, DOMAIN pins \ {i})
           IN  /\ new \in Pins /\ DOMAIN new = DOMAIN pins \ {i}
               /\ \A j \in DOMAIN pins \ {i} : new[j] = pins[j]
               /\ i \notin DOMAIN pins => new = pins
  <1> DEFINE new == Restrict(pins, DOMAIN pins \ {i})
  <1>1. pins \in [DOMAIN pins -> Keys] /\ DOMAIN pins \subseteq TofuIds
    BY PinsAreFunctions
  <1>2. new \in [DOMAIN pins \ {i} -> Keys]
    BY <1>1 DEF Restrict
  <1>3. new \in Pins
    BY <1>1, <1>2, FunctionsArePins
  <1>4. i \notin DOMAIN pins => new = pins
    BY <1>1 DEF Restrict
  <1>5. QED BY <1>2, <1>3, <1>4 DEF Restrict

LEMMA RecordKeeps ==
    ASSUME TofuInv, NEW i \in TofuIds, NEW k \in Keys, RecordOrValidate(i, k)
    PROVE  TofuInv'
  <1>1. PICK pins \in Views :
           LET new == Pinned(pins, i, k)
               first == i \notin DOMAIN pins
               returns == (first => disk' = new) /\ new[i] = k
           IN /\ loaded' = TRUE /\ mem' = new
              /\ disk' \in IF first THEN Flushed(new) ELSE {disk}
              /\ accepted' = IF returns THEN [accepted EXCEPT ![i] = @ \cup {k}] ELSE accepted
              /\ degraded' = (\/ degraded
                              \/ ~loaded /\ pins # disk
                              \/ first /\ disk' # new)
    BY DEF RecordOrValidate
  <1> DEFINE new == Pinned(pins, i, k)
  <1>2. /\ pins \in Pins
        /\ ~degraded /\ ~(~loaded /\ pins # disk) => pins = disk
    BY ViewsTyped
  <1>3. /\ new \in Pins
        /\ i \in DOMAIN pins => new = pins
        /\ i \notin DOMAIN pins =>
              /\ DOMAIN new = DOMAIN pins \cup {i} /\ new[i] = k
              /\ \A j \in DOMAIN pins : new[j] = pins[j]
    <2>1. pins \in Pins
      BY <1>2
    <2>2. new \in Pins /\ (i \in DOMAIN pins => new = pins)
      BY <2>1, PinnedEffect
    <2>3. ASSUME i \notin DOMAIN pins
          PROVE  DOMAIN new = DOMAIN pins \cup {i} /\ new[i] = k
      BY <2>1, <2>3, PinnedEffect
    <2>4. ASSUME i \notin DOMAIN pins, NEW j \in DOMAIN pins PROVE new[j] = pins[j]
      BY <2>4 DEF Pinned, WithPin
    <2>5. QED BY <2>2, <2>3, <2>4
  <1>4. disk' \in {new, disk}
    BY <1>1 DEF Flushed
  <1>5. accepted' \in [TofuIds -> SUBSET Keys]
    BY <1>1 DEF TofuInv, PinTypeOK
  <1>6. degraded' \in BOOLEAN
    BY <1>1
  <1>7. PinTypeOK'
    BY <1>1, <1>3, <1>4, <1>5, <1>6 DEF TofuInv, PinTypeOK
  <1>8. ASSUME ~degraded'
        PROVE  /\ mem' = disk'
               /\ \A j \in TofuIds : \A a \in accepted'[j] : j \in DOMAIN disk' /\ disk'[j] = a
    <2>1. ~degraded /\ pins = disk /\ (i \notin DOMAIN disk => disk' = new)
      BY <1>1, <1>2, <1>8
    <2>2. \A j \in TofuIds : \A a \in accepted[j] : j \in DOMAIN disk /\ disk[j] = a
      BY <2>1 DEF TofuInv, PinInv
    <2>3. CASE i \in DOMAIN disk
      <3>1. mem' = disk /\ disk' = disk
        BY <1>1, <1>3, <2>1, <2>3
      <3>2. accepted' = IF disk[i] = k THEN [accepted EXCEPT ![i] = @ \cup {k}] ELSE accepted
        BY <1>1, <2>1, <2>3, <3>1
      <3>3. ASSUME NEW j \in TofuIds, NEW a \in accepted'[j]
            PROVE  a \in accepted[j] \/ (j = i /\ a = k /\ disk[i] = k)
        BY <3>2, <3>3 DEF TofuInv, PinTypeOK
      <3>4. QED BY <2>2, <2>3, <3>1, <3>3
    <2>4. CASE i \notin DOMAIN disk
      <3>1. /\ mem' = new /\ disk' = new /\ DOMAIN disk' = DOMAIN disk \cup {i}
            /\ disk'[i] = k /\ \A j \in DOMAIN disk : disk'[j] = disk[j]
        BY <1>1, <1>3, <2>1, <2>4
      <3>2. accepted' \in {accepted, [accepted EXCEPT ![i] = @ \cup {k}]}
        BY <1>1
      <3>3. ASSUME NEW j \in TofuIds, NEW a \in accepted'[j]
            PROVE  a \in accepted[j] \/ (j = i /\ a = k)
        BY <3>2, <3>3 DEF TofuInv, PinTypeOK
      <3>4. QED BY <2>2, <3>1, <3>3
    <2>5. QED BY <2>3, <2>4
  <1>9. QED BY <1>7, <1>8 DEF TofuInv, PinInv

LEMMA ForgetKeeps ==
    ASSUME TofuInv, NEW i \in TofuIds, Forget(i)
    PROVE  TofuInv'
  <1>1. PICK pins \in Views :
           LET new == Restrict(pins, DOMAIN pins \ {i})
           IN /\ loaded' = TRUE /\ mem' = new
              /\ disk' \in IF i \in DOMAIN pins THEN Flushed(new) ELSE {disk}
              /\ accepted' = IF i \in DOMAIN pins THEN [accepted EXCEPT ![i] = {}]
                             ELSE accepted
              /\ degraded' = (\/ degraded
                              \/ ~loaded /\ pins # disk
                              \/ i \in DOMAIN pins /\ disk' # new)
    BY DEF Forget
  <1> DEFINE new == Restrict(pins, DOMAIN pins \ {i})
  <1>2. /\ pins \in Pins
        /\ ~degraded /\ ~(~loaded /\ pins # disk) => pins = disk
    BY ViewsTyped
  <1>3. /\ new \in Pins /\ DOMAIN new = DOMAIN pins \ {i}
        /\ \A j \in DOMAIN pins \ {i} : new[j] = pins[j]
        /\ i \notin DOMAIN pins => new = pins
    BY <1>2, RestrictEffect
  <1>4. disk' \in {new, disk}
    BY <1>1 DEF Flushed
  <1>5. accepted' \in [TofuIds -> SUBSET Keys]
    BY <1>1 DEF TofuInv, PinTypeOK
  <1>6. PinTypeOK'
    BY <1>1, <1>2, <1>3, <1>4, <1>5 DEF TofuInv, PinTypeOK
  <1>7. ASSUME ~degraded'
        PROVE  /\ mem' = disk'
               /\ \A j \in TofuIds : \A a \in accepted'[j] : j \in DOMAIN disk' /\ disk'[j] = a
    <2>1. ~degraded /\ pins = disk /\ (i \in DOMAIN disk => disk' = new)
      BY <1>1, <1>2, <1>7
    <2>2. \A j \in TofuIds : \A a \in accepted[j] : j \in DOMAIN disk /\ disk[j] = a
      BY <2>1 DEF TofuInv, PinInv
    <2>3. CASE i \in DOMAIN disk
      <3>1. ASSUME NEW j \in TofuIds, NEW a \in accepted'[j]
            PROVE  j # i /\ a \in accepted[j]
        BY <1>1, <2>1, <2>3, <3>1 DEF TofuInv, PinTypeOK
      <3>2. QED BY <1>1, <1>3, <2>1, <2>2, <2>3, <3>1
    <2>4. CASE i \notin DOMAIN disk
      <3>1. disk' = disk /\ accepted' = accepted
        BY <1>1, <2>1, <2>4
      <3>2. mem' = disk
        BY <1>1, <1>3, <2>1, <2>4
      <3>3. QED BY <2>2, <3>1, <3>2
    <2>5. QED BY <2>3, <2>4
  <1>8. QED BY <1>6, <1>7 DEF TofuInv, PinInv

LEMMA TofuStep == TofuInv /\ [TNext]_tVars => TofuInv'
  <1> SUFFICES ASSUME TofuInv, [TNext]_tVars PROVE TofuInv'
    OBVIOUS
  <1>1. ASSUME NEW i \in TofuIds, Get(i) PROVE TofuInv'
    <2>1. PICK pins \in Views : /\ loaded' = TRUE /\ mem' = pins
                                 /\ degraded' = (degraded \/ pins # disk)
                                 /\ UNCHANGED <<disk, accepted>>
      BY <1>1 DEF Get
    <2>2. QED BY <2>1, ViewsTyped DEF TofuInv, PinTypeOK, PinInv
  <1>2. CASE Clear
    <2>1. PinTypeOK'
      BY <1>2, NoPinsTyped DEF Clear, Flushed, TofuInv, PinTypeOK
    <2>2. QED BY <1>2, <2>1 DEF Clear, Flushed, TofuInv, PinInv
  <1>3. CASE ProcessRestarts
    BY <1>3, NoPinsTyped DEF ProcessRestarts, TofuInv, PinTypeOK, PinInv
  <1>4. CASE UNCHANGED tVars
    BY <1>4 DEF tVars, TofuInv, PinTypeOK, PinInv
  <1>5. QED BY <1>1, <1>2, <1>3, <1>4, RecordKeeps, ForgetKeeps DEF TNext

\* No swarm is entered with two keys unless it was forgotten in between, as
\* long as the document could be read and written (record_or_validate, forget).
THEOREM FirstKeyStays == TSpec => []OneKey
  <1>1. TofuInv => OneKey
    <2> SUFFICES ASSUME TofuInv PROVE OneKey
      OBVIOUS
    <2>1. ASSUME ~degraded, NEW i \in TofuIds PROVE Cardinality(accepted[i]) <= 1
      <3>1. accepted[i] = {} \/ accepted[i] = {disk[i]}
        BY <2>1 DEF TofuInv, PinInv
      <3>2. Cardinality({}) = 0 /\ Cardinality({disk[i]}) = 1
        BY FS_EmptySet, FS_Singleton
      <3>3. QED BY <3>1, <3>2
    <2>2. QED BY <2>1, PinsAreFunctions DEF TofuInv, PinTypeOK, OneKey
  <1>2. QED BY <1>1, TofuInit, TofuStep, PTL DEF TSpec

-----------------------------------------------------------------------------
(* The files of a run.                                                       *)

RunTypeOK ==
    /\ phase \in [Runs -> Setup \cup Present \cup Ended]
    /\ hasJson \in [Runs -> BOOLEAN] /\ hasServer \in [Runs -> BOOLEAN]
    /\ json \in [NodeIds -> Runs \cup {NoRun}] /\ sock \in [NodeIds -> Runs \cup {NoRun}]
    /\ last \in [NodeIds -> {"none", "tidy", "untidy"}]

\* A file was written by a run that has gone beyond its setup.
FilesInv ==
    \A i \in NodeIds :
        /\ json[i] # NoRun => phase[json[i]] \notin Setup
        /\ sock[i] # NoRun => phase[sock[i]] \notin Setup

\* After a tidy exit, files under a node id are those of a run still there.
TidyInv ==
    \A i \in NodeIds :
        last[i] = "tidy" /\ (json[i] # NoRun \/ sock[i] # NoRun)
            => \E r \in Runs : IdOf[r] = i /\ phase[r] \in Present

RunInv == RunTypeOK /\ FilesInv /\ TidyInv

LEMMA RunInit == RInit => RunInv
  BY RunAssumption DEF RInit, RunInv, RunTypeOK, FilesInv, TidyInv, Setup

\* A step of a run before it announces itself, or between two phases in which
\* it is present.
LEMMA QuietKeeps ==
    ASSUME RunInv, NEW r \in Runs, NEW p \in Setup \cup Present \cup Ended,
           phase' = [phase EXCEPT ![r] = p],
           phase[r] \notin Setup => p \notin Setup,
           phase[r] \in Present => p \in Present,
           UNCHANGED <<hasJson, hasServer, files>>
    PROVE  RunInv'
  <1>1. RunTypeOK'
    BY DEF RunInv, RunTypeOK, files
  <1>2. FilesInv'
    BY DEF RunInv, RunTypeOK, FilesInv, files
  <1>3. TidyInv'
    BY DEF RunInv, RunTypeOK, TidyInv, files
  <1>4. QED BY <1>1, <1>2, <1>3 DEF RunInv

\* A run that is present and stays so writes its files or takes them away.
LEMMA WriterKeeps ==
    ASSUME RunInv, NEW r \in Runs, NEW p \in Present, phase[r] \in {"ready"} \cup Present,
           phase' = [phase EXCEPT ![r] = p],
           hasJson' \in [Runs -> BOOLEAN], hasServer' \in [Runs -> BOOLEAN],
           NEW j \in {r, NoRun}, NEW k \in {r, NoRun},
           json' = [json EXCEPT ![IdOf[r]] = j] \/ UNCHANGED json,
           sock' = [sock EXCEPT ![IdOf[r]] = k] \/ UNCHANGED sock,
           UNCHANGED last
    PROVE  RunInv'
  <1>1. IdOf[r] \in NodeIds /\ NoRun \notin Runs
    BY RunAssumption
  <1>2. p \notin Setup
    BY DEF Present, Setup
  <1>3. RunTypeOK'
    <2>1. phase' \in [Runs -> Setup \cup Present \cup Ended]
      BY DEF RunInv, RunTypeOK
    <2>2. json' \in [NodeIds -> Runs \cup {NoRun}]
      BY <1>1 DEF RunInv, RunTypeOK
    <2>3. sock' \in [NodeIds -> Runs \cup {NoRun}]
      BY <1>1 DEF RunInv, RunTypeOK
    <2>4. QED BY <2>1, <2>2, <2>3 DEF RunInv, RunTypeOK
  <1>4. /\ phase'[r] \in Present /\ phase'[r] \notin Setup
        /\ \A q \in Runs : phase[q] \notin Setup => phase'[q] \notin Setup
        /\ \A q \in Runs : phase[q] \in Present => phase'[q] \in Present
    BY <1>2 DEF RunInv, RunTypeOK
  <1>5. \A i \in NodeIds : /\ json'[i] \in {json[i], r, NoRun} /\ sock'[i] \in {sock[i], r, NoRun}
                           /\ i # IdOf[r] => json'[i] = json[i] /\ sock'[i] = sock[i]
    BY <1>1 DEF RunInv, RunTypeOK
  <1>6. FilesInv'
    BY <1>4, <1>5 DEF RunInv, RunTypeOK, FilesInv
  <1>7. TidyInv'
    BY <1>4, <1>5 DEF RunInv, RunTypeOK, TidyInv
  <1>8. QED BY <1>3, <1>6, <1>7 DEF RunInv

\* A run leaves without having taken its files away: its exit is untidy.
LEMMA UntidyKeeps ==
    ASSUME RunInv, NEW r \in Runs, NEW p \in Ended, phase[r] \notin Ended, phase[r] # "off",
           phase' = [phase EXCEPT ![r] = p],
           NEW k \in {r, NoRun},
           sock' = [sock EXCEPT ![IdOf[r]] = k] \/ UNCHANGED sock,
           last' = [last EXCEPT ![IdOf[r]] = "untidy"],
           UNCHANGED <<hasJson, hasServer, json>>
    PROVE  RunInv'
  <1>1. IdOf[r] \in NodeIds /\ NoRun \notin Runs /\ p \notin Setup
    BY RunAssumption DEF Ended, Setup
  <1>2. RunTypeOK'
    BY <1>1 DEF RunInv, RunTypeOK
  <1>3. \A q \in Runs : /\ phase[q] \notin Setup => phase'[q] \notin Setup
                        /\ q # r => phase'[q] = phase[q]
                        /\ q = r => phase'[q] \notin Setup
    BY <1>1 DEF RunInv, RunTypeOK
  <1>4. FilesInv'
    <2>1. \A i \in NodeIds : /\ json'[i] = json[i] /\ sock'[i] \in {sock[i], r, NoRun}
                             /\ json[i] \in Runs \cup {NoRun} /\ sock[i] \in Runs \cup {NoRun}
      BY <1>1 DEF RunInv, RunTypeOK
    <2>2. QED BY <1>3, <2>1 DEF RunInv, FilesInv
  <1>5. TidyInv'
    <2> SUFFICES ASSUME NEW i \in NodeIds, last'[i] = "tidy", json'[i] # NoRun \/ sock'[i] # NoRun
                 PROVE  \E q \in Runs : IdOf[q] = i /\ phase'[q] \in Present
      BY DEF TidyInv
    <2>1. i # IdOf[r] /\ last[i] = "tidy" /\ json[i] = json'[i] /\ sock[i] = sock'[i]
      BY <1>1 DEF RunInv, RunTypeOK
    <2>2. PICK q \in Runs : IdOf[q] = i /\ phase[q] \in Present
      BY <2>1 DEF RunInv, TidyInv
    <2>3. QED BY <1>3, <2>1, <2>2
  <1>6. QED BY <1>2, <1>4, <1>5 DEF RunInv

\* The end of the finally of _async_run: with both artefacts the exit is tidy
\* and both files are gone, whoever wrote them.
LEMMA LeaveKeeps ==
    ASSUME RunInv, NEW r \in Runs, Leave(r)
    PROVE  RunInv'
  <1>1. IdOf[r] \in NodeIds /\ NoRun \notin Runs
    BY RunAssumption
  <1>2. /\ phase' = [phase EXCEPT ![r] = "ended"] /\ UNCHANGED <<hasJson, hasServer>>
        /\ sock' = IF hasServer[r] THEN [sock EXCEPT ![IdOf[r]] = NoRun] ELSE sock
        /\ json' = IF hasJson[r] THEN [json EXCEPT ![IdOf[r]] = NoRun] ELSE json
        /\ last' = [last EXCEPT ![IdOf[r]] = IF hasJson[r] /\ hasServer[r]
                                             THEN "tidy" ELSE "untidy"]
    BY DEF Leave, SocketGone
  <1>3. RunTypeOK'
    BY <1>1, <1>2 DEF RunInv, RunTypeOK, Ended
  <1>4. \A q \in Runs : /\ phase[q] \notin Setup => phase'[q] \notin Setup
                        /\ q # r => phase'[q] = phase[q]
    BY <1>2 DEF RunInv, RunTypeOK, Setup
  <1>5. FilesInv'
    BY <1>1, <1>2, <1>4 DEF RunInv, RunTypeOK, FilesInv
  <1>6. TidyInv'
    <2> SUFFICES ASSUME NEW i \in NodeIds, last'[i] = "tidy", json'[i] # NoRun \/ sock'[i] # NoRun
                 PROVE  \E q \in Runs : IdOf[q] = i /\ phase'[q] \in Present
      BY DEF TidyInv
    <2>1. i # IdOf[r]
      BY <1>1, <1>2 DEF RunInv, RunTypeOK
    <2>2. last[i] = "tidy" /\ json[i] = json'[i] /\ sock[i] = sock'[i]
      BY <1>1, <1>2, <2>1 DEF RunInv, RunTypeOK
    <2>3. PICK q \in Runs : IdOf[q] = i /\ phase[q] \in Present
      BY <2>2 DEF RunInv, TidyInv
    <2>4. QED BY <1>4, <2>1, <2>3
  <1>7. QED BY <1>3, <1>5, <1>6 DEF RunInv

LEMMA RunStep == RunInv /\ [RNext]_rVars => RunInv'
  <1> SUFFICES ASSUME RunInv, [RNext]_rVars PROVE RunInv'
    OBVIOUS
  <1>1. ASSUME NEW r \in Runs, LoadManifest(r) \/ BuildModel(r) \/ Configure(r) \/ Wire(r)
        PROVE  RunInv'
    <2>1. PICK p \in (Setup \ {"off"}) \cup {"ended"} :
             /\ phase' = [phase EXCEPT ![r] = p] /\ phase[r] \in Setup
             /\ UNCHANGED <<hasJson, hasServer, files>>
      BY <1>1 DEF LoadManifest, BuildModel, Configure, Wire, Moves, Returns, Setup
    <2>2. p \in Setup \cup Present \cup Ended /\ phase[r] \notin Present
      BY <2>1 DEF Setup, Present, Ended
    <2>3. QED BY <2>1, <2>2, QuietKeeps
  <1>2. ASSUME NEW r \in Runs, NEW ok \in BOOLEAN, Announce(r, ok) PROVE RunInv'
    <2>1. hasJson' \in [Runs -> BOOLEAN] /\ hasServer' \in [Runs -> BOOLEAN]
      BY <1>2 DEF Announce, RunInv, RunTypeOK
    <2>2. "announced" \in Present
      BY DEF Present
    <2>3. QED BY <1>2, <2>1, <2>2, WriterKeeps DEF Announce
  <1>3. ASSUME NEW r \in Runs, NEW ok \in BOOLEAN, Bind(r, ok) PROVE RunInv'
    <2>1. PICK k \in {r, NoRun} : sock' = [sock EXCEPT ![IdOf[r]] = k]
      BY <1>3 DEF Bind
    <2>2. CASE ctrlC[r] /\ ok
      BY <1>3, <2>1, <2>2, UntidyKeeps DEF Bind, Ended
    <2>3. CASE ~(ctrlC[r] /\ ok)
      <3>1. /\ phase' = [phase EXCEPT ![r] = "training"]
            /\ UNCHANGED <<last, json, hasJson>> /\ phase[r] = "announced"
            /\ hasServer' = [hasServer EXCEPT ![r] = ok]
        BY <1>3, <2>3 DEF Bind
      <3>2. hasJson' \in [Runs -> BOOLEAN] /\ hasServer' \in [Runs -> BOOLEAN]
        BY <3>1 DEF RunInv, RunTypeOK
      <3>3. "training" \in Present /\ phase[r] \in {"ready"} \cup Present
        BY <3>1 DEF Present
      <3>4. QED BY <2>1, <3>1, <3>2, <3>3, WriterKeeps
    <2>4. QED BY <2>2, <2>3
  <1>4. ASSUME NEW r \in Runs, NEW ok \in BOOLEAN, RoundEnd(r, ok) PROVE RunInv'
    <2>1. phase' = [phase EXCEPT ![r] = "training"] /\ phase[r] = "training"
      BY <1>4 DEF RoundEnd, RunInv, RunTypeOK
    <2>2. /\ json' = [json EXCEPT ![IdOf[r]] = r] \/ UNCHANGED json
          /\ UNCHANGED <<sock, last, hasJson, hasServer>>
      BY <1>4 DEF RoundEnd
    <2>3. hasJson' \in [Runs -> BOOLEAN] /\ hasServer' \in [Runs -> BOOLEAN]
      BY <2>2 DEF RunInv, RunTypeOK
    <2>4. "training" \in Present
      BY DEF Present
    <2>5. QED BY <2>1, <2>2, <2>3, <2>4, WriterKeeps
  <1>5. ASSUME NEW r \in Runs, TrainEnds(r) \/ Close(r) PROVE RunInv'
    <2>1. PICK p \in {"closing", "closed"} :
             /\ phase' = [phase EXCEPT ![r] = p] /\ phase[r] \in {"training", "closing"}
             /\ UNCHANGED <<hasJson, hasServer, files>>
      BY <1>5 DEF TrainEnds, Close, Moves
    <2>2. p \in Present /\ p \notin Setup
      BY DEF Present, Setup
    <2>3. QED BY <2>1, <2>2, QuietKeeps
  <1>6. ASSUME NEW r \in Runs, Interrupt(r) PROVE RunInv'
    BY <1>6 DEF Interrupt, RunInv, RunTypeOK, FilesInv, TidyInv, files
  <1>7. ASSUME NEW r \in Runs, Kill(r) PROVE RunInv'
    <2>1. "killed" \in Ended /\ "killed" \notin Setup
      BY DEF Ended, Setup
    <2>2. CASE phase[r] \in Present
      <3>1. UNCHANGED sock /\ last' = [last EXCEPT ![IdOf[r]] = "untidy"]
        BY <1>7, <2>2 DEF Kill
      <3>2. QED BY <1>7, <2>1, <3>1, UntidyKeeps DEF Kill
    <2>3. CASE phase[r] \notin Present
      <3>1. UNCHANGED <<hasJson, hasServer, files>> /\ phase' = [phase EXCEPT ![r] = "killed"]
        BY <1>7, <2>3 DEF Kill, files
      <3>2. QED BY <2>1, <2>3, <3>1, QuietKeeps
    <2>4. QED BY <2>2, <2>3
  <1>8. CASE UNCHANGED rVars
    BY <1>8 DEF rVars, files, RunInv, RunTypeOK, FilesInv, TidyInv
  <1>9. QED
    BY <1>1, <1>2, <1>3, <1>4, <1>5, <1>6, <1>7, <1>8, LeaveKeeps DEF RNext

\* After a tidy exit `quinkgl status` finds nothing once all runs under the id
\* are over, and what it does find belongs to a run that has begun
\* (_async_run, StatusServer.stop, _discover_nodes, _read_state).
THEOREM TidyExitsLeaveNothing == RSpec => []TidyExit
  <1>1. RunInv => TidyExit
    <2> SUFFICES ASSUME RunInv, NEW i \in NodeIds
                 PROVE  /\ (/\ last[i] = "tidy"
                            /\ \A r \in Runs : IdOf[r] = i => phase[r] \notin Present)
                           => ShowOnce(i) = "TRUST_ERROR"
                        /\ ShowOnce(i) = "SUCCESS" => phase[ReadState(i)] \notin Setup
      BY DEF TidyExit
    <2>1. ASSUME last[i] = "tidy", \A r \in Runs : IdOf[r] = i => phase[r] \notin Present
          PROVE  ShowOnce(i) = "TRUST_ERROR"
      <3>1. json[i] = NoRun /\ sock[i] = NoRun
        BY <2>1 DEF RunInv, TidyInv
      <3>2. QED BY <3>1 DEF ShowOnce, DiscoverNodes
    <2>2. ASSUME ShowOnce(i) = "SUCCESS" PROVE phase[ReadState(i)] \notin Setup
      <3>1. ReadState(i) # NoRun
        BY <2>2 DEF ShowOnce
      <3>2. QED BY <3>1 DEF ReadState, RunInv, FilesInv
    <2>3. QED BY <2>1, <2>2
  <1>2. QED BY <1>1, RunInit, RunStep, PTL DEF RSpec

-----------------------------------------------------------------------------
(* Entries picked from a sequence.                                           *)

\* The number of places of K before i.
Rank(K, i) == Cardinality({j \in K : j < i})

\* The ranks of a finite set of places are 0, 1, 2 and so on, in their order.
LEMMA RanksAreNumbers ==
    ASSUME NEW K \in SUBSET Nat, IsFiniteSet(K)
    PROVE  /\ Cardinality(K) \in Nat
           /\ \A i \in K : Rank(K, i) \in 0..Cardinality(K) - 1
           /\ \A i, j \in K : i < j => Rank(K, i) < Rank(K, j)
           /\ \A n \in 1..Cardinality(K) : \E i \in K : Rank(K, i) = n - 1
  <1> DEFINE Before(i) == {j \in K : j < i}
             R == [i \in K |-> Rank(K, i)]
             N == Cardinality(K)
  <1>1. N \in Nat
    BY FS_CardinalityType
  <1>2. ASSUME NEW i \in K
        PROVE  IsFiniteSet(Before(i)) /\ Cardinality(Before(i)) \in Nat
    BY FS_Subset, FS_CardinalityType
  <1>3. ASSUME NEW i \in K
        PROVE  Cardinality(Before(i) \cup {i}) = Cardinality(Before(i)) + 1
    <2>1. i \notin Before(i)
      <3>1. i \in Nat
        BY Zenon
      <3>2. QED BY <3>1
    <2>2. QED BY <1>2, <2>1, FS_AddElement
  <1>4. ASSUME NEW i \in K PROVE Rank(K, i) \in 0..N - 1
    <2>1. Before(i) \cup {i} \in SUBSET K
      OBVIOUS
    <2>2. Cardinality(Before(i) \cup {i}) <= N
      BY <2>1, FS_Subset
    <2>3. QED BY <1>1, <1>2, <1>3, <2>2 DEF Rank
  <1>5. ASSUME NEW i \in K, NEW j \in K, i < j PROVE Rank(K, i) < Rank(K, j)
    <2>1. Before(i) \cup {i} \in SUBSET Before(j)
      <3>1. i \in Nat /\ j \in Nat
        BY Zenon
      <3>2. ASSUME NEW k \in K, k < i PROVE k < j
        <4>1. k \in Nat
          BY Zenon
        <4>2. QED BY <1>5, <3>1, <3>2, <4>1
      <3>3. QED BY <1>5, <3>2
    <2>2. Cardinality(Before(i) \cup {i}) <= Cardinality(Before(j))
      BY <1>2, <2>1, FS_Subset
    <2>3. QED BY <1>2, <1>3, <2>2 DEF Rank
  <1>6. R \in Injection(K, 0..N - 1)
    <2>1. R \in [K -> 0..N - 1]
      BY <1>4
    <2>2. ASSUME NEW i \in K, NEW j \in K, R[i] = R[j] PROVE i = j
      <3>1. i \in Nat /\ j \in Nat
        BY Zenon
      <3>2. Rank(K, i) \in Nat /\ Rank(K, j) \in Nat
        BY <1>2 DEF Rank
      <3>3. ~(i < j) /\ ~(j < i)
        BY <1>5, <2>2, <3>2
      <3>4. QED BY <3>1, <3>3
    <2>3. QED BY <2>1, <2>2 DEF Injection, IsInjective
  <1>7. IsFiniteSet(0..N - 1) /\ Cardinality(0..N - 1) = N
    <2>1. 0 \in Int /\ N - 1 \in Int
      BY <1>1
    <2>2. /\ IsFiniteSet(0..N - 1)
          /\ Cardinality(0..N - 1) = IF 0 > N - 1 THEN 0 ELSE (N - 1) - 0 + 1
      BY <2>1, FS_Interval
    <2>3. QED BY <1>1, <2>2
  <1>8. R \in Surjection(K, 0..N - 1)
    BY <1>6, <1>7, FS_Injection
  <1>9. ASSUME NEW n \in 1..N PROVE \E i \in K : Rank(K, i) = n - 1
    <2>1. n - 1 \in 0..N - 1
      BY <1>1
    <2>2. \E i \in K : R[i] = n - 1
      BY <1>8, <2>1 DEF Surjection
    <2>3. QED BY <2>2
  <1>10. QED BY <1>1, <1>4, <1>5, <1>9

\* What is picked stands in the order it had.
LEMMA PickedKeepsOrder ==
    ASSUME NEW S, NEW s \in Seq(S), NEW K \in SUBSET DOMAIN s
    PROVE  /\ Picked(s, K) \in Seq(S) /\ Len(Picked(s, K)) = Cardinality(K)
           /\ Len(Picked(s, K)) <= Len(s)
           /\ \E f \in [1..Len(Picked(s, K)) -> K] :
                /\ \A n \in 1..Len(Picked(s, K)) : Picked(s, K)[n] = s[f[n]]
                /\ \A n, m \in 1..Len(Picked(s, K)) : n < m => f[n] < f[m]
  <1> DEFINE N == Cardinality(K)
             Place(n) == CHOOSE i \in K : Rank(K, i) = n - 1
             f == [n \in 1..N |-> Place(n)]
             t == Picked(s, K)
  <1>1. DOMAIN s = 1..Len(s) /\ Len(s) \in Nat /\ K \subseteq Nat
    OBVIOUS
  <1>2. IsFiniteSet(DOMAIN s) /\ Cardinality(DOMAIN s) = Len(s)
    BY <1>1, FS_Interval
  <1>3. IsFiniteSet(K) /\ N <= Len(s) /\ N \in Nat
    BY <1>2, FS_Subset, FS_CardinalityType
  <1>4. ASSUME NEW n \in 1..N PROVE Place(n) \in K /\ Rank(K, Place(n)) = n - 1
    <2>1. \E i \in K : Rank(K, i) = n - 1
      BY <1>1, <1>3, RanksAreNumbers
    <2>2. QED BY <2>1
  <1>5. t = [n \in 1..N |-> s[f[n]]]
    BY DEF Picked, Rank
  <1>6. f \in [1..N -> K]
    BY <1>4
  <1>7. t \in [1..N -> S]
    <2>1. ASSUME NEW n \in 1..N PROVE s[f[n]] \in S
      BY <1>6
    <2>2. QED BY <1>5, <2>1
  <1>8. t \in Seq(S) /\ Len(t) = N
    BY <1>3, <1>7
  <1>9. ASSUME NEW n \in 1..N, NEW m \in 1..N, n < m PROVE f[n] < f[m]
    <2>1. /\ Place(n) \in K /\ Rank(K, Place(n)) = n - 1
          /\ Place(m) \in K /\ Rank(K, Place(m)) = m - 1
      BY <1>4
    <2>2. Place(n) \in Nat /\ Place(m) \in Nat
      BY <1>1, <2>1
    <2>3. ~(Place(m) < Place(n)) /\ Place(n) # Place(m)
      BY <1>1, <1>3, <1>9, <2>1, RanksAreNumbers
    <2>4. QED BY <2>2, <2>3
  <1>10. \A n \in 1..N : t[n] = s[f[n]]
    BY <1>5
  <1> HIDE DEF f, t, N
  <1>11. QED BY <1>3, <1>6, <1>8, <1>9, <1>10 DEF t, N

-----------------------------------------------------------------------------
(* The cache of the directory.                                               *)

CacheEntries == [swarm : Swarms, creator : Creators, at : Nat, expires : Nat]

InArrivalOrder(q) ==
    \A i, j \in DOMAIN q : i < j => q[i].swarm # q[j].swarm /\ q[i].at <= q[j].at

\* Entries that have arrived by time t, one per swarm, in order of arrival.
Orderly(q, t) ==
    /\ q \in Seq(CacheEntries)
    /\ InArrivalOrder(q)
    /\ \A i \in DOMAIN q : q[i].at <= t

LEMMA PickedIsOrderly ==
    ASSUME NEW t \in Nat, NEW q, Orderly(q, t), NEW K \in SUBSET DOMAIN q
    PROVE  /\ Orderly(Picked(q, K), t)
           /\ Len(Picked(q, K)) <= Len(q)
           /\ \A n \in DOMAIN Picked(q, K) : \E i \in K : Picked(q, K)[n] = q[i]
  <1> DEFINE p == Picked(q, K)
  <1>1. q \in Seq(CacheEntries)
    BY DEF Orderly
  <1>2. p \in Seq(CacheEntries) /\ Len(p) <= Len(q)
    BY <1>1, PickedKeepsOrder
  <1>3. PICK f \in [1..Len(p) -> K] :
           /\ \A n \in 1..Len(p) : p[n] = q[f[n]]
           /\ \A n, m \in 1..Len(p) : n < m => f[n] < f[m]
    BY <1>1, PickedKeepsOrder
  <1> HIDE DEF p
  <1>4. DOMAIN p = 1..Len(p)
    BY <1>2
  <1>5. \A n \in DOMAIN p : f[n] \in K /\ f[n] \in DOMAIN q /\ p[n] = q[f[n]]
    BY <1>3, <1>4
  <1>6. InArrivalOrder(p)
    BY <1>3, <1>4, <1>5 DEF Orderly, InArrivalOrder
  <1>7. \A n \in DOMAIN p : p[n].at <= t
    BY <1>5 DEF Orderly
  <1>8. Orderly(p, t) /\ \A n \in DOMAIN p : \E i \in K : p[n] = q[i]
    BY <1>2, <1>5, <1>6, <1>7 DEF Orderly
  <1>9. QED BY <1>2, <1>8 DEF p

\* The newcomer goes behind the others, once its swarm's old entry is out.
LEMMA AppendIsOrderly ==
    ASSUME NEW t \in Nat, NEW q, Orderly(q, t), NEW e \in CacheEntries, e.at = t,
           \A i \in DOMAIN q : q[i].swarm # e.swarm
    PROVE  Orderly(Append(q, e), t)
  <1> DEFINE a == Append(q, e)
  <1>1. q \in Seq(CacheEntries) /\ Len(q) \in Nat /\ DOMAIN q = 1..Len(q)
    BY DEF Orderly
  <1>2. /\ a \in Seq(CacheEntries) /\ DOMAIN a = 1..Len(q) + 1
        /\ a[Len(q) + 1] = e /\ \A i \in 1..Len(q) : a[i] = q[i]
    BY <1>1
  <1> HIDE DEF a
  <1>3. ASSUME NEW i \in DOMAIN a, NEW j \in DOMAIN a, i < j
        PROVE  a[i].swarm # a[j].swarm /\ a[i].at <= a[j].at
    <2>1. i \in 1..Len(q) /\ a[i] = q[i]
      BY <1>1, <1>2, <1>3
    <2>2. CASE j \in 1..Len(q)
      BY <1>1, <1>2, <1>3, <2>1, <2>2 DEF Orderly, InArrivalOrder
    <2>3. CASE j = Len(q) + 1
      BY <1>1, <1>2, <2>1, <2>3 DEF Orderly
    <2>4. QED BY <1>1, <1>2, <2>2, <2>3
  <1>4. ASSUME NEW i \in DOMAIN a PROVE a[i].at <= t
    <2>1. CASE i \in 1..Len(q)
      BY <1>1, <1>2, <2>1 DEF Orderly
    <2>2. CASE i = Len(q) + 1
      BY <1>2, <2>2
    <2>3. QED BY <1>1, <1>2, <2>1, <2>2
  <1>5. QED BY <1>2, <1>3, <1>4 DEF a, Orderly, InArrivalOrder

\* Only the oldest entries are evicted.
LEMMA LastOnesAreOrderly ==
    ASSUME NEW t \in Nat, NEW q, Orderly(q, t)
    PROVE  Orderly(LastOnes(q), t) /\ Len(LastOnes(q)) <= MaxCache
  <1> DEFINE m == IF Len(q) > MaxCache THEN Len(q) - MaxCache + 1 ELSE 1
             s == SubSeq(q, m, Len(q))
  <1>1. q \in Seq(CacheEntries) /\ Len(q) \in Nat /\ DOMAIN q = 1..Len(q) /\ MaxCache \in Nat \ {0}
    BY DirectoryAssumption DEF Orderly
  <1>2. m \in Nat \ {0} /\ Len(q) - m + 1 <= MaxCache /\ m <= Len(q) + 1
    BY <1>1
  <1> HIDE DEF m
  <1>3. /\ s \in Seq(CacheEntries) /\ Len(s) = Len(q) - m + 1 /\ DOMAIN s = 1..Len(q) - m + 1
        /\ \A i \in DOMAIN s : s[i] = q[i + m - 1] /\ i + m - 1 \in DOMAIN q
    <2>1. \A i \in m..Len(q) : q[i] \in CacheEntries
      BY <1>1, <1>2
    <2>2. s \in Seq(CacheEntries)
      BY <1>1, <1>2, <2>1
    <2>3. Len(s) = Len(q) - m + 1 /\ DOMAIN s = 1..Len(q) - m + 1
      BY <1>1, <1>2
    <2>4. \A i \in 1..Len(q) - m + 1 : s[i] = q[i + m - 1] /\ i + m - 1 \in DOMAIN q
      BY <1>1, <1>2
    <2>5. QED BY <2>2, <2>3, <2>4
  <1> HIDE DEF s
  <1>4. ASSUME NEW i \in DOMAIN s, NEW j \in DOMAIN s, i < j
        PROVE  s[i].swarm # s[j].swarm /\ s[i].at <= s[j].at
    <2>1. i + m - 1 < j + m - 1
      BY <1>1, <1>2, <1>3, <1>4
    <2>2. QED BY <1>3, <2>1 DEF Orderly, InArrivalOrder
  <1>5. \A i \in DOMAIN s : s[i].at <= t
    BY <1>3 DEF Orderly
  <1>6. Orderly(s, t) /\ Len(s) <= MaxCache
    BY <1>2, <1>3, <1>4, <1>5 DEF Orderly, InArrivalOrder
  <1>7. QED BY <1>6 DEF s, m, LastOnes

CacheInv == now \in Nat /\ Orderly(cache, now) /\ Len(cache) <= MaxCache

LEMMA LiveIsOrderly ==
    ASSUME CacheInv, NEW q, Orderly(q, now)
    PROVE  Orderly(Live(q), now) /\ Len(Live(q)) <= Len(q)
  BY PickedIsOrderly DEF Live, CacheInv

\* Whatever is ingested, by a peer or by this node.
LEMMA IngestedIsOrderly ==
    ASSUME CacheInv, NEW ad, ad.swarm \in Swarms, ad.creator \in Creators, ad.expires \in Nat
    PROVE  Orderly(Ingested(ad), now) /\ Len(Ingested(ad)) <= MaxCache
  <1>1. CASE Superseded(ad)
    BY <1>1 DEF Ingested, CacheInv
  <1>2. CASE ~Superseded(ad)
    <2> DEFINE K == {i \in DOMAIN cache : cache[i].swarm # ad.swarm}
               others == Picked(cache, K)
    <2>1. Orderly(others, now) /\ \A n \in DOMAIN others : others[n].swarm # ad.swarm
      BY PickedIsOrderly DEF CacheInv
    <2>2. Received(ad) \in CacheEntries /\ Received(ad).at = now /\ Received(ad).swarm = ad.swarm
      BY DirectoryAssumption DEF Received, CacheEntries, CacheInv
    <2>3. Orderly(Append(others, Received(ad)), now)
      <3> HIDE DEF others
      <3>1. QED BY <2>1, <2>2, AppendIsOrderly DEF CacheInv
    <2>4. Orderly(Live(Append(others, Received(ad))), now)
      <3> HIDE DEF others
      <3>1. QED BY <2>3, LiveIsOrderly
    <2>5. Ingested(ad) = LastOnes(Live(Append(others, Received(ad))))
      BY <1>2 DEF Ingested
    <2>6. QED
      <3> HIDE DEF others
      <3>1. QED BY <2>4, <2>5, LastOnesAreOrderly DEF CacheInv
  <1>3. QED BY <1>1, <1>2

-----------------------------------------------------------------------------
(* The quota of publications.                                                *)

\* A set of places that is not empty has a first one.
LEMMA FirstPlace ==
    ASSUME NEW S \in SUBSET Nat, S # {}
    PROVE  Min(S) \in S /\ \A n \in S : Min(S) <= n
  <1>1. \E m \in S : \A n \in S : ~(<<n, m>> \in OpToRel(<, Nat))
    BY NatLessThanWellFounded, WFMin
  <1>2. PICK m \in S : \A n \in S : ~(<<n, m>> \in OpToRel(<, Nat))
    BY <1>1
  <1>3. ASSUME NEW n \in S PROVE m <= n
    <2>1. ~(n < m)
      BY <1>2 DEF OpToRel
    <2>2. QED BY <2>1
  <1>4. QED BY <1>3 DEF Min

\* The publications of c that a check made now must still count.
Counted(c) == {p \in published : p[1] = c /\ p[3] + Day >= now}

\* The publications of c in the day that begins at t.
Window(c, t) == {p \in published : p[1] = c /\ p[3] >= t /\ p[3] <= t + Day}

\* Every publication of P has a stamp of its own in q.
Stamped(P, q) ==
    \E f \in Injection(P, DOMAIN q) : \A p \in P : q[f[p]] = p[3]

ClockInv ==
    /\ now \in 0..MaxTime /\ session \in 0..MaxPerSession
    /\ stamps \in [Creators -> Seq(Nat)]
    /\ IsFiniteSet(published) /\ Cardinality(published) <= session
    /\ \A p \in published : p[2] \in 1..session /\ p[3] \in 0..now

\* The stamps kept of a creator are enough to count what still counts, however
\* they have been trimmed.
StampInv == \A c \in Creators : Stamped(Counted(c), stamps[c])

WindowInv ==
    \A c \in Creators, t \in 0..MaxTime : Cardinality(Window(c, t)) <= MaxPerCreator

DirectoryInv == CacheInv /\ ClockInv /\ StampInv /\ WindowInv

LEMMA StampedBounds ==
    ASSUME NEW P, NEW q \in Seq(Nat), Stamped(P, q)
    PROVE  IsFiniteSet(P) /\ Cardinality(P) <= Len(q) /\ Cardinality(P) \in Nat
  <1>1. PICK f \in Injection(P, DOMAIN q) : TRUE
    BY DEF Stamped
  <1>2. Len(q) \in Nat /\ DOMAIN q = 1..Len(q)
    OBVIOUS
  <1>3. IsFiniteSet(1..Len(q)) /\ Cardinality(1..Len(q)) = Len(q)
    BY <1>2, FS_Interval
  <1>4. QED BY <1>1, <1>2, <1>3, FS_Injection, FS_CardinalityType

\* Fewer publications need no other stamps.
LEMMA StampedSubset ==
    ASSUME NEW P, NEW q, Stamped(P, q), NEW Q \in SUBSET P
    PROVE  Stamped(Q, q)
  <1>1. PICK f \in Injection(P, DOMAIN q) : \A p \in P : q[f[p]] = p[3]
    BY DEF Stamped
  <1> DEFINE g == [p \in Q |-> f[p]]
  <1>2. f \in [P -> DOMAIN q] /\ \A a, b \in P : f[a] = f[b] => a = b
    BY <1>1 DEF Injection, IsInjective
  <1>3. g \in Injection(Q, DOMAIN q)
    BY <1>2 DEF Injection, IsInjective
  <1>4. \A p \in Q : q[g[p]] = p[3]
    BY <1>1
  <1>5. QED BY <1>3, <1>4 DEF Stamped

\* A new publication is stamped at the end.
LEMMA StampedAppend ==
    ASSUME NEW P, NEW q \in Seq(Nat), Stamped(P, q), NEW new, new \notin P, new[3] \in Nat
    PROVE  Stamped(P \cup {new}, Append(q, new[3]))
  <1> DEFINE r == Append(q, new[3])
             Q == P \cup {new}
  <1>1. PICK f \in Injection(P, DOMAIN q) : \A p \in P : q[f[p]] = p[3]
    BY DEF Stamped
  <1>2. f \in [P -> DOMAIN q] /\ \A a, b \in P : f[a] = f[b] => a = b
    BY <1>1 DEF Injection, IsInjective
  <1>3. /\ Len(q) \in Nat /\ DOMAIN q = 1..Len(q) /\ DOMAIN r = 1..Len(q) + 1
        /\ r[Len(q) + 1] = new[3] /\ \A i \in DOMAIN q : r[i] = q[i] /\ i # Len(q) + 1
    OBVIOUS
  <1> DEFINE g == [p \in Q |-> IF p = new THEN Len(q) + 1 ELSE f[p]]
  <1>4. g[new] = Len(q) + 1 /\ \A p \in P : p # new /\ g[p] = f[p] /\ f[p] \in DOMAIN q
    BY <1>2
  <1>5. g \in [Q -> DOMAIN r]
    <2>1. \A p \in Q : g[p] \in DOMAIN r
      BY <1>3, <1>4
    <2>2. QED BY <2>1
  <1> HIDE DEF g, r
  <1>6. \A a, b \in Q : g[a] = g[b] => a = b
    BY <1>2, <1>3, <1>4
  <1>7. \A p \in Q : r[g[p]] = p[3]
    BY <1>1, <1>3, <1>4
  <1>8. g \in Injection(Q, DOMAIN r)
    BY <1>5, <1>6 DEF Injection, IsInjective
  <1>9. Stamped(Q, r)
    BY <1>7, <1>8 DEF Stamped
  <1>10. QED BY <1>9 DEF r

\* The check takes off only stamps that no longer count.
LEMMA RecentIsEnough ==
    ASSUME DirectoryInv, NEW c \in Creators
    PROVE  Recent(c) \in Seq(Nat) /\ Stamped(Counted(c), Recent(c))
  <1> DEFINE q == stamps[c]
             P == Counted(c)
             I == {i \in 1..Len(q) : q[i] + Day >= now}
  <1>1. q \in Seq(Nat) /\ Len(q) \in Nat /\ DOMAIN q = 1..Len(q) /\ Stamped(P, q)
    BY DEF DirectoryInv, ClockInv, StampInv
  <1>2. PICK f \in Injection(P, DOMAIN q) : \A p \in P : q[f[p]] = p[3]
    BY <1>1 DEF Stamped
  <1>3. /\ f \in [P -> DOMAIN q] /\ \A a, b \in P : f[a] = f[b] => a = b
    BY <1>2 DEF Injection, IsInjective
  <1>4. \A p \in P : f[p] \in I
    <2>1. ASSUME NEW p \in P PROVE f[p] \in 1..Len(q) /\ q[f[p]] + Day >= now
      <3>1. p[3] + Day >= now
        BY DEF Counted
      <3>2. QED BY <1>1, <1>2, <1>3, <3>1
    <2>2. QED BY <2>1
  <1>5. CASE I = {}
    <2>1. Recent(c) = <<>>
      BY <1>5 DEF Recent, From, SelectInSeq
    <2>2. P = {}
      BY <1>4, <1>5
    <2>3. f \in Injection(P, DOMAIN <<>>)
      BY <1>3, <2>2 DEF Injection, IsInjective
    <2>4. QED BY <2>1, <2>2, <2>3 DEF Stamped
  <1>6. CASE I # {}
    <2> DEFINE first == Min(I)
               r == SubSeq(q, first, Len(q))
               g == [p \in P |-> f[p] - first + 1]
    <2>1. first \in 1..Len(q) /\ \A i \in I : first <= i
      <3>1. I \in SUBSET Nat
        OBVIOUS
      <3>2. QED BY <1>6, <3>1, FirstPlace
    <2>2. Recent(c) = r
      <3>1. SelectInSeq(q, LAMBDA t : t + Day >= now) = first
        BY <1>6 DEF SelectInSeq
      <3>2. first # 0
        BY <2>1
      <3>3. QED BY <3>1, <3>2 DEF Recent, From
    <2> HIDE DEF first
    <2>3. /\ r \in Seq(Nat) /\ DOMAIN r = 1..Len(q) - first + 1
          /\ \A i \in 1..Len(q) - first + 1 : r[i] = q[i + first - 1]
      <3>1. \A i \in first..Len(q) : q[i] \in Nat
        BY <1>1, <2>1
      <3>2. r \in Seq(Nat)
        BY <1>1, <2>1, <3>1
      <3>3. QED BY <1>1, <2>1, <3>2
    <2>4. \A p \in P : f[p] \in first..Len(q)
      BY <1>4, <2>1
    <2>5. \A p \in P : g[p] = f[p] - first + 1 /\ g[p] \in 1..Len(q) - first + 1
      BY <1>1, <2>1, <2>4
    <2>6. g \in [P -> DOMAIN r]
      BY <2>3, <2>5
    <2> HIDE DEF g, r
    <2>7. ASSUME NEW a \in P, NEW b \in P, g[a] = g[b] PROVE a = b
      <3>1. f[a] = f[b]
        BY <1>1, <2>1, <2>4, <2>5, <2>7
      <3>2. QED BY <1>3, <3>1
    <2>8. ASSUME NEW p \in P PROVE r[g[p]] = p[3]
      <3>1. r[g[p]] = q[g[p] + first - 1]
        BY <2>3, <2>5
      <3>2. g[p] + first - 1 = f[p]
        <4>1. f[p] \in Int /\ first \in Int
          BY <1>1, <2>1, <2>4
        <4>2. g[p] = f[p] - first + 1
          BY <2>5
        <4>3. QED BY <4>1, <4>2
      <3>3. QED BY <1>2, <3>1, <3>2
    <2>9. g \in Injection(P, DOMAIN r)
      BY <2>6, <2>7 DEF Injection, IsInjective
    <2>10. QED BY <2>2, <2>3, <2>8, <2>9 DEF Stamped
  <1>7. QED BY <1>5, <1>6

LEMMA DirectoryInit == DInit => DirectoryInv
  <1> SUFFICES ASSUME DInit PROVE DirectoryInv
    OBVIOUS
  <1>1. <<>> \in Seq(CacheEntries) /\ <<>> \in Seq(Nat)
    OBVIOUS
  <1>2. CacheInv
    BY <1>1, DirectoryAssumption DEF DInit, CacheInv, Orderly, InArrivalOrder
  <1>3. IsFiniteSet({}) /\ Cardinality({}) = 0
    BY FS_EmptySet
  <1>4. stamps \in [Creators -> Seq(Nat)] /\ \A c \in Creators : stamps[c] = <<>>
    BY <1>1 DEF DInit
  <1>5. ClockInv
    BY <1>3, <1>4, DirectoryAssumption DEF DInit, ClockInv
  <1>6. ASSUME NEW c \in Creators PROVE Stamped(Counted(c), stamps[c])
    <2> DEFINE f == [p \in {} |-> 0]
    <2>1. Counted(c) = {}
      BY DEF DInit, Counted
    <2>2. f \in Injection({}, DOMAIN stamps[c])
      BY DEF Injection, IsInjective
    <2>3. QED BY <2>1, <2>2 DEF Stamped
  <1>7. ASSUME NEW c \in Creators, NEW t \in 0..MaxTime
        PROVE  Cardinality(Window(c, t)) <= MaxPerCreator
    <2>1. Window(c, t) = {}
      BY DEF DInit, Window
    <2>2. QED BY <1>3, <2>1, DirectoryAssumption
  <1>8. QED BY <1>2, <1>5, <1>6, <1>7 DEF DirectoryInv, StampInv, WindowInv

\* A step that publishes nothing, and at which no time passes.
LEMMA NothingPublished ==
    ASSUME DirectoryInv, now' = now, session' = session, published' = published,
           stamps' \in [Creators -> Seq(Nat)],
           \A c \in Creators : Stamped(Counted(c), stamps'[c])
    PROVE  ClockInv' /\ StampInv' /\ WindowInv'
  <1>1. \A c : Counted(c)' = Counted(c)
    BY DEF Counted
  <1>2. \A c, t : Window(c, t)' = Window(c, t)
    BY DEF Window
  <1>3. \A c \in Creators : Stamped(Counted(c)', stamps'[c])
    BY <1>1
  <1>4. StampInv'
    BY <1>3 DEF StampInv, Stamped
  <1>5. WindowInv'
    BY <1>2 DEF DirectoryInv, WindowInv
  <1>6. ClockInv'
    BY DEF DirectoryInv, ClockInv
  <1>7. QED BY <1>4, <1>5, <1>6

\* An advertisement that is published with the quota not used up.
LEMMA PublishedInv ==
    ASSUME DirectoryInv, NEW c \in Creators, WithinQuota(c), now' = now,
           stamps' = [stamps EXCEPT ![c] = Append(Recent(c), now)],
           session' = session + 1,
           published' = published \cup {<<c, session + 1, now>>}
    PROVE  ClockInv' /\ StampInv' /\ WindowInv'
  <1> DEFINE new == <<c, session + 1, now>>
             P == Counted(c)
             r == Recent(c)
  <1>1. /\ now \in 0..MaxTime /\ now \in Nat /\ session \in 0..MaxPerSession
        /\ MaxPerSession \in Nat /\ MaxPerCreator \in Nat /\ Day \in Nat /\ MaxTime \in Nat
        /\ stamps \in [Creators -> Seq(Nat)] /\ IsFiniteSet(published)
        /\ Cardinality(published) <= session
        /\ \A p \in published : p[2] \in 1..session /\ p[3] \in 0..now
    BY DirectoryAssumption DEF DirectoryInv, ClockInv
  <1>2. new[1] = c /\ new[2] = session + 1 /\ new[3] = now
    OBVIOUS
  <1>3. new \notin published
    BY <1>1, <1>2
  <1>4. r \in Seq(Nat) /\ Stamped(P, r)
    BY RecentIsEnough
  <1>5. Len(r) < MaxPerCreator /\ session < MaxPerSession /\ Len(r) \in Nat
    BY <1>4 DEF WithinQuota
  <1> HIDE DEF new, r
  <1>6. published' = published \cup {new}
    BY DEF new
  <1>7. stamps' = [stamps EXCEPT ![c] = Append(r, now)]
    BY DEF r
  <1>8. ClockInv'
    <2>1. IsFiniteSet(published') /\ Cardinality(published') = Cardinality(published) + 1
      <3>1. IsFiniteSet(published)
        BY <1>1
      <3>2. /\ IsFiniteSet(published \cup {new})
            /\ Cardinality(published \cup {new}) = Cardinality(published) + 1
        BY <1>3, <3>1, FS_AddElement
      <3>3. QED BY <1>6, <3>2
    <2>2. Cardinality(published) \in Nat
      BY <1>1, FS_CardinalityType
    <2>3. Cardinality(published') <= session'
      BY <1>1, <2>1, <2>2
    <2>4. \A p \in published' : p[2] \in 1..session' /\ p[3] \in 0..now'
      BY <1>1, <1>2, <1>6
    <2>5. stamps' \in [Creators -> Seq(Nat)]
      <3>1. Append(r, now) \in Seq(Nat)
        BY <1>1, <1>4
      <3>2. QED BY <1>1, <1>7, <3>1
    <2>6. session' \in 0..MaxPerSession
      BY <1>1, <1>5
    <2>7. QED BY <1>1, <2>1, <2>3, <2>4, <2>5, <2>6 DEF ClockInv
  <1>9. ASSUME NEW d \in Creators PROVE Stamped(Counted(d), stamps[d])'
    <2>1. CASE d = c
      <3>1. Counted(c)' = P \cup {new}
        BY <1>1, <1>2, <1>6 DEF Counted
      <3>2. new \notin P
        BY <1>3 DEF Counted
      <3>3. Stamped(P \cup {new}, Append(r, now))
        BY <1>1, <1>2, <1>4, <3>2, StampedAppend
      <3>4. stamps'[c] = Append(r, now)
        BY <1>1, <1>7
      <3>5. Stamped(Counted(c)', stamps'[c])
        BY <3>1, <3>3, <3>4
      <3>6. Stamped(Counted(d)', stamps'[d])
        BY <2>1, <3>5
      <3>7. QED BY <3>6 DEF Stamped
    <2>2. CASE d # c
      <3>1. Counted(d)' = Counted(d)
        BY <1>2, <1>6, <2>2 DEF Counted
      <3>2. stamps'[d] = stamps[d]
        BY <1>1, <1>7, <2>2
      <3>3. Stamped(Counted(d), stamps[d])
        BY DEF DirectoryInv, StampInv
      <3>4. QED BY <3>1, <3>2, <3>3 DEF Stamped
    <2>3. QED BY <2>1, <2>2
  <1>10. ASSUME NEW d \in Creators, NEW t \in 0..MaxTime
         PROVE  Cardinality(Window(d, t))' <= MaxPerCreator
    <2>1. CASE new \notin Window(d, t)'
      <3>1. Window(d, t)' = Window(d, t)
        BY <1>6, <2>1 DEF Window
      <3>2. QED BY <3>1 DEF DirectoryInv, WindowInv
    <2>2. CASE new \in Window(d, t)'
      <3>1. d = c /\ now <= t + Day
        BY <1>2, <2>2 DEF Window
      <3>2. ASSUME NEW p \in Window(d, t)', p # new PROVE p \in P
        <4>1. p \in published /\ p[1] = c /\ p[3] >= t /\ p[3] \in Nat
          BY <1>1, <1>6, <3>1, <3>2 DEF Window
        <4>2. p[3] + Day >= now
          BY <1>1, <3>1, <4>1
        <4>3. QED BY <4>1, <4>2 DEF Counted
      <3>3. Window(d, t)' \in SUBSET (P \cup {new})
        BY <3>2
      <3>4. IsFiniteSet(P) /\ Cardinality(P) <= Len(r) /\ Cardinality(P) \in Nat
        BY <1>4, StampedBounds
      <3>5. new \notin P
        BY <1>3 DEF Counted
      <3>6. IsFiniteSet(P \cup {new}) /\ Cardinality(P \cup {new}) = Cardinality(P) + 1
        BY <3>4, <3>5, FS_AddElement
      <3>7. /\ Cardinality(Window(d, t)') <= Cardinality(P \cup {new})
            /\ Cardinality(Window(d, t)') \in Nat
        <4>1. IsFiniteSet(Window(d, t)')
          BY <3>3, <3>6, FS_Subset
        <4>2. QED BY <3>3, <3>6, <4>1, FS_Subset, FS_CardinalityType
      <3>8. QED BY <1>1, <1>5, <3>4, <3>6, <3>7
    <2>3. QED BY <2>1, <2>2
  <1>11. StampInv'
    BY <1>9 DEF StampInv
  <1>12. WindowInv'
    BY <1>10 DEF WindowInv
  <1>13. QED BY <1>8, <1>11, <1>12

LEMMA PublishInv ==
    ASSUME DirectoryInv, NEW ad \in New \cup Held, Publish(ad)
    PROVE  DirectoryInv'
  <1>1. CacheInv /\ ClockInv /\ StampInv
    BY DEF DirectoryInv
  <1>2. ad.swarm \in Swarms /\ ad.creator \in Creators /\ ad.expires \in Nat
    <2>1. CASE ad \in New
      BY <2>1 DEF New
    <2>2. CASE ad \in Held
      <3>1. PICK e \in ToSet(cache) :
               ad = [swarm |-> e.swarm, creator |-> e.creator, expires |-> e.expires]
        BY <2>2 DEF Held
      <3>2. e \in CacheEntries
        BY <1>1 DEF ToSet, CacheInv, Orderly
      <3>3. QED BY <3>1, <3>2 DEF CacheEntries
    <2>3. QED BY <2>1, <2>2
  <1> DEFINE c == ad.creator
  <1>3. now' = now
    BY DEF Publish
  <1>4. CASE WithinQuota(c)
    <2>1. /\ stamps' = [stamps EXCEPT ![c] = Append(Recent(c), now)]
          /\ session' = session + 1
          /\ published' = published \cup {<<c, session + 1, now>>}
          /\ cache' = Ingested(ad)
      BY <1>4 DEF Publish
    <2>2. CacheInv'
      <3>1. Orderly(cache', now) /\ Len(cache') <= MaxCache
        BY <1>1, <1>2, <2>1, IngestedIsOrderly
      <3>2. QED BY <1>1, <1>3, <3>1 DEF CacheInv
    <2>3. ClockInv' /\ StampInv' /\ WindowInv'
      <3> HIDE DEF c
      <3>1. c \in Creators
        BY <1>2 DEF c
      <3>2. QED BY <1>3, <1>4, <2>1, <3>1, PublishedInv
    <2>4. QED BY <2>2, <2>3 DEF DirectoryInv
  <1>5. CASE ~WithinQuota(c)
    <2>1. /\ stamps' = [stamps EXCEPT ![c] = Recent(c)]
          /\ session' = session /\ published' = published /\ cache' = cache
      BY <1>5 DEF Publish
    <2>2. stamps \in [Creators -> Seq(Nat)]
      BY <1>1 DEF ClockInv
    <2>3. Recent(c) \in Seq(Nat) /\ Stamped(Counted(c), Recent(c))
      BY <1>2, RecentIsEnough
    <2> HIDE DEF c
    <2>4. c \in Creators
      BY <1>2 DEF c
    <2>5. stamps' \in [Creators -> Seq(Nat)]
      BY <2>1, <2>2, <2>3
    <2>6. ASSUME NEW d \in Creators PROVE Stamped(Counted(d), stamps'[d])
      <3>1. CASE d = c
        <4>1. stamps'[d] = Recent(c)
          BY <2>1, <2>2, <2>4, <3>1
        <4>2. QED BY <2>3, <3>1, <4>1
      <3>2. CASE d # c
        <4>1. stamps'[d] = stamps[d]
          BY <2>1, <2>2, <3>2
        <4>2. Stamped(Counted(d), stamps[d])
          BY <1>1 DEF StampInv
        <4>3. QED BY <4>1, <4>2
      <3>3. QED BY <3>1, <3>2
    <2>7. ClockInv' /\ StampInv' /\ WindowInv'
      BY <1>3, <2>1, <2>5, <2>6, NothingPublished
    <2>8. CacheInv'
      BY <1>1, <1>3, <2>1 DEF CacheInv
    <2>9. QED BY <2>7, <2>8 DEF DirectoryInv
  <1>6. QED BY <1>4, <1>5

\* Steps that leave the quota alone, at the same time.
LEMMA OnlyCache ==
    ASSUME DirectoryInv, UNCHANGED <<now, stamps, session, published>>,
           Orderly(cache', now), Len(cache') <= MaxCache
    PROVE  DirectoryInv'
  <1>1. stamps' \in [Creators -> Seq(Nat)] /\ \A c \in Creators : Stamped(Counted(c), stamps'[c])
    BY DEF DirectoryInv, ClockInv, StampInv
  <1>2. ClockInv' /\ StampInv' /\ WindowInv'
    BY <1>1, NothingPublished
  <1>3. CacheInv'
    BY DEF DirectoryInv, CacheInv
  <1>4. QED BY <1>2, <1>3 DEF DirectoryInv

LEMMA DirectoryTick ==
    ASSUME DirectoryInv, Tick
    PROVE  DirectoryInv'
  <1>1. /\ now' = now + 1 /\ now < MaxTime /\ now \in 0..MaxTime /\ MaxTime \in Nat /\ Day \in Nat
        /\ UNCHANGED <<cache, stamps, session, published>>
    BY DirectoryAssumption DEF DirectoryInv, ClockInv, Tick
  <1>2. ClockInv'
    BY <1>1 DEF DirectoryInv, ClockInv
  <1>3. CacheInv'
    <2>1. \A i \in DOMAIN cache : cache[i].at \in Nat /\ cache[i].at <= now
      <3>1. cache \in Seq(CacheEntries) /\ \A i \in DOMAIN cache : cache[i].at <= now
        BY DEF DirectoryInv, CacheInv, Orderly
      <3>2. \A i \in DOMAIN cache : cache[i] \in CacheEntries
        BY <3>1
      <3>3. QED BY <3>1, <3>2 DEF CacheEntries
    <2>2. Orderly(cache, now')
      BY <1>1, <2>1 DEF DirectoryInv, CacheInv, Orderly
    <2>3. QED BY <1>1, <2>2 DEF DirectoryInv, CacheInv
  <1>4. ASSUME NEW c \in Creators PROVE Stamped(Counted(c), stamps[c])'
    <2>1. \A p \in published : p[3] \in Nat
      BY <1>1 DEF DirectoryInv, ClockInv
    <2>2. Counted(c)' \in SUBSET Counted(c)
      BY <1>1, <2>1 DEF Counted
    <2>3. Stamped(Counted(c), stamps[c])
      BY DEF DirectoryInv, StampInv
    <2>4. Stamped(Counted(c)', stamps[c])
      BY <2>2, <2>3, StampedSubset
    <2>5. QED BY <1>1, <2>4 DEF Stamped
  <1>5. WindowInv'
    <2>1. \A c, t : Window(c, t)' = Window(c, t)
      BY <1>1 DEF Window
    <2>2. QED BY <2>1 DEF DirectoryInv, WindowInv
  <1>6. QED BY <1>2, <1>3, <1>4, <1>5 DEF DirectoryInv, StampInv

LEMMA DirectoryStep == DirectoryInv /\ [DNext]_dVars => DirectoryInv'
  <1> SUFFICES ASSUME DirectoryInv, [DNext]_dVars PROVE DirectoryInv'
    OBVIOUS
  <1>1. CacheInv /\ Orderly(cache, now) /\ Len(cache) <= MaxCache
    BY DEF DirectoryInv, CacheInv
  <1>2. ASSUME NEW ad \in Arriving, Ingest(ad) PROVE DirectoryInv'
    <2>1. ad.swarm \in Swarms /\ ad.creator \in Creators /\ ad.expires \in Nat
      BY DEF Arriving, New
    <2>2. Orderly(cache', now) /\ Len(cache') <= MaxCache
      BY <1>1, <1>2, <2>1, IngestedIsOrderly DEF Ingest
    <2>3. QED BY <1>2, <2>2, OnlyCache DEF Ingest
  <1>3. ASSUME NEW ad \in New \cup Held, Publish(ad) PROVE DirectoryInv'
    BY <1>3, PublishInv
  <1>4. ASSUME NEW wanted, NEW trust, Discover(wanted, trust) PROVE DirectoryInv'
    <2>1. Orderly(Live(cache), now) /\ Len(Live(cache)) <= Len(cache)
      BY <1>1, LiveIsOrderly
    <2>2. Len(Live(cache)) \in Nat /\ Len(cache) \in Nat /\ MaxCache \in Nat
      BY <1>1, <2>1, DirectoryAssumption DEF Orderly
    <2>3. Orderly(cache', now) /\ Len(cache') <= MaxCache
      BY <1>1, <1>4, <2>1, <2>2 DEF Discover
    <2>4. QED BY <1>4, <2>3, OnlyCache DEF Discover
  <1>5. ASSUME NEW ok \in BOOLEAN, Load(ok) PROVE DirectoryInv'
    BY <1>1, <1>5, OnlyCache DEF Load
  <1>6. CASE Tick
    BY <1>6, DirectoryTick
  <1>7. CASE UNCHANGED dVars
    BY <1>1, <1>7, OnlyCache DEF dVars
  <1>8. QED BY <1>2, <1>3, <1>4, <1>5, <1>6, <1>7 DEF DNext

\* Whatever two callers publish and however the stamps are trimmed, no 24 hours
\* hold more publications of one creator than its quota, a session keeps to its
\* share, and the cache to its limit and order (_check_publish_quota, publish,
\* ingest).
THEOREM QuotaIsKept == DSpec => []QuotaHolds
  <1>1. DirectoryInv => QuotaHolds
    <2> SUFFICES ASSUME DirectoryInv PROVE QuotaHolds
      OBVIOUS
    <2>1. DTypeOK
      BY DEF DirectoryInv, CacheInv, ClockInv, Orderly, InArrivalOrder, DTypeOK
    <2>2. Cardinality(published) <= MaxPerSession
      <3>1. Cardinality(published) \in Nat
        BY FS_CardinalityType DEF DirectoryInv, ClockInv
      <3>2. QED BY <3>1, DirectoryAssumption DEF DirectoryInv, ClockInv
    <2>3. QED BY <2>1, <2>2 DEF DirectoryInv, WindowInv, Window, QuotaHolds
  <1>2. QED BY <1>1, DirectoryInit, DirectoryStep, PTL DEF DSpec

-----------------------------------------------------------------------------
(* Fetching a manifest.                                                      *)

\* Division rounds down.
LEMMA Divided ==
    ASSUME NEW a \in Nat, NEW b \in Nat \ {0}
    PROVE  a \div b \in Nat /\ (a \div b) * b <= a /\ a < (a \div b) * b + b
  OBVIOUS

LEMMA Multiples ==
    ASSUME NEW a \in Nat, NEW b \in Nat, NEW d \in Nat, a < b
    PROVE  a * d \in Nat /\ b * d \in Nat /\ a * d + d <= b * d
  <1>1. (b - a - 1) * d >= 0
    OBVIOUS
  <1>2. (b - a - 1) * d = b * d - a * d - d
    OBVIOUS
  <1>3. QED BY <1>1, <1>2

\* What the recursion of FlattenSeq defines, given that it has a solution.
LEMMA Flattened ==
    ASSUME NEW s, NEW n \in Nat \ {0}, Len(s) = n,
           NEW w, \A i \in 1..n : w[i] = IF i = 1 THEN s[i] ELSE w[i-1] \o s[i]
    PROVE  FlattenSeq(s) = w[n]
  <1> DEFINE f == CHOOSE f : f = [i \in 1..Len(s) |-> IF i = 1 THEN s[i] ELSE f[i-1] \o s[i]]
  <1>1. FlattenSeq(s) = f[n]
    BY DEF FlattenSeq
  <1>2. f = [i \in 1..n |-> IF i = 1 THEN s[i] ELSE f[i-1] \o s[i]]
    <2> DEFINE g == [i \in 1..n |-> w[i]]
    <2>1. ASSUME NEW i \in 1..n PROVE g[i] = IF i = 1 THEN s[i] ELSE g[i-1] \o s[i]
      <3>1. i # 1 => i - 1 \in 1..n
        OBVIOUS
      <3>2. QED BY <3>1
    <2>2. g = [i \in 1..n |-> g[i]]
      OBVIOUS
    <2> HIDE DEF g
    <2>3. g = [i \in 1..n |-> IF i = 1 THEN s[i] ELSE g[i-1] \o s[i]]
      BY <2>1, <2>2
    <2>4. QED BY <2>3
  <1> HIDE DEF f
  <1> DEFINE bad == {i \in 1..n : f[i] # w[i]}
  <1>3. CASE bad = {}
    <2>1. n \in 1..n
      OBVIOUS
    <2>2. f[n] = w[n]
      BY <1>3, <2>1
    <2>3. QED BY <1>1, <2>2
  <1>4. CASE bad # {}
    <2> DEFINE m == Min(bad)
    <2>1. m \in bad /\ \A i \in bad : m <= i
      <3>1. bad \in SUBSET Nat
        OBVIOUS
      <3>2. QED BY <1>4, <3>1, FirstPlace
    <2> HIDE DEF m
    <2>2. m \in 1..n /\ f[m] # w[m]
      BY <2>1
    <2>3. m # 1 => f[m-1] = w[m-1]
      <3>1. SUFFICES ASSUME m # 1, f[m-1] # w[m-1] PROVE FALSE
        OBVIOUS
      <3>2. m - 1 \in 1..n
        BY <2>2, <3>1
      <3>3. m - 1 \in bad
        BY <3>1, <3>2
      <3>4. QED BY <2>1, <2>2, <3>3
    <2>4. f[m] = IF m = 1 THEN s[m] ELSE f[m-1] \o s[m]
      BY <1>2, <2>2
    <2>5. w[m] = IF m = 1 THEN s[m] ELSE w[m-1] \o s[m]
      BY <2>2
    <2>6. QED BY <2>2, <2>3, <2>4, <2>5
  <1>5. QED BY <1>3, <1>4

\* The number of chunks, and the end of each but the last one.
LEMMA PiecesShape ==
    ASSUME NEW c \in Seq(0..255), c # <<>>
    PROVE  \E n \in Nat \ {0} :
             /\ Len(Pieces(c)) = n /\ DOMAIN Pieces(c) = 1..n
             /\ \A i \in 1..n : Pieces(c)[i] = SubSeq(c, (i - 1) * ChunkSize + 1,
                                   IF i * ChunkSize < Len(c) THEN i * ChunkSize ELSE Len(c))
             /\ \A i \in 1..n : (i - 1) * ChunkSize \in Nat /\ (i - 1) * ChunkSize < Len(c)
             /\ n * ChunkSize \in Nat /\ n * ChunkSize >= Len(c)
  <1> DEFINE L == Len(c)
             n == (L + ChunkSize - 1) \div ChunkSize
  <1>1. L \in Nat \ {0} /\ ChunkSize \in Nat \ {0}
    BY ExchangeAssumption
  <1>2. L + ChunkSize - 1 \in Nat
    BY <1>1
  <1>3. n \in Nat /\ n * ChunkSize <= L + ChunkSize - 1 /\ L + ChunkSize - 1 < n * ChunkSize + ChunkSize
    BY <1>1, <1>2, Divided
  <1> HIDE DEF n
  <1>4. n * ChunkSize \in Nat
    BY <1>1, <1>3
  <1>5. n * ChunkSize >= L
    BY <1>1, <1>3, <1>4
  <1>6. n # 0
    BY <1>1, <1>3, <1>5
  <1>7. ASSUME NEW i \in 1..n PROVE (i - 1) * ChunkSize \in Nat /\ (i - 1) * ChunkSize < L
    <2>1. i - 1 \in Nat /\ i - 1 < n
      BY <1>3
    <2>2. (i - 1) * ChunkSize \in Nat /\ (i - 1) * ChunkSize + ChunkSize <= n * ChunkSize
      BY <1>1, <1>3, <2>1, Multiples
    <2>3. QED BY <1>1, <1>3, <1>4, <2>2
  <1>8. /\ DOMAIN Pieces(c) = 1..n
        /\ \A i \in 1..n : Pieces(c)[i] = SubSeq(c, (i - 1) * ChunkSize + 1,
                              IF i * ChunkSize < L THEN i * ChunkSize ELSE L)
    BY DEF Pieces, n
  <1>9. Len(Pieces(c)) = n
    BY <1>3 DEF Pieces, n
  <1>10. QED BY <1>3, <1>4, <1>5, <1>6, <1>7, <1>8, <1>9

\* Chunks put together in their order are what was split.
LEMMA PiecesJoin ==
    ASSUME NEW c \in Seq(0..255), c # <<>>
    PROVE  FlattenSeq(Pieces(c)) = c
  <1> DEFINE L == Len(c)
             E(i) == IF i * ChunkSize < L THEN i * ChunkSize ELSE L
  <1>1. PICK n \in Nat \ {0} :
             /\ Len(Pieces(c)) = n /\ DOMAIN Pieces(c) = 1..n
             /\ \A i \in 1..n : Pieces(c)[i] = SubSeq(c, (i - 1) * ChunkSize + 1, E(i))
             /\ \A i \in 1..n : (i - 1) * ChunkSize \in Nat /\ (i - 1) * ChunkSize < L
             /\ n * ChunkSize \in Nat /\ n * ChunkSize >= L
    BY PiecesShape
  <1> DEFINE w == [i \in 1..n |-> SubSeq(c, 1, E(i))]
  <1>2. L \in Nat \ {0} /\ ChunkSize \in Nat \ {0}
    BY ExchangeAssumption
  <1>3. ASSUME NEW i \in 1..n
        PROVE  w[i] = IF i = 1 THEN Pieces(c)[i] ELSE w[i-1] \o Pieces(c)[i]
    <2>1. w[i] = SubSeq(c, 1, E(i))
      OBVIOUS
    <2>2. Pieces(c)[i] = SubSeq(c, (i - 1) * ChunkSize + 1, E(i))
      BY <1>1
    <2>3. CASE i = 1
      <3>1. (i - 1) * ChunkSize + 1 = 1
        BY <1>2, <2>3
      <3>2. QED BY <2>1, <2>2, <2>3, <3>1
    <2>4. CASE i # 1
      <3> DEFINE k == (i - 1) * ChunkSize
      <3>1. i - 1 \in 1..n
        BY <2>4
      <3>2. k \in Nat /\ k < L
        BY <1>1
      <3>3. w[i-1] = SubSeq(c, 1, k)
        BY <3>1, <3>2
      <3>4. i * ChunkSize = k + ChunkSize
        BY <1>2
      <3> HIDE DEF k
      <3>5. E(i) \in k..L
        BY <1>2, <3>2, <3>4
      <3>6. 1 \in 1..Len(c) + 1 /\ k \in 1 - 1 .. Len(c)
        BY <1>2, <3>2
      <3>7. SubSeq(c, 1, k) \o SubSeq(c, k + 1, E(i)) = SubSeq(c, 1, E(i))
        BY <3>5, <3>6, ConcatAdjacentSubSeq
      <3>8. QED BY <2>1, <2>2, <2>4, <3>3, <3>7 DEF k
    <2>5. QED BY <2>3, <2>4
  <1>4. w[n] = c
    <2>1. E(n) = L
      BY <1>1, <1>2
    <2>2. SubSeq(c, 1, L) = c
      BY SubSeqFull
    <2>3. QED BY <2>1, <2>2
  <1> HIDE DEF w
  <1>5. FlattenSeq(Pieces(c)) = w[n]
    BY <1>1, <1>3, Flattened
  <1>6. QED BY <1>4, <1>5

\* m is a chunk of c.
IsPiece(m, c) ==
    /\ m.index \in DOMAIN Pieces(c) /\ m.total = Len(Pieces(c))
    /\ m.data = Pieces(c)[m.index]

ServersInv ==
    /\ clock \in Nat
    /\ registry \in [Servers -> Contents \cup {<<>>}]
    /\ history \in [Servers -> Seq(Nat)]
    /\ \A s \in Servers : Len(history[s]) <= RateLimit

\* Requests and replies are of nonces that were used, and a chunk that comes
\* under the current one is of something that was served under it.
NetInv ==
    /\ asm.nonce \in Nat /\ sources \subseteq Contents
    /\ \A m \in net :
         /\ m.nonce \in Nat /\ m.nonce <= asm.nonce
         /\ m.type = "request" => m.server \in Servers
         /\ m.type = "chunk" /\ m.nonce = asm.nonce => \E c \in sources : IsPiece(m, c)

\* So is what the assembler holds.
AsmInv ==
    /\ asm.total = 0 \/ \E c \in sources : asm.total = Len(Pieces(c))
    /\ \A i \in DOMAIN asm.chunks :
         \E c \in sources : i \in DOMAIN Pieces(c) /\ asm.chunks[i] = Pieces(c)[i]

OutcomeInv ==
    /\ status \in {"inconsistent", "mismatch"} => \E c \in sources : c # Manifest
    /\ status = "loaded" => Assembled(asm) = Manifest

ExchangeInv == ServersInv /\ NetInv /\ AsmInv /\ OutcomeInv

LEMMA ContentsAreBytes ==
    ASSUME NEW c \in Contents
    PROVE  c \in Seq(0..255) /\ c # <<>>
  BY ExchangeAssumption DEF Contents

LEMMA ExchangeInit == XInit => ExchangeInv
  <1> SUFFICES ASSUME XInit PROVE ExchangeInv
    OBVIOUS
  <1>1. ServersInv
    <2>1. <<>> \in Seq(Nat) /\ Len(<<>>) = 0
      OBVIOUS
    <2>2. RateLimit \in Nat
      BY ExchangeAssumption
    <2>3. QED BY <2>1, <2>2 DEF XInit, ServersInv
  <1>2. NetInv
    BY DEF XInit, NetInv, Assembler
  <1>3. AsmInv
    BY DEF XInit, AsmInv, Assembler
  <1>4. OutcomeInv
    BY DEF XInit, OutcomeInv
  <1>5. QED BY <1>1, <1>2, <1>3, <1>4 DEF ExchangeInv

\* What is left of a server's record of requests is no longer than it was.
LEMMA BucketShort ==
    ASSUME ServersInv, NEW s \in Servers
    PROVE  Bucket(s) \in Seq(Nat) /\ Len(Bucket(s)) <= RateLimit
  <1> DEFINE q == history[s]
             I == {i \in 1..Len(q) : q[i] + RateWindow >= clock}
  <1>1. q \in Seq(Nat) /\ Len(q) \in Nat /\ Len(q) <= RateLimit /\ RateLimit \in Nat
    BY ExchangeAssumption DEF ServersInv
  <1>2. CASE I = {}
    <2>1. SelectInSeq(q, LAMBDA t : t + RateWindow >= clock) = 0
      BY <1>2 DEF SelectInSeq
    <2>2. Bucket(s) = <<>>
      BY <2>1 DEF Bucket
    <2>3. <<>> \in Seq(Nat) /\ Len(<<>>) = 0
      OBVIOUS
    <2>4. QED BY <1>1, <2>2, <2>3
  <1>3. CASE I # {}
    <2> DEFINE k == Min(I)
    <2>1. k \in 1..Len(q)
      <3>1. I \in SUBSET Nat
        OBVIOUS
      <3>2. k \in I
        BY <1>3, <3>1, FirstPlace
      <3>3. QED BY <3>2
    <2>2. SelectInSeq(q, LAMBDA t : t + RateWindow >= clock) = k
      BY <1>3 DEF SelectInSeq
    <2> HIDE DEF k
    <2>3. k # 0
      BY <2>1
    <2>4. Bucket(s) = SubSeq(q, k, Len(q))
      BY <2>2, <2>3 DEF Bucket
    <2>5. \A i \in k..Len(q) : q[i] \in Nat
      BY <1>1, <2>1
    <2>6. SubSeq(q, k, Len(q)) \in Seq(Nat) /\ Len(SubSeq(q, k, Len(q))) = Len(q) - k + 1
      BY <1>1, <2>1, <2>5
    <2>7. QED BY <1>1, <2>1, <2>4, <2>6
  <1>4. QED BY <1>2, <1>3

\* A server answers a request.
LEMMA ServeKeeps ==
    ASSUME ExchangeInv, NEW m \in net, Serve(m)
    PROVE  ExchangeInv'
  <1> DEFINE s == m.server
             c == registry[s]
  <1>1. /\ m.type = "request" /\ s \in Servers /\ m.nonce \in Nat /\ m.nonce <= asm.nonce
        /\ c \in Contents \cup {<<>>}
    BY DEF ExchangeInv, ServersInv, NetInv, Serve
  <1>2. UNCHANGED <<registry, clock, updates, asm, status>>
    BY DEF Serve
  <1>3. ServersInv'
    <2>1. Bucket(s) \in Seq(Nat) /\ Len(Bucket(s)) <= RateLimit
      BY <1>1, BucketShort DEF ExchangeInv
    <2>2. ASSUME NEW q \in Seq(Nat), Len(q) <= RateLimit, history' = [history EXCEPT ![s] = q]
          PROVE  ServersInv'
      <3>1. history' \in [Servers -> Seq(Nat)]
        BY <2>2 DEF ExchangeInv, ServersInv
      <3>2. \A t \in Servers : Len(history'[t]) <= RateLimit
        BY <1>1, <2>2 DEF ExchangeInv, ServersInv
      <3>3. QED BY <1>2, <3>1, <3>2 DEF ExchangeInv, ServersInv
    <2>3. CASE ~Allowed(s)
      BY <2>1, <2>2, <2>3 DEF Serve
    <2>4. CASE Allowed(s)
      <3> DEFINE q == Append(Bucket(s), clock)
      <3>1. q \in Seq(Nat) /\ Len(q) = Len(Bucket(s)) + 1
        BY <2>1 DEF ExchangeInv, ServersInv
      <3>2. Len(q) <= RateLimit
        BY <2>1, <2>4, <3>1, ExchangeAssumption DEF Allowed
      <3>3. history' = [history EXCEPT ![s] = q]
        BY <2>4 DEF Serve
      <3> HIDE DEF q
      <3>4. QED BY <2>2, <3>1, <3>2, <3>3
    <2>5. QED BY <2>3, <2>4
  <1>4. sources \subseteq sources' /\ sources' \subseteq Contents
    <2>1. sources \subseteq Contents
      BY DEF ExchangeInv, NetInv
    <2>2. sources' = sources \/ (c # <<>> /\ sources' = sources \cup {c})
      BY DEF Serve
    <2>3. QED BY <1>1, <2>1, <2>2
  <1>5. NetInv'
    <2>1. \A r \in net : /\ r.nonce \in Nat /\ r.nonce <= asm.nonce
                         /\ r.type = "request" => r.server \in Servers
                         /\ r.type = "chunk" /\ r.nonce = asm.nonce => \E d \in sources' : IsPiece(r, d)
      BY <1>4 DEF ExchangeInv, NetInv
    <2>2. ASSUME NEW r \in net', r \notin net
          PROVE  \/ r = Nack(m)
                 \/ r \in Chunks(m, c) /\ (m.nonce = asm.nonce => c \in sources')
      <3>1. CASE ~Allowed(s)
        BY <2>2, <3>1 DEF Serve
      <3>2. CASE Allowed(s) /\ c = <<>>
        BY <2>2, <3>2 DEF Serve
      <3>3. CASE Allowed(s) /\ c # <<>>
        BY <2>2, <3>3 DEF Serve
      <3>4. QED BY <3>1, <3>2, <3>3
    <2>3. ASSUME NEW r \in net', r \notin net
          PROVE  /\ r.nonce = m.nonce
                 /\ r.type # "request"
                 /\ r.type = "chunk" /\ r.nonce = asm.nonce => \E d \in sources' : IsPiece(r, d)
      <3>1. CASE r = Nack(m)
        BY <3>1 DEF Nack
      <3>2. CASE r \in Chunks(m, c) /\ (m.nonce = asm.nonce => c \in sources')
        <4>1. r.nonce = m.nonce /\ r.type = "chunk" /\ IsPiece(r, c)
          BY <3>2 DEF Chunks, IsPiece
        <4>2. QED BY <3>2, <4>1
      <3>3. QED BY <2>2, <2>3, <3>1, <3>2
    <2>4. \A r \in net' : /\ r.nonce \in Nat /\ r.nonce <= asm.nonce
                          /\ r.type = "request" => r.server \in Servers
                          /\ r.type = "chunk" /\ r.nonce = asm.nonce => \E d \in sources' : IsPiece(r, d)
      BY <1>1, <2>1, <2>3
    <2>5. asm.nonce \in Nat
      BY DEF ExchangeInv, NetInv
    <2>6. QED BY <1>2, <1>4, <2>4, <2>5 DEF NetInv, IsPiece, Pieces
  <1>6. AsmInv'
    BY <1>2, <1>4 DEF ExchangeInv, AsmInv, Pieces
  <1>7. OutcomeInv'
    BY <1>2, <1>4 DEF ExchangeInv, OutcomeInv, Assembled
  <1>8. QED BY <1>3, <1>5, <1>6, <1>7 DEF ExchangeInv

\* The client receives a reply.
LEMMA ReceiveKeeps ==
    ASSUME ExchangeInv, NEW m \in net, Receive(m)
    PROVE  ExchangeInv'
  <1>1. /\ status = "waiting" /\ m.nonce = asm.nonce
        /\ UNCHANGED <<registry, history, clock, updates, net, sources>>
    BY DEF Receive
  <1>2. ServersInv'
    BY <1>1 DEF ExchangeInv, ServersInv, Contents
  <1>3. asm'.nonce = asm.nonce => NetInv'
    BY <1>1 DEF ExchangeInv, NetInv, IsPiece, Pieces, Contents
  <1>4. CASE m.type # "chunk"
    <2>1. status' = "refused" /\ asm' = asm
      BY <1>4 DEF Receive
    <2>2. AsmInv'
      BY <1>1, <2>1 DEF ExchangeInv, AsmInv, Pieces
    <2>3. OutcomeInv'
      BY <2>1 DEF OutcomeInv
    <2>4. QED BY <1>2, <1>3, <2>1, <2>2, <2>3 DEF ExchangeInv
  <1>5. CASE m.type = "chunk"
    <2>1. PICK c \in sources : IsPiece(m, c)
      BY <1>1, <1>5 DEF ExchangeInv, NetInv
    <2>2. CASE Inconsistent(m)
      <3>1. status' = "inconsistent" /\ asm' = asm
        BY <1>5, <2>2 DEF Receive
      <3>2. AsmInv'
        BY <1>1, <3>1 DEF ExchangeInv, AsmInv, Pieces
      <3>3. \E d \in sources : d # Manifest
        <4>1. SUFFICES ASSUME \A d \in sources : d = Manifest PROVE FALSE
          OBVIOUS
        <4>2. IsPiece(m, Manifest)
          BY <2>1, <4>1
        <4>3. m.total = Len(Pieces(Manifest)) /\ m.index \in 1..Len(Pieces(Manifest))
          <5>1. Manifest \in Seq(0..255) /\ Manifest # <<>>
            BY ExchangeAssumption
          <5>2. DOMAIN Pieces(Manifest) = 1..Len(Pieces(Manifest))
            BY <5>1, PiecesShape
          <5>3. QED BY <4>2, <5>2 DEF IsPiece
        <4>4. asm.total \in {0, m.total}
          BY <4>1, <4>3 DEF ExchangeInv, AsmInv
        <4>5. ~(m.index > m.total)
          <5>1. Len(Pieces(Manifest)) \in Nat
            BY ExchangeAssumption, PiecesShape
          <5>2. QED BY <4>3, <5>1
        <4>6. m.index \in DOMAIN asm.chunks => asm.chunks[m.index] = m.data
          BY <4>1, <4>2 DEF ExchangeInv, AsmInv, IsPiece
        <4>7. QED BY <2>2, <4>4, <4>5, <4>6 DEF Inconsistent
      <3>4. OutcomeInv'
        BY <1>1, <3>1, <3>3 DEF OutcomeInv
      <3>5. QED BY <1>2, <1>3, <3>1, <3>2, <3>4 DEF ExchangeInv
    <2>3. CASE ~Inconsistent(m)
      <3> DEFINE a == AddChunk(m)
      <3>1. /\ asm' = a
            /\ status' = IF ~IsComplete(a) THEN "waiting"
                         ELSE IF Verified(a) THEN "loaded" ELSE "mismatch"
        BY <1>5, <2>3 DEF Receive
      <3>2. /\ a.nonce = asm.nonce /\ a.total = m.total
            /\ DOMAIN a.chunks = DOMAIN asm.chunks \cup {m.index}
            /\ \A i \in DOMAIN a.chunks : a.chunks[i] = IF i = m.index THEN m.data ELSE asm.chunks[i]
        BY DEF AddChunk
      <3> HIDE DEF a
      <3>3. /\ \E d \in sources : a.total = Len(Pieces(d))
            /\ \A i \in DOMAIN a.chunks :
                 \E d \in sources : i \in DOMAIN Pieces(d) /\ a.chunks[i] = Pieces(d)[i]
        BY <2>1, <3>2 DEF ExchangeInv, AsmInv, IsPiece
      <3>4. AsmInv'
        BY <1>1, <3>1, <3>3 DEF AsmInv, Pieces
      <3>5. status' = "mismatch" => \E d \in sources : d # Manifest
        <4>1. SUFFICES ASSUME IsComplete(a), ~Verified(a), \A d \in sources : d = Manifest PROVE FALSE
          BY <3>1
        <4>2. /\ Manifest \in Seq(0..255) /\ Manifest # <<>>
              /\ a.total = Len(Pieces(Manifest)) /\ DOMAIN Pieces(Manifest) = 1..a.total
          BY <3>3, <4>1, ExchangeAssumption, PiecesShape
        <4>3. DOMAIN a.chunks = 1..a.total /\ \A i \in 1..a.total : a.chunks[i] = Pieces(Manifest)[i]
          BY <3>3, <4>1 DEF IsComplete
        <4>4. Pieces(Manifest) = [i \in 1..a.total |-> Pieces(Manifest)[i]]
          BY <4>2 DEF Pieces
        <4>5. [i \in 1..a.total |-> a.chunks[i]] = Pieces(Manifest)
          BY <4>3, <4>4
        <4>6. Assembled(a) = Manifest
          BY <4>2, <4>5, PiecesJoin DEF Assembled
        <4>7. QED BY <4>1, <4>6 DEF Verified
      <3>6. status' = "loaded" => Assembled(a) = Manifest
        BY <3>1 DEF Verified
      <3>7. status' # "inconsistent"
        BY <3>1
      <3>8. OutcomeInv'
        BY <1>1, <3>1, <3>5, <3>6, <3>7 DEF OutcomeInv, Assembled
      <3>9. QED BY <1>2, <1>3, <3>1, <3>2, <3>4, <3>8 DEF ExchangeInv
    <2>4. QED BY <2>2, <2>3
  <1>6. QED BY <1>4, <1>5

\* The client asks, under a nonce nothing in the network is of.
LEMMA RequestKeeps ==
    ASSUME ExchangeInv, NEW s \in Servers, Request(s)
    PROVE  ExchangeInv'
  <1>1. /\ UNCHANGED <<registry, history, clock, updates>> /\ asm' = Assembler(asm.nonce + 1)
        /\ status' = "waiting" /\ sources' = {}
        /\ net' = net \cup {[type |-> "request", server |-> s, nonce |-> asm.nonce + 1]}
    BY DEF Request
  <1>2. asm'.nonce = asm.nonce + 1 /\ asm'.total = 0 /\ asm'.chunks = <<>> /\ asm.nonce \in Nat
    BY <1>1 DEF Assembler, ExchangeInv, NetInv
  <1>3. ServersInv'
    BY <1>1 DEF ExchangeInv, ServersInv, Contents
  <1>4. NetInv'
    <2>1. ASSUME NEW r \in net'
          PROVE  /\ r.nonce \in Nat /\ r.nonce <= asm'.nonce
                 /\ r.type = "request" => r.server \in Servers
                 /\ ~(r.type = "chunk" /\ r.nonce = asm'.nonce)
      <3>1. CASE r \in net
        BY <1>2, <3>1 DEF ExchangeInv, NetInv
      <3>2. CASE r = [type |-> "request", server |-> s, nonce |-> asm.nonce + 1]
        BY <1>2, <3>2
      <3>3. QED BY <1>1, <3>1, <3>2
    <2>2. asm'.nonce \in Nat /\ sources' \subseteq Contents'
      BY <1>1, <1>2
    <2>3. QED BY <2>1, <2>2 DEF NetInv
  <1>5. AsmInv'
    BY <1>2 DEF AsmInv
  <1>6. OutcomeInv'
    BY <1>1 DEF OutcomeInv
  <1>7. QED BY <1>3, <1>4, <1>5, <1>6 DEF ExchangeInv

LEMMA ExchangeStep == ExchangeInv /\ [XNext]_xVars => ExchangeInv'
  <1> SUFFICES ASSUME ExchangeInv, [XNext]_xVars PROVE ExchangeInv'
    OBVIOUS
  <1>1. ASSUME UNCHANGED <<net, asm, sources>>, ServersInv', status' \in {status, "timeout"}
        PROVE  ExchangeInv'
    <2>1. NetInv'
      BY <1>1 DEF ExchangeInv, NetInv, IsPiece, Pieces, Contents
    <2>2. AsmInv'
      BY <1>1 DEF ExchangeInv, AsmInv, Pieces
    <2>3. OutcomeInv'
      BY <1>1 DEF ExchangeInv, OutcomeInv, Assembled
    <2>4. QED BY <1>1, <2>1, <2>2, <2>3 DEF ExchangeInv
  <1>2. ASSUME NEW s \in Servers, NEW c \in Contents, Register(s, c) PROVE ExchangeInv'
    <2>1. ServersInv'
      BY <1>2 DEF Register, ExchangeInv, ServersInv, Contents
    <2>2. QED BY <1>1, <1>2, <2>1 DEF Register
  <1>3. ASSUME NEW s \in Servers, Request(s) PROVE ExchangeInv'
    BY <1>3, RequestKeeps
  <1>4. ASSUME NEW m \in net, Serve(m) PROVE ExchangeInv'
    BY <1>4, ServeKeeps
  <1>5. ASSUME NEW m \in net, Receive(m) PROVE ExchangeInv'
    BY <1>5, ReceiveKeeps
  <1>6. CASE Timeout
    <2>1. ServersInv'
      BY <1>6 DEF Timeout, ExchangeInv, ServersInv, Contents
    <2>2. QED BY <1>1, <1>6, <2>1 DEF Timeout
  <1>7. CASE Pass
    <2>1. ServersInv'
      BY <1>7 DEF Pass, ExchangeInv, ServersInv, Contents
    <2>2. QED BY <1>1, <1>7, <2>1 DEF Pass
  <1>8. CASE UNCHANGED xVars
    <2>1. ServersInv'
      BY <1>8 DEF xVars, ExchangeInv, ServersInv, Contents
    <2>2. QED BY <1>1, <1>8, <2>1 DEF xVars
  <1>9. QED BY <1>2, <1>3, <1>4, <1>5, <1>6, <1>7, <1>8 DEF XNext

\* However datagrams are lost, repeated, delayed and reordered, an exchange
\* fails on its chunks only when something else than the manifest was served
\* under its nonce, what it loads is the manifest, and no server keeps a record
\* of more requests than its limit: for manifests and chunks of any size.
THEOREM ExchangesAreSound == XSpec => []ExchangeSound
  <1>1. ExchangeInv => ExchangeSound
    BY DEF ExchangeInv, ServersInv, OutcomeInv, ExchangeSound
  <1>2. QED BY <1>1, ExchangeInit, ExchangeStep, PTL DEF XSpec
=============================================================================
