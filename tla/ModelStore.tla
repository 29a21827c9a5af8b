----------------------------- MODULE ModelStore -----------------------------
(***************************************************************************)
(* Checkpoint storage of a learning node (storage/model_store.py) and its  *)
(* use on start-up by the aggregator and by `quinkgl run --resume`.        *)
(*                                                                         *)
(* Every public method runs under one re-entrant lock, so operations do    *)
(* not interleave with each other; but a save or a delete touches several  *)
(* files one after the other, a write may fail, and the process may die    *)
(* between any two of them.  `op` holds the operation that owns the lock   *)
(* and how far it has come.  Payloads are dropped: a checkpoint is its     *)
(* number (the order of creation stands for the hashed identifier), its    *)
(* round, and the format its data file was written in.                     *)
(***************************************************************************)
EXTENDS Naturals, Sequences, FiniteSets, FiniteSetsExt

CONSTANTS
    MaxIds,     \* bound: checkpoints created in a behaviour
    Rounds,     \* round numbers saved
    Keeps,      \* values of keep_last_n passed to clear_old_checkpoints
    Options,    \* constructor arguments a process may open the store with
    MaxCrashes  \* bound: process deaths

ASSUME StoreAssumption ==
    /\ MaxIds \in Nat /\ MaxCrashes \in Nat
    /\ Rounds \subseteq Nat \ {0} /\ Keeps \subseteq Nat
    /\ Options \subseteq [disk : BOOLEAN, keep : BOOLEAN,
                          gz : BOOLEAN, max : Nat]

None == 0
Ids  == 1 .. MaxIds

VARIABLES
    opts,     \* storage_dir, keep_in_memory, compression, max_memory_checkpoints
    rounds,   \* rounds[id]: round_number of the id-th checkpoint created
    data,     \* data files on disk: <<id, TRUE>> is .msgpack.gz, FALSE .msgpack
    meta,     \* ids with a .meta.msgpack file
    mem,      \* keys of _checkpoints
    index,    \* _round_index, None where the round has no entry
    cached,   \* ~_cache_dirty (and _metadata_cache is not None)
    cache,    \* ids of _metadata_cache
    size,     \* _storage_size_cache as a number of entries; MaxIds+1 is None
    op,       \* the operation under the lock
    resumed,  \* round the node started from
    acked,    \* history: ids whose save returned with a storage directory
    dropped,  \* history: ids somebody asked to delete
    crashes

sVars == <<opts, rounds, data, meta, mem, index, cached, cache, size, op,
          resumed, acked, dropped, crashes>>
volatile == <<mem, index, cached, cache, size>>
history  == <<acked, dropped>>

NoSize == MaxIds + 1
Idle   == [kind |-> "idle", id |-> None, todo |-> {}]
Op(kind, id, todo) == [kind |-> kind, id |-> id, todo |-> todo]

-----------------------------------------------------------------------------
(* Reading the directory *)

Formats(id) == {f \in BOOLEAN : <<id, f>> \in data}

\* _load_from_disk: a compressed store tries .msgpack.gz first and does not
\* fall back when that file cannot be read; zlib.decompress has no max_length
\* argument, so _deserialize_checkpoint fails on every compressed file.
Loadable(id) ==
    /\ opts.disk
    /\ <<id, FALSE>> \in data
    /\ ~(opts.gz /\ <<id, TRUE>> \in data)

\* _find_checkpoint_files: compressed files are seen by a compressed store only
Visible == {id \in Ids : opts.disk /\ (\/ <<id, FALSE>> \in data
                                       \/ opts.gz /\ <<id, TRUE>> \in data)}

\* list_checkpoint_metadata on a cold cache: memory, then every visible file
\* that has a sidecar or can be loaded to rebuild one.
Listing ==
    (IF opts.keep THEN mem ELSE {})
      \cup {id \in Visible : id \in meta \/ Loadable(id)}

\* Files whose sidecar the cold listing has to rebuild
Rebuilt == {id \in Visible \ (IF opts.keep THEN mem ELSE {}) :
                id \notin meta /\ Loadable(id)}

\* _load_from_file for each id of S: the round index names one of the files
\* loaded for a round, and the memory limit is not enforced on this path.
LoadAll(S) ==
    /\ mem' = IF opts.keep THEN mem \cup S ELSE mem
    /\ \E new \in [Rounds -> Ids \cup {None}] :
          /\ \A r \in Rounds :
                LET hit == {id \in S : rounds[id] = r}
                IN  IF hit = {} THEN new[r] = index[r] ELSE new[r] \in hit
          /\ index' = new

\* _invalidate_cache
Invalidate ==
    /\ cached' = FALSE
    /\ cache' = {}
    /\ size' = NoSize

-----------------------------------------------------------------------------
(* save_checkpoint *)

\* _save_to_disk through _write_bytes_atomically: the file appears complete
\* under its name, or not at all and the error propagates to the caller.
SaveData(r) ==
    /\ op.kind = "idle"
    /\ Len(rounds) < MaxIds
    /\ \/ /\ rounds' = Append(rounds, r)
          /\ data' = IF opts.disk THEN data \cup {<<Len(rounds) + 1, opts.gz>>}
                                  ELSE data
          /\ op' = Op(IF opts.disk THEN "saveMeta" ELSE "saveIndex",
                      Len(rounds) + 1, {})
       \/ /\ opts.disk                         \* ModelStoreError
          /\ UNCHANGED <<rounds, data, op>>
    /\ UNCHANGED <<opts, meta, volatile, resumed, history, crashes>>

\* _save_metadata_to_disk; a failure is only logged
SaveMeta ==
    /\ op.kind = "saveMeta"
    /\ meta' \in {meta, meta \cup {op.id}}
    /\ op' = [op EXCEPT !.kind = "saveIndex"]
    /\ UNCHANGED <<opts, rounds, data, volatile, resumed, history, crashes>>

\* _enforce_memory_limit pops the checkpoints of the lowest rounds (ties by
\* hashed id: any) and the index entry of each round popped.
Evictions(m) ==
    LET surplus == IF opts.max > 0 /\ Cardinality(m) > opts.max
                   THEN Cardinality(m) - opts.max ELSE 0
    IN  {E \in SUBSET m : /\ Cardinality(E) = surplus
                          /\ \A e \in E, k \in m \ E : rounds[e] <= rounds[k]}

Without(idx, E) ==
    [r \in Rounds |-> IF \E e \in E : rounds[e] = r THEN None ELSE idx[r]]

SaveIndex ==
    /\ op.kind = "saveIndex"
    /\ Invalidate
    /\ LET idx == [index EXCEPT ![rounds[op.id]] = op.id] IN
       IF opts.keep
       THEN \E E \in Evictions(mem \cup {op.id}) :
              /\ mem' = (mem \cup {op.id}) \ E
              /\ index' = Without(idx, E)
       ELSE mem' = mem /\ index' = idx
    /\ acked' = IF opts.disk THEN acked \cup {op.id} ELSE acked
    /\ op' = Idle
    /\ UNCHANGED <<opts, rounds, data, meta, resumed, dropped, crashes>>

-----------------------------------------------------------------------------
(* The readers *)

\* load_checkpoint
LoadCheckpoint(id) ==
    /\ op.kind = "idle"
    /\ id \notin mem /\ Loadable(id)
    /\ LoadAll({id})
    /\ UNCHANGED <<opts, rounds, data, meta, cached, cache, size, op, resumed,
                   history, crashes>>

\* get_checkpoint_by_round without an index entry reads file after file until
\* one is of round r; whatever it read on the way stays loaded.
GetByRound(r) ==
    /\ op.kind = "idle"
    /\ LET files == {id \in Visible : Loadable(id)}
           match == {id \in files : rounds[id] = r}
       IN  IF index[r] # None
           THEN LoadAll({id \in {index[r]} : id \notin mem /\ Loadable(id)})
           ELSE \E S \in SUBSET (files \ match) :
                  IF match = {} THEN S = files /\ LoadAll(S)
                  ELSE \E m \in match : LoadAll(S \cup {m})
    /\ UNCHANGED <<opts, rounds, data, meta, cached, cache, size, op, resumed,
                   history, crashes>>

\* The checkpoint get_latest_checkpoint returns: the index is all it consults
Latest ==
    LET known == {r \in Rounds : index[r] # None}
        id    == index[Max(known)]
    IN  IF known # {} /\ (id \in mem \/ Loadable(id)) THEN id ELSE None

GetLatest ==
    /\ op.kind = "idle"
    /\ LoadAll({Latest} \ (mem \cup {None}))
    /\ UNCHANGED <<opts, rounds, data, meta, cached, cache, size, op, resumed,
                   history, crashes>>

\* list_checkpoint_metadata: rebuilding a sidecar loads the checkpoint and may
\* fail to write the sidecar.
FillCache ==
    IF cached
    THEN UNCHANGED <<meta, mem, index, cached, cache>>
    ELSE /\ cache' = Listing
         /\ cached' = TRUE
         /\ \E W \in SUBSET Rebuilt : meta' = meta \cup W
         /\ LoadAll(Rebuilt)

ListCheckpoints ==
    /\ op.kind = "idle"
    /\ FillCache
    /\ UNCHANGED <<opts, rounds, data, size, op, resumed, history, crashes>>

\* The sum over the listing, a file counting as one
TotalSize(L) == Cardinality(L)

\* get_storage_size; an estimate over the memory without a storage directory
GetStorageSize ==
    /\ op.kind = "idle"
    /\ opts.disk /\ size = NoSize
    /\ FillCache
    /\ size' = TotalSize(cache')
    /\ UNCHANGED <<opts, rounds, data, op, resumed, history, crashes>>

-----------------------------------------------------------------------------
(* delete_checkpoint and clear_old_checkpoints *)

\* Mutant: the listing cache survives a delete.
DropButKeepCache(id) ==
    /\ mem' = mem \ {id}
    /\ index' = IF id \in mem THEN [index EXCEPT ![rounds[id]] = None] ELSE index
    /\ UNCHANGED <<cached, cache, size>>

\* Memory first; the index entry goes only when the checkpoint was in memory.
DropFromMemory(id) ==
    /\ mem' = mem \ {id}
    /\ index' = IF id \in mem THEN [index EXCEPT ![rounds[id]] = None] ELSE index
    /\ Invalidate

DeleteBegin(id) ==
    /\ op.kind = "idle"
    /\ DropFromMemory(id)
    /\ op' = Op("unlinkData", id, {})
    /\ dropped' = dropped \cup {id}
    /\ UNCHANGED <<opts, rounds, data, meta, resumed, acked, crashes>>

\* Every format of the data file, then the sidecar
UnlinkData ==
    /\ op.kind = "unlinkData"
    /\ data' = IF opts.disk THEN data \ ({op.id} \X BOOLEAN) ELSE data
    /\ op' = [op EXCEPT !.kind = "unlinkMeta"]
    /\ UNCHANGED <<opts, rounds, meta, volatile, resumed, history, crashes>>

UnlinkMeta ==
    /\ op.kind = "unlinkMeta"
    /\ meta' = IF opts.disk THEN meta \ {op.id} ELSE meta
    /\ op' = IF op.todo = {} THEN Idle ELSE [op EXCEPT !.kind = "clear"]
    /\ UNCHANGED <<opts, rounds, data, volatile, resumed, history, crashes>>

\* Mutant: the listing is sorted the other way round.
SurplusNewest(L, n) ==
    {D \in SUBSET L :
        /\ Cardinality(D) = IF n = 0 \/ Cardinality(L) <= n THEN 0
                            ELSE Cardinality(L) - n
        /\ \A d \in D, k \in L \ D : rounds[d] >= rounds[k]}

\* checkpoints[:-keep_last_n] of the listing sorted by round (ties in any
\* order); the slice [:-0] is empty.
Surplus(L, n) ==
    {D \in SUBSET L :
        /\ Cardinality(D) = IF n = 0 \/ Cardinality(L) <= n THEN 0
                            ELSE Cardinality(L) - n
        /\ \A d \in D, k \in L \ D : rounds[d] <= rounds[k]}

ClearBegin(n) ==
    /\ op.kind = "idle"
    /\ FillCache
    /\ \E D \in Surplus(cache', n) :
          op' = IF D = {} THEN Idle ELSE Op("clear", None, D)
    /\ UNCHANGED <<opts, rounds, data, size, resumed, history, crashes>>

\* delete_checkpoint of the oldest checkpoint left to delete
ClearNext ==
    /\ op.kind = "clear"
    /\ \E id \in op.todo :
          /\ \A d \in op.todo : rounds[id] <= rounds[d]
          /\ DropFromMemory(id)
          /\ op' = Op("unlinkData", id, op.todo \ {id})
    /\ UNCHANGED <<opts, rounds, data, meta, resumed, history, crashes>>

-----------------------------------------------------------------------------
(* The process *)

\* ModelStore.__init__: nothing is read from the directory
Opened(o) ==
    /\ opts' = o
    /\ mem' = {}
    /\ index' = [r \in Rounds |-> None]
    /\ Invalidate
    /\ op' = Idle

\* The process dies, a temporary file of an unfinished write is never looked
\* at again; the next one opens the directory with its own arguments, and
\* ModelAggregator.__init__ and _maybe_resume ask it for the latest checkpoint.
\* A fresh store has an empty index: Latest is None and the round stays 0.
Restart(o) ==
    /\ crashes < MaxCrashes
    /\ crashes' = crashes + 1
    /\ o.disk
    /\ Opened(o)
    /\ UNCHANGED <<rounds, data, meta, history>>
    /\ resumed' = IF Latest' = None THEN 0 ELSE rounds'[Latest']

SInit ==
    /\ opts \in Options
    /\ rounds = <<>> /\ data = {} /\ meta = {} /\ mem = {}
    /\ index = [r \in Rounds |-> None]
    /\ cached = FALSE /\ cache = {} /\ size = NoSize
    /\ op = Idle /\ resumed = 0
    /\ acked = {} /\ dropped = {} /\ crashes = 0

SNext ==
    \/ \E r \in Rounds : SaveData(r) \/ GetByRound(r)
    \/ SaveMeta \/ SaveIndex
    \/ \E id \in 1 .. Len(rounds) : LoadCheckpoint(id) \/ DeleteBegin(id)
    \/ GetLatest \/ ListCheckpoints \/ GetStorageSize
    \/ UnlinkData \/ UnlinkMeta
    \/ \E n \in Keeps : ClearBegin(n)
    \/ ClearNext
    \/ \E o \in Options : Restart(o)

SSpec == SInit /\ [][SNext]_sVars

-----------------------------------------------------------------------------
(* Properties *)

\* A listing answered from _metadata_cache (and a size answered from
\* _storage_size_cache) is what a fresh scan of memory and directory would
\* give: saves, deletes, evictions and half-done clears all invalidate it, and
\* the loads that change the memory without invalidating do not change it.
CacheCoherent ==
    op.kind = "idle" =>
        /\ cached => cache = Listing
        /\ size # NoSize => cached /\ size = Cardinality(cache)

\* Whatever the crashes, failed writes, settings and clears: a save returns only
\* once its data file is on disk, and a data file vanishes only because the
\* caller deleted that checkpoint by id or because clear_old_checkpoints keeps
\* another one of at least its round; so the newest work is never cleared away.
NewestSurvives ==
    [][/\ \A id \in acked' \ acked : \E f \in BOOLEAN : <<id, f>> \in data'
       /\ \A file \in data \ data' :
             \/ file[1] \in dropped'
             \/ \E other \in data' : rounds'[other[1]] >= rounds'[file[1]]]_sVars

\* docs/cli/run.md on --resume: "Load latest checkpoint before training".  A
\* process that opens a directory with a readable checkpoint starts from it.
ResumeFindsCheckpoint ==
    [][crashes' # crashes /\ (\E id \in Ids : Loadable(id))' => resumed' # 0]_sVars
=============================================================================
