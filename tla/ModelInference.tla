--------------------------- MODULE ModelInference ---------------------------
(***************************************************************************)
(* Models called from SQL: the registry of model/model_manager.rs, the     *)
(* manager of the worker process of model/worker_manager.rs, the worker of *)
(* bin/model_worker.rs and the cache of results of model/cache.rs, with    *)
(* ModelUDF::execute of model/model_udf.rs that uses all four.             *)
(*                                                                         *)
(* The database has at most one request under way (the mutex around the    *)
(* worker manager is held until the answer or the timeout); the worker     *)
(* serves its connections in order and goes on with a request whose answer *)
(* nobody waits for any more.  A model is the path it was loaded from, an  *)
(* output the path that computed it; the ONNX runtime is external.  The    *)
(* hash of the inputs is taken to be injective.                            *)
(***************************************************************************)
EXTENDS Integers, Sequences, FiniteSets
LOCAL INSTANCE TLC
LOCAL INSTANCE Functions
LOCAL INSTANCE SequencesExt
LOCAL INSTANCE FiniteSetsExt

CONSTANTS MwNames,
          MwPaths,        \* files with a model that loads; "bad" does not
          MwArgs,         \* [type : STRING, val : ...], the argument of a call
          MwSize,         \* bytes of the output, by path
          MwMaxModels,    \* max_models of the worker
          MwMaxRestarts,  \* max_restart_attempts
          MwMaxEntries,   \* max_entries of the cache
          MwMaxMemory,    \* its memory limit in bytes
          MwMaxOps        \* bound of this model: calls

VARIABLES mwDb,       \* ModelManager: use_worker, metadata, models
          mwManager,  \* GLOBAL_WORKER_MANAGER
          mwWorker,   \* the worker process: its models and its connections
          mwWait,     \* the request whose answer is awaited, or NoRequest
          mwCache,    \* GLOBAL_CACHE
          mwExpired,  \* results up to this call are older than ttl_seconds
          mwOps,
          mwMissed,   \* names whose last answer was missed, or cleared
          mwLeak      \* bytes of the entries taken out by remove

mwVars == <<mwDb, mwManager, mwWorker, mwWait, mwCache, mwExpired, mwOps,
            mwMissed, mwLeak>>

NoRequest == [op |-> "none"]
NoFunction == [x \in {} |-> x]
NewWorker == [models |-> NoFunction, queue |-> <<>>, listening |-> FALSE]
NoManager == [some |-> FALSE, enabled |-> FALSE, restart |-> FALSE,
              child |-> "none", tries |-> 0]
NewCache == [entries |-> NoFunction, order |-> <<>>, memory |-> 0, on |-> TRUE]

MwInit ==
  /\ mwDb \in {[use_worker |-> w, metadata |-> NoFunction,
                models |-> NoFunction] : w \in BOOLEAN}
  /\ mwManager = NoManager
  /\ mwWorker = NewWorker
  /\ mwWait = NoRequest
  /\ mwCache = NewCache
  /\ mwExpired = 0 /\ mwOps = 0 /\ mwMissed = {} /\ mwLeak = 0

Call == mwWait = NoRequest /\ mwOps < MwMaxOps /\ mwOps' = mwOps + 1

-----------------------------------------------------------------------------
(***************************************************************************)
(* InferenceCache: `entries` by key and `access_order`, least recent first *)
(***************************************************************************)
Forget(order, key) == SelectSeq(order, LAMBDA k : k # key)

\* The models' inputs: a text becomes zeros whatever it says, an
\* unsupported type is refused before the cache is asked.
Supported(arg) == arg.type # "blob"
CacheKey(name, arg) ==
  <<name, IF arg.type = "text" THEN 0 ELSE arg.val>>

RemoveEntry(c, key) ==
  [c EXCEPT !.entries = Restrict(@, DOMAIN @ \ {key}),
            !.order = Forget(@, key),
            !.memory = @ - c.entries[key].size]

\* Mutant: the new entry is not counted.
NeedsRoomLate(c, size) ==
  \/ Cardinality(DOMAIN c.entries) > MwMaxEntries
  \/ c.memory + size > MwMaxMemory

NeedsRoom(c, size) ==
  \/ Cardinality(DOMAIN c.entries) >= MwMaxEntries
  \/ c.memory + size > MwMaxMemory

\* The loop of put around evict_lru, which stops when nothing is left.
MadeRoom(c, size) ==
  LET evicted[n \in 0 .. Len(c.order)] ==
        IF n = 0 THEN c
        ELSE IF NeedsRoom(evicted[n - 1], size)
             THEN RemoveEntry(evicted[n - 1], Head(evicted[n - 1].order))
             ELSE evicted[n - 1]
  IN  evicted[Len(c.order)]

Put(c, key, path) ==
  LET r == MadeRoom(c, MwSize[path])
      entry == [output |-> path, size |-> MwSize[path], born |-> mwOps]
  IN  IF ~c.on \/ key \in DOMAIN c.entries THEN c
      ELSE [r EXCEPT !.entries = (key :> entry) @@ @,
                     !.order = Append(@, key),
                     !.memory = @ + entry.size]

IsExpired(c, key) == c.entries[key].born <= mwExpired
Cached(c, key) == c.on /\ key \in DOMAIN c.entries
Hit(c, key) == Cached(c, key) /\ ~IsExpired(c, key)

\* What get leaves: an expired entry is removed, a hit moves to the end.
Got(c, key) ==
  IF ~Cached(c, key) THEN c
  ELSE IF IsExpired(c, key) THEN RemoveEntry(c, key)
       ELSE [c EXCEPT !.order = Append(Forget(@, key), key)]

\* ThreadSafeCache::remove leaves current_memory as it was.
MwRemove ==
  /\ Call
  /\ \E key \in DOMAIN mwCache.entries :
       /\ mwCache' = [RemoveEntry(mwCache, key) EXCEPT !.memory = mwCache.memory]
       /\ mwLeak' = mwLeak + mwCache.entries[key].size
  /\ UNCHANGED <<mwDb, mwManager, mwWorker, mwWait, mwExpired, mwMissed>>

MwPruneExpired ==
  /\ Call
  /\ LET old == {k \in DOMAIN mwCache.entries : IsExpired(mwCache, k)}
     IN  mwCache' = FoldSet(LAMBDA k, c : RemoveEntry(c, k), mwCache, old)
  /\ UNCHANGED <<mwDb, mwManager, mwWorker, mwWait, mwExpired, mwMissed, mwLeak>>

MwSetEnabled(on) ==
  /\ Call
  /\ mwCache' = IF on THEN [mwCache EXCEPT !.on = TRUE]
                ELSE [NewCache EXCEPT !.on = FALSE]
  /\ mwLeak' = IF on THEN mwLeak ELSE 0
  /\ UNCHANGED <<mwDb, mwManager, mwWorker, mwWait, mwExpired, mwMissed>>

\* Time passes.
MwAge ==
  /\ mwExpired' \in {e.born : e \in Range(mwCache.entries)}
  /\ mwExpired' > mwExpired
  /\ UNCHANGED <<mwDb, mwManager, mwWorker, mwWait, mwCache, mwOps, mwMissed,
                 mwLeak>>

-----------------------------------------------------------------------------
(***************************************************************************)
(* WorkerManager.  The start of a process may fail; a process started      *)
(* accepts connections a little later.                                     *)
(***************************************************************************)
\* spawn_worker: the manager after it and whether it returned Ok.
Spawned(m) ==
  IF ~m.enabled THEN {<<m, TRUE>>}
  ELSE {<<[m EXCEPT !.child = "up", !.tries = 0], TRUE>>, <<m, FALSE>>}

\* init_worker_manager: the manager replaced kills its process when dropped.
MwInitWorker ==
  /\ Call
  /\ \E enabled, restart \in BOOLEAN :
       LET m == [NoManager EXCEPT !.some = TRUE, !.enabled = enabled,
                                  !.restart = restart]
       IN  \E s \in Spawned(m) :
             IF s[2] THEN mwManager' = s[1] /\ mwWorker' = NewWorker
             ELSE UNCHANGED <<mwManager, mwWorker>>
  /\ UNCHANGED <<mwDb, mwWait, mwCache, mwExpired, mwMissed, mwLeak>>

MwShutdown ==
  /\ Call
  /\ mwManager' = NoManager /\ mwWorker' = NewWorker
  /\ UNCHANGED <<mwDb, mwWait, mwCache, mwExpired, mwMissed, mwLeak>>

\* is_alive and restart_worker at the start of send_request: the manager and
\* whether the request goes on to connect.
Restarted(m) ==
  IF m.child = "up" THEN {<<m, TRUE>>}
  ELSE IF ~m.restart \/ m.tries >= MwMaxRestarts THEN {<<m, FALSE>>}
       ELSE Spawned([m EXCEPT !.child = "none", !.tries = @ + 1])

\* send_request up to the wait for the answer; an error leaves nobody waiting.
Send(req) ==
  IF ~mwManager.some THEN UNCHANGED <<mwManager, mwWorker, mwWait>>
  ELSE \E s \in Restarted(mwManager), ready \in BOOLEAN :
         LET kept == mwManager.child = "up"
             wk == IF kept THEN mwWorker
                   ELSE [NewWorker EXCEPT
                           !.listening = ready /\ s[1].child = "up"]
             connected == s[2] /\ wk.listening
         IN  /\ mwManager' = s[1]
             /\ mwWorker' = IF connected
                            THEN [wk EXCEPT !.queue = Append(@, req)] ELSE wk
             /\ mwWait' = IF connected THEN req ELSE NoRequest

-----------------------------------------------------------------------------
(***************************************************************************)
(* ModelManager and ModelUDF                                               *)
(***************************************************************************)
MwRegister ==
  /\ Call
  /\ \E name \in MwNames, path \in MwPaths \cup {"bad"} :
       IF name \in DOMAIN mwDb.models
       THEN UNCHANGED <<mwDb, mwManager, mwWorker, mwWait>>
       ELSE IF mwDb.use_worker
       THEN /\ Send([op |-> "load", name |-> name, path |-> path])
            /\ UNCHANGED mwDb
       ELSE /\ mwDb' = IF path = "bad" THEN mwDb
                       ELSE [mwDb EXCEPT
                               !.models = (name :> path) @@ @,
                               !.metadata = (name :> path) @@ @]
            /\ UNCHANGED <<mwManager, mwWorker, mwWait>>
  /\ UNCHANGED <<mwCache, mwExpired, mwMissed, mwLeak>>

MwUnregister ==
  /\ Call
  /\ \E name \in MwNames :
       IF mwDb.use_worker
       THEN /\ Send([op |-> "unload", name |-> name])
            /\ UNCHANGED mwDb
       ELSE /\ mwDb' = [mwDb EXCEPT
                          !.models = Restrict(@, DOMAIN @ \ {name}),
                          !.metadata = Restrict(@, DOMAIN @ \ {name})]
            /\ UNCHANGED <<mwManager, mwWorker, mwWait>>
  /\ UNCHANGED <<mwCache, mwExpired, mwMissed, mwLeak>>

MwClearAll ==
  /\ Call
  /\ mwDb' = [mwDb EXCEPT !.models = NoFunction, !.metadata = NoFunction]
  /\ mwMissed' = mwMissed \cup DOMAIN mwDb.metadata
  /\ UNCHANGED <<mwManager, mwWorker, mwWait, mwCache, mwExpired, mwLeak>>

\* execute_model_udf: without a worker the model is looked up first; a hit in
\* the cache needs no worker.
MwExecute ==
  /\ Call
  /\ \E name \in MwNames, arg \in MwArgs :
       LET key == CacheKey(name, arg)
       IN  IF ~Supported(arg) \/ (~mwDb.use_worker /\ name \notin DOMAIN mwDb.models)
           THEN UNCHANGED <<mwManager, mwWorker, mwWait, mwCache>>
           ELSE IF mwDb.use_worker /\ ~Hit(mwCache, key)
           THEN /\ Send([op |-> "execute", name |-> name, key |-> key])
                /\ mwCache' = Got(mwCache, key)
           ELSE /\ mwCache' = IF Hit(mwCache, key) THEN Got(mwCache, key)
                              ELSE Put(Got(mwCache, key), key, mwDb.models[name])
                /\ UNCHANGED <<mwManager, mwWorker, mwWait>>
  /\ UNCHANGED <<mwDb, mwExpired, mwMissed, mwLeak>>

\* The read timeout of the stream: the connection is closed, the request
\* stays with the worker.
MwTimeout ==
  /\ mwWait # NoRequest
  /\ mwWait' = NoRequest
  /\ mwMissed' = mwMissed \cup
                   (IF mwWait.op = "execute" THEN {} ELSE {mwWait.name})
  /\ UNCHANGED <<mwDb, mwManager, mwWorker, mwCache, mwExpired, mwOps, mwLeak>>

-----------------------------------------------------------------------------
(***************************************************************************)
(* The worker process                                                      *)
(***************************************************************************)
WkBind ==
  /\ mwManager.child = "up" /\ ~mwWorker.listening
  /\ mwWorker' = [mwWorker EXCEPT !.listening = TRUE]
  /\ UNCHANGED <<mwDb, mwManager, mwWait, mwCache, mwExpired, mwOps, mwMissed,
                 mwLeak>>

LoadModel(models, req) ==
  IF \/ req.name \in DOMAIN models
     \/ Cardinality(DOMAIN models) >= MwMaxModels
     \/ req.path = "bad"
  THEN [ok |-> FALSE, models |-> models]
  ELSE [ok |-> TRUE, models |-> (req.name :> req.path) @@ models]

UnloadModel(models, req) ==
  [ok |-> req.name \in DOMAIN models,
   models |-> Restrict(models, DOMAIN models \ {req.name})]

\* handle_request: whether the answer is the one hoped for, and the models.
HandleRequest(models, req) ==
  CASE req.op = "load" -> LoadModel(models, req)
    [] req.op = "unload" -> UnloadModel(models, req)
    [] req.op = "execute" -> [ok |-> req.name \in DOMAIN models, models |-> models]

\* register_model_via_worker, unregister_model_via_worker and
\* execute_via_worker after send_request returned.
Answered(req, answer) ==
  /\ mwDb' = IF ~answer.ok THEN mwDb
             ELSE CASE req.op = "load" ->
                         [mwDb EXCEPT !.metadata = (req.name :> req.path) @@ @]
                    [] req.op = "unload" ->
                         [mwDb EXCEPT !.metadata = Restrict(@, DOMAIN @ \ {req.name})]
                    [] req.op = "execute" -> mwDb
  /\ mwCache' = IF answer.ok /\ req.op = "execute"
                THEN Put(mwCache, req.key, answer.models[req.name]) ELSE mwCache

\* handle_connection for the first connection that waits.  Nobody reads the
\* answer when the database stopped waiting for it.
WkServe ==
  /\ mwWorker.listening /\ mwWorker.queue # <<>>
  /\ LET req == Head(mwWorker.queue)
         answer == HandleRequest(mwWorker.models, req)
     IN  /\ mwWorker' = [mwWorker EXCEPT !.models = answer.models, !.queue = Tail(@)]
         /\ IF mwWait # NoRequest /\ Len(mwWorker.queue) = 1
            THEN Answered(req, answer) /\ mwWait' = NoRequest
            ELSE UNCHANGED <<mwDb, mwCache, mwWait>>
  /\ UNCHANGED <<mwManager, mwExpired, mwOps, mwMissed, mwLeak>>

\* The process dies; the stream of a request under way is closed.
WkExit ==
  /\ mwManager.child = "up"
  /\ mwManager' = [mwManager EXCEPT !.child = "exited"]
  /\ mwWorker' = NewWorker
  /\ mwWait' = NoRequest
  /\ UNCHANGED <<mwDb, mwCache, mwExpired, mwOps, mwMissed, mwLeak>>

MwNext ==
  \/ MwRemove \/ MwPruneExpired \/ MwAge
  \/ \E on \in BOOLEAN : MwSetEnabled(on)
  \/ MwInitWorker \/ MwShutdown
  \/ MwRegister \/ MwUnregister \/ MwClearAll \/ MwExecute \/ MwTimeout
  \/ WkBind \/ WkServe \/ WkExit

MwSpec == MwInit /\ [][MwNext]_mwVars

-----------------------------------------------------------------------------
\* The order of use lists exactly the entries, once each; current_memory is
\* what they take plus what remove forgot to give back; and the limits hold
\* up to the one entry that put keeps when nothing is left to evict.
MwCacheExact ==
  LET keys == DOMAIN mwCache.entries
  IN  /\ Range(mwCache.order) = keys
      /\ Len(mwCache.order) = Cardinality(keys)
      /\ mwCache.memory =
           mwLeak + FoldSet(LAMBDA k, n : n + mwCache.entries[k].size, 0, keys)
      /\ \/ Cardinality(keys) <= 1
         \/ Cardinality(keys) <= MwMaxEntries /\ mwCache.memory <= MwMaxMemory

\* The registry and the worker agree on the models the worker holds, unless
\* the answer to a load or an unload was missed or the registry was cleared.
\* The registry may list models that a worker started anew does not hold.
MwRegistryAgrees ==
  /\ \A n \in DOMAIN mwWorker.models \ mwMissed :
       n \in DOMAIN mwDb.metadata /\ mwDb.metadata[n] = mwWorker.models[n]
  /\ ~mwDb.use_worker => mwDb.models = mwDb.metadata
  /\ Cardinality(DOMAIN mwWorker.models) <= MwMaxModels

\* restart_attempts counts the starts that failed since the last one that
\* succeeded: while a process runs or has just died it is 0, so the limit
\* never stops a worker that dies again and again.
MwAttempts ==
  /\ mwManager.tries > 0 => mwManager.child = "none"
  /\ mwManager.tries <= MwMaxRestarts

\* model/: the cache, the registry and the restarts of the worker are sound
\* through lost answers, deaths and restarts of the worker process.
MwSound == MwCacheExact /\ MwRegistryAgrees /\ MwAttempts
=============================================================================
