--------------------------- MODULE GnocchiDispatcher ---------------------------
(***************************************************************************)
(* The Gnocchi dispatcher of ceilometer (src/ceilometer/dispatcher/        *)
(* gnocchi.py): dispatcher threads, possibly in several processes, each    *)
(* run _process_resource on one resource group of a batch of samples:      *)
(* post the measures of every meter group, repair a missing resource or    *)
(* metric (_ensure_resource_and_metric) and retry once, then reconcile the *)
(* resource attributes against the backend through a TTL cache shared by   *)
(* all processes and a lock local to each process (double-checked).        *)
(*                                                                         *)
(* Data is abstracted: the extras extracted from a batch are one value of  *)
(* Vals (the samples of one instance carry the same metadata), the         *)
(* attribute hash is injective, and the backend is three functions over   *)
(* resource ids.                                                           *)
(***************************************************************************)
EXTENDS Naturals, Sequences, FiniteSets

CONSTANTS
    Workers,      \* dispatcher threads
    Procs,        \* agent processes; each owns one _gnocchi_resource_lock
    ProcOf,       \* ProcOf[w]: the process that runs thread w
    Resources,    \* resource ids
    MeterOrder,   \* all meter names, in the order data.sort() puts them
    MeterDef,     \* MeterDef[m] \in {"rd", "ignore", "none"}: what
                  \*   _get_resource_definition finds for meter m
    DefMetrics,   \* the metric names rd.metrics() declares for the type
    Vals,         \* extra-attribute values a batch can carry
    NoExtra,      \* resource_extra = {}
    Miss,         \* cache.get(key) returns nothing
    NoWorker,     \* a lock nobody holds
    UseCache,     \* memcached_servers configured (self.cache is not None)
    Faults,       \* the backend may answer any call with UnexpectedError
    Ambiguous,    \* an update may be applied and still report an error
    MaxBatches    \* batches a thread dispatches in a behaviour

Meters == {MeterOrder[i] : i \in DOMAIN MeterOrder}

ASSUME /\ ProcOf \in [Workers -> Procs]
       /\ MeterDef \in [Meters -> {"rd", "ignore", "none"}]
       /\ DefMetrics = {m \in Meters : MeterDef[m] = "rd"}
       /\ NoExtra \notin Vals /\ Miss \notin Vals
       /\ UseCache \in BOOLEAN /\ Faults \in BOOLEAN
       /\ Ambiguous \in BOOLEAN
       /\ MaxBatches \in Nat

VARIABLES
    pc,           \* pc[w]: where thread w is in _process_resource
    batch,        \* batch[w]: the resource group w processes
    idx,          \* idx[w]: the meter group w is at
    extra,        \* extra[w]: resource_extra accumulated so far
    nBatches,     \* nBatches[w]: resource groups w has taken
    lock,         \* lock[p]: holder of process p's _gnocchi_resource_lock
    cache,        \* cache[r]: the hash memcached holds for r, or Miss
    resExists,    \* the backend: does resource r exist
    resMetrics,   \*   the metrics resource r has
    resAttrs,     \*   the extra attributes resource r has
    dropped       \* history: meter groups whose measures were not stored

vars == <<pc, batch, idx, extra, nBatches, lock, cache,
          resExists, resMetrics, resAttrs, dropped>>

Extras == Vals \cup {NoExtra}

(* A resource group: samples of one resource, grouped by meter name in
   sorted order, every sample carrying the metadata value val. *)
Batches == {[res |-> r, meters |-> SelectSeq(MeterOrder, LAMBDA m : m \in S),
             val |-> v] : r \in Resources, S \in SUBSET Meters \ {{}},
                          v \in Vals}

PcLabels == {"idle", "meter", "ens_check", "ens_lock", "ens_recheck",
             "ens_create", "ens_set", "ens_metric1", "ens_metric2", "retry",
             "rec_check", "rec_lock", "rec_recheck", "rec_update", "rec_set"}

TypeOK ==
    /\ pc \in [Workers -> PcLabels]
    /\ batch \in [Workers -> Batches]
    /\ idx \in [Workers -> Nat]
    /\ extra \in [Workers -> Extras]
    /\ nBatches \in [Workers -> 0..MaxBatches]
    /\ lock \in [Procs -> Workers \cup {NoWorker}]
    /\ cache \in [Resources -> Extras \cup {Miss}]
    /\ resExists \in [Resources -> BOOLEAN]
    /\ resMetrics \in [Resources -> SUBSET DefMetrics]
    /\ resAttrs \in [Resources -> Extras]
    /\ dropped \subseteq Workers \X Nat \X Meters
                         \X {"error", "skipped", "retry_failed"}

-----------------------------------------------------------------------------
(* Helpers over a thread's current position. *)
Res(w) == batch[w].res
Meter(w) == batch[w].meters[idx[w]]
Proc(w) == ProcOf[w]

(* hash(frozenset(resource_info.items())) of the resource dict without its
   metrics: id, user and project are fixed per resource, so the hash is a
   function of the extras alone, taken here as injective. *)
AttributeHash(e) == e

(* self._check_resource_cache(key, resource) returns None on a hit. *)
CacheHit(w) == cache[Res(w)] = AttributeHash(extra[w])

(* Leaving a `with self._gnocchi_resource_lock:` block, by its end or by
   an exception raised inside it. *)
Release(w) == lock' = [lock EXCEPT ![Proc(w)] = NoWorker]
Acquire(w) == /\ lock[Proc(w)] = NoWorker
              /\ lock' = [lock EXCEPT ![Proc(w)] = w]

(* The mapped meter groups of w's batch from position i on. *)
MappedFrom(w, i) == {batch[w].meters[j] :
                        j \in {k \in i..Len(batch[w].meters) :
                                 MeterDef[batch[w].meters[k]] = "rd"}}

(* gnocchi_client.UnexpectedError escaping _process_resource: the
   log_and_ignore_unexpected_workflow_error decorator logs it and the rest
   of the resource group is abandoned. *)
Abort(w) ==
    /\ pc' = [pc EXCEPT ![w] = "idle"]
    /\ dropped' = dropped
          \cup (IF pc[w] \in {"rec_check", "rec_lock", "rec_recheck",
                              "rec_update", "rec_set"} THEN {}
                ELSE {<<w, nBatches[w], Meter(w), "error">>}
                     \cup {<<w, nBatches[w], m, "skipped">> :
                              m \in MappedFrom(w, idx[w] + 1)})

NextMeter(w) == /\ idx' = [idx EXCEPT ![w] = @ + 1]
                /\ pc' = [pc EXCEPT ![w] = "meter"]

-----------------------------------------------------------------------------
Init ==
    /\ pc = [w \in Workers |-> "idle"]
    /\ batch = [w \in Workers |-> CHOOSE b \in Batches : TRUE]
    /\ idx = [w \in Workers |-> 1]
    /\ extra = [w \in Workers |-> NoExtra]
    /\ nBatches = [w \in Workers |-> 0]
    /\ lock = [p \in Procs |-> NoWorker]
    \* The backend may already hold a resource, created by an earlier run
    \* or an older resource definition (so some metrics may be missing);
    \* the cache, if filled, agrees with the backend.
    /\ resExists \in [Resources -> BOOLEAN]
    /\ resMetrics \in [Resources -> SUBSET DefMetrics]
    /\ resAttrs \in [Resources -> Extras]
    /\ \A r \in Resources : ~resExists[r] => resMetrics[r] = {} /\ resAttrs[r] = NoExtra
    /\ cache \in [Resources -> Extras \cup {Miss}]
    /\ \A r \in Resources :
          cache[r] # Miss => resExists[r] /\ cache[r] = AttributeHash(resAttrs[r])
    /\ dropped = {}

-----------------------------------------------------------------------------
(* record_metering_data: the sorted batch is grouped by resource and each
   resource group handed to _process_resource (lines 241-251). *)
TakeBatch(w) ==
    /\ pc[w] = "idle"
    /\ nBatches[w] < MaxBatches
    /\ \E b \in Batches : batch' = [batch EXCEPT ![w] = b]
    /\ idx' = [idx EXCEPT ![w] = 1]
    /\ extra' = [extra EXCEPT ![w] = NoExtra]
    /\ nBatches' = [nBatches EXCEPT ![w] = @ + 1]
    /\ pc' = [pc EXCEPT ![w] = "meter"]
    /\ UNCHANGED <<lock, cache, resExists, resMetrics, resAttrs, dropped>>

(* A meter group with no resource definition, or an ignored one, is
   skipped (lines 258-264). *)
SkipMeter(w) ==
    /\ pc[w] = "meter"
    /\ idx[w] <= Len(batch[w].meters)
    /\ MeterDef[Meter(w)] # "rd"
    /\ NextMeter(w)
    /\ UNCHANGED <<batch, extra, nBatches, lock, cache,
                   resExists, resMetrics, resAttrs, dropped>>

(* Mutation: the `if rd.cfg.get("ignore")` check is dropped, so an
   ignored meter is posted like a mapped one. *)
PostMeasureNoIgnore(w) ==
    LET r == Res(w) IN
    /\ pc[w] = "meter"
    /\ idx[w] <= Len(batch[w].meters)
    /\ MeterDef[Meter(w)] # "none"
    /\ extra' = [extra EXCEPT ![w] = batch[w].val]
    /\ \/ /\ resExists[r] /\ Meter(w) \in resMetrics[r]
          /\ NextMeter(w)
          /\ UNCHANGED dropped
       \/ /\ ~(resExists[r] /\ Meter(w) \in resMetrics[r])
          /\ pc' = [pc EXCEPT ![w] = IF UseCache THEN "ens_check"
                                                 ELSE "ens_create"]
          /\ UNCHANGED <<idx, dropped>>
       \/ /\ Faults
          /\ Abort(w)
          /\ UNCHANGED idx
    /\ UNCHANGED <<batch, nBatches, lock, cache, resExists, resMetrics, resAttrs>>

(* The first post_measure of a mapped meter group, after its attributes
   are merged into resource_extra (lines 266-291). Gnocchi answers 404,
   NoSuchMetric, when either the resource or the metric is missing. *)
PostMeasure(w) ==
    LET r == Res(w) IN
    /\ pc[w] = "meter"
    /\ idx[w] <= Len(batch[w].meters)
    /\ MeterDef[Meter(w)] = "rd"
    /\ extra' = [extra EXCEPT ![w] = batch[w].val]
    /\ \/ /\ resExists[r] /\ Meter(w) \in resMetrics[r]
          /\ NextMeter(w)
          /\ UNCHANGED dropped
       \/ /\ ~(resExists[r] /\ Meter(w) \in resMetrics[r])
          /\ pc' = [pc EXCEPT ![w] = IF UseCache THEN "ens_check"
                                                 ELSE "ens_create"]
          /\ UNCHANGED <<idx, dropped>>
       \/ /\ Faults
          /\ Abort(w)
          /\ UNCHANGED idx
    /\ UNCHANGED <<batch, nBatches, lock, cache, resExists, resMetrics, resAttrs>>

(* _ensure_resource_and_metric, unlocked cache check (lines 338-355). *)
EnsCheck(w) ==
    /\ pc[w] = "ens_check"
    /\ pc' = [pc EXCEPT ![w] = IF CacheHit(w) THEN "ens_metric2" ELSE "ens_lock"]
    /\ UNCHANGED <<batch, idx, extra, nBatches, lock, cache,
                   resExists, resMetrics, resAttrs, dropped>>

EnsLock(w) ==
    /\ pc[w] = "ens_lock"
    /\ Acquire(w)
    /\ pc' = [pc EXCEPT ![w] = "ens_recheck"]
    /\ UNCHANGED <<batch, idx, extra, nBatches, cache,
                   resExists, resMetrics, resAttrs, dropped>>

(* The re-check under the lock (lines 344-352). *)
EnsRecheck(w) ==
    /\ pc[w] = "ens_recheck"
    /\ IF CacheHit(w)
          THEN Release(w) /\ pc' = [pc EXCEPT ![w] = "ens_metric2"]
          ELSE UNCHANGED lock /\ pc' = [pc EXCEPT ![w] = "ens_create"]
    /\ UNCHANGED <<batch, idx, extra, nBatches, cache,
                   resExists, resMetrics, resAttrs, dropped>>

(* Mutation: ResourceAlreadyExists goes straight to the retry, without
   create_metric. *)
EnsCreateNoMetric(w) ==
    LET r == Res(w) IN
    /\ pc[w] = "ens_create"
    /\ \/ /\ ~resExists[r]
          /\ resExists' = [resExists EXCEPT ![r] = TRUE]
          /\ resMetrics' = [resMetrics EXCEPT ![r] = DefMetrics]
          /\ resAttrs' = [resAttrs EXCEPT ![r] = extra[w]]
          /\ pc' = [pc EXCEPT ![w] = IF UseCache THEN "ens_set" ELSE "ens_metric2"]
          /\ UNCHANGED <<lock, dropped>>
       \/ /\ resExists[r]
          /\ IF UseCache THEN Release(w) ELSE UNCHANGED lock
          /\ pc' = [pc EXCEPT ![w] = "retry"]
          /\ UNCHANGED <<resExists, resMetrics, resAttrs, dropped>>
    /\ UNCHANGED <<batch, idx, extra, nBatches, cache>>

(* create_resource with the full metric map of the definition (lines
   347-348, or 357 without a cache); ResourceAlreadyExists leaves the
   with-block and falls to create_metric (lines 358-366). *)
EnsCreate(w) ==
    LET r == Res(w) IN
    /\ pc[w] = "ens_create"
    /\ \/ /\ ~resExists[r]
          /\ resExists' = [resExists EXCEPT ![r] = TRUE]
          /\ resMetrics' = [resMetrics EXCEPT ![r] = DefMetrics]
          /\ resAttrs' = [resAttrs EXCEPT ![r] = extra[w]]
          /\ pc' = [pc EXCEPT ![w] = IF UseCache THEN "ens_set" ELSE "ens_metric2"]
          /\ UNCHANGED <<lock, dropped>>
       \/ /\ resExists[r]
          /\ IF UseCache THEN Release(w) ELSE UNCHANGED lock
          /\ pc' = [pc EXCEPT ![w] = "ens_metric1"]
          /\ UNCHANGED <<resExists, resMetrics, resAttrs, dropped>>
       \/ /\ Faults
          /\ IF UseCache THEN Release(w) ELSE UNCHANGED lock
          /\ Abort(w)
          /\ UNCHANGED <<resExists, resMetrics, resAttrs>>
    /\ UNCHANGED <<batch, idx, extra, nBatches, cache>>

EnsSet(w) ==
    /\ pc[w] = "ens_set"
    /\ cache' = [cache EXCEPT ![Res(w)] = AttributeHash(extra[w])]
    /\ Release(w)
    /\ pc' = [pc EXCEPT ![w] = "ens_metric2"]
    /\ UNCHANGED <<batch, idx, extra, nBatches,
                   resExists, resMetrics, resAttrs, dropped>>

(* create_metric; MetricAlreadyExists is ignored; on a missing resource
   Gnocchi's 404 surfaces as UnexpectedError (lines 359-374). from is
   the first call (after ResourceAlreadyExists) or the unconditional
   second one. *)
CreateMetric(w, from, to) ==
    LET r == Res(w) IN
    /\ pc[w] = from
    /\ \/ /\ resExists[r]
          /\ resMetrics' = [resMetrics EXCEPT ![r] = @ \cup {Meter(w)}]
          /\ pc' = [pc EXCEPT ![w] = to]
          /\ UNCHANGED dropped
       \/ /\ ~resExists[r] \/ Faults
          /\ Abort(w)
          /\ UNCHANGED resMetrics
    /\ UNCHANGED <<batch, idx, extra, nBatches, lock, cache, resExists, resAttrs>>

(* Mutation: the unconditional create_metric (lines 367-374) is left out. *)
EnsMetric2Skip(w) ==
    /\ pc[w] = "ens_metric2"
    /\ pc' = [pc EXCEPT ![w] = "retry"]
    /\ UNCHANGED <<batch, idx, extra, nBatches, lock, cache,
                   resExists, resMetrics, resAttrs, dropped>>

EnsMetric1(w) == CreateMetric(w, "ens_metric1", "ens_metric2")
EnsMetric2(w) == CreateMetric(w, "ens_metric2", "retry")

(* The single retry of post_measure; a second NoSuchMetric is logged
   and the next meter group is processed (lines 292-299). *)
Retry(w) ==
    LET r == Res(w) IN
    /\ pc[w] = "retry"
    /\ \/ /\ resExists[r] /\ Meter(w) \in resMetrics[r]
          /\ NextMeter(w)
          /\ UNCHANGED dropped
       \/ /\ ~(resExists[r] /\ Meter(w) \in resMetrics[r])
          /\ NextMeter(w)
          /\ dropped' = dropped \cup {<<w, nBatches[w], Meter(w), "retry_failed">>}
       \/ /\ Faults
          /\ Abort(w)
          /\ UNCHANGED idx
    /\ UNCHANGED <<batch, extra, nBatches, lock, cache, resExists, resMetrics, resAttrs>>

(* After the last meter group: reconcile the attributes if resource_extra
   is not empty (lines 301-302, 321). *)
EndMeters(w) ==
    /\ pc[w] = "meter"
    /\ idx[w] > Len(batch[w].meters)
    /\ pc' = [pc EXCEPT ![w] = CASE extra[w] = NoExtra -> "idle"
                                 [] UseCache          -> "rec_check"
                                 [] OTHER             -> "rec_update"]
    /\ UNCHANGED <<batch, idx, extra, nBatches, lock, cache,
                   resExists, resMetrics, resAttrs, dropped>>

(* Unlocked check of the attribute cache (lines 303-320). *)
RecCheck(w) ==
    /\ pc[w] = "rec_check"
    /\ pc' = [pc EXCEPT ![w] = IF CacheHit(w) THEN "idle" ELSE "rec_lock"]
    /\ UNCHANGED <<batch, idx, extra, nBatches, lock, cache,
                   resExists, resMetrics, resAttrs, dropped>>

RecLock(w) ==
    /\ pc[w] = "rec_lock"
    /\ Acquire(w)
    /\ pc' = [pc EXCEPT ![w] = "rec_recheck"]
    /\ UNCHANGED <<batch, idx, extra, nBatches, cache,
                   resExists, resMetrics, resAttrs, dropped>>

(* Mutation: no re-check under the lock. *)
RecRecheckNone(w) ==
    /\ pc[w] = "rec_recheck"
    /\ pc' = [pc EXCEPT ![w] = "rec_update"]
    /\ UNCHANGED <<batch, idx, extra, nBatches, lock, cache,
                   resExists, resMetrics, resAttrs, dropped>>

(* The re-check under the lock (lines 308-317). *)
RecRecheck(w) ==
    /\ pc[w] = "rec_recheck"
    /\ IF CacheHit(w)
          THEN Release(w) /\ pc' = [pc EXCEPT ![w] = "idle"]
          ELSE UNCHANGED lock /\ pc' = [pc EXCEPT ![w] = "rec_update"]
    /\ UNCHANGED <<batch, idx, extra, nBatches, cache,
                   resExists, resMetrics, resAttrs, dropped>>

(* Mutation: the cache is set before update_resource returns, so a
   failing update leaves the new hash behind. *)
RecUpdateCacheFirst(w) ==
    LET r == Res(w) IN
    /\ pc[w] = "rec_update"
    /\ cache' = IF UseCache THEN [cache EXCEPT ![r] = AttributeHash(extra[w])]
                            ELSE cache
    /\ \/ /\ resExists[r]
          /\ resAttrs' = [resAttrs EXCEPT ![r] = extra[w]]
          /\ pc' = [pc EXCEPT ![w] = IF UseCache THEN "rec_set" ELSE "idle"]
          /\ UNCHANGED <<lock, dropped>>
       \/ /\ ~resExists[r] \/ Faults
          /\ IF UseCache THEN Release(w) ELSE UNCHANGED lock
          /\ Abort(w)
          /\ UNCHANGED resAttrs
    /\ UNCHANGED <<batch, idx, extra, nBatches, resExists, resMetrics>>

(* update_resource with resource_extra (lines 311-313, or 322-323
   without a cache); a missing resource is a 404, UnexpectedError. An
   update whose answer is lost (a timeout) is applied by Gnocchi and
   raises all the same. *)
RecUpdate(w) ==
    LET r == Res(w) IN
    /\ pc[w] = "rec_update"
    /\ \/ /\ resExists[r]
          /\ resAttrs' = [resAttrs EXCEPT ![r] = extra[w]]
          /\ pc' = [pc EXCEPT ![w] = IF UseCache THEN "rec_set" ELSE "idle"]
          /\ UNCHANGED <<lock, dropped>>
       \/ /\ ~resExists[r] \/ Faults
          /\ IF UseCache THEN Release(w) ELSE UNCHANGED lock
          /\ Abort(w)
          /\ UNCHANGED resAttrs
       \/ /\ Ambiguous /\ resExists[r]
          /\ resAttrs' = [resAttrs EXCEPT ![r] = extra[w]]
          /\ IF UseCache THEN Release(w) ELSE UNCHANGED lock
          /\ Abort(w)
    /\ UNCHANGED <<batch, idx, extra, nBatches, cache, resExists, resMetrics>>

(* self.cache.set after the update, still under the lock (line 314). *)
RecSet(w) ==
    /\ pc[w] = "rec_set"
    /\ cache' = [cache EXCEPT ![Res(w)] = AttributeHash(extra[w])]
    /\ Release(w)
    /\ pc' = [pc EXCEPT ![w] = "idle"]
    /\ UNCHANGED <<batch, idx, extra, nBatches,
                   resExists, resMetrics, resAttrs, dropped>>

(* A memcached entry expires (TTL 3600 s) or is evicted. *)
CacheExpire(r) ==
    /\ cache[r] # Miss
    /\ cache' = [cache EXCEPT ![r] = Miss]
    /\ UNCHANGED <<pc, batch, idx, extra, nBatches, lock,
                   resExists, resMetrics, resAttrs, dropped>>

-----------------------------------------------------------------------------
(* The steps of _process_resource once a thread has its resource group. *)
Step(w) ==
    \/ SkipMeter(w) \/ PostMeasure(w) \/ EndMeters(w)
    \/ EnsCheck(w) \/ EnsLock(w) \/ EnsRecheck(w) \/ EnsCreate(w)
    \/ EnsSet(w) \/ EnsMetric1(w) \/ EnsMetric2(w) \/ Retry(w)
    \/ RecCheck(w) \/ RecLock(w) \/ RecRecheck(w) \/ RecUpdate(w) \/ RecSet(w)

Next ==
    \/ \E w \in Workers : TakeBatch(w) \/ Step(w)
    \/ \E r \in Resources : CacheExpire(r)

(* Every runnable thread is eventually scheduled; batches need not come. *)
Spec == Init /\ [][Next]_vars /\ \A w \in Workers : WF_vars(Step(w))

-----------------------------------------------------------------------------
(* Properties. *)

(* A thread between its create_resource/update_resource and the
   cache.set that follows it. *)
Writing(w, r) == pc[w] \in {"ens_set", "rec_set"} /\ Res(w) = r

(* The cache is only an optimisation: whenever memcached holds a hash for a
   resource, that resource exists in Gnocchi and, unless a thread is between
   its write and its cache.set, its attributes are the ones hashed. A stale
   entry would make _process_resource skip update_resource (and
   _ensure_resource_and_metric skip create_resource) while Gnocchi holds
   other attributes. Guarded by the write-then-set pairs under
   _gnocchi_resource_lock. *)
CacheCoherent ==
    \A r \in Resources :
        cache[r] # Miss =>
            /\ resExists[r]
            /\ \/ cache[r] = AttributeHash(resAttrs[r])
               \/ \E w \in Workers : Writing(w, r)

(* The repair works: after _ensure_resource_and_metric the retried
   post_measure never meets NoSuchMetric again, so no meter group is lost
   to the "Fail to post measures" path, even when the cache says the
   resource is current while it lacks the metric. *)
NoRetryFailure ==
    \A d \in dropped : d[4] # "retry_failed"

(* Double-checked reconciliation: a thread never calls update_resource
   for attributes that Gnocchi already holds while the cache already
   records them, i.e. two threads reconciling the same change produce a
   single update (the re-check under the lock suppresses the second). *)
NoRedundantUpdate ==
    [][\A w \in Workers :
         (pc[w] = "rec_update" /\ pc'[w] = "rec_set") =>
            ~(/\ resAttrs[Res(w)] = extra[w]
              /\ cache[Res(w)] = AttributeHash(extra[w]))]_vars

(* Per-group error isolation as the spec states it: an error on one meter
   group never keeps the later meter groups of the resource from being
   posted. The decorator on _process_resource isolates whole resources. *)
MeterGroupIsolation ==
    \A d \in dropped : d[4] # "skipped"

=============================================================================
