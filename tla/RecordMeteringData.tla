--------------------------- MODULE RecordMeteringData ---------------------------
(***************************************************************************)
(* GnocchiDispatcher.record_metering_data (src/ceilometer/dispatcher/      *)
(* gnocchi.py) over a whole batch, called from several collector threads  *)
(* at once: the self-activity filter with the lazily resolved              *)
(* gnocchi_project_id (double-checked under _gnocchi_project_id_lock),     *)
(* the stable sort and the two itertools.groupby passes, then the meter    *)
(* groups of each resource group in order. What a meter group's backend   *)
(* calls do is abstracted to their outcome (GnocchiDispatcher models them  *)
(* in detail): stored, an UnexpectedError that the decorator confines to   *)
(* the resource, or the KeyError of lines 360/368, which escapes it.       *)
(***************************************************************************)
EXTENDS Naturals, Sequences, SequencesExt, ResourceDefinition

CONSTANTS
    Threads,        \* collector threads calling record_metering_data
    Ids,            \* resource and project ids, as numbers in string order
    GnocchiProject, \* the id tenants.find(name=filter_project) returns
    MeterNames,     \* the meter names, in string order (names as sequences)
    Batches,        \* the batches a thread may be handed
    AttrNames,      \* the attribute names the definitions declare
    FilterActivity, \* conf.dispatcher_gnocchi.filter_service_activity
    Faults,         \* keystone and Gnocchi calls may fail
    None,           \* self._gnocchi_project_id before it is resolved
    NoThread        \* a lock nobody holds

ASSUME /\ GnocchiProject \in Ids /\ Ids \subseteq Nat \ {0}
       /\ FilterActivity \in BOOLEAN /\ Faults \in BOOLEAN

(* A sample is a record: resource id, meter (an index into MeterNames),
   project id, and attrs, what each attribute definition parses out of it
   (a function from attribute names to values or Null). *)

VARIABLES
    projectId,      \* self._gnocchi_project_id
    pidLock,        \* holder of self._gnocchi_project_id_lock
    pc,             \* pc[t]
    data,           \* data[t]: the batch of thread t
    pos,            \* pos[t]: the sample the filter is at
    kept,           \* kept[t]: the samples the filter let through
    groups,         \* groups[t]: the resource groups, each with its meter groups
    gi, mi,         \* the resource group and meter group t is at
    extra,          \* extra[t]: resource_extra of the current resource group
    reconciled,     \* history: reconciled[t][r], the resource_extra that
                    \*   update_resource was called with for resource r
    entered,        \* history: resource ids whose group t started
    posted,         \* history: samples whose measures t posted
    lookups         \* history: successful tenants.find calls

vars == <<projectId, pidLock, pc, data, pos, kept, groups, gi, mi, extra,
          reconciled, entered, posted, lookups>>

(* resource_extra = {} *)
NoExtra == [a \in {} |-> Null]

-----------------------------------------------------------------------------
(* The resource ids in increasing order. *)
ResOrder == SelectSeq([i \in 1..Max(Ids) |-> i], LAMBDA i : i \in Ids)

(* Mutation: the sort key leaves out counter_name. *)
StableSortByRes(s) ==
    FlattenSeq([j \in DOMAIN ResOrder |-> SelectSeq(s, LAMBDA x : x.res = ResOrder[j])])

(* data.sort(key=lambda s: (s['resource_id'], s['counter_name'])):
   list.sort is stable, so samples with equal keys keep their order in
   the batch. Meter indices follow the names' string order. *)
StableSort(s) ==
    FlattenSeq([j \in DOMAIN ResOrder |->
        FlattenSeq([k \in DOMAIN MeterNames |->
            SelectSeq(s, LAMBDA x : x.res = ResOrder[j] /\ x.meter = k)])])

(* itertools.groupby(s, key=itemgetter(f)): the maximal runs of
   consecutive samples with equal field f, in order. *)
GroupRuns(s, f) ==
    LET starts == SelectSeq([i \in DOMAIN s |-> i],
                            LAMBDA i : i = 1 \/ s[i][f] # s[i - 1][f])
        last(j) == IF j < Len(starts) THEN starts[j + 1] - 1 ELSE Len(s)
    IN [j \in DOMAIN starts |-> SubSeq(s, starts[j], last(j))]

(* Lines 241-249: sort, group by resource, then by meter. *)
Grouped(s) ==
    LET rg == GroupRuns(StableSort(s), "res")
    IN [i \in DOMAIN rg |-> [res |-> rg[i][1].res,
                              meters |-> GroupRuns(rg[i], "meter")]]

(* What the resource definitions say of each meter, computed once: is it
   posted (a definition matches and it is not ignored), does a
   swift_account definition match it, and is its name missing from the
   keys of rd.metrics(), as for a name that matched a wildcard pattern,
   so that resource['metrics'][metric_name] raises KeyError. *)
Posted == [k \in DOMAIN MeterNames |->
              LET i == GetResourceDefinition(MeterNames[k])
              IN i > 0 /\ ~Defs[i].ignore]
SwiftMeter == [k \in DOMAIN MeterNames |-> IsSwiftAccountSample(MeterNames[k])]
MetricKeyMissing == [k \in DOMAIN MeterNames |->
              LET i == GetResourceDefinition(MeterNames[k])
              IN i > 0 /\ MeterNames[k] \notin DOMAIN Metrics(Defs[i])]

(* The definition each meter falls under (0: none). *)
DefIdx == [k \in DOMAIN MeterNames |-> GetResourceDefinition(MeterNames[k])]

(* Line 276 over a meter group: resource_extra.update(rd.attributes(s)) for
   each sample in order; a later sample's value replaces an earlier one. *)
MergeAttrs(e, mg, k) ==
    FoldLeft(LAMBDA acc, s : Attributes(Defs[DefIdx[k]], s.attrs) @@ acc, e, mg)

(* _is_gnocchi_activity once the project id is known. *)
IsActivity(s, pid) ==
    /\ FilterActivity
    /\ \/ s.project = pid
       \/ s.res = pid /\ SwiftMeter[s.meter]

TypeOK ==
    /\ projectId \in Ids \cup {None}
    /\ pidLock \in Threads \cup {NoThread}
    /\ pc \in [Threads -> {"filter", "pid_lock", "pid_recheck", "pid_find",
                           "group", "meter", "done", "raised"}]
    /\ data \in [Threads -> Batches]
    /\ pos \in [Threads -> Nat] /\ gi \in [Threads -> Nat] /\ mi \in [Threads -> Nat]
    /\ lookups \in Nat

-----------------------------------------------------------------------------
Init ==
    /\ projectId = None
    /\ pidLock = NoThread
    /\ pc = [t \in Threads |-> "filter"]
    /\ data \in [Threads -> Batches]
    /\ pos = [t \in Threads |-> 1]
    /\ kept = [t \in Threads |-> <<>>]
    /\ groups = [t \in Threads |-> <<>>]
    /\ gi = [t \in Threads |-> 1]
    /\ mi = [t \in Threads |-> 1]
    /\ extra = [t \in Threads |-> NoExtra]
    /\ reconciled = [t \in Threads |-> [r \in {} |-> NoExtra]]
    /\ entered = [t \in Threads |-> {}]
    /\ posted = [t \in Threads |-> {}]
    /\ lookups = 0

-----------------------------------------------------------------------------
(* Mutation: the filter reads self._gnocchi_project_id instead of the
   property, so nothing resolves it. *)
FilterSampleNoResolve(t) ==
    LET s == data[t][pos[t]] IN
    /\ pc[t] = "filter" /\ pos[t] <= Len(data[t])
    /\ kept' = [kept EXCEPT ![t] = IF IsActivity(s, projectId) THEN @ ELSE Append(@, s)]
    /\ pos' = [pos EXCEPT ![t] = @ + 1]
    /\ UNCHANGED <<projectId, pidLock, pc, data, groups, gi, mi, extra,
                   reconciled, entered, posted, lookups>>

(* Line 233 for one sample: _is_gnocchi_activity reads the
   gnocchi_project_id property, which returns the memoised id (line 198)
   or, the first time, enters the locked resolution (line 200). *)
FilterSample(t) ==
    LET s == data[t][pos[t]] IN
    /\ pc[t] = "filter" /\ pos[t] <= Len(data[t])
    /\ IF FilterActivity /\ projectId = None
          THEN /\ pc' = [pc EXCEPT ![t] = "pid_lock"]
               /\ UNCHANGED <<kept, pos>>
          ELSE /\ kept' = [kept EXCEPT ![t] = IF IsActivity(s, projectId) THEN @
                                                ELSE Append(@, s)]
               /\ pos' = [pos EXCEPT ![t] = @ + 1]
               /\ UNCHANGED pc
    /\ UNCHANGED <<projectId, pidLock, data, groups, gi, mi, extra,
                   reconciled, entered, posted, lookups>>

PidLock(t) ==
    /\ pc[t] = "pid_lock" /\ pidLock = NoThread
    /\ pidLock' = t
    /\ pc' = [pc EXCEPT ![t] = "pid_recheck"]
    /\ UNCHANGED <<projectId, data, pos, kept, groups, gi, mi, extra,
                   reconciled, entered, posted, lookups>>

(* Mutation: no re-check under the lock. *)
PidRecheckNone(t) ==
    /\ pc[t] = "pid_recheck"
    /\ pc' = [pc EXCEPT ![t] = "pid_find"]
    /\ UNCHANGED <<projectId, pidLock, data, pos, kept, groups, gi, mi, extra,
                   reconciled, entered, posted, lookups>>

(* The re-check under the lock (line 201). *)
PidRecheck(t) ==
    /\ pc[t] = "pid_recheck"
    /\ IF projectId # None
          THEN pidLock' = NoThread /\ pc' = [pc EXCEPT ![t] = "filter"]
          ELSE UNCHANGED pidLock /\ pc' = [pc EXCEPT ![t] = "pid_find"]
    /\ UNCHANGED <<projectId, data, pos, kept, groups, gi, mi, extra,
                   reconciled, entered, posted, lookups>>

(* Mutation: the lock is not released when tenants.find raises. *)
PidFindKeepLock(t) ==
    /\ pc[t] = "pid_find"
    /\ \/ /\ projectId' = GnocchiProject
          /\ lookups' = lookups + 1
          /\ pidLock' = NoThread
          /\ pc' = [pc EXCEPT ![t] = "filter"]
       \/ /\ Faults
          /\ pc' = [pc EXCEPT ![t] = "raised"]
          /\ UNCHANGED <<projectId, pidLock, lookups>>
    /\ UNCHANGED <<data, pos, kept, groups, gi, mi, extra,
                   reconciled, entered, posted>>

(* tenants.find(name=filter_project) (lines 202-208): the id is memoised;
   a failure is logged and re-raised out of record_metering_data, and the
   with-block releases the lock. *)
PidFind(t) ==
    /\ pc[t] = "pid_find"
    /\ pidLock' = NoThread
    /\ \/ /\ projectId' = GnocchiProject
          /\ lookups' = lookups + 1
          /\ pc' = [pc EXCEPT ![t] = "filter"]
       \/ /\ Faults
          /\ pc' = [pc EXCEPT ![t] = "raised"]
          /\ UNCHANGED <<projectId, lookups>>
    /\ UNCHANGED <<data, pos, kept, groups, gi, mi, extra,
                   reconciled, entered, posted>>

(* Lines 241-249: the filtered batch is sorted and grouped. *)
GroupBatch(t) ==
    /\ pc[t] = "filter" /\ pos[t] > Len(data[t])
    /\ groups' = [groups EXCEPT ![t] = Grouped(kept[t])]
    /\ pc' = [pc EXCEPT ![t] = "group"]
    /\ UNCHANGED <<projectId, pidLock, data, pos, kept, gi, mi, extra,
                   reconciled, entered, posted, lookups>>

(* Line 251: _process_resource for the next resource group, with
   resource_extra = {} (line 255); after the last one the call returns. *)
EnterResource(t) ==
    /\ pc[t] = "group"
    /\ IF gi[t] <= Len(groups[t])
          THEN /\ entered' = [entered EXCEPT ![t] = @ \cup {groups[t][gi[t]].res}]
               /\ extra' = [extra EXCEPT ![t] = NoExtra]
               /\ mi' = [mi EXCEPT ![t] = 1]
               /\ pc' = [pc EXCEPT ![t] = "meter"]
          ELSE /\ pc' = [pc EXCEPT ![t] = "done"]
               /\ UNCHANGED <<entered, extra, mi>>
    /\ UNCHANGED <<projectId, pidLock, data, pos, kept, groups, gi,
                   reconciled, posted, lookups>>

(* One meter group of _process_resource (lines 256-299). Unmapped and
   ignored meters are skipped. Otherwise the attributes of its samples are
   merged into resource_extra in order, and its measures are posted
   (stored); or an UnexpectedError ends the resource group, which the
   decorator logs (lines 71-77); or, for a name that matched a wildcard
   pattern, the repair path indexes rd.metrics() by the meter name and the
   KeyError leaves record_metering_data (lines 360, 368). *)
MeterStep(t) ==
    LET g == groups[t][gi[t]]
        mg == g.meters[mi[t]]
        k == mg[1].meter IN
    /\ pc[t] = "meter" /\ mi[t] <= Len(g.meters)
    /\ IF ~Posted[k]
          THEN /\ mi' = [mi EXCEPT ![t] = @ + 1]
               /\ UNCHANGED <<pc, gi, extra, posted>>
          ELSE /\ extra' = [extra EXCEPT ![t] = MergeAttrs(@, mg, k)]
               /\ \/ /\ posted' = [posted EXCEPT ![t] = @ \cup ToSet(mg)]
                     /\ mi' = [mi EXCEPT ![t] = @ + 1]
                     /\ UNCHANGED <<pc, gi>>
                  \/ /\ Faults
                     /\ gi' = [gi EXCEPT ![t] = @ + 1]
                     /\ pc' = [pc EXCEPT ![t] = "group"]
                     /\ UNCHANGED <<mi, posted>>
                  \/ /\ MetricKeyMissing[k]
                     /\ pc' = [pc EXCEPT ![t] = "raised"]
                     /\ UNCHANGED <<gi, mi, posted>>
    /\ UNCHANGED <<projectId, pidLock, data, pos, kept, groups,
                   reconciled, entered, lookups>>

(* After the last meter group: the attribute reconciliation (lines
   301-323). An empty resource_extra sends nothing; otherwise the resource
   is updated with resource_extra, or the update fails with an
   UnexpectedError that the decorator logs. *)
EndResource(t) ==
    LET g == groups[t][gi[t]] IN
    /\ pc[t] = "meter" /\ mi[t] > Len(g.meters)
    /\ \/ DOMAIN extra[t] = {} /\ UNCHANGED reconciled
       \/ /\ DOMAIN extra[t] # {}
          /\ reconciled' = [reconciled EXCEPT ![t] = (g.res :> extra[t]) @@ @]
       \/ DOMAIN extra[t] # {} /\ Faults /\ UNCHANGED reconciled
    /\ gi' = [gi EXCEPT ![t] = @ + 1]
    /\ pc' = [pc EXCEPT ![t] = "group"]
    /\ UNCHANGED <<projectId, pidLock, data, pos, kept, groups, mi, extra,
                   entered, posted, lookups>>

Step(t) ==
    \/ FilterSample(t) \/ PidLock(t) \/ PidRecheck(t) \/ PidFind(t)
    \/ GroupBatch(t) \/ EnterResource(t) \/ MeterStep(t) \/ EndResource(t)

Next == \E t \in Threads : Step(t)

(* Collector threads are scheduled by the operating system. *)
Spec == Init /\ [][Next]_vars /\ \A t \in Threads : WF_vars(Step(t))

-----------------------------------------------------------------------------
(* Properties. *)

(* The self-activity filter holds whatever the interleaving of threads
   resolving gnocchi_project_id: no sample of the Gnocchi project, nor of
   its swift account, ever has its measures posted. *)
FilteredNeverDispatched ==
    \A t \in Threads : \A s \in posted[t] : ~IsActivity(s, GnocchiProject)

(* Double-checked memoisation of gnocchi_project_id: however many threads
   race to resolve it, keystone's tenants.find succeeds at most once. *)
ProjectIdLookupOnce == lookups <= 1

(* Lines 241-249 group deterministically: within a batch every resource
   id heads one resource group, and within a resource group every meter
   heads one meter group, so a meter is posted once per batch. *)
MeterGroupsDistinct ==
    \A t \in Threads :
        /\ \A i, j \in DOMAIN groups[t] : groups[t][i].res = groups[t][j].res => i = j
        /\ \A i \in DOMAIN groups[t] :
              LET ms == groups[t][i].meters IN
              \A a, b \in DOMAIN ms : ms[a][1].meter = ms[b][1].meter => a = b

(* Every call of record_metering_data returns or raises: no thread waits
   for the project id lock forever. *)
CallReturns == \A t \in Threads : <>(pc[t] \in {"done", "raised"})

(* What update_resource receives, stated without the sort, the groupby or
   the fold: for every attribute, the value parsed from the last sample of
   the resource, in (counter_name, arrival) order, that falls under a
   posted definition declaring the attribute and whose parse of it is not
   None. Samples of ignored and unmapped meters contribute nothing, and an
   attribute no such sample has is not sent. *)
LastWriter(ks, r) ==
    LET has(a) == {i \in DOMAIN ks :
                     /\ ks[i].res = r /\ Posted[ks[i].meter]
                     /\ a \in Defs[DefIdx[ks[i].meter]].attributes
                     /\ ks[i].attrs[a] # Null}
        later(i, j) == ks[i].meter > ks[j].meter \/ (ks[i].meter = ks[j].meter /\ i > j)
        last(a) == CHOOSE i \in has(a) : \A j \in has(a) \ {i} : later(i, j)
    IN [a \in {x \in AttrNames : has(x) # {}} |-> ks[last(a)].attrs[a]]

(* Attribute reconciliation sends exactly the last-writer attributes of the
   filtered batch (lines 255, 263-264, 275-276, 301): whatever threads
   interleave and whichever groups fail, an update_resource of a resource
   carries, per attribute, the value of its last sample in sorted order. *)
ReconcileLastWriterWins ==
    \A t \in Threads : \A r \in DOMAIN reconciled[t] :
        reconciled[t][r] = LastWriter(kept[t], r)

========================================================================
