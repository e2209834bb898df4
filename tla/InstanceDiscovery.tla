--------------------------- MODULE InstanceDiscovery ---------------------------
(***************************************************************************)
(* InstanceDiscovery.discover (src/ceilometer/compute/discovery.py): the   *)
(* compute agent keeps the instances of its host in self.instances, first *)
(* from a full listing, then from listings of the instances nova changed   *)
(* since self.last_run, at most once per instance_query_period. Nova and   *)
(* the clock run on while a listing is in flight: the agent reads the      *)
(* listing at one instant and stamps last_run = utcnow() at a later one.   *)
(***************************************************************************)
EXTENDS Naturals

CONSTANTS
    Instances,    \* instance ids on this host
    Period,       \* cfg.CONF.compute.instance_query_period, in ticks
    Day,          \* ticks in a day: timedelta.seconds wraps at a day
    MaxTime,      \* the clock stops here
    None          \* self.last_run before the first call

ASSUME /\ Period \in Nat /\ Day \in Nat /\ Period < Day
       /\ MaxTime \in Nat /\ None \notin Nat

(* Nova's view of an instance; "absent" is not yet booted on this host. *)
Statuses == {"absent", "active", "error", "deleted"}
(* The vm_states discover treats as terminal (lines 48-49, 59-60). *)
Terminal == {"deleted", "error"}

VARIABLES
    now,          \* the clock
    status,       \* nova: status[i]
    updatedAt,    \* nova: updated_at of instance i
    instances,    \* self.instances (its keys)
    lastRun,      \* self.last_run
    inFlight,     \* a discover call has read its listing, not yet stamped
    polled,       \* the set the last discover call returned
    raced         \* history: instances nova changed while a call was in flight

vars == <<now, status, updatedAt, instances, lastRun, inFlight, polled, raced>>

TypeOK ==
    /\ now \in 0..MaxTime
    /\ status \in [Instances -> Statuses]
    /\ updatedAt \in [Instances -> 0..MaxTime]
    /\ instances \subseteq Instances
    /\ lastRun \in 0..MaxTime \cup {None}
    /\ inFlight \in BOOLEAN
    /\ polled \subseteq Instances
    /\ raced \subseteq Instances

-----------------------------------------------------------------------------
(* What nova_client.instance_get_all_by_host returns: without since, the
   instances of the host that are not deleted; with changes-since, every
   instance updated at or after it, deleted ones included. *)
FullListing == {i \in Instances : status[i] \in {"active", "error"}}
ChangedSince(t) == {i \in Instances : status[i] # "absent" /\ updatedAt[i] >= t}

(* Mutation: terminal instances are not popped. *)
MergeNoPop(listing) ==
    instances \cup {i \in listing : status[i] \notin Terminal}

(* The loop over a listing: terminal instances are popped, others upserted. *)
Merge(listing) ==
    (instances \cup {i \in listing : status[i] \notin Terminal})
        \ {i \in listing : status[i] \in Terminal}

(* (timeutils.utcnow() - self.last_run).seconds: the seconds field of a
   timedelta, which drops whole days. *)
ElapsedSeconds == (now - lastRun) % Day

Init ==
    /\ now = 0
    /\ status \in [Instances -> Statuses]
    /\ updatedAt = [i \in Instances |-> 0]
    /\ instances = {}
    /\ lastRun = None
    /\ inFlight = FALSE
    /\ polled = {}
    /\ raced = {}

-----------------------------------------------------------------------------
(* First call: full listing (lines 45-52). *)
DiscoverFull ==
    /\ ~inFlight
    /\ lastRun = None
    /\ instances' = Merge(FullListing)
    /\ inFlight' = TRUE
    /\ UNCHANGED <<now, status, updatedAt, lastRun, polled, raced>>

(* Later call once the period has passed: incremental listing (54-63). *)
DiscoverSince ==
    /\ ~inFlight
    /\ lastRun # None
    /\ ElapsedSeconds > Period
    /\ instances' = Merge(ChangedSince(lastRun))
    /\ inFlight' = TRUE
    /\ UNCHANGED <<now, status, updatedAt, lastRun, polled, raced>>

(* self.last_run = timeutils.utcnow() after the loop, and the current set
   is returned (lines 53, 64, 66). *)
StampLastRun ==
    /\ inFlight
    /\ lastRun' = now
    /\ inFlight' = FALSE
    /\ polled' = instances
    /\ UNCHANGED <<now, status, updatedAt, instances, raced>>

(* Within the period: no listing, the tracked set is returned (line 66). *)
DiscoverCached ==
    /\ ~inFlight
    /\ lastRun # None
    /\ ~(ElapsedSeconds > Period)
    /\ polled' = instances
    /\ UNCHANGED <<now, status, updatedAt, instances, lastRun, inFlight, raced>>

-----------------------------------------------------------------------------
(* The environment: nova changes an instance, the clock advances. *)
NovaChange(i) ==
    /\ \E s \in Statuses \ {"absent", status[i]} : status' = [status EXCEPT ![i] = s]
    /\ status[i] # "deleted"
    /\ updatedAt' = [updatedAt EXCEPT ![i] = now]
    /\ raced' = IF inFlight THEN raced \cup {i} ELSE raced \ {i}
    /\ UNCHANGED <<now, instances, lastRun, inFlight, polled>>

Tick ==
    /\ now < MaxTime
    /\ now' = now + 1
    /\ UNCHANGED <<status, updatedAt, instances, lastRun, inFlight, polled, raced>>

Next ==
    \/ DiscoverFull \/ DiscoverSince \/ StampLastRun \/ DiscoverCached
    \/ \E i \in Instances : NovaChange(i)
    \/ Tick

Spec == Init /\ [][Next]_vars

-----------------------------------------------------------------------------
(* Properties. *)

(* Instance i is tracked exactly when nova has it active. *)
Reflected(i) == (i \in instances) <=> (status[i] = "active")

(* No change is lost except in the in-flight window: once a call has
   stamped last_run, every nova change older than last_run is reflected in
   self.instances, unless it was made while a call was in flight, between
   its listing and its utcnow(). A missed change is never listed again:
   the next changes-since listing starts at last_run. *)
NoLostChangeOutsideRace ==
    (~inFlight /\ lastRun # None) =>
        \A i \in Instances \ raced : updatedAt[i] < lastRun => Reflected(i)

(* The incremental listing, as the spec describes it, misses nothing: every
   nova change older than last_run is reflected in self.instances. *)
NoLostChange ==
    (~inFlight /\ lastRun # None) =>
        \A i \in Instances : updatedAt[i] < lastRun => Reflected(i)

(* The tracked set is never staler than the period: when more than
   instance_query_period has passed since last_run, the next call lists. *)
RefreshWhenDue ==
    (~inFlight /\ lastRun # None /\ now - lastRun > Period) =>
        ElapsedSeconds > Period


=============================================================================
