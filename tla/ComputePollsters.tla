---------------------------- MODULE ComputePollsters ----------------------------
(***************************************************************************)
(* The get_samples generators of the compute pollsters                     *)
(* (src/ceilometer/compute/pollsters/memory.py and instance.py): one pass  *)
(* over the discovered instances, one inspector call per instance, a       *)
(* sample yielded on success, and per-class except clauses that decide     *)
(* which failures skip the instance and which end the generator.           *)
(* Volumes and log lines are left out; what an instance's inspection       *)
(* yields this cycle is fixed up front, as the inspector's answer.         *)
(***************************************************************************)
EXTENDS Naturals, Sequences, FiniteSets

CONSTANTS
    ResOrder,     \* the discovered instances, in the order the loop visits them
    Kinds         \* the pollster classes modelled

ResIds == {ResOrder[i] : i \in DOMAIN ResOrder}

(* What the inspector call (or, for the pollsters without one,
   util.make_sample_from_instance) does for an instance:
   "ok" returns data; "none" returns None; the others raise
   InstanceNotFoundException, InstanceShutOffException, NoDataException,
   NotImplementedError, InstanceNoQGAException, or any other exception. *)
Outcomes == {"ok", "none", "not_found", "shut_off", "no_data",
             "not_impl", "no_qga", "other"}

(* The pollster classes, grouped by the shape of their loop body. *)
UsageKinds == {"memory.usage", "memory.resident"}
InfoKinds  == {"memory.total", "memory.unused", "memory.swap.total",
               "memory.swap.free", "memory.buffer", "memory.cached"}
GuestKinds == {"instance.system.info", "instance.oom.status",
               "instance.app.stats", "instance.ping.delay"}
BareKinds  == {"instance", "instance:<flavor>"}
AllKinds == UsageKinds \cup InfoKinds \cup GuestKinds \cup BareKinds

ASSUME Kinds \subseteq AllKinds /\ Kinds # {}

(* Outcomes a class can meet: the bare pollsters call no inspector. *)
OutcomesOf(k) == IF k \in BareKinds THEN {"ok", "other"} ELSE Outcomes

(* What the loop body turns an outcome into. The info and guest pollsters
   raise NotImplementedError on None (e.g. memory.py 119-120); the usage
   pollsters read memory_info.usage from None, an AttributeError. *)
Raised(k, o) ==
    IF o = "none"
       THEN IF k \in UsageKinds THEN "other" ELSE "not_impl"
       ELSE o

(* The except clauses of the class: the listed exceptions, then a final
   `except Exception` (memory.py 45-65, 133-148; instance.py 81-92);
   InstancePollster and InstanceFlavorPollster have no try at all
   (instance.py 30-54). *)
Caught(k, e) == k \notin BareKinds

VARIABLES
    kind,         \* the pollster class
    outcome,      \* outcome[r]: the inspector's answer for instance r
    pos,          \* the loop's position in ResOrder
    yielded,      \* the instances a sample was yielded for
    status        \* "running", "exhausted", or "raised" (generator died)

vars == <<kind, outcome, pos, yielded, status>>

TypeOK ==
    /\ kind \in Kinds
    /\ outcome \in [ResIds -> Outcomes]
    /\ pos \in 1..Len(ResOrder) + 1
    /\ yielded \subseteq ResIds
    /\ status \in {"running", "exhausted", "raised"}

Init ==
    /\ kind \in Kinds
    /\ outcome \in [ResIds -> OutcomesOf(kind)]
    /\ pos = 1
    /\ yielded = {}
    /\ status = "running"

(* One iteration of `for instance in resources` (e.g. memory.py 30-65). *)
Visit ==
    LET r == ResOrder[pos]
        e == Raised(kind, outcome[r]) IN
    /\ status = "running"
    /\ pos <= Len(ResOrder)
    /\ \/ /\ e = "ok"
          /\ yielded' = yielded \cup {r}
          /\ pos' = pos + 1
          /\ UNCHANGED status
       \/ /\ e # "ok" /\ Caught(kind, e)
          /\ pos' = pos + 1
          /\ UNCHANGED <<yielded, status>>
       \/ /\ e # "ok" /\ ~Caught(kind, e)
          /\ status' = "raised"
          /\ UNCHANGED <<yielded, pos>>
    /\ UNCHANGED <<kind, outcome>>

(* The loop ends and the generator is exhausted. *)
Exhaust ==
    /\ status = "running"
    /\ pos > Len(ResOrder)
    /\ status' = "exhausted"
    /\ UNCHANGED <<kind, outcome, pos, yielded>>

Next == Visit \/ Exhaust

Spec == Init /\ [][Next]_vars

-----------------------------------------------------------------------------
(* Properties. *)

(* The instances whose inspection succeeded. *)
Healthy == {r \in ResIds : outcome[r] = "ok"}

(* Per-instance failure isolation, as the spec requires of every pollster:
   once get_samples has stopped, every
   instance whose inspection succeeded got its sample, whatever the other
   instances' inspections raised and wherever they sit in the order. *)
FailureIsolation ==
    status # "running" => Healthy \subseteq yielded

=============================================================================
