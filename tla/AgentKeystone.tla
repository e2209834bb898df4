----------------------------- MODULE AgentKeystone -----------------------------
(***************************************************************************)
(* The per-cycle keystone client of the polling AgentManager              *)
(* (src/ceilometer/agent/manager.py): interval_task clears self._keystone *)
(* and self._keystone_last_exception at the start of a polling cycle; the *)
(* keystone property creates the client lazily, caches it, or caches the *)
(* ClientException and re-raises it for the rest of the cycle. Polling     *)
(* tasks of different intervals run as green threads of one process; a     *)
(* thread yields only inside network I/O, here keystone_client.get_client. *)
(***************************************************************************)
EXTENDS Naturals

CONSTANTS
    Tasks,        \* polling tasks, one green thread each
    None,         \* the attribute holds None
    Pollsters,    \* pollsters of a task that read manager.keystone
    MaxCycles     \* polling cycles each task runs

ASSUME Pollsters \in Nat /\ MaxCycles \in Nat

(* What a finished get_client() produced: a client, or a ClientException
   raised in the cycle numbered by the epoch its attempt started in. *)
Client == [kind |-> "client"]
Exc(e) == [kind |-> "ClientException", epoch |-> e]

VARIABLES
    keystone,     \* self._keystone
    lastExc,      \* self._keystone_last_exception
    tpc,          \* tpc[t]: "idle", "polling" or "getting" (inside get_client)
    cycles,       \* cycles[t]: cycles task t has started
    left,         \* left[t]: pollsters of t's cycle still to read keystone
    epoch,        \* history: interval_task calls so far, all tasks together
    startedIn     \* history: startedIn[t], the epoch t's get_client began in

vars == <<keystone, lastExc, tpc, cycles, left, epoch, startedIn>>

TypeOK ==
    /\ keystone \in {None, Client}
    /\ lastExc \in {None} \cup [kind : {"ClientException"}, epoch : Nat]
    /\ tpc \in [Tasks -> {"idle", "polling", "getting"}]
    /\ cycles \in [Tasks -> 0..MaxCycles]
    /\ left \in [Tasks -> 0..Pollsters]
    /\ epoch \in Nat
    /\ startedIn \in [Tasks -> Nat]

Init ==
    /\ keystone = None
    /\ lastExc = None
    /\ tpc = [t \in Tasks |-> "idle"]
    /\ cycles = [t \in Tasks |-> 0]
    /\ left = [t \in Tasks |-> 0]
    /\ epoch = 0
    /\ startedIn = [t \in Tasks |-> 0]

-----------------------------------------------------------------------------
(* interval_task: drop the previous client and exception, then poll
   (lines 50-56). *)
IntervalTask(t) ==
    /\ tpc[t] = "idle"
    /\ cycles[t] < MaxCycles
    /\ keystone' = None
    /\ lastExc' = None
    /\ tpc' = [tpc EXCEPT ![t] = "polling"]
    /\ cycles' = [cycles EXCEPT ![t] = @ + 1]
    /\ left' = [left EXCEPT ![t] = Pollsters]
    /\ epoch' = epoch + 1
    /\ UNCHANGED startedIn

(* A pollster reads manager.keystone with nothing cached: get_client()
   starts, and the green thread yields in its I/O (lines 64-66). *)
GetStart(t) ==
    /\ tpc[t] = "polling" /\ left[t] > 0
    /\ keystone = None /\ lastExc = None
    /\ tpc' = [tpc EXCEPT ![t] = "getting"]
    /\ startedIn' = [startedIn EXCEPT ![t] = epoch]
    /\ UNCHANGED <<keystone, lastExc, cycles, left, epoch>>

(* Mutation: the except clause swaps its two assignments, storing the
   exception in self._keystone. *)
GetFinishSwapped(t) ==
    /\ tpc[t] = "getting"
    /\ \/ keystone' = Client /\ lastExc' = None
       \/ keystone' = Exc(startedIn[t]) /\ lastExc' = None
       \/ UNCHANGED <<keystone, lastExc>>
    /\ tpc' = [tpc EXCEPT ![t] = "polling"]
    /\ left' = [left EXCEPT ![t] = @ - 1]
    /\ UNCHANGED <<cycles, epoch, startedIn>>

(* get_client() returns a client or raises a ClientException; either is
   stored (lines 66-70). Any other exception is not caught at line 68: it
   leaves both attributes as they are and reaches the pollster, so the next
   read finds nothing cached and calls get_client again. *)
GetFinish(t) ==
    /\ tpc[t] = "getting"
    /\ \/ keystone' = Client /\ lastExc' = None
       \/ keystone' = None /\ lastExc' = Exc(startedIn[t])
       \/ UNCHANGED <<keystone, lastExc>>
    /\ tpc' = [tpc EXCEPT ![t] = "polling"]
    /\ left' = [left EXCEPT ![t] = @ - 1]
    /\ UNCHANGED <<cycles, epoch, startedIn>>

(* A pollster reads manager.keystone with a client or an exception
   cached: the client is returned, or the exception raised again, with no
   new attempt (lines 64, 71-74). *)
ReadCached(t) ==
    /\ tpc[t] = "polling" /\ left[t] > 0
    /\ keystone # None \/ lastExc # None
    /\ left' = [left EXCEPT ![t] = @ - 1]
    /\ UNCHANGED <<keystone, lastExc, tpc, cycles, epoch, startedIn>>

(* The last pollster of the cycle has run. *)
EndCycle(t) ==
    /\ tpc[t] = "polling" /\ left[t] = 0
    /\ tpc' = [tpc EXCEPT ![t] = "idle"]
    /\ UNCHANGED <<keystone, lastExc, cycles, left, epoch, startedIn>>

(* A pollster of t reading manager.keystone now would get the cached
   exception raised. *)
CachedFailure(t) ==
    /\ tpc[t] = "polling" /\ left[t] > 0
    /\ keystone = None /\ lastExc # None

Next ==
    \E t \in Tasks :
        \/ IntervalTask(t) \/ GetStart(t) \/ GetFinish(t)
        \/ ReadCached(t) \/ EndCycle(t)

Spec == Init /\ [][Next]_vars

-----------------------------------------------------------------------------
(* Properties. *)

(* Fresh failure detection every cycle: whenever a pollster of task t
   would get a cached ClientException, that exception comes from an
   attempt started after the latest interval_task, never from a previous
   cycle. *)
FreshFailure ==
    \A t \in Tasks : CachedFailure(t) => lastExc.epoch = epoch

=============================================================================
