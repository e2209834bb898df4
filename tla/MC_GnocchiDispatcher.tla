------------------------- MODULE MC_GnocchiDispatcher -------------------------
(* Instantiation of GnocchiDispatcher for TLC: one resource, two attribute
   values, meters from a resource definition, an ignored definition or none. *)
EXTENDS GnocchiDispatcher

CONSTANTS w1, w2, p1, p2, r1, m1, m2, m3, v1, v2

(* Two meters of one resource definition. *)
TwoMapped == <<m1, m2>>
TwoMappedDef == [m \in {m1, m2} |-> "rd"]
TwoMappedMetrics == {m1, m2}

(* One mapped meter, one matched by an ignored definition, one unmapped. *)
MixedMeters == <<m1, m2, m3>>
MixedDef == [m \in {m1, m2, m3} |->
                CASE m = m1 -> "rd" [] m = m2 -> "ignore" [] OTHER -> "none"]
MixedMetrics == {m1}

(* A single dispatcher thread. *)
SingleThread == [w \in {w1} |-> p1]
(* Both threads in one process: they share _gnocchi_resource_lock. *)
OneProcess == [w \in {w1, w2} |-> p1]
(* One thread in each of two processes sharing memcached. *)
TwoProcesses == [w \in {w1, w2} |-> IF w = w1 THEN p1 ELSE p2]
=============================================================================
