------------------------- MODULE MC_InstanceDiscovery -------------------------
(* Instantiation of InstanceDiscovery for TLC: two instances, a period of
   one tick and a day of three, so the day wrap falls inside the horizon. *)
EXTENDS InstanceDiscovery

CONSTANTS i1, i2
=============================================================================
