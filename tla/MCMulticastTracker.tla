------------------------- MODULE MCMulticastTracker -------------------------
(* Two handlers and one evictor on one slot, as slots do not
   interact; a tick is 125 ms. *)
EXTENDS MulticastTracker
=============================================================================
