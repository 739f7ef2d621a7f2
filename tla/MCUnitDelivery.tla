--------------------------- MODULE MCUnitDelivery ---------------------------
(* UnitDelivery on instances TLC can exhaust.                               *)
EXTENDS UnitDelivery
=============================================================================
