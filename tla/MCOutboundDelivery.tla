------------------------- MODULE MCOutboundDelivery -------------------------
(* Instances of OutboundDelivery for TLC; the bounds are in the .cfg files.  *)
EXTENDS OutboundDelivery

AllKinds == Kind

AllDisturbances == Disturbance
=============================================================================
