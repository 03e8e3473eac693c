--------------------------- MODULE MCSensorGate ---------------------------
(* Instances of SensorGate for TLC; the bounds are in the configurations.  *)
EXTENDS SensorGate
=============================================================================
