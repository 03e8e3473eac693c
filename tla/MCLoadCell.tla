----------------------------- MODULE MCLoadCell -----------------------------
(* Instances of LoadCell for TLC; the bounds are in the configurations.    *)
EXTENDS LoadCell
=============================================================================
