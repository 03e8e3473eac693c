---------------------------- MODULE MCTenzLink ----------------------------
(* Instances of TenzLink for TLC; the constants are in the configurations. *)
EXTENDS TenzLink
=============================================================================
