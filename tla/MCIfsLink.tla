----------------------------- MODULE MCIfsLink -----------------------------
(* Instances of IfsLink for TLC; the constants are in the configurations.  *)
EXTENDS IfsLink, TLC

\* The greenlets are interchangeable.
TaskSymmetry == Permutations(Tasks)

\* No guard reads the switch ffm: states that differ in it only are one.
WithoutSwitch == <<cells, task, stop, thread, feeder>>
=============================================================================
