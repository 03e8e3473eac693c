----------------------------- MODULE MCIfsFeed -----------------------------
(* Instances of IfsFeed for TLC; the constants are in the configurations.  *)
EXTENDS IfsFeed, TLC

\* The greenlets are interchangeable.
TaskSymmetry == Permutations(Tasks)

\* The ghost rods decides nothing: states that differ in it only are one.
WithoutGhost == <<dev, ext, ifs, data, task, reader, pending, count, faults>>
=============================================================================
