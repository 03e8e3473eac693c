------------------------------ MODULE PrintJob ------------------------------
(***************************************************************************)
(* What virtual_sdcard.py and print_stats.py promise to whoever watches a  *)
(* print, without handler, flags, mutex, tools or pause_resume.py.  The    *)
(* lines of a file are carried out in order and each at most once.  One    *)
(* begins only while the file is open and the state says "printing", and   *)
(* what was begun ends although the print may be paused or cancelled       *)
(* meanwhile.  A print is paused only between lines, complete only after   *)
(* the last one, and what was cancelled or is complete never goes on.      *)
(***************************************************************************)
EXTENDS Naturals, Sequences

VARIABLES open,    \* a file is open
          state,   \* the state that is reported
          runs,    \* how often each line was carried out
          busy     \* a line is being carried out

vars == <<open, state, runs, busy>>

Init == open = FALSE /\ state = "standby" /\ runs = <<>> /\ busy = FALSE

\* A file is opened, at its beginning.
Load ==
  /\ ~busy /\ state # "printing"
  /\ open' = TRUE /\ state' = "standby" /\ runs' \in Seq({0})
  /\ UNCHANGED busy

\* The print starts or goes on, also after an error.
Begin ==
  /\ open /\ ~busy /\ state \in {"standby", "paused", "error"}
  /\ state' = "printing"
  /\ UNCHANGED <<open, runs, busy>>

\* The lines that were not carried out, and the first of them.
Left == {i \in DOMAIN runs : runs[i] = 0}
First(i) == i \in Left /\ \A j \in DOMAIN runs : j < i => runs[j] = 1
CountFirst == \E i \in Left : First(i) /\ runs' = [runs EXCEPT ![i] = 1]

Reads == open /\ state = "printing" /\ ~busy /\ Left # {}

Take ==
  /\ Reads /\ busy' = TRUE
  /\ UNCHANGED <<open, state, runs>>

\* The line ends; a print that was to be paused is now.
Finish ==
  /\ busy /\ busy' = FALSE /\ CountFirst
  /\ state' \in IF open /\ state = "printing" THEN {"printing", "paused"} ELSE {state}
  /\ UNCHANGED open

\* A line that asks for what is there already takes no time.
Pass == Reads /\ CountFirst /\ UNCHANGED <<open, state, busy>>

Fail ==
  /\ busy /\ open /\ state = "printing"
  /\ busy' = FALSE /\ state' = "error"
  /\ UNCHANGED <<open, runs>>

Pause ==
  /\ open /\ state = "printing" /\ ~busy
  /\ state' = "paused"
  /\ UNCHANGED <<open, runs, busy>>

Complete ==
  /\ open /\ state = "printing" /\ ~busy /\ Left = {}
  /\ open' = FALSE /\ state' = "complete"
  /\ UNCHANGED <<runs, busy>>

\* A print that runs or is paused is cancelled, whether or not a line is being
\* carried out.
Cancel ==
  /\ open' = FALSE
  /\ state' = IF state \in {"printing", "paused"} THEN "cancelled" ELSE state
  /\ UNCHANGED <<runs, busy>>

Reset == open' = FALSE /\ state' = "standby" /\ UNCHANGED <<runs, busy>>

Next == \/ Load \/ Begin \/ Take \/ Finish \/ Pass \/ Fail \/ Pause \/ Complete
        \/ Cancel \/ Reset

Spec == Init /\ [][Next]_vars
=============================================================================
