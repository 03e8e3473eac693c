--------------------------- MODULE CommandChannel ---------------------------
(***************************************************************************)
(* What the mailbox of zmod_ifs.py promises to those who call it, without  *)
(* slot, cell, reader thread or serial line.  Commands are numbered in the *)
(* order of the calls.  The feeder may execute one, more than once if it   *)
(* must be sent again, but never after a newer one and never after its     *)
(* caller has been given the answer; and a caller is given an answer only  *)
(* to a command that was executed, as long as no answer was garbled.       *)
(***************************************************************************)
EXTENDS Naturals

CONSTANTS Tasks,    \* callers
          MaxId     \* bound on the numbers given out

VARIABLES issued,   \* the last number given out
          execs,    \* how often each command was executed
          call,     \* per caller, the call it is in and what became of it
          clean     \* no answer was garbled so far

vars == <<issued, execs, call, clean>>

Ids == 1..MaxId

Init ==
  /\ issued = 0 /\ execs = [i \in Ids |-> 0] /\ clean = TRUE
  /\ call = [t \in Tasks |-> [id |-> 0, st |-> "over"]]

\* The caller asks for a new command, whatever became of its last one.
Call(t) ==
  /\ call[t].st # "pending" /\ issued < MaxId
  /\ issued' = issued + 1
  /\ call' = [call EXCEPT ![t] = [id |-> issued + 1, st |-> "pending"]]
  /\ UNCHANGED <<execs, clean>>

Answered(i) == \E t \in Tasks : call[t] = [id |-> i, st |-> "answered"]

Execute(i) ==
  /\ i <= issued /\ ~Answered(i)
  /\ \A j \in Ids : j > i => execs[j] = 0
  /\ execs' = [execs EXCEPT ![i] = @ + 1]
  /\ UNCHANGED <<issued, call>>

\* The answer to one command may be garbled while it is executed, or not.
Step(i) == Execute(i) /\ clean' \in {clean, FALSE}
Garble == clean' = FALSE /\ UNCHANGED <<issued, execs, call>>

Answer(t) ==
  /\ call[t].st = "pending"
  /\ clean => call[t].id \in Ids /\ execs[call[t].id] > 0
  /\ call' = [call EXCEPT ![t].st = "answered"]
  /\ UNCHANGED <<issued, execs, clean>>

\* A refusal, a time-out, a shutdown; also a status request, whose answer
\* promises nothing, and a command of the recovery, whose caller raises.
GiveUp(t) ==
  /\ call[t].st = "pending"
  /\ call' = [call EXCEPT ![t].st = "over"]
  /\ UNCHANGED <<issued, execs, clean>>

Next == \/ \E t \in Tasks : Call(t) \/ Answer(t) \/ GiveUp(t)
        \/ \E i \in Ids : Step(i)
        \/ Garble

Spec == Init /\ [][Next]_vars
=============================================================================
