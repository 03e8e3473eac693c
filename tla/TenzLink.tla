----------------------------- MODULE TenzLink -----------------------------
(***************************************************************************)
(* The command mailbox of zmod_tenz.py, the weight sensor of the 5M: an    *)
(* older relative of the one in zmod_ifs.py.  The reader files the number  *)
(* of an answer and its data in two critical sections, files one for every *)
(* poll "H7" as well, and always goes back to polling after an answer.     *)
(*                                                                         *)
(* Frames are numbered as in IfsLink, 0 being the poll; the data of an     *)
(* answer is the number of the frame the sensor was answering.             *)
(***************************************************************************)
EXTENDS Naturals

CONSTANTS
  Tasks,          \* greenlets that may run send_command_and_wait
  TimeoutRounds,  \* reader rounds that fit into the time-out of a wait
  Prompt,         \* TRUE: a waiting greenlet polls once in every round
  MaxId,          \* bound on _command_id
  MaxFaults       \* bound on answers that do not arrive

ASSUME TenzConstants ==
  /\ TimeoutRounds \in Nat \ {0, 1} /\ Prompt \in BOOLEAN
  /\ MaxId \in Nat /\ MaxFaults \in Nat

VARIABLES
  slot,     \* _command: number of the command to send, 0 for the poll
  cid,      \* _command_id
  retId,    \* _ret_command_id, -1 written as 0
  retData,  \* _ret_command_data
  task,     \* per greenlet: [pc, id, age, got]
  stop,     \* stop_thread
  reader,   \* where _sensor_reader is
  cur,      \* the frame of this round
  execs,    \* sensor: how often it executed each numbered command
  faults    \* answers that did not arrive

vars == <<slot, cid, retId, retData, task, stop, reader, cur, execs, faults>>

Ids == 1..MaxId
Frames == 0..MaxId
TaskState == [pc  : {"idle", "wait", "answer", "timeout", "stopped"},
              id  : Frames, age : 0..TimeoutRounds, got : Frames]

Init ==
  /\ slot = 0 /\ cid = 0 /\ retId = 0 /\ retData = 0
  /\ task = [t \in Tasks |-> [pc |-> "idle", id |-> 0, age |-> 0, got |-> 0]]
  /\ stop = FALSE /\ reader = "closed" /\ cur = 0
  /\ execs = [i \in Ids |-> 0] /\ faults = 0

Waiting(t) == task[t].pc = "wait"
Matched(t) == Waiting(t) /\ retId = task[t].id

----------------------------------------------------------------------------
(* send_command_and_wait                                                   *)

Send(t) ==
  /\ ~Waiting(t)
  /\ cid < MaxId
  /\ cid' = cid + 1 /\ slot' = cid + 1
  /\ task' = [task EXCEPT ![t] = [pc |-> "wait", id |-> cid + 1, age |-> 0, got |-> 0]]
  /\ UNCHANGED <<retId, retData, stop, reader, cur, execs, faults>>

Leave(t, outcome, data) ==
  /\ Waiting(t)
  /\ task' = [task EXCEPT ![t] = [pc |-> outcome, id |-> @.id, age |-> 0, got |-> data]]
  /\ UNCHANGED <<slot, cid, retId, retData, stop, reader, cur, execs, faults>>

WaitStopped(t) == stop /\ Leave(t, "stopped", 0)
PollMatch(t) == Matched(t) /\ Leave(t, "answer", retData)
TimeoutBug(t) ==                                \* the command is tried once more
  /\ Waiting(t) /\ ~Matched(t) /\ task[t].age = TimeoutRounds
  /\ slot' = task[t].id
  /\ task' = [task EXCEPT ![t].pc = "timeout", ![t].age = 0]
  /\ UNCHANGED <<cid, retId, retData, stop, reader, cur, execs, faults>>
Timeout(t) == /\ ~Matched(t) /\ task[t].age = TimeoutRounds
              /\ Leave(t, "timeout", 0)

\* klippy:disconnect, klippy:shutdown, and _zcontrol when it aborts.
Close ==
  /\ stop' = TRUE
  /\ UNCHANGED <<slot, cid, retId, retData, task, reader, cur, execs, faults>>

----------------------------------------------------------------------------
(* _sensor_reader                                                          *)

AgedBug == task                                 \* the start time moves along
Aged == [t \in Tasks |->
           IF Waiting(t) /\ task[t].age < TimeoutRounds
             THEN [task[t] EXCEPT !.age = @ + 1] ELSE task[t]]

Open ==
  /\ reader = "closed" /\ ~stop
  /\ reader' = "top"
  /\ UNCHANGED <<slot, cid, retId, retData, task, stop, cur, execs, faults>>

Exit ==
  /\ reader \in {"closed", "top"} /\ stop
  /\ reader' = "done"
  /\ UNCHANGED <<slot, cid, retId, retData, task, stop, cur, execs, faults>>

\* A round starts by emptying the input buffer, so no line outlives its frame.
Take ==
  /\ reader = "top" /\ ~stop
  /\ cur' = slot
  /\ reader' = "write"
  /\ UNCHANGED <<slot, cid, retId, retData, task, stop, execs, faults>>

Executed == execs' = IF cur = 0 THEN execs ELSE [execs EXCEPT ![cur] = @ + 1]

\* The frame is answered, or no answer comes: the poll is simply repeated, a
\* command closes the port and stays in the slot.
Write ==
  /\ reader = "write"
  /\ \/ /\ Executed
        /\ reader' = "number"
        /\ UNCHANGED <<cur, task, faults>>
     \/ /\ faults < MaxFaults /\ faults' = faults + 1
        /\ Executed \/ UNCHANGED execs
        /\ reader' = IF cur = 0 THEN "top" ELSE "closed"
        /\ cur' = 0
        /\ task' = Aged
  /\ UNCHANGED <<slot, cid, retId, retData, stop>>

\* First critical section: the number, of a poll's answer too.
FileNumberBug == cid                            \* the newest number instead
FileNumberOff == cid + 1                        \* the next one
FileNumber == cur
PutNumber ==
  /\ reader = "number"
  /\ Prompt => \A t \in Tasks : ~Matched(t)
  /\ retId' = FileNumber
  /\ \/ cur = 0 /\ reader' = "top" /\ task' = Aged
     \/ cur # 0 /\ reader' = "data" /\ UNCHANGED task
  /\ UNCHANGED <<slot, cid, retData, stop, cur, execs, faults>>

\* Second and third: the data, and back to polling whatever was sent since.
SlotOnAnswerKept == slot                        \* no return to polling
SlotOnAnswer == 0
PutData ==
  /\ reader = "data"
  /\ retData' = cur
  /\ slot' = SlotOnAnswer
  /\ reader' = "top" /\ cur' = 0
  /\ task' = Aged
  /\ UNCHANGED <<cid, retId, stop, execs, faults>>

----------------------------------------------------------------------------

Poll(t) == WaitStopped(t) \/ PollMatch(t) \/ Timeout(t)
ReaderStep == Open \/ Exit \/ Take \/ Write \/ PutNumber \/ PutData
Next == (\E t \in Tasks : Send(t) \/ Poll(t)) \/ ReaderStep \/ Close
Spec == Init /\ [][Next]_vars

\* The reader thread never blocks for good (its reads have a time-out), and a
\* waiting greenlet re-arms its own reactor timer.
FairSpec == Spec /\ WF_vars(ReaderStep) /\ \A t \in Tasks : WF_vars(Poll(t))

----------------------------------------------------------------------------

\* The fields of zmod_tenz.py that the greenlets and the reader share hold
\* numbers that were given out, and the places of both are known ones.
TypeOK ==
  /\ slot \in Frames /\ cid \in Frames /\ retId \in Frames /\ retData \in Frames
  /\ task \in [Tasks -> TaskState] /\ stop \in BOOLEAN
  /\ reader \in {"closed", "top", "write", "number", "data", "done"}
  /\ cur \in Frames /\ execs \in [Ids -> Nat] /\ faults \in 0..MaxFaults

\* "Sends the command and returns the answer" (send_command_and_wait).
OwnAnswer == \A t \in Tasks : task[t].pc = "answer" => task[t].got = task[t].id

\* Whatever data comes with it, a wait that succeeds means the sensor executed
\* the command: a tare reported as answered was done.
AnsweredWasExecuted ==
  \A t \in Tasks : task[t].pc = "answer" => execs[task[t].id] > 0

\* The sensor executes a command again only for an answer that did not arrive.
ResendsNeedFaults == \A i \in Ids : execs[i] <= 1 + faults

\* A command is never executed behind a later one: a tare that timed out does
\* not come back after the next weighing was ordered.
ExecutionOrder ==
  [][\A i, j \in Ids : i < j /\ execs[j] > 0 => execs'[i] = execs[i]]_vars

\* Every wait ends, whatever the reader does with its command.
WaitEnds == \A t \in Tasks : Waiting(t) ~> ~Waiting(t)
=============================================================================
