------------------------------ MODULE IfsLink ------------------------------
(***************************************************************************)
(* The command mailbox of zmod_ifs.py: gcode greenlets put a command into  *)
(* one shared slot and poll one shared answer cell; the reader thread      *)
(* sends whatever the slot holds to the filament feeder over the serial    *)
(* port, one frame per round, and files the line it reads back.  An empty  *)
(* read closes the port, and the frame is sent again after it is reopened. *)
(*                                                                         *)
(* A command is known by its number, 0 being the idle status poll "F13".   *)
(* A line is [frame, good]: the frame the feeder was answering and         *)
(* whether it is the confirmation that command expects.                    *)
(***************************************************************************)
EXTENDS Naturals, Sequences

CONSTANTS
  Tasks,          \* greenlets that may run send_command_and_wait
  Cmds,           \* the commands they send, F13, F112 and F18 among them
  TimeoutRounds,  \* reader rounds that fit into the timeout of a wait
  MaxId,          \* bound on _command_id
  MaxFaults,      \* bound on frames or answers that are lost or refused
  MaxExtra,       \* bound on answers that readline cuts in two
  MaxCrash        \* bound on the reader dying of an unexpected exception

\* 5 s and a round of at most 1.4 s (0.2 + 0.2 + 1): three rounds and more.
ASSUME TimeoutAssumption == TimeoutRounds \in Nat \ {0, 1}
ASSUME BoundsAssumption ==
  MaxId \in Nat /\ MaxFaults \in Nat /\ MaxExtra \in Nat /\ MaxCrash \in Nat
ASSUME CmdsAssumption == {"F13", "F112", "F18"} \subseteq Cmds

VARIABLES
  slot,     \* _command: number of the command to send, 0 for the poll
  cid,      \* _command_id
  cmdOf,    \* the text of each numbered command
  retId,    \* _ret_command_id
  retData,  \* _ret_command_data
  task,     \* per greenlet: where it is in send_command_and_wait
  stop,     \* stop_thread
  reader,   \* where _sensor_reader is
  cur,      \* the frame it took from the slot in this round, 0 between rounds
  rx,       \* lines in the input buffer of the serial port
  ifs,      \* self.ifs: the feeder answers
  calls,    \* async callbacks registered and not yet run, oldest first
  ffm,      \* enable_ffm of virtual_sdcard: M600 and T0..T3 change filament
  execs,    \* feeder: how often it executed each numbered command
  budget    \* faults, cut answers and crashes so far

cells == <<slot, cid, cmdOf, retId, retData>>
thread == <<reader, cur, rx, ifs, calls>>
feeder == <<execs, budget>>
vars == <<cells, task, stop, thread, ffm, feeder>>

Ids == 1..MaxId
Frames == 0..MaxId
Line == [frame : Frames, good : BOOLEAN]
NoLine == [frame |-> 0, good |-> FALSE]

\* The recovery every time-out runs: stop the feed, release the filaments.
Recovery == <<"F112", "F18">>
Outcomes == {"answer", "none", "mismatch", "timeout", "stopped"}
TaskState ==
  [pc   : {"idle", "wait", "fetch", "recover"} \cup Outcomes,
   id   : Frames,                                  \* number of its command
   todo : {<<>>, <<"F18">>, Recovery},             \* recovery still to send
   rec  : BOOLEAN,                                 \* the wait is part of one
   age  : 0..TimeoutRounds,                        \* rounds the wait has seen
   got  : Line]                                    \* what it returned

Init ==
  /\ slot = 0 /\ cid = 0 /\ cmdOf = [i \in Ids |-> "F13"]
  /\ retId = 0 /\ retData = NoLine
  /\ task = [t \in Tasks |-> [pc |-> "idle", id |-> 0, todo |-> <<>>,
                              rec |-> FALSE, age |-> 0, got |-> NoLine]]
  /\ stop = FALSE /\ reader = "closed" /\ cur = 0 /\ rx = <<>>
  /\ ifs = FALSE /\ calls = <<>> /\ ffm = FALSE
  /\ execs = [i \in Ids |-> 0]
  /\ budget = [faults |-> 0, cuts |-> 0, crashes |-> 0]

----------------------------------------------------------------------------
(* The greenlets: send_command_and_wait.                                   *)

\* Take the next number and overwrite the slot, whatever it held.
Send(t, c, rest, rec) ==
  /\ cid < MaxId
  /\ cid' = cid + 1
  /\ slot' = cid + 1
  /\ cmdOf' = [cmdOf EXCEPT ![cid + 1] = c]
  /\ task' = [task EXCEPT ![t] = [pc |-> "wait", id |-> cid + 1, todo |-> rest,
                                  rec |-> rec, age |-> 0, got |-> NoLine]]
  /\ UNCHANGED <<retId, retData>>

Free(t) == task[t].pc \in {"idle"} \cup Outcomes

\* A cmd_IFS_* handler, or wait_for_state inside one, sends a command.
Issue(t) ==
  /\ Free(t) /\ ifs
  /\ \E c \in Cmds : Send(t, c, <<>>, FALSE)
  /\ UNCHANGED <<stop, thread, ffm, feeder>>

\* A handler that finds the feeder off runs _IFS_OFF instead.
Refuse(t) ==
  /\ Free(t) /\ ~ifs
  /\ ffm' = FALSE
  /\ UNCHANGED <<cells, task, stop, thread, feeder>>

Waiting(t) == task[t].pc = "wait"
CmdAt(i) == IF i = 0 THEN "F13" ELSE cmdOf[i]

\* The status request is the one command sent without an expected result.
Expects(i) == CmdAt(i) # "F13"

Leave(t, outcome, line) ==
  task' = [task EXCEPT ![t] = [pc |-> outcome, id |-> @.id, todo |-> <<>>,
                               rec |-> FALSE, age |-> 0, got |-> line]]

\* Stay inside the call, with these recovery commands still to send.
Enter(t, where, rest) ==
  task' = [task EXCEPT ![t] = [pc |-> where, id |-> @.id, todo |-> rest,
                               rec |-> @.rec, age |-> 0, got |-> NoLine]]

\* The loop runs only while stop_thread is unset.
WaitStopped(t) ==
  /\ Waiting(t) /\ stop
  /\ Leave(t, "stopped", NoLine)
  /\ UNCHANGED <<cells, stop, thread, ffm, feeder>>

\* The extruder switch is in the state to watch for: the wait returns None and
\* its request stays in the slot.  Only status requests come with a switch.
WaitExtruder(t) ==
  /\ Waiting(t) /\ ~stop /\ ~Expects(task[t].id)
  /\ Leave(t, "none", NoLine)
  /\ UNCHANGED <<cells, stop, thread, ffm, feeder>>

\* A poll of the answer cell finds its number.  With an expected result the
\* data read under the lock is compared with it; a confirmed recovery command
\* goes on with the recovery, a wrong answer raises through all of it.
PollMatch(t) ==
  /\ Waiting(t) /\ retId = task[t].id
  /\ retId' = 0
  /\ LET fits == retData.good /\ CmdAt(retData.frame) = CmdAt(task[t].id) IN
     \/ /\ ~Expects(task[t].id)
        /\ Enter(t, "fetch", task[t].todo)
     \/ /\ Expects(task[t].id) /\ fits /\ task[t].rec
        /\ Enter(t, "recover", task[t].todo)
     \/ /\ Expects(task[t].id) /\ fits /\ ~task[t].rec
        /\ Leave(t, "answer", retData)
     \/ /\ Expects(task[t].id) /\ ~fits
        /\ Leave(t, "mismatch", retData)
  /\ UNCHANGED <<slot, cid, cmdOf, retData, stop, thread, ffm, feeder>>

\* Without one, the data is read again after the lock has been released.
Fetch(t) ==
  /\ task[t].pc = "fetch"
  /\ Leave(t, "answer", retData)
  /\ UNCHANGED <<cells, stop, thread, ffm, feeder>>

\* A poll that finds another number clears it all the same.
PollMiss(t) ==
  /\ Waiting(t) /\ retId \notin {0, task[t].id}
  /\ retId' = 0
  /\ UNCHANGED <<slot, cid, cmdOf, retData, task, stop, thread, ffm, feeder>>

\* Faulty variants, named ...Bug, stand before the definition they replace: each
\* shows that a property of this module can fail.
TimeoutBug(t) ==                                    \* the command is tried once more
  /\ Waiting(t) /\ retId # task[t].id
  /\ task[t].age = TimeoutRounds \/ reader = "dead"
  /\ retId' = 0 /\ slot' = task[t].id
  /\ Enter(t, "recover", Recovery)
  /\ UNCHANGED <<cid, cmdOf, retData, stop, thread, ffm, feeder>>

\* The poll that finds the time is up starts the recovery, inside another one
\* too.  Once the reader is dead no round ends and time simply passes.
Timeout(t) ==
  /\ Waiting(t) /\ retId # task[t].id
  /\ task[t].age = TimeoutRounds \/ reader = "dead"
  /\ retId' = 0
  /\ Enter(t, "recover", Recovery)
  /\ UNCHANGED <<slot, cid, cmdOf, retData, stop, thread, ffm, feeder>>

\* IFS_F112, then IFS_F18, then the error is raised; a handler that finds the
\* feeder off sends nothing and runs _IFS_OFF.  The waits for the feeder's state
\* with which IFS_F18 ends are those of IfsFeed; here they would only be more F13.
Recover(t) ==
  /\ task[t].pc = "recover"
  /\ \/ /\ task[t].todo # <<>> /\ ifs
        /\ Send(t, Head(task[t].todo), Tail(task[t].todo), TRUE)
        /\ UNCHANGED ffm
     \/ /\ task[t].todo # <<>> /\ ~ifs
        /\ Enter(t, "recover", Tail(task[t].todo))
        /\ ffm' = FALSE
        /\ UNCHANGED cells
     \/ /\ task[t].todo = <<>>
        /\ Leave(t, "timeout", NoLine)
        /\ UNCHANGED <<cells, ffm>>
  /\ UNCHANGED <<stop, thread, feeder>>

\* _IFS_ON and _IFS_OFF run on the reactor in the order they were registered.
RunCallback ==
  /\ calls # <<>>
  /\ ffm' = (Head(calls) = "ON")
  /\ calls' = Tail(calls)
  /\ UNCHANGED <<cells, task, stop, reader, cur, rx, ifs, feeder>>

\* The other commands that write enable_ffm, whatever the reader found: a tool change
\* on with the feeder, _STOP and prints without it off, M23 the default.
SwitchFfm ==
  /\ ffm' \in BOOLEAN
  /\ UNCHANGED <<cells, task, stop, thread, feeder>>

\* klippy:disconnect and klippy:shutdown.
Close ==
  /\ stop' = TRUE
  /\ UNCHANGED <<cells, task, thread, ffm, feeder>>

----------------------------------------------------------------------------
(* The reader thread and the feeder.                                       *)

AgedBug == task                                     \* the start time moves along

\* A round has ended: every wait has seen one more.
Aged == [t \in Tasks |->
           IF Waiting(t) /\ task[t].age < TimeoutRounds
             THEN [task[t] EXCEPT !.age = @ + 1] ELSE task[t]]

\* Opening the port discards what was left in its input buffer.
Open ==
  /\ reader = "closed" /\ ~stop
  /\ reader' = "top" /\ rx' = <<>>
  /\ UNCHANGED <<cells, task, stop, cur, ifs, calls, ffm, feeder>>

ExitBug ==                                          \* the outer loop forgets to look
  /\ reader = "top" /\ stop
  /\ reader' = "done"
  /\ UNCHANGED <<cells, task, stop, cur, rx, ifs, calls, ffm, feeder>>

Exit ==
  /\ reader \in {"closed", "top"} /\ stop
  /\ reader' = "done"
  /\ UNCHANGED <<cells, task, stop, cur, rx, ifs, calls, ffm, feeder>>

Take ==
  /\ reader = "top" /\ ~stop
  /\ cur' = slot
  /\ reader' = "write"
  /\ UNCHANGED <<cells, task, stop, rx, ifs, calls, ffm, feeder>>

\* The frame goes out.  The feeder executes it and confirms; or the answer is
\* lost; or the frame is; or it is refused; or readline will cut its answer,
\* and the rest stays in the input buffer.
Executed == execs' = IF cur = 0 THEN execs ELSE [execs EXCEPT ![cur] = @ + 1]
Faulty == /\ budget.faults < MaxFaults
          /\ budget' = [budget EXCEPT !.faults = @ + 1]

Write ==
  /\ reader = "write"
  /\ reader' = "read"
  /\ \/ /\ Executed /\ UNCHANGED budget
        /\ rx' = Append(rx, [frame |-> cur, good |-> TRUE])
     \/ /\ Faulty /\ Executed /\ UNCHANGED rx
     \/ /\ Faulty /\ UNCHANGED <<execs, rx>>
     \/ /\ Faulty /\ UNCHANGED execs
        /\ rx' = Append(rx, [frame |-> cur, good |-> FALSE])
     \/ /\ budget.cuts < MaxExtra
        /\ budget' = [budget EXCEPT !.cuts = @ + 1]
        /\ Executed
        /\ LET piece == [frame |-> cur, good |-> FALSE]
           IN rx' = rx \o <<piece, piece>>
  /\ UNCHANGED <<cells, task, stop, cur, ifs, calls, ffm>>

CallsOnSilenceBug == calls                          \* the loss is not announced
CallsOnSilence == Append(calls, "OFF")

\* Nothing within the read time-out where the feeder was there: _IFS_OFF is on its
\* way, and may run, before self.ifs says so.
Lose ==
  /\ reader = "read" /\ rx = <<>> /\ ifs
  /\ calls' = CallsOnSilence
  /\ reader' = "lost"
  /\ UNCHANGED <<cells, task, stop, cur, rx, ifs, ffm, feeder>>

\* Then the port is closed, as after any empty read; the slot keeps its command.
ReadEmpty ==
  /\ reader = "lost" \/ (reader = "read" /\ rx = <<>> /\ ~ifs)
  /\ ifs' = FALSE
  /\ reader' = "closed" /\ cur' = 0
  /\ task' = Aged
  /\ UNCHANGED <<cells, stop, rx, calls, ffm, feeder>>

\* A first line: _IFS_ON is on its way before self.ifs is set.
Find ==
  /\ reader = "read" /\ rx # <<>> /\ ~ifs
  /\ calls' = Append(calls, "ON")
  /\ reader' = "found"
  /\ UNCHANGED <<cells, task, stop, cur, rx, ifs, ffm, feeder>>

\* A line, of whatever frame.  The answer to a poll goes to IfsData.
ReadLine ==
  /\ reader = "found" \/ (reader = "read" /\ ifs)
  /\ rx # <<>>
  /\ ifs' = TRUE
  /\ \/ cur = 0 /\ reader' = "top" /\ rx' = Tail(rx) /\ task' = Aged
     \/ cur # 0 /\ reader' = "store" /\ UNCHANGED <<rx, task>>
  /\ UNCHANGED <<cells, stop, cur, calls, ffm, feeder>>

AnswerNumberBug == cid                              \* the newest number instead
AnswerNumberOff == cid + 1
AnswerNumber == cur
SlotOnAnswerKept == slot                            \* no return to polling
SlotOnAnswerBug == 0                                \* a newer command is dropped
SlotOnAnswer == IF cur = cid THEN 0 ELSE slot

\* File the line under the number of the frame just sent, and go back to
\* polling if no newer command is waiting: one critical section.
Store ==
  /\ reader = "store" /\ rx # <<>>
  /\ retData' = Head(rx) /\ retId' = AnswerNumber /\ rx' = Tail(rx)
  /\ slot' = SlotOnAnswer
  /\ reader' = "top" /\ cur' = 0
  /\ task' = Aged
  /\ UNCHANGED <<cid, cmdOf, stop, ifs, calls, ffm, feeder>>

\* The handler of unexpected exceptions calls self._error, which does not
\* exist: the thread dies with self.ifs as it was.
Die ==
  /\ reader \in {"write", "read"}
  /\ budget.crashes < MaxCrash
  /\ budget' = [budget EXCEPT !.crashes = @ + 1]
  /\ reader' = "dead"
  /\ UNCHANGED <<cells, task, stop, cur, rx, ifs, calls, ffm, execs>>

\* Opening, writing to or reading from the port raises SerialException: the round
\* ends like one without an answer, but self.ifs stays and nothing is announced.
PortFails ==
  /\ \/ reader = "closed" /\ ~stop
     \/ reader \in {"write", "read"}
  /\ Faulty
  /\ reader' = "closed" /\ cur' = 0
  /\ task' = Aged
  /\ UNCHANGED <<cells, stop, rx, ifs, calls, ffm, execs>>

----------------------------------------------------------------------------

Poll(t) == WaitStopped(t) \/ PollMatch(t) \/ Fetch(t) \/ Timeout(t) \/ Recover(t)
Greenlet(t) == Issue(t) \/ Refuse(t) \/ WaitExtruder(t) \/ PollMiss(t) \/ Poll(t)
ReaderStep ==
  Open \/ Exit \/ Take \/ Write \/ Lose \/ ReadEmpty \/ Find \/ ReadLine \/ Store

Next == \/ \E t \in Tasks : Greenlet(t)
        \/ ReaderStep
        \/ Die
        \/ PortFails
        \/ RunCallback
        \/ SwitchFfm
        \/ Close

Spec == Init /\ [][Next]_vars

\* The reader is an OS thread that never blocks for good (every read has a
\* time-out), and a polling greenlet re-arms its own reactor timer.
Fairness == /\ WF_vars(ReaderStep)
            /\ WF_vars(RunCallback)
            /\ \A t \in Tasks : WF_vars(Poll(t))
FairSpec == Spec /\ Fairness

----------------------------------------------------------------------------
(* Properties.                                                             *)

\* The fields of zmod_ifs.py that greenlets, callbacks and the reader share hold
\* numbers that were given out, and the places of all of them are known ones.
TypeOK ==
  /\ slot \in Frames /\ cid \in Frames /\ cmdOf \in [Ids -> Cmds]
  /\ retId \in Frames /\ retData \in Line
  /\ task \in [Tasks -> TaskState] /\ stop \in BOOLEAN
  /\ reader \in {"closed", "top", "write", "read", "lost", "found", "store", "done", "dead"}
  /\ cur \in Frames /\ rx \in Seq(Line) /\ ifs \in BOOLEAN
  /\ calls \in Seq({"ON", "OFF"}) /\ ffm \in BOOLEAN
  /\ execs \in [Ids -> Nat]
  /\ budget \in [faults : 0..MaxFaults, cuts : 0..MaxExtra, crashes : 0..MaxCrash]

\* Unless an answer was cut, what a command with an expected result returns is
\* what the feeder said to that very command, whoever else uses the mailbox,
\* whatever was lost and sent again (send_command_and_wait, _sensor_reader).
OwnAnswer ==
  budget.cuts = 0 =>
    \A t \in Tasks : task[t].pc = "answer" /\ Expects(task[t].id)
                       => task[t].got.frame = task[t].id

\* A greenlet that so far is the only one to have used the mailbox.
Alone(t) == \A u \in Tasks \ {t} : task[u].id = 0

\* The same of every request of one greenlet alone, status requests included: it needs
\* the second, unlocked read of _ret_command_data to find what the first one found.
OwnAnswerAll ==
  budget.cuts = 0 =>
    \A t \in Tasks : task[t].pc = "answer" /\ Alone(t) => task[t].got.frame = task[t].id

\* The feeder never starts a command after a newer one, so nothing issued
\* before a stop (F112) moves a filament after it, resent or not.
ExecutionOrder ==
  [][\A i, j \in Ids : i < j /\ execs[j] > 0 => execs'[i] = execs[i]]_vars

\* A command whose answer the mailbox delivered is not executed again: a
\* resend can only repeat a command nobody has an answer to.
NoReplay ==
  [][\A t \in Tasks :
       task[t].pc \in {"fetch", "answer", "mismatch"}
         => execs'[task[t].id] = execs[task[t].id]]_vars

\* Every repeated execution is paid for by a fault of the line.
ResendsNeedFaults ==
  \A i \in Ids : execs[i] <= 1 + budget.faults

\* No wait of one greenlet alone times out while the feeder answers every frame in one
\* piece; a second one may overwrite its command or take its answer.
TimeoutMeansFault ==
  budget = [faults |-> 0, cuts |-> 0, crashes |-> 0]
    => \A t \in Tasks : Alone(t) => task[t].pc # "recover"

\* What the last round that ended found: self.ifs, but for the moment before it is set.
Heard == reader = "found" \/ (ifs /\ reader # "lost")

\* The callback that leaves none behind it (_IFS_ON, _IFS_OFF) switches tool changes
\* as the reader last found the feeder, however often the feeder went and came back
\* meanwhile.  Other commands may switch them again afterwards.
CallbackTellsIfs == [][calls # <<>> /\ calls' = <<>> => ffm' = Heard]_vars

\* Every wait ends, reader dead or stopped, answer stolen or not.
WaitEnds == \A t \in Tasks : Waiting(t) ~> ~Waiting(t)

\* After klippy:shutdown the reader leaves its loop, unless it is dead.
ReaderStops == stop ~> reader \in {"done", "dead"}

----------------------------------------------------------------------------
(* The mailbox implements CommandChannel.                                  *)

\* A call is over for CommandChannel when its caller has moved on without a
\* confirmed answer.
CallOf(t) ==
  [id |-> task[t].id,
   st |-> CASE Waiting(t) -> "pending"
            [] task[t].pc = "answer" /\ Expects(task[t].id) -> "answered"
            [] OTHER -> "over"]

Channel == INSTANCE CommandChannel
             WITH issued <- cid, call <- [t \in Tasks |-> CallOf(t)],
                  clean <- (budget.cuts = 0)

\* Slot, cell, reader thread and line together do what CommandChannel says: every
\* step of send_command_and_wait and _sensor_reader is one of its steps or none.
ImplementsChannel == Channel!Spec

----------------------------------------------------------------------------
(* The strengthening that makes OwnAnswer and the two action properties    *)
(* inductive.                                                              *)

\* Nothing in the mailbox or in flight is newer than the last number given,
\* and the slot never holds an older one.
NumbersIssued ==
  /\ slot \in {0, cid} /\ cur <= cid /\ retId <= cid
  /\ \A t \in Tasks : task[t].id <= cid /\ (task[t].pc # "idle" => task[t].id # 0)
  /\ \A t \in Tasks : task[t].pc = "fetch" => ~Expects(task[t].id)

\* As long as no answer was cut, the input buffer holds at most the answer to
\* the frame of this round, and the cell the answer to its number.
LinesInStep ==
  budget.cuts = 0 =>
    /\ reader \in {"top", "write"} => rx = <<>>
    /\ reader \in {"read", "lost", "found", "store"} =>
         rx = <<>> \/ \E b \in BOOLEAN : rx = <<[frame |-> cur, good |-> b]>>
    /\ retId # 0 => retData.frame = retId

\* What was executed is not newer than the frame about to go out.
ExecutedSoFar ==
  \A j \in Ids : execs[j] > 0 => j <= cid /\ (reader = "write" /\ cur # 0 => j <= cur)

\* A number whose answer was filed or taken is neither in the slot nor about to
\* be sent.
Delivered(i) ==
  retId = i \/ \E t \in Tasks : task[t].pc \in {"fetch", "answer", "mismatch"} /\ task[t].id = i
DeliveredIsGone ==
  \A i \in Ids : Delivered(i) => slot # i /\ ~(reader = "write" /\ cur = i)

\* The inductive invariant of the mailbox: who may be sent, resent, filed and
\* fetched in every place of send_command_and_wait and _sensor_reader.
MailboxInv ==
  NumbersIssued /\ LinesInStep /\ ExecutedSoFar /\ DeliveredIsGone /\ OwnAnswer
=============================================================================
