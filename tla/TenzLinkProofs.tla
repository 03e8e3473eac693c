--------------------------- MODULE TenzLinkProofs ---------------------------
(* Theorems about the mailbox of zmod_tenz.py, for every set of greenlets,  *)
(* every time-out and every bound on commands and lost answers, whether or  *)
(* not a waiting greenlet polls in every round.                             *)
EXTENDS TenzLink, TLAPS

USE DEF FileNumber, SlotOnAnswer

----------------------------------------------------------------------------
(* Type correctness.                                                       *)

\* A round's end only ages the waits.
LEMMA AgedEffect ==
  ASSUME TypeOK
  PROVE  /\ Aged \in [Tasks -> TaskState]
         /\ \A t \in Tasks : Aged[t].pc = task[t].pc /\ Aged[t].id = task[t].id
  <1> SUFFICES ASSUME NEW t \in Tasks
               PROVE  /\ Aged[t] \in TaskState
                      /\ Aged[t].pc = task[t].pc /\ Aged[t].id = task[t].id
    BY DEF Aged
  <1>1. task[t] \in TaskState
    BY DEF TypeOK
  <1>2. task[t].age < TimeoutRounds => task[t].age + 1 \in 0..TimeoutRounds
    BY <1>1, TenzConstants DEF TaskState
  <1>3. Aged[t] = IF Waiting(t) /\ task[t].age < TimeoutRounds
                    THEN [task[t] EXCEPT !.age = @ + 1] ELSE task[t]
    BY DEF Aged
  <1>4. QED
    BY <1>1, <1>2, <1>3 DEF TaskState

\* What a step of send_command_and_wait can do to its greenlet and to the mailbox.
LEMMA PollEffect ==
  ASSUME TypeOK, NEW t \in Tasks, Poll(t)
  PROVE  /\ UNCHANGED <<slot, cid, retId, retData, stop, reader, cur, execs, faults>>
         /\ task' \in [Tasks -> TaskState]
         /\ \A u \in Tasks \ {t} : task'[u] = task[u]
         /\ task[t].pc = "wait" /\ task'[t].id = task[t].id
         /\ \/ task'[t].pc \in {"stopped", "timeout"}
            \/ task'[t].pc = "answer" /\ retId = task[t].id
  <1>1. PICK outcome \in {"stopped", "answer", "timeout"}, data \in Frames :
             /\ Leave(t, outcome, data)
             /\ outcome = "answer" => retId = task[t].id
    <2>1. 0 \in Frames /\ retData \in Frames
      BY TenzConstants DEF TypeOK, Frames
    <2>2. CASE WaitStopped(t)
      BY <2>1, <2>2 DEF WaitStopped
    <2>3. CASE PollMatch(t)
      BY <2>1, <2>3 DEF PollMatch, Matched
    <2>4. CASE Timeout(t)
      BY <2>1, <2>4 DEF Timeout
    <2>5. QED
      BY <2>2, <2>3, <2>4 DEF Poll
  <1>2. 0 \in 0..TimeoutRounds
    BY TenzConstants
  <1>3. QED
    BY <1>1, <1>2 DEF Leave, Waiting, TypeOK, TaskState

\* What ordering a command does.
LEMMA SendEffect ==
  ASSUME TypeOK, NEW t \in Tasks, Send(t)
  PROVE  /\ UNCHANGED <<retId, retData, stop, reader, cur, execs, faults>>
         /\ cid + 1 \in Ids /\ cid' = cid + 1 /\ slot' = cid + 1
         /\ task' \in [Tasks -> TaskState]
         /\ \A u \in Tasks \ {t} : task'[u] = task[u]
         /\ task'[t].pc = "wait" /\ task'[t].id = cid + 1
  <1>1. cid + 1 \in Ids /\ cid + 1 \in Frames /\ 0 \in Frames /\ 0 \in 0..TimeoutRounds
    BY TenzConstants DEF Send, TypeOK, Frames, Ids
  <1>2. QED
    BY <1>1 DEF Send, TypeOK, TaskState

\* The reader and the rest move no greenlet.
LEMMA ReaderKeepsTasks ==
  ASSUME TypeOK, ReaderStep \/ Close \/ UNCHANGED vars
  PROVE  /\ cid' = cid /\ task' \in [Tasks -> TaskState]
         /\ \A t \in Tasks : task'[t].pc = task[t].pc /\ task'[t].id = task[t].id
  <1>1. cid' = cid /\ (task' = task \/ task' = Aged)
    BY DEF ReaderStep, Open, Exit, Take, Write, PutNumber, PutData, Close, vars
  <1>2. QED
    BY <1>1, AgedEffect DEF TypeOK

\* Executing a frame counts it, and loses no count.
LEMMA ExecutedType ==
  ASSUME TypeOK, Executed
  PROVE  /\ execs' \in [Ids -> Nat]
         /\ \A i \in Ids : execs'[i] = IF i = cur THEN execs[i] + 1 ELSE execs[i]
  <1>1. cur # 0 => cur \in Ids
    BY TenzConstants DEF TypeOK, Frames, Ids
  <1>2. 0 \notin Ids
    BY TenzConstants DEF Ids
  <1>3. QED
    BY <1>1, <1>2 DEF Executed, TypeOK

\* Every variable keeps its type, and no number goes beyond _command_id's range.
THEOREM TypeCorrect == Spec => []TypeOK
  <1>1. Init => TypeOK
    <2>1. 0 \in Frames /\ 0 \in 0..TimeoutRounds /\ 0 \in 0..MaxFaults
      BY TenzConstants DEF Frames
    <2>2. [pc |-> "idle", id |-> 0, age |-> 0, got |-> 0] \in TaskState
      BY <2>1 DEF TaskState
    <2> SUFFICES ASSUME Init PROVE TypeOK
      OBVIOUS
    <2>3. task \in [Tasks -> TaskState]
      BY <2>2 DEF Init
    <2>4. execs \in [Ids -> Nat]
      BY DEF Init
    <2>5. QED
      BY <2>1, <2>3, <2>4 DEF Init, TypeOK
  <1>2. TypeOK /\ [Next]_vars => TypeOK'
    <2> SUFFICES ASSUME TypeOK, [Next]_vars PROVE TypeOK'
      OBVIOUS
    <2>0. 0 \in Frames /\ (\A i \in Ids : i \in Frames)
      BY TenzConstants DEF Frames, Ids
    <2>1. ASSUME NEW t \in Tasks, Send(t) PROVE TypeOK'
      BY <2>0, <2>1, SendEffect DEF TypeOK
    <2>2. ASSUME NEW t \in Tasks, Poll(t) PROVE TypeOK'
      BY <2>2, PollEffect DEF TypeOK
    <2>3. CASE Open \/ Exit \/ Take
      BY <2>3 DEF Open, Exit, Take, TypeOK
    <2>4. CASE Write
      <3>1. execs' \in [Ids -> Nat]
        BY <2>4, ExecutedType DEF Write, TypeOK
      <3>2. faults' \in 0..MaxFaults
        BY <2>4, TenzConstants DEF Write, TypeOK
      <3>3. task' \in [Tasks -> TaskState]
        BY <2>4, ReaderKeepsTasks DEF ReaderStep
      <3>4. QED
        BY <2>0, <2>4, <3>1, <3>2, <3>3 DEF Write, TypeOK
    <2>5. CASE PutNumber \/ PutData
      BY <2>0, <2>5, AgedEffect DEF PutNumber, PutData, TypeOK
    <2>6. CASE Close \/ UNCHANGED vars
      BY <2>6 DEF Close, vars, TypeOK
    <2>7. QED
      BY <2>1, <2>2, <2>3, <2>4, <2>5, <2>6 DEF Next, ReaderStep
  <1>3. QED
    BY <1>1, <1>2, PTL DEF Spec

----------------------------------------------------------------------------
(* The inductive invariant of the mailbox.                                 *)

\* The slot holds the poll or the last number, and nothing newer is anywhere.
NumbersIssued ==
  /\ slot \in {0, cid} /\ cur <= cid
  /\ \A t \in Tasks : Waiting(t) => task[t].id # 0

\* Only numbers of executed commands are filed, and so are those of answered waits.
FiledWasExecuted ==
  /\ reader \in {"number", "data"} /\ cur # 0 => execs[cur] > 0
  /\ retId # 0 => execs[retId] > 0
  /\ \A t \in Tasks : task[t].pc = "answer" => task[t].id # 0 /\ execs[task[t].id] > 0

\* What was executed is not newer than the frame about to go out.
ExecutedSoFar ==
  \A j \in Ids : execs[j] > 0 => j <= cid /\ (reader = "write" /\ cur # 0 => j <= cur)

\* A number that will be or may be sent (again) was executed at most once per fault.
MaySend(i) ==
  \/ reader = "write" /\ cur = i
  \/ slot = i /\ ~(reader \in {"number", "data"} /\ cur = i)
PaidFor ==
  \A i \in Ids : execs[i] <= 1 + faults /\ (MaySend(i) => execs[i] <= faults)

MailboxInv == NumbersIssued /\ FiledWasExecuted /\ ExecutedSoFar /\ PaidFor

\* The number ranges the arithmetic below needs.
LEMMA TypeFacts ==
  ASSUME TypeOK
  PROVE  /\ cid \in Nat /\ slot \in Nat /\ cur \in Nat /\ retId \in Nat /\ faults \in Nat
         /\ cur # 0 => cur \in Ids
         /\ retId # 0 => retId \in Ids
         /\ \A t \in Tasks : task[t].id # 0 => task[t].id \in Ids
         /\ \A i \in Ids : i \in Nat \ {0} /\ execs[i] \in Nat
  BY TenzConstants DEF TypeOK, TaskState, Frames, Ids

\* Ordering a command keeps the invariant: nobody has executed the new number.
LEMMA SendKeeps ==
  ASSUME TypeOK, MailboxInv, NEW t \in Tasks, Send(t)
  PROVE  MailboxInv'
  <1> USE TypeFacts, SendEffect
  <1>1. NumbersIssued'
    BY DEF MailboxInv, NumbersIssued, Waiting
  <1>2. FiledWasExecuted'
    BY DEF MailboxInv, FiledWasExecuted
  <1>3. ExecutedSoFar'
    BY DEF MailboxInv, ExecutedSoFar
  <1>4. PaidFor'
    <2>1. execs[cid + 1] = 0
      BY DEF MailboxInv, ExecutedSoFar
    <2>2. \A i \in Ids : MaySend(i)' => MaySend(i) \/ i = cid + 1
      BY DEF MaySend
    <2>3. QED
      BY <2>1, <2>2 DEF MailboxInv, PaidFor
  <1>5. QED
    BY <1>1, <1>2, <1>3, <1>4 DEF MailboxInv

\* A poll of the cell keeps the invariant.
LEMMA PollKeeps ==
  ASSUME TypeOK, MailboxInv, NEW t \in Tasks, Poll(t)
  PROVE  MailboxInv'
  <1> USE TypeFacts, PollEffect
  <1>1. NumbersIssued'
    BY DEF MailboxInv, NumbersIssued, Waiting
  <1>2. FiledWasExecuted'
    BY DEF MailboxInv, FiledWasExecuted, NumbersIssued, Waiting
  <1>3. ExecutedSoFar' /\ PaidFor'
    BY DEF MailboxInv, ExecutedSoFar, PaidFor, MaySend
  <1>4. QED
    BY <1>1, <1>2, <1>3 DEF MailboxInv

\* A frame that goes out keeps the invariant: it is executed behind no later one,
\* and what is executed again is paid for.
LEMMA WriteKeeps ==
  ASSUME TypeOK, MailboxInv, Write
  PROVE  MailboxInv'
  <1> USE TypeFacts
  <1>0. \A i \in Ids : execs'[i] \in {execs[i], execs[i] + 1} /\ (i # cur => execs'[i] = execs[i])
    BY ExecutedType DEF Write
  <1>1. /\ UNCHANGED <<slot, cid, retId>> /\ reader = "write"
        /\ \A t \in Tasks : task'[t].pc = task[t].pc /\ task'[t].id = task[t].id
    BY ReaderKeepsTasks DEF Write, ReaderStep
  <1>2. \/ Executed /\ reader' = "number" /\ cur' = cur /\ faults' = faults
        \/ faults' = faults + 1 /\ reader' \in {"top", "closed"} /\ cur' = 0
    BY DEF Write
  <1>3. NumbersIssued'
    BY <1>1, <1>2 DEF MailboxInv, NumbersIssued, Waiting
  <1>4. FiledWasExecuted'
    <2>1. \A i \in Ids : execs[i] > 0 => execs'[i] > 0
      BY <1>0
    <2>2. reader' = "number" /\ cur # 0 => execs'[cur] > 0
      BY <1>2, ExecutedType
    <2>3. QED
      BY <1>1, <1>2, <2>1, <2>2 DEF MailboxInv, FiledWasExecuted
  <1>5. ExecutedSoFar'
    BY <1>0, <1>1, <1>2 DEF MailboxInv, ExecutedSoFar, NumbersIssued
  <1>6. PaidFor'
    BY <1>0, <1>1, <1>2 DEF MailboxInv, PaidFor, MaySend
  <1>7. QED
    BY <1>3, <1>4, <1>5, <1>6 DEF MailboxInv

\* The other steps of the reader keep it.
LEMMA FileKeeps ==
  ASSUME TypeOK, MailboxInv, Open \/ Exit \/ Take \/ PutNumber \/ PutData \/ Close \/ UNCHANGED vars
  PROVE  MailboxInv'
  <1> USE TypeFacts
  <1>1. /\ UNCHANGED <<cid, execs, faults>>
        /\ \A t \in Tasks : task'[t].pc = task[t].pc /\ task'[t].id = task[t].id
    BY ReaderKeepsTasks DEF ReaderStep, Open, Exit, Take, PutNumber, PutData, Close, vars
  <1>2. NumbersIssued'
    BY <1>1 DEF MailboxInv, NumbersIssued, Waiting, Open, Exit, Take, PutNumber, PutData, Close, vars
  <1>3. FiledWasExecuted'
    BY <1>1 DEF MailboxInv, FiledWasExecuted, Open, Exit, Take, PutNumber, PutData, Close, vars
  <1>4. ExecutedSoFar'
    BY <1>1 DEF MailboxInv, ExecutedSoFar, NumbersIssued, Open, Exit, Take, PutNumber, PutData,
                Close, vars
  <1>5. \A i \in Ids : MaySend(i)' => MaySend(i)
    BY DEF MaySend, Open, Exit, Take, PutNumber, PutData, Close, vars
  <1>6. PaidFor'
    BY <1>1, <1>5 DEF MailboxInv, PaidFor
  <1>7. QED
    BY <1>2, <1>3, <1>4, <1>6 DEF MailboxInv

\* The mailbox keeps its numbers, its account and its answers.
THEOREM MailboxCorrect == Spec => []MailboxInv
  <1>1. Init => MailboxInv
    BY TenzConstants DEF Init, MailboxInv, NumbersIssued, FiledWasExecuted, ExecutedSoFar, PaidFor,
                         Waiting, Ids
  <1>2. TypeOK /\ MailboxInv /\ [Next]_vars => MailboxInv'
    BY SendKeeps, PollKeeps, WriteKeeps, FileKeeps DEF Next, ReaderStep
  <1>3. QED
    BY <1>1, <1>2, TypeCorrect, PTL DEF Spec

----------------------------------------------------------------------------
(* What it promises.                                                       *)

\* A wait that returned an answer belongs to a command the sensor executed, although
\* the data it returns may be another's.
THEOREM AnsweredWasExecutedHolds == Spec => []AnsweredWasExecuted
  <1>1. MailboxInv => AnsweredWasExecuted
    BY DEF MailboxInv, FiledWasExecuted, AnsweredWasExecuted
  <1>2. QED
    BY <1>1, MailboxCorrect, PTL

\* Every repeated execution is paid for by an answer that did not arrive.
THEOREM ResendsNeedFaultsHolds == Spec => []ResendsNeedFaults
  <1>1. MailboxInv => ResendsNeedFaults
    BY DEF MailboxInv, PaidFor, ResendsNeedFaults
  <1>2. QED
    BY <1>1, MailboxCorrect, PTL

\* A tare that timed out is not executed behind a weighing ordered after it.
THEOREM ExecutionOrderHolds == Spec => ExecutionOrder
  <1>1. TypeOK /\ MailboxInv /\ [Next]_vars
          => [\A i, j \in Ids : i < j /\ execs[j] > 0 => execs'[i] = execs[i]]_vars
    <2> SUFFICES ASSUME TypeOK, MailboxInv, [Next]_vars, NEW i \in Ids, NEW j \in Ids,
                        i < j, execs[j] > 0, execs'[i] # execs[i]
                 PROVE  FALSE
      OBVIOUS
    <2>1. Write
      BY SendEffect, PollEffect
         DEF Next, ReaderStep, Open, Exit, Take, PutNumber, PutData, Close, vars
    <2>2. reader = "write" /\ cur = i
      BY <2>1, ExecutedType DEF Write
    <2>3. QED
      BY <2>2, TypeFacts DEF MailboxInv, ExecutedSoFar
  <1>2. QED
    BY <1>1, TypeCorrect, MailboxCorrect, PTL DEF Spec, ExecutionOrder

=============================================================================
