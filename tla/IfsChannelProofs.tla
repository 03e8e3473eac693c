-------------------------- MODULE IfsChannelProofs --------------------------
(* More theorems about the mailbox of zmod_ifs.py, on top of IfsLinkProofs: *)
(* the switch of virtual_sdcard, what repeated executions cost, what one    *)
(* greenlet alone may rely on, and that the mailbox is a CommandChannel.    *)
EXTENDS IfsLinkProofs, SequenceTheorems

USE DEF AnswerNumber, SlotOnAnswer, CallsOnSilence

----------------------------------------------------------------------------
(* The callbacks _IFS_ON and _IFS_OFF.                                     *)

\* The youngest callback on its way tells what the reader found last.
Announced == IF Heard THEN "ON" ELSE "OFF"
CallsTell == calls # <<>> => calls[Len(calls)] = Announced

\* Appending a callback makes it the youngest.
LEMMA AppendLast ==
  ASSUME TypeOK, NEW c \in {"ON", "OFF"}
  PROVE  /\ Append(calls, c) # <<>>
         /\ Append(calls, c)[Len(Append(calls, c))] = c
  <1>1. calls \in Seq({"ON", "OFF"})
    BY DEF TypeOK
  <1>2. QED
    BY <1>1, AppendProperties

\* Running the oldest callback leaves the youngest, if it was not the same one.
LEMMA TailLast ==
  ASSUME TypeOK, calls # <<>>
  PROVE  /\ Tail(calls) = <<>> => Head(calls) = calls[Len(calls)]
         /\ Tail(calls) # <<>> => Tail(calls)[Len(Tail(calls))] = calls[Len(calls)]
  <1>1. calls \in Seq({"ON", "OFF"})
    BY DEF TypeOK
  <1> DEFINE n == Len(calls)
  <1>2. n \in Nat \ {0} /\ Head(calls) = calls[1]
    BY <1>1, EmptySeq, LenProperties
  <1>3. /\ Tail(calls) \in Seq({"ON", "OFF"}) /\ Len(Tail(calls)) = n - 1
        /\ \A i \in 1..(n - 1) : Tail(calls)[i] = calls[i + 1]
    BY <1>1, <1>2, HeadTailProperties
  <1>4. CASE Tail(calls) = <<>>
    <2>1. n = 1
      BY <1>2, <1>3, <1>4, EmptySeq
    <2>2. QED
      BY <1>2, <1>4, <2>1
  <1>5. CASE Tail(calls) # <<>>
    <2>1. n - 1 \in 1..(n - 1)
      BY <1>2, <1>3, <1>5, EmptySeq
    <2>2. QED
      BY <1>2, <1>3, <1>5, <2>1
  <1>6. QED
    BY <1>4, <1>5

\* A step that leaves the callbacks leaves what they told, too.
LEMMA HeardKept ==
  ASSUME TypeOK, [Next]_vars, ~Lose, ~Find
  PROVE  Heard' = Heard
  <1>0. ifs \in BOOLEAN
    BY DEF TypeOK
  <1>1. ASSUME UNCHANGED <<ifs, reader>>
        PROVE  Heard' = Heard
    BY <1>1 DEF Heard
  <1>2. ASSUME UNCHANGED ifs, reader \notin {"lost", "found"}, reader' \notin {"lost", "found"}
        PROVE  Heard' = Heard
    BY <1>2 DEF Heard
  <1>3. ASSUME NEW t \in Tasks, Greenlet(t)
        PROVE  UNCHANGED <<ifs, reader>>
    BY <1>3 DEF Greenlet, Poll, Issue, Refuse, WaitExtruder, PollMiss, WaitStopped,
                PollMatch, Fetch, Timeout, Recover, thread
  <1>4. CASE ReadEmpty
    <2>1. ~Heard
      BY <1>4 DEF ReadEmpty, Heard
    <2>2. ~Heard'
      BY <1>4 DEF ReadEmpty, Heard
    <2>3. QED
      BY <2>1, <2>2 DEF Heard
  <1>5. CASE ReadLine
    <2>1. Heard
      BY <1>5 DEF ReadLine, Heard
    <2>2. Heard'
      BY <1>5 DEF ReadLine, Heard
    <2>3. QED
      BY <2>1, <2>2 DEF Heard
  <1>6. CASE Open \/ Exit \/ Take \/ Write \/ Store \/ Die \/ PortFails
    <2>1. UNCHANGED ifs /\ reader \notin {"lost", "found"} /\ reader' \notin {"lost", "found"}
      BY <1>6 DEF Open, Exit, Take, Write, Store, Die, PortFails
    <2>2. QED
      BY <1>2, <2>1
  <1>7. CASE RunCallback \/ SwitchFfm \/ Close \/ UNCHANGED vars
    <2>1. UNCHANGED <<ifs, reader>>
      BY <1>7 DEF RunCallback, SwitchFfm, Close, vars, thread
    <2>2. QED
      BY <1>1, <2>1
  <1>8. QED
    BY <1>1, <1>3, <1>4, <1>5, <1>6, <1>7 DEF Next, ReaderStep

\* Only a callback that runs leaves fewer of them.
LEMMA CallsKept ==
  ASSUME TypeOK, [Next]_vars, ~Lose, ~Find, ~RunCallback
  PROVE  calls' = calls
  BY DEF Next, ReaderStep, Greenlet, Poll, Issue, Refuse, WaitExtruder, PollMiss, WaitStopped,
         PollMatch, Fetch, Timeout, Recover, thread, Open, Exit, Take, Write, ReadEmpty,
         ReadLine, Store, Die, PortFails, SwitchFfm, Close, vars

\* Every step keeps the announcements in step with the reader.
LEMMA CallsTellStep ==
  ASSUME TypeOK, CallsTell, [Next]_vars
  PROVE  CallsTell'
  <1>1. CASE Lose
    <2>1. ~Heard' /\ calls' = Append(calls, "OFF")
      BY <1>1 DEF Lose, Heard
    <2>2. QED
      BY <2>1, AppendLast DEF CallsTell, Announced
  <1>2. CASE Find
    <2>1. Heard' /\ calls' = Append(calls, "ON")
      BY <1>2 DEF Find, Heard
    <2>2. QED
      BY <2>1, AppendLast DEF CallsTell, Announced
  <1>3. CASE ~Lose /\ ~Find
    <2>1. Announced' = Announced
      BY <1>3, HeardKept DEF Announced
    <2>2. CASE RunCallback
      <3>1. calls # <<>> /\ calls' = Tail(calls)
        BY <2>2 DEF RunCallback
      <3>2. QED
        BY <2>1, <3>1, TailLast DEF CallsTell
    <2>3. CASE ~RunCallback
      BY <1>3, <2>1, <2>3, CallsKept DEF CallsTell
    <2>4. QED
      BY <2>2, <2>3
  <1>4. QED
    BY <1>1, <1>2, <1>3

\* The callback that leaves none behind it switches tool changes as the reader last
\* found the feeder: _IFS_ON and _IFS_OFF are queued before self.ifs is set, and run
\* while the reader goes on.
THEOREM CallbackTellsIfsHolds == Spec => CallbackTellsIfs
  <1>1. Init => CallsTell
    BY DEF Init, CallsTell
  <1>2. TypeOK /\ CallsTell /\ [Next]_vars
          => [calls # <<>> /\ calls' = <<>> => ffm' = Heard]_vars
    <2> SUFFICES ASSUME TypeOK, CallsTell, [Next]_vars, calls # <<>>, calls' = <<>>
                 PROVE  ffm' = Heard
      OBVIOUS
    <2>1. RunCallback
      <3>1. ~Lose /\ ~Find
        BY AppendLast DEF Lose, Find
      <3>2. QED
        BY <3>1, CallsKept
    <2>2. ffm' = (Head(calls) = "ON") /\ Tail(calls) = <<>>
      BY <2>1 DEF RunCallback
    <2>3. Head(calls) = Announced
      BY <2>2, TailLast DEF CallsTell
    <2>4. (Head(calls) = "ON") = Heard
      <3>1. Heard \in BOOLEAN
        BY DEF Heard, TypeOK
      <3>2. QED
        BY <2>3, <3>1 DEF Announced
    <2>5. QED
      BY <2>2, <2>4
  <1>3. QED
    BY <1>1, <1>2, CallsTellStep, TypeCorrect, PTL DEF Spec, CallbackTellsIfs

----------------------------------------------------------------------------
(* What a repeated execution costs.                                        *)

\* The answer to frame i is in the input buffer of its round.
Arrived(i) == reader \in {"read", "found", "store"} /\ cur = i /\ rx # <<>>

\* A number that will be or may be sent (again) was executed at most once per fault.
MaySend(i) ==
  \/ reader = "write" /\ cur = i
  \/ slot = i /\ ~Arrived(i) /\ reader # "dead"
PaidFor ==
  \A i \in Ids : /\ execs[i] <= 1 + budget.faults
                 /\ MaySend(i) => execs[i] <= budget.faults

\* The counters are numbers.
LEMMA CountsType ==
  ASSUME TypeOK
  PROVE  budget.faults \in Nat /\ \A i \in Ids : execs[i] \in Nat
  BY BoundsAssumption DEF TypeOK

\* Sending a frame pays for what it repeats.
LEMMA PaidForWrite ==
  ASSUME TypeOK, PaidFor, Write
  PROVE  PaidFor'
  <1> SUFFICES ASSUME NEW i \in Ids
               PROVE  /\ execs'[i] <= 1 + budget'.faults
                      /\ MaySend(i)' => execs'[i] <= budget'.faults
    BY DEF PaidFor
  <1>0. /\ budget.faults \in Nat /\ execs[i] \in Nat /\ i # 0
        /\ execs[i] <= 1 + budget.faults
        /\ MaySend(i) => execs[i] <= budget.faults
    BY CountsType, TypeFacts DEF PaidFor
  <1>1. reader = "write" /\ reader' = "read" /\ slot' = slot /\ cur' = cur
    BY DEF Write, cells
  <1>2. MaySend(i)' => slot = i /\ ~(cur = i /\ rx' # <<>>)
    BY <1>1 DEF MaySend, Arrived
  <1>3. slot = i \/ cur = i => execs[i] <= budget.faults
    BY <1>0, <1>1 DEF MaySend, Arrived
  <1>4. Executed => execs'[i] = IF cur = i THEN execs[i] + 1 ELSE execs[i]
    BY <1>0 DEF Executed, TypeOK
  <1>5. Faulty => budget'.faults = budget.faults + 1
    BY DEF Faulty, TypeOK
  <1>6. CASE Executed /\ budget' = budget /\ rx' = Append(rx, [frame |-> cur, good |-> TRUE])
    <2>1. rx' # <<>>
      BY <1>6 DEF TypeOK
    <2>2. QED
      BY <1>0, <1>2, <1>3, <1>4, <1>6, <2>1
  <1>7. CASE Faulty /\ (Executed \/ UNCHANGED execs)
    BY <1>0, <1>2, <1>3, <1>4, <1>5, <1>7
  <1>8. CASE Executed /\ budget' = [budget EXCEPT !.cuts = @ + 1]
             /\ rx' = rx \o <<[frame |-> cur, good |-> FALSE], [frame |-> cur, good |-> FALSE]>>
    <2>1. rx' # <<>> /\ budget'.faults = budget.faults
      BY <1>8 DEF TypeOK
    <2>2. QED
      BY <1>0, <1>2, <1>3, <1>4, <1>8, <2>1
  <1>9. QED
    BY <1>6, <1>7, <1>8 DEF Write

\* Every step keeps the account.
LEMMA PaidForStep ==
  ASSUME TypeOK, NumbersIssued, ExecutedSoFar, PaidFor, [Next]_vars
  PROVE  PaidFor'
  <1> USE TypeFacts
  <1>1. ASSUME UNCHANGED <<execs, budget.faults>>,
               \A i \in Ids : MaySend(i)' => MaySend(i) \/ execs[i] = 0
        PROVE  PaidFor'
    BY <1>1, CountsType DEF PaidFor
  <1>2. ASSUME NEW t \in Tasks, Greenlet(t)
        PROVE  PaidFor'
    <2>1. /\ UNCHANGED <<reader, cur, rx, execs, budget>>
          /\ slot' = slot \/ slot' = cid + 1
      BY <1>2, GreenletEffect DEF Sends, Matches, Fetches, Passes
    <2>2. cid + 1 \in Ids => execs[cid + 1] = 0
      BY CountsType DEF ExecutedSoFar
    <2>3. \A i \in Ids : MaySend(i)' => MaySend(i) \/ execs[i] = 0
      BY <2>1, <2>2 DEF MaySend, Arrived
    <2>4. QED
      BY <1>1, <2>1, <2>3
  <1>3. CASE Write
    BY <1>3, PaidForWrite
  <1>4. CASE Open \/ Exit \/ Take \/ Lose \/ ReadEmpty \/ Find \/ ReadLine \/ Store
    <2>1. UNCHANGED <<execs, budget>>
      BY <1>4 DEF Open, Exit, Take, Lose, ReadEmpty, Find, ReadLine, Store, feeder
    <2>2. ASSUME NEW i \in Ids, MaySend(i)'
          PROVE  MaySend(i)
      <3>1. CASE Open \/ Exit \/ Take \/ Lose \/ Find
        BY <2>2, <3>1 DEF MaySend, Arrived, Open, Exit, Take, Lose, Find, cells
      <3>2. CASE ReadEmpty
        BY <2>2, <3>2 DEF MaySend, Arrived, ReadEmpty, cells
      <3>3. CASE ReadLine
        BY <2>2, <3>3 DEF MaySend, Arrived, ReadLine, cells
      <3>4. CASE Store
        BY <2>2, <3>4 DEF MaySend, Arrived, Store, NumbersIssued
      <3>5. QED
        BY <1>4, <3>1, <3>2, <3>3, <3>4
    <2>3. QED
      BY <1>1, <2>1, <2>2
  <1>5. CASE Other
    <2>1. UNCHANGED <<slot, cur, rx, execs>> /\ reader' \in {reader, "dead"}
      BY <1>5, OtherKeeps DEF cells
    <2>2. budget'.faults = budget.faults
      BY <1>5 DEF Other, Die, RunCallback, SwitchFfm, Close, vars, feeder, TypeOK
    <2>3. \A i \in Ids : MaySend(i)' => MaySend(i)
      BY <2>1 DEF MaySend, Arrived
    <2>4. QED
      BY <1>1, <2>1, <2>2, <2>3
  <1>6. CASE PortFails
    <2>1. execs' = execs /\ budget'.faults = budget.faults + 1
      BY <1>6, FaultyType DEF PortFails
    <2>2. QED
      BY <2>1, CountsType DEF PaidFor
  <1>7. QED
    BY <1>2, <1>3, <1>4, <1>5, <1>6, NextCases DEF RoundStep, ReaderStep

\* Every repeated execution is paid for by a fault of the line: without one the
\* feeder executes every command of the mailbox at most once.
THEOREM ResendsNeedFaultsHolds == Spec => []ResendsNeedFaults
  <1>1. Init => PaidFor
    BY DEF Init, PaidFor
  <1>2. TypeOK /\ MailboxInv /\ PaidFor /\ [Next]_vars => PaidFor'
    BY PaidForStep DEF MailboxInv
  <1>3. PaidFor => ResendsNeedFaults
    BY DEF PaidFor, ResendsNeedFaults
  <1>4. QED
    BY <1>1, <1>2, <1>3, TypeCorrect, MailboxCorrect, PTL DEF Spec

----------------------------------------------------------------------------
(* What a greenlet alone is told.                                          *)

\* Whoever was alone so far after a step was so before it.
LEMMA AloneBefore ==
  ASSUME TypeOK, [Next]_vars, NEW t \in Tasks, Alone(t)'
  PROVE  Alone(t)
  <1> SUFFICES ASSUME NEW u \in Tasks \ {t} PROVE task[u].id = 0
    BY DEF Alone
  <1>1. task'[u].id = 0
    BY DEF Alone
  <1>2. ASSUME NEW v \in Tasks, Greenlet(v) PROVE task[u].id = 0
    BY <1>1, <1>2, GreenletEffect, TypeFacts DEF Sends, Matches, Fetches, Passes
  <1>3. CASE RoundStep
    BY <1>1, <1>3, ReaderKeepsTasks
  <1>4. CASE Other
    BY <1>1, <1>4, OtherKeeps
  <1>5. QED
    BY <1>2, <1>3, <1>4, NextCases

\* A number that was filed and is still the last one leaves slot and frame empty;
\* a greenlet alone has the last number, and while it goes to fetch its answer
\* the second time the cell keeps it.
AloneNumbers == \A t \in Tasks : Alone(t) => task[t].id = cid
StoreHasFrame == reader = "store" => cur # 0
CellQuiet == retId # 0 /\ retId = cid => slot = 0 /\ cur = 0
FetchQuiet ==
  budget.cuts = 0 =>
    \A t \in Tasks : task[t].pc = "fetch" /\ Alone(t)
                       => retData.frame = task[t].id /\ slot = 0 /\ cur = 0
AloneInv == AloneNumbers /\ StoreHasFrame /\ CellQuiet /\ FetchQuiet /\ OwnAnswerAll

\* No step takes the last number from a greenlet alone.
LEMMA AloneNumbersStep ==
  ASSUME TypeOK, AloneNumbers, [Next]_vars
  PROVE  AloneNumbers'
  <1> SUFFICES ASSUME NEW t \in Tasks, Alone(t)' PROVE task'[t].id = cid'
    BY DEF AloneNumbers
  <1>1. Alone(t) /\ task[t].id = cid
    BY AloneBefore DEF AloneNumbers
  <1>2. ASSUME NEW u \in Tasks, Greenlet(u) PROVE task'[t].id = cid'
    <2>1. CASE u = t
      BY <1>1, <1>2, <2>1, GreenletEffect DEF Sends, Matches, Fetches, Passes
    <2>2. CASE u # t
      <3>1. task'[u].id = 0
        BY <2>2 DEF Alone
      <3>2. ~Sends(u)
        BY <3>1, TypeFacts DEF Sends
      <3>3. QED
        BY <1>1, <1>2, <2>2, <3>2, GreenletEffect DEF Matches, Fetches, Passes
    <2>3. QED
      BY <2>1, <2>2
  <1>3. CASE RoundStep
    <2>1. cid' = cid
      BY <1>3 DEF RoundStep, ReaderStep, Open, Exit, Take, Write, Lose, ReadEmpty, Find, ReadLine,
             Store, PortFails, cells
    <2>2. QED
      BY <1>1, <1>3, <2>1, ReaderKeepsTasks
  <1>4. CASE Other
    BY <1>1, <1>4, OtherKeeps DEF cells
  <1>5. QED
    BY <1>2, <1>3, <1>4, NextCases

\* No step fills slot or frame behind the last number filed.
LEMMA CellQuietStep ==
  ASSUME TypeOK, NumbersIssued, StoreHasFrame, CellQuiet, [Next]_vars
  PROVE  StoreHasFrame' /\ CellQuiet'
  <1> USE TypeFacts
  <1>1. ASSUME NEW t \in Tasks, Greenlet(t) PROVE StoreHasFrame' /\ CellQuiet'
    <2>0. /\ UNCHANGED <<reader, cur>>
          /\ Sends(t) \/ Matches(t) \/ Fetches(t) \/ Passes(t)
      BY <1>1, GreenletEffect
    <2>1. /\ retId' \in {0, retId}
          /\ Sends(t) \/ (cid' = cid /\ slot' = slot)
      BY <2>0 DEF Sends, Matches, Fetches, Passes
    <2>2. QED
      BY <2>0, <2>1 DEF Sends, StoreHasFrame, CellQuiet, NumbersIssued
  <1>2. CASE RoundStep
    BY <1>2 DEF RoundStep, ReaderStep, Open, Exit, Take, Write, Lose, ReadEmpty, Find, ReadLine,
             Store, PortFails, cells,
                StoreHasFrame, CellQuiet
  <1>3. CASE Other
    BY <1>3, OtherKeeps DEF cells, StoreHasFrame, CellQuiet
  <1>4. QED
    BY <1>1, <1>2, <1>3, NextCases

\* Between its two reads of the cell a greenlet alone finds the same data.
LEMMA FetchQuietStep ==
  ASSUME TypeOK, NumbersIssued, LinesInStep, AloneNumbers, StoreHasFrame, CellQuiet, FetchQuiet,
         [Next]_vars
  PROVE  FetchQuiet'
  <1> USE TypeFacts
  <1> SUFFICES ASSUME budget'.cuts = 0, NEW t \in Tasks, task'[t].pc = "fetch", Alone(t)'
               PROVE  retData'.frame = task'[t].id /\ slot' = 0 /\ cur' = 0
    BY DEF FetchQuiet
  <1>1. Alone(t) /\ task[t].id = cid
    BY AloneBefore DEF AloneNumbers
  <1>2. ASSUME NEW u \in Tasks, Greenlet(u)
        PROVE  retData'.frame = task'[t].id /\ slot' = 0 /\ cur' = 0
    <2>1. /\ UNCHANGED <<cur, budget, retData>>
          /\ \A v \in Tasks \ {u} : task'[v] = task[v]
          /\ Sends(u) \/ Matches(u) \/ Fetches(u) \/ Passes(u)
      BY <1>2, GreenletEffect
    <2>2. CASE u = t
      <3>1. CASE task[t].pc = "fetch" /\ task'[t] = task[t]
        <4>1. slot' = slot
          BY <2>1, <2>2, <3>1 DEF Sends, Matches, Fetches, Passes, Waiting
        <4>2. QED
          BY <1>1, <2>1, <3>1, <4>1 DEF FetchQuiet
      <3>2. CASE ~(task[t].pc = "fetch" /\ task'[t] = task[t])
        <4>1. Matches(t)
          BY <2>1, <2>2, <3>2 DEF Sends, Fetches, Passes
        <4>2. retId = cid /\ retId # 0 /\ slot' = slot /\ task'[t].id = task[t].id
          BY <1>1, <4>1 DEF Matches, Waiting, NumbersIssued
        <4>3. QED
          BY <1>1, <2>1, <4>2 DEF CellQuiet, LinesInStep
      <3>3. QED
        BY <3>1, <3>2
    <2>3. CASE u # t
      <3>1. task'[u].id = 0 /\ task[u].id = 0
        BY <1>1, <2>3 DEF Alone
      <3>2. slot' = slot
        BY <2>1, <3>1 DEF Sends, Matches, Fetches, Passes
      <3>3. QED
        BY <1>1, <2>1, <2>3, <3>2 DEF FetchQuiet
    <2>4. QED
      BY <2>2, <2>3
  <1>3. CASE RoundStep
    <2>1. task'[t].id = task[t].id /\ task[t].pc = "fetch"
      BY <1>3, ReaderKeepsTasks
    <2>2. budget.cuts = 0
      <3>1. CASE Write
        BY <3>1, WriteEffect
      <3>2. CASE ~Write
        <4>1. PortFails => budget'.cuts = budget.cuts
          BY FaultyType DEF PortFails
        <4>2. QED
          BY <1>3, <3>2, <4>1
             DEF RoundStep, ReaderStep, Open, Exit, Take, Lose, ReadEmpty, Find, ReadLine, Store, feeder
      <3>3. QED
        BY <3>1, <3>2
    <2>3. retData.frame = task[t].id /\ slot = 0 /\ cur = 0
      BY <1>1, <2>1, <2>2 DEF FetchQuiet
    <2>4. retData' = retData /\ slot' = 0 /\ cur' = 0
      BY <1>3, <2>3 DEF RoundStep, ReaderStep, Open, Exit, Take, Write, Lose, ReadEmpty, Find, ReadLine,
             Store, PortFails, cells,
                        StoreHasFrame
    <2>5. QED
      BY <2>1, <2>3, <2>4
  <1>4. CASE Other
    BY <1>1, <1>4, OtherKeeps DEF cells, FetchQuiet
  <1>5. QED
    BY <1>2, <1>3, <1>4, NextCases

\* Every answer given to a greenlet alone is the one to its request.
LEMMA OwnAnswerAllStep ==
  ASSUME TypeOK, NumbersIssued, LinesInStep, FetchQuiet, OwnAnswerAll, [Next]_vars
  PROVE  OwnAnswerAll'
  <1> USE TypeFacts
  <1> SUFFICES ASSUME budget'.cuts = 0, NEW t \in Tasks, task'[t].pc = "answer", Alone(t)'
               PROVE  task'[t].got.frame = task'[t].id
    BY DEF OwnAnswerAll
  <1>1. Alone(t)
    BY AloneBefore
  <1>2. ASSUME NEW u \in Tasks, Greenlet(u) PROVE task'[t].got.frame = task'[t].id
    <2>1. /\ UNCHANGED budget
          /\ \A v \in Tasks \ {u} : task'[v] = task[v]
          /\ Sends(u) \/ Matches(u) \/ Fetches(u) \/ Passes(u)
      BY <1>2, GreenletEffect
    <2>2. CASE task'[t] = task[t]
      BY <1>1, <2>1, <2>2 DEF OwnAnswerAll
    <2>3. CASE Matches(t)
      BY <2>1, <2>3 DEF Matches, Waiting, NumbersIssued, LinesInStep
    <2>4. CASE Fetches(t)
      BY <1>1, <2>1, <2>4 DEF Fetches, FetchQuiet
    <2>5. QED
      BY <2>1, <2>2, <2>3, <2>4 DEF Sends, Passes
  <1>3. CASE RoundStep
    <2>1. budget.cuts = 0
      <3>1. CASE Write
        BY <3>1, WriteEffect
      <3>2. CASE ~Write
        <4>1. PortFails => budget'.cuts = budget.cuts
          BY FaultyType DEF PortFails
        <4>2. QED
          BY <1>3, <3>2, <4>1
             DEF RoundStep, ReaderStep, Open, Exit, Take, Lose, ReadEmpty, Find, ReadLine, Store, feeder
      <3>3. QED
        BY <3>1, <3>2
    <2>2. QED
      BY <1>1, <1>3, <2>1, ReaderKeepsTasks DEF OwnAnswerAll
  <1>4. CASE Other
    BY <1>1, <1>4, OtherKeeps DEF OwnAnswerAll
  <1>5. QED
    BY <1>2, <1>3, <1>4, NextCases

\* What holds of a greenlet that never shared the mailbox keeps holding.
THEOREM AloneCorrect == Spec => []AloneInv
  <1>1. Init => AloneInv
    BY DEF Init, AloneInv, AloneNumbers, StoreHasFrame, CellQuiet, FetchQuiet, OwnAnswerAll, Alone
  <1>2. TypeOK /\ MailboxInv /\ AloneInv /\ [Next]_vars => AloneInv'
    BY AloneNumbersStep, CellQuietStep, FetchQuietStep, OwnAnswerAllStep DEF MailboxInv, AloneInv
  <1>3. QED
    BY <1>1, <1>2, TypeCorrect, MailboxCorrect, PTL DEF Spec

\* A greenlet that never shared the mailbox is told the answer to its own request,
\* also where it reads the cell a second time without the lock.
THEOREM OwnAnswerAllHolds == Spec => []OwnAnswerAll
  <1>1. AloneInv => OwnAnswerAll
    BY DEF AloneInv
  <1>2. QED
    BY <1>1, AloneCorrect, PTL

----------------------------------------------------------------------------
(* Why a wait of a greenlet alone does not time out without a fault.       *)

NoFault == budget = [faults |-> 0, cuts |-> 0, crashes |-> 0]

\* A wait whose answer is not there yet has its command in the slot, and has seen no
\* round yet, or one round, after which the frame of its command is the next to go out.
OnItsWay(t) ==
  \/ retId = task[t].id
  \/ slot = task[t].id /\ task[t].age = 0
  \/ /\ slot = task[t].id /\ task[t].age = 1
     /\ reader \in {"closed", "top", "done"} \/ cur = task[t].id
LineAnswers ==
  reader \notin {"lost", "dead"} /\ (reader \in {"read", "found", "store"} => rx # <<>>)
InTime ==
  NoFault =>
    /\ LineAnswers
    /\ \A t \in Tasks : Alone(t) => /\ task[t].pc # "recover" /\ ~task[t].rec
                                    /\ Waiting(t) => OnItsWay(t)

\* A step without a fault has none before it, and if it sends, the answer arrives.
LEMMA NoFaultBefore ==
  ASSUME TypeOK, [Next]_vars, NoFault'
  PROVE  /\ NoFault /\ ~Die /\ ~PortFails
         /\ Write => rx' # <<>>
  <1> USE CountsType DEF NoFault
  <1>1. budget.cuts \in Nat /\ budget.crashes \in Nat
    BY BoundsAssumption DEF TypeOK
  <1>2. ~Die
    <2>1. Die => budget'.crashes = budget.crashes + 1
      BY DEF Die, TypeOK
    <2>2. QED
      BY <1>1, <2>1
  <1>3. Faulty => FALSE
    <2>1. Faulty => budget'.faults = budget.faults + 1
      BY FaultyType
    <2>2. QED
      BY <2>1
  <1>4. budget' = [budget EXCEPT !.cuts = @ + 1] => FALSE
    <2>1. budget' = [budget EXCEPT !.cuts = @ + 1] => budget'.cuts = budget.cuts + 1
      BY DEF TypeOK
    <2>2. QED
      BY <1>1, <2>1
  <1>5. Write => budget' = budget /\ rx' = Append(rx, [frame |-> cur, good |-> TRUE])
    BY <1>3, <1>4 DEF Write
  <1>6. NoFault
    <2>1. ASSUME NEW t \in Tasks, Greenlet(t) PROVE budget' = budget
      BY <2>1, GreenletEffect
    <2>2. RoundStep => budget' = budget
      BY <1>3, <1>5 DEF RoundStep, ReaderStep, Open, Exit, Take, Lose, ReadEmpty, Find, ReadLine,
                        Store, PortFails, feeder
    <2>3. Other => budget' = budget
      BY <1>2 DEF Other, RunCallback, SwitchFfm, Close, vars, feeder
    <2>4. QED
      BY <2>1, <2>2, <2>3, NextCases
  <1>7. Write => rx' # <<>>
    BY <1>5 DEF TypeOK
  <1>8. ~PortFails
    BY <1>3 DEF PortFails
  <1>9. QED
    BY <1>2, <1>6, <1>7, <1>8

\* What a greenlet alone does keeps its wait in time.
LEMMA InTimeOwnStep ==
  ASSUME TypeOK, NumbersIssued, LineAnswers, NEW t \in Tasks, Greenlet(t),
         task[t].pc # "recover", ~task[t].rec, Waiting(t) => OnItsWay(t)
  PROVE  task'[t].pc # "recover" /\ ~task'[t].rec /\ (Waiting(t)' => OnItsWay(t)')
  <1> USE TypeFacts DEF Waiting
  <1>0. task \in [Tasks -> TaskState]
    BY DEF TypeOK
  <1>1. CASE Issue(t)
    BY <1>0, <1>1 DEF Issue, Send, OnItsWay
  <1>2. CASE Refuse(t)
    BY <1>2 DEF Refuse, OnItsWay, cells, thread
  <1>3. CASE PollMiss(t)
    BY <1>0, <1>3 DEF PollMiss, OnItsWay, thread, TaskState
  <1>4. CASE WaitExtruder(t) \/ WaitStopped(t) \/ Fetch(t) \/ PollMatch(t)
    BY <1>0, <1>4 DEF WaitExtruder, WaitStopped, Fetch, PollMatch, Leave, Enter, Outcomes
  <1>5. CASE Timeout(t)
    BY <1>5, TimeoutAssumption DEF Timeout, OnItsWay, LineAnswers
  <1>6. CASE Recover(t)
    BY <1>6 DEF Recover
  <1>7. QED
    BY <1>1, <1>2, <1>3, <1>4, <1>5, <1>6 DEF Greenlet, Poll

\* A round that ends has answered the wait, or brings its command's turn.
LEMMA InTimeReaderStep ==
  ASSUME TypeOK, NumbersIssued, StoreHasFrame, CellQuiet, LineAnswers, ReaderStep, NEW t \in Tasks,
         task[t].id = cid, Waiting(t), OnItsWay(t)
  PROVE  OnItsWay(t)'
  <1> USE TypeFacts
  <1>0. task \in [Tasks -> TaskState] /\ task[t].id # 0 /\ task[t].age \in Nat
    BY TimeoutAssumption DEF TypeOK, TaskState, NumbersIssued, Waiting
  <1>1. CASE Open \/ Exit \/ Take \/ Write \/ Lose \/ Find
    BY <1>1 DEF Open, Exit, Take, Write, Lose, Find, OnItsWay, cells
  <1>2. CASE ReadEmpty
    BY <1>2 DEF ReadEmpty, LineAnswers
  <1>3. task' = Aged => /\ task'[t].id = task[t].id
                        /\ task'[t].age = task[t].age \/ task'[t].age = task[t].age + 1
                        /\ task[t].age = 0 => task'[t].age = 1
    BY <1>0, TimeoutAssumption DEF Aged, TaskState
  <1>4. CASE ReadLine
    <2>1. CASE cur # 0
      BY <1>4, <2>1 DEF ReadLine, OnItsWay, cells
    <2>2. CASE cur = 0
      <3>1. retId = task[t].id \/ (slot = task[t].id /\ task[t].age = 0)
        BY <1>0, <1>4, <2>2 DEF ReadLine, OnItsWay
      <3>2. task' = Aged /\ reader' = "top" /\ retId' = retId /\ slot' = slot
        BY <1>4, <2>2 DEF ReadLine, cells
      <3>3. QED
        BY <1>3, <3>1, <3>2 DEF OnItsWay
    <2>3. QED
      BY <2>1, <2>2
  <1>5. CASE Store
    <2>1. task' = Aged /\ reader' = "top" /\ retId' = cur /\ slot' = SlotOnAnswer
      BY <1>5 DEF Store
    <2>2. CASE cur = task[t].id
      BY <1>3, <2>1, <2>2 DEF OnItsWay
    <2>3. CASE cur # task[t].id
      <3>1. retId = task[t].id \/ (slot = task[t].id /\ task[t].age = 0)
        BY <1>5, <2>3 DEF Store, OnItsWay
      <3>2. slot = task[t].id /\ task[t].age = 0
        BY <1>0, <1>5, <3>1 DEF Store, CellQuiet, StoreHasFrame
      <3>3. QED
        BY <1>3, <2>1, <2>3, <3>2 DEF OnItsWay
    <2>4. QED
      BY <2>2, <2>3
  <1>6. QED
    BY <1>1, <1>2, <1>4, <1>5 DEF RoundStep, ReaderStep

\* Every step keeps the waits of a greenlet alone in time.
LEMMA InTimeStep ==
  ASSUME TypeOK, NumbersIssued, AloneNumbers, StoreHasFrame, CellQuiet, InTime, [Next]_vars
  PROVE  InTime'
  <1> USE TypeFacts
  <1> SUFFICES ASSUME NoFault'
               PROVE  /\ LineAnswers'
                      /\ \A t \in Tasks : Alone(t)' =>
                           /\ task'[t].pc # "recover" /\ ~task'[t].rec
                           /\ Waiting(t)' => OnItsWay(t)'
    BY DEF InTime
  <1>1. NoFault /\ ~Die /\ ~PortFails /\ (Write => rx' # <<>>) /\ LineAnswers
    BY NoFaultBefore DEF InTime
  <1>2. LineAnswers'
    <2>1. ASSUME NEW t \in Tasks, Greenlet(t) PROVE LineAnswers'
      BY <1>1, <2>1, GreenletEffect DEF LineAnswers
    <2>2. CASE RoundStep
      BY <1>1, <2>2 DEF RoundStep, ReaderStep, Open, Exit, Take, Write, Lose, ReadEmpty, Find, ReadLine,
             Store, PortFails, LineAnswers
    <2>3. CASE RunCallback \/ SwitchFfm \/ Close \/ UNCHANGED vars
      BY <1>1, <2>3 DEF RunCallback, SwitchFfm, Close, vars, thread, LineAnswers
    <2>4. QED
      BY <1>1, <2>1, <2>2, <2>3 DEF Next, RoundStep
  <1>3. ASSUME NEW t \in Tasks, Alone(t)'
        PROVE  task'[t].pc # "recover" /\ ~task'[t].rec /\ (Waiting(t)' => OnItsWay(t)')
    <2>1. /\ Alone(t) /\ task[t].id = cid /\ task[t].pc # "recover" /\ ~task[t].rec
          /\ Waiting(t) => OnItsWay(t)
      BY <1>1, <1>3, AloneBefore DEF InTime, AloneNumbers
    <2>2. CASE Greenlet(t)
      BY <1>1, <2>1, <2>2, InTimeOwnStep
    <2>3. ASSUME NEW u \in Tasks \ {t}, Greenlet(u)
          PROVE  UNCHANGED <<retId, slot, cur, reader, task>>
      <3>1. task[u].id = 0 /\ task'[u].id = 0 /\ task[u].pc = "idle"
        BY <1>3, <2>1, <2>3 DEF Alone, NumbersIssued
      <3>2. ~Issue(u)
        BY <3>1, SendEffect DEF Issue, Sends
      <3>3. Refuse(u)
        BY <2>3, <3>1, <3>2 DEF Greenlet, Poll, WaitExtruder, PollMiss, WaitStopped, PollMatch,
                                Fetch, Timeout, Recover, Waiting
      <3>4. QED
        BY <3>3 DEF Refuse, cells, thread
    <2>4. UNCHANGED <<retId, slot, cur, reader, task>>
            => task'[t].pc # "recover" /\ ~task'[t].rec /\ (Waiting(t)' => OnItsWay(t)')
      BY <2>1 DEF Waiting, OnItsWay
    <2>5. CASE RoundStep
      <3>1. task'[t].pc = task[t].pc /\ task'[t].rec = task[t].rec
        <4>1. task' = task \/ task' = Aged
          BY <2>5 DEF RoundStep, ReaderStep, Open, Exit, Take, Write, Lose, ReadEmpty, Find, ReadLine,
             Store, PortFails
        <4>2. task[t] \in TaskState
          BY DEF TypeOK
        <4>3. QED
          BY <4>1, <4>2 DEF Aged, TaskState
      <3>2. QED
        BY <1>1, <2>1, <2>5, <3>1, InTimeReaderStep DEF Waiting, RoundStep
    <2>6. CASE RunCallback \/ SwitchFfm \/ Close \/ UNCHANGED vars
      <3>1. UNCHANGED <<retId, slot, cur, reader, task>>
        BY <2>6 DEF RunCallback, SwitchFfm, Close, vars, cells, thread
      <3>2. QED
        BY <2>4, <3>1
    <2>7. QED
      BY <1>1, <2>2, <2>3, <2>4, <2>5, <2>6 DEF Next, RoundStep
  <1>4. QED
    BY <1>2, <1>3

\* Without a fault no wait of a greenlet alone times out, so nothing is stopped and no
\* filament released behind its back: two rounds always fit into the time-out.
THEOREM TimeoutMeansFaultHolds == Spec => []TimeoutMeansFault
  <1>1. Init => InTime
    BY DEF Init, InTime, LineAnswers, Waiting
  <1>2. TypeOK /\ MailboxInv /\ AloneInv /\ InTime /\ [Next]_vars => InTime'
    BY InTimeStep DEF MailboxInv, AloneInv
  <1>3. InTime => TimeoutMeansFault
    BY DEF InTime, NoFault, TimeoutMeansFault
  <1>4. QED
    BY <1>1, <1>2, <1>3, TypeCorrect, MailboxCorrect, AloneCorrect, PTL DEF Spec

----------------------------------------------------------------------------
(* The mailbox implements CommandChannel.                                  *)

\* A confirmation, in the input buffer or in the cell, is of a command that was executed.
Confirms(line) == line.good /\ line.frame # 0 => execs[line.frame] > 0
GoodWasExecuted ==
  Confirms(retData) /\ \A k \in 1..Len(rx) : Confirms(rx[k])

\* Executions are only added.
LEMMA ExecsGrow ==
  ASSUME TypeOK, [Next]_vars, NEW i \in Ids
  PROVE  execs[i] \in Nat /\ execs'[i] \in Nat /\ execs'[i] >= execs[i]
  <1>1. execs[i] \in Nat
    BY DEF TypeOK
  <1>2. CASE execs'[i] = execs[i]
    BY <1>1, <1>2
  <1>3. CASE execs'[i] # execs[i]
    <2>1. Write
      BY <1>3, GreenletEffect, OtherKeeps, NextCases
         DEF RoundStep, ReaderStep, Open, Exit, Take, Lose, ReadEmpty, Find, ReadLine, Store, PortFails, feeder
    <2>2. execs'[i] = execs[i] + 1
      BY <1>3, <2>1 DEF Write, Executed, TypeOK
    <2>3. QED
      BY <1>1, <2>2
  <1>4. QED
    BY <1>2, <1>3

\* The feeder confirms what it executes, and nothing else fills the input buffer.
LEMMA WriteConfirms ==
  ASSUME TypeOK, GoodWasExecuted, Write
  PROVE  \A k \in 1..Len(rx') : rx'[k].good /\ rx'[k].frame # 0 => execs'[rx'[k].frame] > 0
  <1> USE DEF GoodWasExecuted, Confirms
  <1>1. \A k \in 1..Len(rx) : rx[k].frame # 0 => rx[k].frame \in Ids
    <2>1. \A k \in 1..Len(rx) : rx[k] \in Line
      BY ElementOfSeq DEF TypeOK
    <2>2. \A line \in Line : line.frame # 0 => line.frame \in Ids
      BY BoundsAssumption DEF Line, Frames, Ids
    <2>3. QED
      BY <2>1, <2>2
  <1>2. Write => [Next]_vars
    BY DEF Next, ReaderStep
  <1>3. \A i \in Ids : execs[i] > 0 => execs'[i] > 0
    BY <1>2, ExecsGrow
  <1>4. \A k \in 1..Len(rx) : rx[k].good /\ rx[k].frame # 0 => execs'[rx[k].frame] > 0
    BY <1>1, <1>3
  <1>5. rx \in Seq(Line) /\ Len(rx) \in Nat
    BY DEF TypeOK
  <1>6. CASE Executed /\ rx' = Append(rx, [frame |-> cur, good |-> TRUE])
    <2>1. cur # 0 => execs'[cur] > 0
      BY <1>6, TypeFacts, BoundsAssumption DEF Executed, TypeOK, Frames, Ids
    <2>2. /\ Len(rx') = Len(rx) + 1 /\ rx'[Len(rx) + 1] = [frame |-> cur, good |-> TRUE]
          /\ \A k \in 1..Len(rx) : rx'[k] = rx[k]
      BY <1>5, <1>6
    <2>3. QED
      BY <1>4, <1>5, <2>1, <2>2
  <1>7. CASE rx' = rx
    BY <1>4, <1>7
  <1>8. CASE rx' = Append(rx, [frame |-> cur, good |-> FALSE])
    <2>1. /\ Len(rx') = Len(rx) + 1 /\ rx'[Len(rx) + 1] = [frame |-> cur, good |-> FALSE]
          /\ \A k \in 1..Len(rx) : rx'[k] = rx[k]
      BY <1>5, <1>8
    <2>2. QED
      BY <1>4, <1>5, <2>1
  <1>9. CASE rx' = rx \o <<[frame |-> cur, good |-> FALSE], [frame |-> cur, good |-> FALSE]>>
    <2> DEFINE piece == [frame |-> cur, good |-> FALSE]
    <2>0. piece \in Line /\ <<piece, piece>> \in Seq(Line)
      BY DEF TypeOK, Line
    <2>1. /\ Len(rx') = Len(rx) + 2
          /\ \A k \in 1..Len(rx) : rx'[k] = rx[k]
          /\ rx'[Len(rx) + 1] = piece /\ rx'[Len(rx) + 2] = piece
      <3>1. rx' \in Seq(Line) /\ Len(rx') = Len(rx) + Len(<<piece, piece>>)
        BY <1>5, <1>9, <2>0, ConcatProperties
      <3>2. \A k \in 1..(Len(rx) + 2) :
              rx'[k] = IF k <= Len(rx) THEN rx[k] ELSE <<piece, piece>>[k - Len(rx)]
        BY <1>5, <1>9, <2>0, <3>1, ConcatProperties
      <3>3. Len(<<piece, piece>>) = 2 /\ <<piece, piece>>[1] = piece /\ <<piece, piece>>[2] = piece
        OBVIOUS
      <3>4. rx'[Len(rx) + 1] = <<piece, piece>>[1] /\ rx'[Len(rx) + 2] = <<piece, piece>>[2]
        <4> HIDE DEF piece
        <4>1. /\ Len(rx) + 1 \in 1..(Len(rx) + 2) /\ ~(Len(rx) + 1 <= Len(rx))
              /\ Len(rx) + 2 \in 1..(Len(rx) + 2) /\ ~(Len(rx) + 2 <= Len(rx))
              /\ (Len(rx) + 1) - Len(rx) = 1 /\ (Len(rx) + 2) - Len(rx) = 2
          BY <1>5
        <4>2. QED
          BY <3>2, <4>1
      <3>5. \A k \in 1..Len(rx) : rx'[k] = rx[k]
        BY <1>5, <3>2
      <3>6. QED
        BY <3>1, <3>3, <3>4, <3>5
    <2>2. \A k \in 1..Len(rx') : k \in 1..Len(rx) \/ k \in {Len(rx) + 1, Len(rx) + 2}
      BY <1>5, <2>1
    <2>3. QED
      BY <1>4, <2>1, <2>2
  <1>10. QED
    BY <1>6, <1>7, <1>8, <1>9 DEF Write

\* Every step keeps the confirmations true.
LEMMA GoodWasExecutedStep ==
  ASSUME TypeOK, GoodWasExecuted, [Next]_vars
  PROVE  GoodWasExecuted'
  <1> USE DEF GoodWasExecuted, Confirms
  <1>1. retData.frame # 0 => retData.frame \in Ids
    BY BoundsAssumption DEF TypeOK, Line, Frames, Ids
  <1>2. CASE Write
    <2>1. retData' = retData
      BY <1>2 DEF Write, cells
    <2>2. QED
      BY <1>1, <1>2, <2>1, WriteConfirms, ExecsGrow
  <1>3. CASE Store
    <2>1. execs' = execs /\ retData' = Head(rx) /\ rx' = Tail(rx) /\ rx # <<>>
      BY <1>3 DEF Store, feeder
    <2>2. /\ Head(rx) = rx[1] /\ 1 \in 1..Len(rx)
          /\ \A k \in 1..Len(Tail(rx)) : Tail(rx)[k] = rx[k + 1] /\ k + 1 \in 1..Len(rx)
      BY <2>1 DEF TypeOK
    <2>3. QED
      BY <2>1, <2>2
  <1>4. CASE ReadLine
    <2>1. execs' = execs /\ retData' = retData /\ rx # <<>> /\ (rx' = rx \/ rx' = Tail(rx))
      BY <1>4 DEF ReadLine, feeder, cells
    <2>2. \A k \in 1..Len(Tail(rx)) : Tail(rx)[k] = rx[k + 1] /\ k + 1 \in 1..Len(rx)
      BY <2>1 DEF TypeOK
    <2>3. QED
      BY <2>1, <2>2
  <1>5. CASE Open
    BY <1>5 DEF Open, feeder, cells
  <1>6. CASE Exit \/ Take \/ Lose \/ ReadEmpty \/ Find \/ PortFails
    BY <1>6 DEF Exit, Take, Lose, ReadEmpty, Find, PortFails, feeder, cells
  <1>7. ASSUME NEW t \in Tasks, Greenlet(t) PROVE GoodWasExecuted'
    BY <1>7, GreenletEffect
  <1>8. CASE Other
    BY <1>8, OtherKeeps DEF cells
  <1>9. QED
    BY <1>2, <1>3, <1>4, <1>5, <1>6, <1>7, <1>8, NextCases DEF RoundStep, ReaderStep

\* The calls as CommandChannel sees them.
Calls == [t \in Tasks |-> CallOf(t)]

\* What a step that goes on inside a call, or leaves it without a confirmed answer,
\* is for CommandChannel: the end of the call, if it was not over.
LEMMA GiveUpStep ==
  ASSUME TypeOK, NEW t \in Tasks, UNCHANGED <<cid, cmdOf, execs, budget>>,
         task' = [task EXCEPT ![t] = task'[t]], task'[t].id = task[t].id,
         CallOf(t)'.st = "over", CallOf(t).st \in {"pending", "over"}
  PROVE  [Channel!Next]_(Channel!vars)
  <1>1. \A u \in Tasks \ {t} : CallOf(u)' = CallOf(u)
    BY DEF CallOf, Waiting, Expects, CmdAt, TypeOK
  <1>2. CallOf(t)' = [id |-> CallOf(t).id, st |-> "over"]
    BY DEF CallOf
  <1>3. CASE CallOf(t).st = "over"
    <2>1. CallOf(t)' = CallOf(t)
      BY <1>2, <1>3 DEF CallOf
    <2>2. UNCHANGED Channel!vars
      BY <1>1, <2>1 DEF Channel!vars
    <2>3. QED
      BY <2>2
  <1>4. CASE CallOf(t).st = "pending"
    <2>1. [CallOf(t) EXCEPT !.st = "over"] = CallOf(t)'
      BY <1>2 DEF CallOf
    <2>2. Calls' = [Calls EXCEPT ![t].st = "over"]
      BY <1>1, <2>1 DEF Calls
    <2>3. (budget.cuts = 0)' = (budget.cuts = 0)
      OBVIOUS
    <2>4. Channel!GiveUp(t)
      BY <1>4, <2>2, <2>3 DEF Channel!GiveUp, Calls
    <2>5. QED
      BY <2>4 DEF Channel!Next
  <1>5. QED
    BY <1>3, <1>4

\* A step that moves no call, executes nothing and garbles nothing is none of the channel's.
LEMMA StutterStep ==
  ASSUME UNCHANGED <<cid, cmdOf, execs>>, (budget.cuts = 0)' = (budget.cuts = 0),
         \A u \in Tasks : CallOf(u)' = CallOf(u)
  PROVE  UNCHANGED Channel!vars
  BY DEF Channel!vars

\* Taking the next number is the call of CommandChannel.
LEMMA CallStep ==
  ASSUME TypeOK, NumbersIssued, NEW t \in Tasks, NEW c \in Cmds, NEW rec, NEW rest,
         Send(t, c, rest, rec), ~Waiting(t), UNCHANGED <<execs, budget>>
  PROVE  [Channel!Next]_(Channel!vars)
  <1> USE TypeFacts
  <1>1. Sends(t) /\ \A u \in Tasks \ {t} : task'[u] = task[u]
    BY SendEffect
  <1>2. \A u \in Tasks \ {t} : CallOf(u)' = CallOf(u)
    <2>1. \A i \in 0..cid : CmdAt(i)' = CmdAt(i)
      BY <1>1 DEF Sends, CmdAt
    <2>2. \A u \in Tasks : task[u].id \in 0..cid
      BY DEF NumbersIssued
    <2>3. QED
      BY <1>1, <2>1, <2>2 DEF CallOf, Waiting, Expects
  <1>3. CallOf(t)' = [id |-> cid + 1, st |-> "pending"] /\ CallOf(t).st # "pending"
    BY <1>1 DEF Sends, CallOf, Waiting
  <1>4. Calls' = [Calls EXCEPT ![t] = [id |-> cid + 1, st |-> "pending"]]
    BY <1>2, <1>3 DEF Calls
  <1>5. (budget.cuts = 0)' = (budget.cuts = 0)
    OBVIOUS
  <1>6. cid < MaxId /\ cid' = cid + 1 /\ execs' = execs
    BY <1>1 DEF Send
  <1>7. Channel!Call(t)
    BY <1>3, <1>4, <1>5, <1>6 DEF Channel!Call, Calls
  <1>8. QED
    BY <1>7 DEF Channel!Next

\* A confirmed answer that a poll finds is the answer of CommandChannel.
LEMMA AnswerStep ==
  ASSUME TypeOK, MailboxInv, GoodWasExecuted, NEW t \in Tasks, PollMatch(t),
         Expects(task[t].id), task'[t].pc = "answer"
  PROVE  [Channel!Next]_(Channel!vars)
  <1> USE TypeFacts
  <1>1. /\ Waiting(t) /\ retId = task[t].id /\ retData.good
        /\ UNCHANGED <<cid, cmdOf, execs, budget>>
        /\ task'[t].id = task[t].id
        /\ \A u \in Tasks \ {t} : task'[u] = task[u]
    BY DEF PollMatch, Leave, Enter, TypeOK, feeder
  <1>2. \A u \in Tasks \ {t} : CallOf(u)' = CallOf(u)
    BY <1>1 DEF CallOf, Waiting, Expects, CmdAt
  <1>3. /\ CallOf(t) = [id |-> task[t].id, st |-> "pending"]
        /\ CallOf(t)' = [id |-> task[t].id, st |-> "answered"]
    BY <1>1 DEF CallOf, Waiting, Expects, CmdAt
  <1>4. Calls' = [Calls EXCEPT ![t].st = "answered"]
    <2>1. [CallOf(t) EXCEPT !.st = "answered"] = CallOf(t)'
      BY <1>3
    <2>2. QED
      BY <1>2, <2>1 DEF Calls
  <1>5. budget.cuts = 0 => task[t].id \in Ids /\ execs[task[t].id] > 0
    <2>1. task[t].id # 0
      BY <1>1 DEF MailboxInv, NumbersIssued, Waiting
    <2>2. budget.cuts = 0 => retData.frame = task[t].id
      BY <1>1, <2>1 DEF MailboxInv, LinesInStep
    <2>3. QED
      BY <1>1, <2>1, <2>2 DEF GoodWasExecuted, Confirms
  <1>6. (budget.cuts = 0)' = (budget.cuts = 0)
    BY <1>1
  <1>7. Channel!Answer(t)
    BY <1>1, <1>3, <1>4, <1>5, <1>6 DEF Channel!Answer, Calls, Channel!Ids, Ids
  <1>8. QED
    BY <1>7 DEF Channel!Next

\* What the feeder does with a frame is an execution, a garbled answer or nothing.
LEMMA FrameStep ==
  ASSUME TypeOK, MailboxInv, Write
  PROVE  [Channel!Next]_(Channel!vars)
  <1> USE TypeFacts
  <1>1. reader = "write" /\ UNCHANGED <<cid, cmdOf, task>>
    BY DEF Write, cells
  <1>2. \A u \in Tasks : CallOf(u)' = CallOf(u)
    BY <1>1 DEF CallOf, Waiting, Expects, CmdAt
  <1>3. Calls' = Calls
    BY <1>2 DEF Calls
  <1>4. budget'.cuts = 0 => budget.cuts = 0
    BY WriteEffect
  <1>5. (budget.cuts = 0)' \in {budget.cuts = 0, FALSE}
    BY <1>4
  <1>6. CASE execs' = execs
    <2>1. CASE (budget.cuts = 0)' = (budget.cuts = 0)
      BY <1>1, <1>2, <1>6, <2>1, StutterStep
    <2>2. CASE (budget.cuts = 0)' = FALSE
      <3>1. Channel!Garble
        BY <1>1, <1>3, <1>6, <2>2 DEF Channel!Garble, Calls
      <3>2. QED
        BY <3>1 DEF Channel!Next
    <2>3. QED
      BY <1>5, <2>1, <2>2
  <1>7. CASE execs' # execs
    <2>1. cur # 0 /\ execs' = [execs EXCEPT ![cur] = @ + 1]
      BY <1>7 DEF Write, Executed
    <2>2. cur \in Ids /\ cur <= cid
      BY <2>1, BoundsAssumption DEF TypeOK, Frames, Ids, MailboxInv, NumbersIssued
    <2>3. \A j \in Ids : j > cur => execs[j] = 0
      <3>1. \A j \in Ids : execs[j] \in Nat /\ (execs[j] > 0 => j <= cur)
        BY <1>1, <2>1, CountsType DEF MailboxInv, ExecutedSoFar
      <3>2. QED
        BY <2>2, <3>1
    <2>4. \A t \in Tasks : Calls[t] # [id |-> cur, st |-> "answered"]
      <3>1. ASSUME NEW t \in Tasks, Calls[t] = [id |-> cur, st |-> "answered"] PROVE FALSE
        <4>1. CallOf(t) = [id |-> cur, st |-> "answered"]
          BY <3>1 DEF Calls
        <4>2. task[t].id = cur /\ task[t].pc = "answer"
          BY <4>1 DEF CallOf
        <4>3. QED
          BY <1>1, <2>2, <4>2 DEF MailboxInv, DeliveredIsGone, Delivered
      <3>2. QED
        BY <3>1
    <2>5. Channel!Execute(cur)
      BY <1>1, <1>3, <2>1, <2>2, <2>3, <2>4
         DEF Channel!Execute, Channel!Answered, Channel!Ids, Ids, Calls
    <2>6. Channel!Step(cur)
      BY <1>5, <2>5 DEF Channel!Step
    <2>7. QED
      BY <2>2, <2>6 DEF Channel!Next, Channel!Ids, Ids
  <1>8. QED
    BY <1>6, <1>7

\* What a greenlet does is a step of the channel.
LEMMA GreenletImplements ==
  ASSUME TypeOK, MailboxInv, GoodWasExecuted, NEW t \in Tasks, Greenlet(t)
  PROVE  [Channel!Next]_(Channel!vars)
  <1> USE TypeFacts
  <1>0. task \in [Tasks -> TaskState] /\ UNCHANGED <<execs, budget>>
    BY GreenletEffect DEF TypeOK
  <1>1. CASE Issue(t)
    <2>1. PICK c \in Cmds : Send(t, c, <<>>, FALSE)
      BY <1>1 DEF Issue
    <2>2. ~Waiting(t)
      BY <1>1 DEF Issue, Free, Waiting, Outcomes
    <2>3. QED
      BY <1>0, <2>1, <2>2, CallStep DEF MailboxInv
  <1>2. CASE Refuse(t) \/ PollMiss(t)
    <2>1. UNCHANGED <<cid, cmdOf, task>>
      BY <1>2 DEF Refuse, PollMiss, cells
    <2>2. \A u \in Tasks : CallOf(u)' = CallOf(u)
      BY <2>1 DEF CallOf, Waiting, Expects, CmdAt
    <2>3. QED
      BY <1>0, <2>1, <2>2, StutterStep
  <1>3. CASE WaitExtruder(t) \/ WaitStopped(t) \/ Timeout(t)
    <2>1. /\ UNCHANGED <<cid, cmdOf>> /\ task' = [task EXCEPT ![t] = task'[t]]
          /\ task'[t].id = task[t].id /\ task'[t].pc \in {"none", "stopped", "recover"}
          /\ task[t].pc = "wait"
      BY <1>0, <1>3 DEF WaitExtruder, WaitStopped, Timeout, Leave, Enter, Waiting, cells
    <2>2. CallOf(t)'.st = "over" /\ CallOf(t).st = "pending"
      BY <2>1 DEF CallOf, Waiting
    <2>3. QED
      BY <1>0, <2>1, <2>2, GiveUpStep
  <1>4. CASE PollMatch(t)
    <2>1. /\ UNCHANGED <<cid, cmdOf>> /\ task' = [task EXCEPT ![t] = task'[t]]
          /\ task'[t].id = task[t].id /\ task[t].pc = "wait"
          /\ \/ task'[t].pc \in {"fetch", "recover", "mismatch"}
             \/ task'[t].pc = "answer" /\ Expects(task[t].id)
      BY <1>0, <1>4 DEF PollMatch, Leave, Enter, Waiting
    <2>2. CASE task'[t].pc = "answer"
      BY <1>4, <2>1, <2>2, AnswerStep
    <2>3. CASE task'[t].pc \in {"fetch", "recover", "mismatch"}
      <3>1. CallOf(t)'.st = "over" /\ CallOf(t).st = "pending"
        BY <2>1, <2>3 DEF CallOf, Waiting
      <3>2. QED
        BY <1>0, <2>1, <3>1, GiveUpStep
    <2>4. QED
      BY <2>1, <2>2, <2>3
  <1>5. CASE Fetch(t)
    <2>1. /\ UNCHANGED <<cid, cmdOf>> /\ task' = [task EXCEPT ![t] = task'[t]]
          /\ task'[t].id = task[t].id /\ task'[t].pc = "answer" /\ task[t].pc = "fetch"
      BY <1>0, <1>5 DEF Fetch, Leave, cells
    <2>2. ~Expects(task[t].id) /\ ~Expects(task[t].id)'
      BY <2>1 DEF MailboxInv, NumbersIssued, Expects, CmdAt
    <2>3. CallOf(t)'.st = "over" /\ CallOf(t).st = "over"
      BY <2>1, <2>2 DEF CallOf, Waiting
    <2>4. QED
      BY <1>0, <2>1, <2>3, GiveUpStep
  <1>6. CASE Recover(t)
    <2>1. task[t].pc = "recover"
      BY <1>6 DEF Recover
    <2>2. CASE task[t].todo # <<>> /\ ifs
               /\ Send(t, Head(task[t].todo), Tail(task[t].todo), TRUE)
      <3>1. Head(task[t].todo) \in Cmds
        <4>1. task[t].todo \in {<<"F18">>, Recovery}
          BY <1>0, <2>2 DEF TaskState
        <4>2. Head(<<"F18">>) = "F18" /\ Head(Recovery) = "F112"
          BY DEF Recovery
        <4>3. QED
          BY <4>1, <4>2, CmdsAssumption
      <3>2. QED
        BY <1>0, <2>1, <2>2, <3>1, CallStep DEF MailboxInv, Waiting
    <2>3. CASE (Enter(t, "recover", Tail(task[t].todo)) \/ Leave(t, "timeout", NoLine))
               /\ UNCHANGED cells
      <3>1. /\ UNCHANGED <<cid, cmdOf>> /\ task' = [task EXCEPT ![t] = task'[t]]
            /\ task'[t].id = task[t].id /\ task'[t].pc \in {"recover", "timeout"}
        BY <1>0, <2>3 DEF Leave, Enter, cells
      <3>2. CallOf(t)'.st = "over" /\ CallOf(t).st = "over"
        BY <2>1, <3>1 DEF CallOf, Waiting
      <3>3. QED
        BY <1>0, <3>1, <3>2, GiveUpStep
    <2>4. QED
      BY <1>6, <2>2, <2>3 DEF Recover
  <1>7. QED
    BY <1>1, <1>2, <1>3, <1>4, <1>5, <1>6 DEF Greenlet, Poll

\* The mailbox, its slot, cell, thread and line together, is a CommandChannel: it promises
\* its callers no more than that, and keeps it whatever is lost, cut or overwritten.
THEOREM ChannelImplemented == Spec => ImplementsChannel
  <1>1. Init => Channel!Init
    <2> SUFFICES ASSUME Init PROVE Channel!Init
      OBVIOUS
    <2>1. \A t \in Tasks : CallOf(t) = [id |-> 0, st |-> "over"]
      BY DEF Init, CallOf, Waiting
    <2>2. (budget.cuts = 0) = TRUE
      BY DEF Init
    <2>3. QED
      BY <2>1, <2>2 DEF Init, Channel!Init, Channel!Ids, Ids
  <1>2. Init => GoodWasExecuted
    BY DEF Init, GoodWasExecuted, Confirms, NoLine
  <1>3. TypeOK /\ MailboxInv /\ GoodWasExecuted /\ [Next]_vars => [Channel!Next]_(Channel!vars)
    <2> SUFFICES ASSUME TypeOK, MailboxInv, GoodWasExecuted, [Next]_vars
                 PROVE  [Channel!Next]_(Channel!vars)
      OBVIOUS
    <2>1. CASE Write
      BY <2>1, FrameStep
    <2>2. CASE RoundStep /\ ~Write
      <3>0. PortFails => budget'.cuts = budget.cuts
        BY FaultyType DEF PortFails
      <3>1. UNCHANGED <<cid, cmdOf, execs, budget.cuts>>
        BY <2>2, <3>0
           DEF RoundStep, ReaderStep, Open, Exit, Take, Lose, ReadEmpty, Find, ReadLine, Store,
               PortFails, cells, feeder
      <3>2. \A u \in Tasks : CallOf(u)' = CallOf(u)
        BY <2>2, <3>1, ReaderKeepsTasks DEF CallOf, Waiting, Expects, CmdAt
      <3>3. QED
        BY <3>1, <3>2, StutterStep
    <2>3. CASE Other
      <3>1. UNCHANGED <<cid, cmdOf, execs, task, budget.cuts>>
        BY <2>3, OtherKeeps DEF cells
      <3>2. \A u \in Tasks : CallOf(u)' = CallOf(u)
        BY <3>1 DEF CallOf, Waiting, Expects, CmdAt
      <3>3. QED
        BY <3>1, <3>2, StutterStep
    <2>4. QED
      BY <2>1, <2>2, <2>3, GreenletImplements, NextCases
  <1>4. TypeOK /\ GoodWasExecuted /\ [Next]_vars => GoodWasExecuted'
    BY GoodWasExecutedStep
  <1>5. QED
    BY <1>1, <1>2, <1>3, <1>4, TypeCorrect, MailboxCorrect, PTL
       DEF Spec, ImplementsChannel, Channel!Spec

=============================================================================
