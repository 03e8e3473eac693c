--------------------------- MODULE IfsLinkProofs ---------------------------
(* Theorems about the mailbox of zmod_ifs.py, for every set of greenlets   *)
(* and every bound on commands, faults, cut answers and crashes.           *)
EXTENDS IfsLink, TLAPS

USE DEF AnswerNumber, SlotOnAnswer, CallsOnSilence

----------------------------------------------------------------------------
(* Type correctness.                                                       *)

\* Taking a number and overwriting the slot keeps the types.
LEMMA SendType ==
  ASSUME TypeOK, NEW t \in Tasks, NEW c \in Cmds, NEW rec \in BOOLEAN,
         NEW rest \in {<<>>, <<"F18">>, Recovery}, Send(t, c, rest, rec)
  PROVE  /\ slot' \in Frames /\ cid' \in Frames /\ cmdOf' \in [Ids -> Cmds]
         /\ retId' \in Frames /\ retData' \in Line
         /\ task' \in [Tasks -> TaskState]
  <1>1. cid + 1 \in Ids /\ cid + 1 \in Frames
    BY BoundsAssumption DEF TypeOK, Send, Ids, Frames
  <1>2. 0 \in 0..TimeoutRounds /\ NoLine \in Line
    BY TimeoutAssumption, BoundsAssumption DEF NoLine, Line, Frames
  <1>3. task' \in [Tasks -> TaskState]
    BY <1>1, <1>2 DEF TypeOK, Send, TaskState
  <1>4. QED
    BY <1>1, <1>3 DEF TypeOK, Send

\* A wait that ends keeps the types.
LEMMA LeaveType ==
  ASSUME TypeOK, NEW t \in Tasks, NEW line \in Line, NEW o \in Outcomes,
         Leave(t, o, line)
  PROVE  task' \in [Tasks -> TaskState]
  <1>1. 0 \in 0..TimeoutRounds
    BY TimeoutAssumption
  <1>2. QED
    BY <1>1 DEF TypeOK, Leave, TaskState

\* A wait that goes on inside its call keeps the types.
LEMMA EnterType ==
  ASSUME TypeOK, NEW t \in Tasks, NEW pc \in {"fetch", "recover"},
         NEW rest \in {<<>>, <<"F18">>, Recovery}, Enter(t, pc, rest)
  PROVE  task' \in [Tasks -> TaskState]
  <1>1. 0 \in 0..TimeoutRounds /\ NoLine \in Line
    BY TimeoutAssumption, BoundsAssumption DEF NoLine, Line, Frames
  <1>2. QED
    BY <1>1 DEF TypeOK, Enter, TaskState

\* The end of a round keeps the types of the waits.
LEMMA AgedType == TypeOK => Aged \in [Tasks -> TaskState]
  <1> SUFFICES ASSUME TypeOK, NEW t \in Tasks
               PROVE  (IF Waiting(t) /\ task[t].age < TimeoutRounds
                         THEN [task[t] EXCEPT !.age = @ + 1]
                         ELSE task[t]) \in TaskState
    BY DEF Aged
  <1>1. task[t] \in TaskState
    BY DEF TypeOK
  <1>2. ASSUME task[t].age < TimeoutRounds
        PROVE  task[t].age + 1 \in 0..TimeoutRounds
    BY <1>1, <1>2, TimeoutAssumption DEF TaskState
  <1>3. ASSUME task[t].age < TimeoutRounds
        PROVE  [task[t] EXCEPT !.age = @ + 1] \in TaskState
    BY <1>1, <1>2, <1>3 DEF TaskState
  <1>4. QED
    BY <1>1, <1>3

\* The empty answer is a line.
LEMMA NoLineType == NoLine \in Line
  BY BoundsAssumption DEF NoLine, Line, Frames

\* No step of send_command_and_wait leaves the types.
LEMMA GreenletType ==
  ASSUME TypeOK, NEW t \in Tasks, Greenlet(t)
  PROVE  TypeOK'
  <1>1. CASE Issue(t)
    <2>1. PICK c \in Cmds : Send(t, c, <<>>, FALSE)
      BY <1>1 DEF Issue
    <2>2. QED
      BY <1>1, <2>1, SendType DEF Issue, TypeOK, thread, feeder
  <1>2. CASE Refuse(t)
    BY <1>2 DEF Refuse, TypeOK, cells, thread, feeder
  <1>3. CASE WaitExtruder(t)
    BY <1>3, LeaveType, NoLineType
       DEF WaitExtruder, TypeOK, cells, thread, feeder, Outcomes
  <1>4. CASE PollMiss(t)
    BY <1>4, BoundsAssumption DEF PollMiss, TypeOK, thread, feeder, Frames
  <1>5. CASE WaitStopped(t)
    BY <1>5, LeaveType, NoLineType
       DEF WaitStopped, TypeOK, cells, thread, feeder, Outcomes
  <1>6. CASE PollMatch(t)
    <2>1. task' \in [Tasks -> TaskState]
      <3>0. task[t].todo \in {<<>>, <<"F18">>, Recovery}
        BY DEF TypeOK, TaskState
      <3>1. CASE Enter(t, "fetch", task[t].todo)
        BY <3>0, <3>1, EnterType
      <3>2. CASE Enter(t, "recover", task[t].todo)
        BY <3>0, <3>2, EnterType
      <3>3. CASE Leave(t, "answer", retData) \/ Leave(t, "mismatch", retData)
        BY <3>3, LeaveType DEF TypeOK, Outcomes
      <3>4. QED
        BY <1>6, <3>1, <3>2, <3>3 DEF PollMatch
    <2>2. QED
      BY <1>6, <2>1, BoundsAssumption DEF PollMatch, TypeOK, thread, feeder, Frames
  <1>7. CASE Fetch(t)
    <2>1. task' \in [Tasks -> TaskState]
      BY <1>7, LeaveType DEF Fetch, TypeOK, Outcomes
    <2>2. QED
      BY <1>7, <2>1 DEF Fetch, TypeOK, cells, thread, feeder
  <1>8. CASE Timeout(t)
    <2>1. task' \in [Tasks -> TaskState]
      BY <1>8, EnterType DEF Timeout
    <2>2. QED
      BY <1>8, <2>1, BoundsAssumption DEF Timeout, TypeOK, thread, feeder, Frames
  <1>9. CASE Recover(t)
    <2>1. task[t].todo \in {<<>>, <<"F18">>, Recovery}
      BY DEF TypeOK, TaskState
    <2> DEFINE todo == task[t].todo
    <2>0. todo # <<>> => /\ Head(todo) \in {"F112", "F18"}
                         /\ Tail(todo) \in {<<>>, <<"F18">>}
      BY <2>1, Head(<<"F18">>) = "F18", Head(Recovery) = "F112",
         Tail(<<"F18">>) = <<>>, Tail(Recovery) = <<"F18">> DEF Recovery
    <2>2. CASE /\ task[t].todo # <<>> /\ ifs
               /\ Send(t, Head(task[t].todo), Tail(task[t].todo), TRUE)
               /\ UNCHANGED ffm
      <3>1. /\ Head(task[t].todo) \in {"F112", "F18"}
            /\ Tail(task[t].todo) \in {<<>>, <<"F18">>}
        BY <2>0, <2>2
      <3>2. Head(task[t].todo) \in Cmds
        BY <3>1, CmdsAssumption
      <3>3. QED
        BY <1>9, <2>2, <3>1, <3>2, SendType DEF Recover, TypeOK, thread, feeder
    <2>3. CASE /\ task[t].todo # <<>> /\ ~ifs
               /\ Enter(t, "recover", Tail(task[t].todo))
               /\ ffm' = FALSE
               /\ UNCHANGED cells
      <3>1. Tail(task[t].todo) \in {<<>>, <<"F18">>}
        BY <2>0, <2>3
      <3>2. task' \in [Tasks -> TaskState]
        BY <2>3, <3>1, EnterType
      <3>3. QED
        BY <1>9, <2>3, <3>2 DEF Recover, TypeOK, cells, thread, feeder
    <2>4. CASE /\ task[t].todo = <<>>
               /\ Leave(t, "timeout", NoLine)
               /\ UNCHANGED <<cells, ffm>>
      <3>1. task' \in [Tasks -> TaskState]
        BY <2>4, LeaveType, NoLineType DEF Outcomes
      <3>2. QED
        BY <1>9, <2>4, <3>1 DEF Recover, TypeOK, cells, thread, feeder
    <2>5. QED
      BY <1>9, <2>2, <2>3, <2>4 DEF Recover
  <1>10. QED
    BY <1>1, <1>2, <1>3, <1>4, <1>5, <1>6, <1>7, <1>8, <1>9 DEF Greenlet, Poll

\* What the feeder puts into the input buffer are lines.
LEMMA RxType ==
  ASSUME TypeOK, NEW g \in BOOLEAN
  PROVE  /\ Append(rx, [frame |-> cur, good |-> g]) \in Seq(Line)
         /\ rx \o <<[frame |-> cur, good |-> g], [frame |-> cur, good |-> g]>> \in Seq(Line)
  <1>1. rx \in Seq(Line) /\ [frame |-> cur, good |-> g] \in Line
    BY DEF TypeOK, Line
  <1>2. <<[frame |-> cur, good |-> g], [frame |-> cur, good |-> g]>> \in Seq(Line)
    BY <1>1
  <1>3. QED
    BY <1>1, <1>2

\* Sending a frame keeps the types, however the feeder reacts.
LEMMA WriteType ==
  ASSUME TypeOK, Write
  PROVE  TypeOK'
  <1>1. Executed => execs' \in [Ids -> Nat]
    <2>1. cur # 0 => cur \in Ids /\ execs[cur] + 1 \in Nat
      BY BoundsAssumption DEF TypeOK, Ids, Frames
    <2>2. QED
      BY <2>1 DEF Executed, TypeOK
  <1>2. Faulty => budget' \in [faults : 0..MaxFaults, cuts : 0..MaxExtra, crashes : 0..MaxCrash]
    <2>1. Faulty => budget.faults + 1 \in 0..MaxFaults
      BY BoundsAssumption DEF Faulty, TypeOK
    <2>2. QED
      BY <2>1 DEF Faulty, TypeOK
  <1>3. budget.cuts < MaxExtra => [budget EXCEPT !.cuts = @ + 1]
          \in [faults : 0..MaxFaults, cuts : 0..MaxExtra, crashes : 0..MaxCrash]
    <2>1. budget.cuts < MaxExtra => budget.cuts + 1 \in 0..MaxExtra
      BY BoundsAssumption DEF TypeOK
    <2>2. QED
      BY <2>1 DEF TypeOK
  <1>4. /\ execs' \in [Ids -> Nat]
        /\ budget' \in [faults : 0..MaxFaults, cuts : 0..MaxExtra, crashes : 0..MaxCrash]
        /\ rx' \in Seq(Line)
    <2>0. rx \in Seq(Line) /\ execs \in [Ids -> Nat]
          /\ budget \in [faults : 0..MaxFaults, cuts : 0..MaxExtra, crashes : 0..MaxCrash]
      BY DEF TypeOK
    <2>1. CASE /\ Executed /\ UNCHANGED budget
               /\ rx' = Append(rx, [frame |-> cur, good |-> TRUE])
      BY <1>1, <2>0, <2>1, RxType
    <2>2. CASE Faulty /\ Executed /\ UNCHANGED rx
      BY <1>1, <1>2, <2>0, <2>2
    <2>3. CASE Faulty /\ UNCHANGED <<execs, rx>>
      BY <1>2, <2>0, <2>3
    <2>4. CASE /\ Faulty /\ UNCHANGED execs
               /\ rx' = Append(rx, [frame |-> cur, good |-> FALSE])
      BY <1>2, <2>0, <2>4, RxType
    <2>5. CASE /\ budget.cuts < MaxExtra
               /\ budget' = [budget EXCEPT !.cuts = @ + 1]
               /\ Executed
               /\ rx' = rx \o <<[frame |-> cur, good |-> FALSE], [frame |-> cur, good |-> FALSE]>>
      BY <1>1, <1>3, <2>0, <2>5, RxType
    <2>6. QED
      BY <2>1, <2>2, <2>3, <2>4, <2>5 DEF Write
  <1>5. QED
    BY <1>4 DEF Write, TypeOK, cells

\* A step of _sensor_reader, or the exception that ends one.
RoundStep == ReaderStep \/ PortFails

\* What is said about a fault is one more.
LEMMA FaultyType ==
  ASSUME TypeOK, Faulty
  PROVE  /\ budget' \in [faults : 0..MaxFaults, cuts : 0..MaxExtra, crashes : 0..MaxCrash]
         /\ budget'.faults = budget.faults + 1 /\ budget'.cuts = budget.cuts
  <1>1. budget.faults + 1 \in 0..MaxFaults
    BY BoundsAssumption DEF Faulty, TypeOK
  <1>2. QED
    BY <1>1 DEF Faulty, TypeOK

\* No step of _sensor_reader leaves the types.
LEMMA ReaderType ==
  ASSUME TypeOK, RoundStep
  PROVE  TypeOK'
  <1>0. 0 \in Frames
    BY BoundsAssumption DEF Frames
  <1>1. CASE Open
    <2>1. <<>> \in Seq(Line)
      OBVIOUS
    <2>2. QED
      BY <1>1, <2>1 DEF Open, TypeOK, cells, feeder
  <1>2. CASE Exit
    BY <1>2 DEF Exit, TypeOK, cells, feeder
  <1>3. CASE Take
    BY <1>3 DEF Take, TypeOK, cells, feeder
  <1>4. CASE Write
    BY <1>4, WriteType
  <1>5. CASE ReadEmpty
    BY <1>0, <1>5, AgedType DEF ReadEmpty, TypeOK, cells, feeder
  <1>6. CASE ReadLine
    <2>2. rx' \in Seq(Line) /\ task' \in [Tasks -> TaskState]
      <3>1. rx \in Seq(Line) /\ rx # <<>> => Tail(rx) \in Seq(Line)
        OBVIOUS
      <3>2. rx \in Seq(Line) /\ task \in [Tasks -> TaskState] /\ rx # <<>>
        BY <1>6 DEF ReadLine, TypeOK
      <3>3. \/ rx' = Tail(rx) /\ task' = Aged
            \/ rx' = rx /\ task' = task
        BY <1>6 DEF ReadLine
      <3>4. QED
        BY <3>1, <3>2, <3>3, AgedType
    <2>3. QED
      BY <1>6, <2>2 DEF ReadLine, TypeOK, cells, feeder
  <1>7. CASE Store
    <2>1. Head(rx) \in Line /\ Tail(rx) \in Seq(Line)
      BY <1>7 DEF TypeOK, Store
    <2>2. QED
      BY <1>0, <1>7, <2>1, AgedType DEF Store, TypeOK, feeder
  <1>8. CASE Lose \/ Find
    <2>1. calls' = Append(calls, "OFF") \/ calls' = Append(calls, "ON")
      BY <1>8 DEF Lose, Find
    <2>2. calls' \in Seq({"ON", "OFF"})
      <3>1. calls \in Seq({"ON", "OFF"})
        BY DEF TypeOK
      <3>2. QED
        BY <2>1, <3>1
    <2>3. /\ UNCHANGED <<cells, task, stop, cur, rx, ifs, ffm, feeder>>
          /\ reader' \in {"lost", "found"}
      BY <1>8 DEF Lose, Find
    <2>4. QED
      BY <2>2, <2>3 DEF TypeOK, cells, feeder
  <1>9. CASE PortFails
    BY <1>0, <1>9, AgedType, FaultyType DEF PortFails, TypeOK, cells
  <1>10. QED
    BY <1>1, <1>2, <1>3, <1>4, <1>5, <1>6, <1>7, <1>8, <1>9 DEF RoundStep, ReaderStep

\* Every variable keeps its type, and no number goes beyond _command_id's range.
THEOREM TypeCorrect == Spec => []TypeOK
  <1>1. Init => TypeOK
    <2> SUFFICES ASSUME Init PROVE TypeOK
      OBVIOUS
    <2>1. 0 \in Frames /\ 0 \in 0..TimeoutRounds /\ "F13" \in Cmds
      BY BoundsAssumption, TimeoutAssumption, CmdsAssumption DEF Frames
    <2>2. [pc |-> "idle", id |-> 0, todo |-> <<>>, rec |-> FALSE, age |-> 0,
           got |-> NoLine] \in TaskState
      BY <2>1, NoLineType DEF TaskState
    <2>3. [faults |-> 0, cuts |-> 0, crashes |-> 0]
            \in [faults : 0..MaxFaults, cuts : 0..MaxExtra, crashes : 0..MaxCrash]
      BY BoundsAssumption
    <2>4. <<>> \in Seq(Line) /\ <<>> \in Seq({"ON", "OFF"})
      OBVIOUS
    <2>5. QED
      BY <2>1, <2>2, <2>3, <2>4, NoLineType DEF Init, TypeOK
  <1>2. TypeOK /\ [Next]_vars => TypeOK'
    <2> SUFFICES ASSUME TypeOK, [Next]_vars PROVE TypeOK'
      OBVIOUS
    <2>1. CASE \E t \in Tasks : Greenlet(t)
      BY <2>1, GreenletType
    <2>2. CASE RoundStep
      BY <2>2, ReaderType
    <2>3. CASE Die
      <3>1. budget.crashes + 1 \in 0..MaxCrash
        BY <2>3, BoundsAssumption DEF Die, TypeOK
      <3>2. budget' \in [faults : 0..MaxFaults, cuts : 0..MaxExtra, crashes : 0..MaxCrash]
        BY <2>3, <3>1 DEF Die, TypeOK
      <3>3. QED
        BY <2>3, <3>2 DEF Die, TypeOK, cells
    <2>4. CASE RunCallback
      <3>1. calls' \in Seq({"ON", "OFF"}) /\ ffm' \in BOOLEAN
        BY <2>4 DEF RunCallback, TypeOK
      <3>2. QED
        BY <2>4, <3>1 DEF RunCallback, TypeOK, cells, feeder
    <2>5. CASE Close \/ SwitchFfm
      BY <2>5 DEF Close, SwitchFfm, TypeOK, cells, thread, feeder
    <2>6. CASE UNCHANGED vars
      BY <2>6 DEF vars, cells, thread, feeder, TypeOK
    <2>7. QED
      BY <2>1, <2>2, <2>3, <2>4, <2>5, <2>6 DEF Next, RoundStep
  <1>3. QED
    BY <1>1, <1>2, PTL DEF Spec

----------------------------------------------------------------------------
(* What the steps do to the tasks.                                         *)

Delivery == {"fetch", "answer", "mismatch"}

\* A round's end only ages the waits.
LEMMA AgedKeeps ==
  ASSUME TypeOK, task' = Aged
  PROVE  \A u \in Tasks : /\ task'[u].pc = task[u].pc /\ task'[u].id = task[u].id
                          /\ task'[u].got = task[u].got
  <1> SUFFICES ASSUME NEW u \in Tasks
               PROVE  /\ task'[u].pc = task[u].pc /\ task'[u].id = task[u].id
                      /\ task'[u].got = task[u].got
    OBVIOUS
  <1>1. task[u] \in TaskState
    BY DEF TypeOK
  <1>2. task'[u] = IF Waiting(u) /\ task[u].age < TimeoutRounds
                     THEN [task[u] EXCEPT !.age = @ + 1] ELSE task[u]
    BY DEF Aged
  <1>3. QED
    BY <1>1, <1>2 DEF TaskState

\* The reader moves no greenlet and gives out no number.
LEMMA ReaderKeepsTasks ==
  ASSUME TypeOK, RoundStep
  PROVE  \A u \in Tasks : /\ task'[u].pc = task[u].pc /\ task'[u].id = task[u].id
                          /\ task'[u].got = task[u].got
  <1>1. task' = Aged \/ task' = task
    BY DEF RoundStep, ReaderStep, Open, Exit, Take, Write, Lose, ReadEmpty, Find, ReadLine, Store, PortFails
  <1>2. QED
    BY <1>1, AgedKeeps

\* A greenlet's step sends, or delivers, or ends otherwise; the others stay.
Sends(t) ==
  /\ cid' = cid + 1 /\ slot' = cid + 1 /\ retId' = retId /\ cid + 1 \in Ids
  /\ task'[t].pc = "wait" /\ task'[t].id = cid + 1
  /\ \A i \in 1..cid : cmdOf'[i] = cmdOf[i]

Matches(t) ==
  /\ Waiting(t) /\ retId = task[t].id /\ retId' = 0
  /\ UNCHANGED <<cid, slot, cmdOf>> /\ task'[t].id = task[t].id
  /\ \/ task'[t].pc = "recover"
     \/ task'[t].pc = "fetch" /\ ~Expects(task[t].id)
     \/ Expects(task[t].id) /\ task'[t].pc \in {"answer", "mismatch"}
        /\ task'[t].got = retData

Fetches(t) ==
  /\ task[t].pc = "fetch" /\ task'[t].pc = "answer" /\ task'[t].id = task[t].id
  /\ task'[t].got = retData
  /\ UNCHANGED <<cid, slot, cmdOf, retId>>

Passes(t) ==
  /\ UNCHANGED <<cid, slot, cmdOf>> /\ retId' \in {0, retId}
  /\ \/ task'[t] = task[t]
     \/ /\ task[t].pc \in {"wait", "recover"} /\ task'[t].id = task[t].id
        /\ task'[t].pc \in {"recover", "none", "timeout", "stopped"}

\* What taking a number does to the slot, the numbers and the waits.
LEMMA SendEffect ==
  ASSUME TypeOK, NEW t \in Tasks, NEW c \in Cmds, NEW rec, NEW rest, Send(t, c, rest, rec)
  PROVE  /\ Sends(t) /\ UNCHANGED retData
         /\ \A u \in Tasks \ {t} : task'[u] = task[u]
  BY BoundsAssumption DEF TypeOK, Send, Sends, Ids, Frames

\* What one step of a greenlet can do to its own wait and to the mailbox.
LEMMA GreenletEffect ==
  ASSUME TypeOK, NEW t \in Tasks, Greenlet(t)
  PROVE  /\ UNCHANGED <<reader, cur, rx, execs, budget, retData>>
         /\ \A u \in Tasks \ {t} : task'[u] = task[u]
         /\ Sends(t) \/ Matches(t) \/ Fetches(t) \/ Passes(t)
  <1>0. task \in [Tasks -> TaskState]
    BY DEF TypeOK
  <1>1. CASE Issue(t)
    BY <1>1, SendEffect DEF Issue, thread, feeder
  <1>2. CASE Refuse(t)
    BY <1>2 DEF Refuse, cells, thread, feeder, Passes
  <1>3. CASE WaitExtruder(t)
    BY <1>0, <1>3 DEF WaitExtruder, cells, thread, feeder, Passes, Leave, Waiting
  <1>4. CASE PollMiss(t)
    BY <1>4 DEF PollMiss, thread, feeder, Passes
  <1>5. CASE WaitStopped(t)
    BY <1>0, <1>5 DEF WaitStopped, cells, thread, feeder, Passes, Leave, Waiting
  <1>6. CASE PollMatch(t)
    <2>1. Matches(t) /\ \A u \in Tasks \ {t} : task'[u] = task[u]
      BY <1>0, <1>6 DEF PollMatch, Matches, Leave, Enter
    <2>2. QED
      BY <1>6, <2>1 DEF PollMatch, thread, feeder
  <1>7. CASE Fetch(t)
    BY <1>0, <1>7 DEF Fetch, cells, thread, feeder, Fetches, Leave
  <1>8. CASE Timeout(t)
    BY <1>0, <1>8 DEF Timeout, thread, feeder, Passes, Enter, Waiting
  <1>9. CASE Recover(t)
    <2>1. ASSUME task[t].todo # <<>>, ifs,
                 Send(t, Head(task[t].todo), Tail(task[t].todo), TRUE)
          PROVE  Sends(t) /\ UNCHANGED retData /\ \A u \in Tasks \ {t} : task'[u] = task[u]
      BY <1>0, <2>1, BoundsAssumption DEF TypeOK, Send, Sends, Ids, Frames
    <2>2. ASSUME \/ Enter(t, "recover", Tail(task[t].todo))
                 \/ Leave(t, "timeout", NoLine),
                 UNCHANGED cells
          PROVE  Passes(t) /\ UNCHANGED retData /\ \A u \in Tasks \ {t} : task'[u] = task[u]
      BY <1>0, <1>9, <2>2 DEF Recover, Enter, Leave, Passes, cells
    <2>3. QED
      BY <1>9, <2>1, <2>2 DEF Recover, thread, feeder
  <1>10. QED
    BY <1>1, <1>2, <1>3, <1>4, <1>5, <1>6, <1>7, <1>8, <1>9 DEF Greenlet, Poll

----------------------------------------------------------------------------
(* MailboxInv is inductive: one lemma per conjunct.                        *)

\* The steps that are neither a greenlet's nor the reader's.
Other == Die \/ RunCallback \/ SwitchFfm \/ Close \/ UNCHANGED vars

\* The remaining steps leave mailbox, waits and frame alone.
LEMMA OtherKeeps ==
  ASSUME Other
  PROVE  /\ UNCHANGED <<cells, task, cur, rx, execs, budget.cuts>>
         /\ reader' \in {reader, "dead"}
  <1>1. CASE Die
    BY <1>1 DEF Die
  <1>2. QED
    BY <1>1 DEF Other, RunCallback, SwitchFfm, Close, vars, thread, feeder

\* A step is a greenlet's, the reader's or one of the others.
LEMMA NextCases ==
  [Next]_vars <=> (\E t \in Tasks : Greenlet(t)) \/ RoundStep \/ Other
  BY DEF Next, Other, RoundStep

\* The number ranges the arithmetic below needs.
LEMMA TypeFacts ==
  ASSUME TypeOK
  PROVE  /\ cid \in Nat /\ slot \in Nat /\ retId \in Nat /\ cur \in Nat
         /\ \A t \in Tasks : task[t].id \in Nat /\ (task[t].id # 0 => task[t].id \in Ids)
         /\ \A i \in Ids : i \in Nat \ {0}
  BY BoundsAssumption DEF TypeOK, TaskState, Frames, Ids

\* Nothing newer than the last number appears anywhere.
LEMMA NumbersStep ==
  ASSUME TypeOK, NumbersIssued, [Next]_vars
  PROVE  NumbersIssued'
  <1> USE TypeFacts
  <1>1. ASSUME NEW t \in Tasks, Greenlet(t)
        PROVE  NumbersIssued'
    <2>1. /\ cur' = cur
          /\ \A u \in Tasks \ {t} : task'[u] = task[u]
          /\ Sends(t) \/ Matches(t) \/ Fetches(t) \/ Passes(t)
      BY <1>1, GreenletEffect
    <2>2. CASE Sends(t)
      <3>1. \A i \in 0..cid : Expects(i)' = Expects(i)
        BY <2>2 DEF Sends, Expects, CmdAt
      <3>2. QED
        BY <2>1, <2>2, <3>1 DEF NumbersIssued, Sends
    <2>3. CASE Matches(t) \/ Fetches(t) \/ Passes(t)
      <3>1. \A i : Expects(i)' = Expects(i)
        BY <2>3 DEF Matches, Fetches, Passes, Expects, CmdAt
      <3>2. /\ cid' = cid /\ slot' = slot /\ retId' \in {0, retId}
        BY <2>3 DEF Matches, Fetches, Passes
      <3>3. /\ task'[t].id = task[t].id
            /\ task'[t].pc # "idle" => task[t].id # 0
            /\ task'[t].pc = "fetch" => ~Expects(task[t].id)
        BY <2>3 DEF Matches, Fetches, Passes, NumbersIssued, Waiting
      <3>4. QED
        BY <2>1, <3>1, <3>2, <3>3 DEF NumbersIssued
    <2>4. QED
      BY <2>1, <2>2, <2>3
  <1>2. CASE RoundStep
    <2>1. \A u \in Tasks : task'[u].pc = task[u].pc /\ task'[u].id = task[u].id
      BY <1>2, ReaderKeepsTasks
    <2>2. /\ cid' = cid /\ cmdOf' = cmdOf
          /\ slot' \in {0, slot} /\ retId' \in {cur, retId} /\ cur' \in {0, slot, cur}
      BY <1>2 DEF RoundStep, ReaderStep, Open, Exit, Take, Write, Lose, ReadEmpty, Find, ReadLine,
             Store, PortFails, cells
    <2>3. \A i : Expects(i)' = Expects(i)
      BY <2>2 DEF Expects, CmdAt
    <2>4. QED
      BY <2>1, <2>2, <2>3 DEF NumbersIssued
  <1>3. CASE Other
    BY <1>3, OtherKeeps DEF NumbersIssued, cells, Expects, CmdAt
  <1>4. QED
    BY <1>1, <1>2, <1>3, NextCases

\* A frame's answer reaches the input buffer whole, cut or not at all.
LEMMA WriteEffect ==
  ASSUME TypeOK, Write
  PROVE  /\ budget.cuts \in Nat
         /\ \/ /\ budget'.cuts = budget.cuts
               /\ rx' = rx \/ \E b \in BOOLEAN : rx' = Append(rx, [frame |-> cur, good |-> b])
            \/ budget'.cuts = budget.cuts + 1
  <1>1. budget.cuts \in Nat
    BY BoundsAssumption DEF TypeOK
  <1>2. CASE UNCHANGED budget /\ rx' = Append(rx, [frame |-> cur, good |-> TRUE])
    BY <1>1, <1>2
  <1>3. CASE Faulty /\ (rx' = rx \/ rx' = Append(rx, [frame |-> cur, good |-> FALSE]))
    <2>1. budget'.cuts = budget.cuts
      BY <1>3 DEF Faulty, TypeOK
    <2>2. QED
      BY <1>1, <1>3, <2>1
  <1>4. CASE budget' = [budget EXCEPT !.cuts = @ + 1]
    <2>1. budget'.cuts = budget.cuts + 1
      BY <1>4 DEF TypeOK
    <2>2. QED
      BY <1>1, <2>1
  <1>5. QED
    BY <1>2, <1>3, <1>4 DEF Write

\* The input buffer and the answer cell stay in step with the frame.
LEMMA LinesStep ==
  ASSUME TypeOK, LinesInStep, [Next]_vars
  PROVE  LinesInStep'
  <1>1. ASSUME NEW t \in Tasks, Greenlet(t)
        PROVE  LinesInStep'
    <2>1. /\ UNCHANGED <<reader, cur, rx, budget, retData>>
          /\ retId' \in {0, retId}
      BY <1>1, GreenletEffect DEF Sends, Matches, Fetches, Passes
    <2>2. QED
      BY <2>1 DEF LinesInStep
  <1>2. CASE RoundStep
    <2>1. CASE Open \/ Exit \/ Take \/ ReadEmpty \/ Lose \/ Find
      BY <2>1 DEF LinesInStep, Open, Exit, Take, ReadEmpty, Lose, Find, cells, feeder
    <2>6. CASE PortFails
      BY <2>6, FaultyType DEF LinesInStep, PortFails, cells
    <2>2. CASE Write
      <3> SUFFICES ASSUME budget'.cuts = 0
                   PROVE  /\ rx' = <<>> \/ \E b \in BOOLEAN : rx' = <<[frame |-> cur, good |-> b]>>
                          /\ retId # 0 => retData.frame = retId
        BY <2>2 DEF LinesInStep, Write, cells
      <3>1. /\ budget.cuts = 0
            /\ rx' = rx \/ \E b \in BOOLEAN : rx' = Append(rx, [frame |-> cur, good |-> b])
        <4>1. budget.cuts \in Nat /\ budget'.cuts # budget.cuts + 1
          BY <2>2, WriteEffect
        <4>2. /\ budget'.cuts = budget.cuts
              /\ rx' = rx \/ \E b \in BOOLEAN : rx' = Append(rx, [frame |-> cur, good |-> b])
          BY <2>2, <4>1, WriteEffect
        <4>3. QED
          BY <4>2
      <3>2. rx = <<>> /\ (retId # 0 => retData.frame = retId)
        BY <2>2, <3>1 DEF Write, LinesInStep
      <3>3. \A b \in BOOLEAN : Append(rx, [frame |-> cur, good |-> b]) = <<[frame |-> cur, good |-> b]>>
        BY <3>2
      <3>4. QED
        BY <3>1, <3>2, <3>3
    <2>3. CASE ReadLine
      <3> SUFFICES ASSUME budget.cuts = 0 PROVE LinesInStep'
        BY <2>3 DEF ReadLine, LinesInStep, feeder
      <3>1. PICK b \in BOOLEAN : rx = <<[frame |-> cur, good |-> b]>>
        BY <2>3 DEF ReadLine, LinesInStep
      <3>2. Tail(rx) = <<>>
        BY <3>1
      <3>3. QED
        BY <2>3, <3>1, <3>2 DEF ReadLine, LinesInStep, cells, feeder
    <2>4. CASE Store
      <3> SUFFICES ASSUME budget.cuts = 0 PROVE LinesInStep'
        BY <2>4 DEF Store, LinesInStep, feeder
      <3>1. PICK b \in BOOLEAN : rx = <<[frame |-> cur, good |-> b]>>
        BY <2>4 DEF Store, LinesInStep
      <3>2. Tail(rx) = <<>> /\ Head(rx) = [frame |-> cur, good |-> b]
        BY <3>1
      <3>3. QED
        BY <2>4, <3>2 DEF Store, LinesInStep
    <2>5. QED
      BY <1>2, <2>1, <2>2, <2>3, <2>4, <2>6 DEF RoundStep, ReaderStep
  <1>3. CASE Other
    BY <1>3, OtherKeeps DEF LinesInStep, cells
  <1>4. QED
    BY <1>1, <1>2, <1>3, NextCases

\* Nothing newer than the frame about to go out was executed.
LEMMA ExecutedStep ==
  ASSUME TypeOK, NumbersIssued, ExecutedSoFar, [Next]_vars
  PROVE  ExecutedSoFar'
  <1> USE TypeFacts
  <1>1. ASSUME NEW t \in Tasks, Greenlet(t)
        PROVE  ExecutedSoFar'
    <2>1. UNCHANGED <<reader, cur, execs>> /\ cid' \in {cid, cid + 1}
      BY <1>1, GreenletEffect DEF Sends, Matches, Fetches, Passes
    <2>2. QED
      BY <2>1 DEF ExecutedSoFar
  <1>2. CASE RoundStep
    <2>1. CASE Take
      BY <2>1 DEF ExecutedSoFar, Take, cells, feeder, NumbersIssued
    <2>2. CASE Write
      <3>1. \A j \in Ids : execs'[j] > 0 => execs[j] > 0 \/ j = cur
        BY <2>2 DEF Write, Executed, TypeOK
      <3>2. reader' = "read" /\ cid' = cid
        BY <2>2 DEF Write, cells
      <3>3. QED
        BY <3>1, <3>2 DEF ExecutedSoFar, NumbersIssued
    <2>3. CASE PortFails \/ Open \/ Exit \/ Lose \/ ReadEmpty \/ Find \/ ReadLine \/ Store
      BY <2>3 DEF ExecutedSoFar, Open, Exit, Lose, ReadEmpty, Find, ReadLine,
             Store, PortFails, cells, feeder
    <2>4. QED
      BY <1>2, <2>1, <2>2, <2>3 DEF RoundStep, ReaderStep
  <1>3. CASE Other
    BY <1>3, OtherKeeps DEF ExecutedSoFar, cells
  <1>4. QED
    BY <1>1, <1>2, <1>3, NextCases

\* A number with a filed or fetched answer is never sent again.
LEMMA DeliveredStep ==
  ASSUME TypeOK, NumbersIssued, DeliveredIsGone, [Next]_vars
  PROVE  DeliveredIsGone'
  <1> USE TypeFacts
  <1> SUFFICES ASSUME NEW i \in Ids, Delivered(i)'
               PROVE  slot' # i /\ ~(reader' = "write" /\ cur' = i)
    BY DEF DeliveredIsGone
  <1>1. ASSUME NEW t \in Tasks, Greenlet(t)
        PROVE  slot' # i /\ ~(reader' = "write" /\ cur' = i)
    <2>1. /\ UNCHANGED <<reader, cur>>
          /\ \A u \in Tasks \ {t} : task'[u] = task[u]
          /\ Sends(t) \/ Matches(t) \/ Fetches(t) \/ Passes(t)
      BY <1>1, GreenletEffect
    <2>2. Delivered(i)
      BY <2>1 DEF Delivered, Sends, Matches, Fetches, Passes
    <2>3. slot' \in {slot, cid + 1} /\ (slot' = cid + 1 => i # cid + 1)
      BY <2>1, <2>2 DEF Sends, Matches, Fetches, Passes, NumbersIssued, Delivered
    <2>4. QED
      BY <2>1, <2>2, <2>3 DEF DeliveredIsGone
  <1>2. CASE RoundStep
    <2>1. \A u \in Tasks : task'[u].pc = task[u].pc /\ task'[u].id = task[u].id
      BY <1>2, ReaderKeepsTasks
    <2>2. CASE Store
      <3>1. Delivered(i) \/ i = cur
        BY <2>1, <2>2 DEF Delivered, Store
      <3>2. QED
        BY <2>2, <3>1 DEF Store, DeliveredIsGone, NumbersIssued
    <2>3. CASE PortFails \/ Open \/ Exit \/ Take \/ Write \/ Lose \/ ReadEmpty \/ Find \/ ReadLine
      <3>1. Delivered(i) /\ slot' = slot
        BY <2>1, <2>3
           DEF Delivered, Open, Exit, Take, Write, Lose, ReadEmpty, Find, ReadLine, PortFails, cells
      <3>2. QED
        BY <2>3, <3>1
           DEF DeliveredIsGone, Open, Exit, Take, Write, Lose, ReadEmpty, Find, ReadLine, PortFails
    <2>4. QED
      BY <1>2, <2>2, <2>3 DEF RoundStep, ReaderStep
  <1>3. CASE Other
    BY <1>3, OtherKeeps DEF DeliveredIsGone, Delivered, cells
  <1>4. QED
    BY <1>1, <1>2, <1>3, NextCases

\* Every step keeps the answers with their commands.
LEMMA OwnAnswerStep ==
  ASSUME TypeOK, NumbersIssued, LinesInStep, OwnAnswer, [Next]_vars
  PROVE  OwnAnswer'
  <1> USE TypeFacts
  <1>1. ASSUME NEW t \in Tasks, Greenlet(t)
        PROVE  OwnAnswer'
    <2> DEFINE Text(n) == IF n = 0 THEN "F13" ELSE cmdOf'[n]
    <2> SUFFICES ASSUME budget'.cuts = 0, NEW u \in Tasks,
                        task'[u].pc = "answer", Text(task'[u].id) # "F13"
                 PROVE  task'[u].got.frame = task'[u].id
      BY DEF OwnAnswer, Expects, CmdAt
    <2>1. /\ budget' = budget
          /\ \A v \in Tasks \ {t} : task'[v] = task[v]
          /\ Sends(t) \/ Matches(t) \/ Fetches(t) \/ Passes(t)
      BY <1>1, GreenletEffect
    <2>3. \A n \in 0..cid : Text(n) = CmdAt(n)
      BY <2>1 DEF Sends, Matches, Fetches, Passes, CmdAt
    <2>4. CASE task'[u] = task[u]
      BY <2>1, <2>3, <2>4 DEF OwnAnswer, NumbersIssued, Expects
    <2>5. CASE u = t /\ task'[u] # task[u]
      <3>1. \/ Expects(task[t].id) /\ retId = task[t].id /\ task'[t].got = retData
               /\ task'[t].id = task[t].id
            \/ task[t].pc = "fetch" /\ task'[t].id = task[t].id
        BY <2>1, <2>5 DEF Sends, Matches, Fetches, Passes
      <3>2. task'[t].id = task[t].id /\ task[t].id \in 0..cid
        BY <3>1 DEF NumbersIssued
      <3>3. Expects(task[t].id)
        BY <2>3, <2>5, <3>2 DEF Expects
      <3>4. task[t].id # 0 /\ task[t].pc # "fetch"
        BY <3>3 DEF Expects, CmdAt, NumbersIssued
      <3>5. QED
        BY <2>1, <2>5, <3>1, <3>2, <3>4 DEF LinesInStep
    <2>6. QED
      BY <2>1, <2>4, <2>5
  <1>2. CASE RoundStep
    <2>1. \A u \in Tasks : /\ task'[u].pc = task[u].pc /\ task'[u].id = task[u].id
                           /\ task'[u].got = task[u].got
      BY <1>2, ReaderKeepsTasks
    <2>2. cmdOf' = cmdOf /\ (budget'.cuts = 0 => budget.cuts = 0)
      <3>1. CASE Write
        <4>1. budget.cuts \in Nat /\ budget'.cuts \in {budget.cuts, budget.cuts + 1}
          BY <3>1, WriteEffect
        <4>2. budget'.cuts = 0 => budget.cuts = 0
          BY <4>1
        <4>3. QED
          BY <3>1, <4>2 DEF Write, cells
      <3>2. CASE Open \/ Exit \/ Take \/ Lose \/ ReadEmpty \/ Find \/ ReadLine \/ Store
        <4>1. cmdOf' = cmdOf /\ budget' = budget
          BY <3>2 DEF Open, Exit, Take, Lose, ReadEmpty, Find, ReadLine, Store, cells, feeder
        <4>2. QED
          BY <4>1
      <3>3. CASE PortFails
        BY <3>3, FaultyType DEF PortFails, cells
      <3>4. QED
        BY <1>2, <3>1, <3>2, <3>3 DEF RoundStep, ReaderStep
    <2>3. QED
      BY <2>1, <2>2 DEF OwnAnswer, Expects, CmdAt
  <1>3. CASE Other
    BY <1>3, OtherKeeps DEF OwnAnswer, Expects, CmdAt, cells
  <1>4. QED
    BY <1>1, <1>2, <1>3, NextCases

\* The mailbox keeps every number, line and slot in step.
THEOREM MailboxCorrect == Spec => []MailboxInv
  <1>1. Init => MailboxInv
    BY DEF Init, MailboxInv, NumbersIssued, LinesInStep, ExecutedSoFar,
           DeliveredIsGone, Delivered, OwnAnswer, NoLine, Ids
  <1>2. TypeOK /\ MailboxInv /\ [Next]_vars => MailboxInv'
    BY NumbersStep, LinesStep, ExecutedStep, DeliveredStep, OwnAnswerStep
       DEF MailboxInv
  <1>3. QED
    BY <1>1, <1>2, TypeCorrect, PTL DEF Spec

\* A command with an expected result returns the feeder's answer to that very
\* command, for any number of greenlets sharing the mailbox and any losses.
THEOREM OwnAnswerHolds == Spec => []OwnAnswer
  <1>1. MailboxInv => OwnAnswer
    BY DEF MailboxInv
  <1>2. QED
    BY <1>1, MailboxCorrect, PTL

\* No step of the feeder but the writing of the current frame executes anything.
LEMMA OnlyWriteExecutes ==
  ASSUME TypeOK, [Next]_vars, NEW i \in Ids, execs'[i] # execs[i]
  PROVE  reader = "write" /\ cur = i
  <1>1. ASSUME NEW t \in Tasks, Greenlet(t) PROVE FALSE
    BY <1>1, GreenletEffect
  <1>2. ~Other
    BY OtherKeeps
  <1>3. Write
    BY <1>1, <1>2, NextCases
       DEF RoundStep, ReaderStep, Open, Exit, Take, Lose, ReadEmpty, Find, ReadLine, Store, PortFails, feeder
  <1>4. QED
    BY <1>3 DEF Write, Executed, TypeOK

\* Nothing issued before a command the feeder has executed is executed after
\* it: no feed starts again behind a stop.
THEOREM ExecutionOrderHolds == Spec => ExecutionOrder
  <1>1. TypeOK /\ MailboxInv /\ [Next]_vars
          => [\A i, j \in Ids : i < j /\ execs[j] > 0 => execs'[i] = execs[i]]_vars
    <2> SUFFICES ASSUME TypeOK, MailboxInv, [Next]_vars, NEW i \in Ids, NEW j \in Ids,
                        i < j, execs[j] > 0, execs'[i] # execs[i]
                 PROVE  FALSE
      OBVIOUS
    <2>1. reader = "write" /\ cur = i
      BY OnlyWriteExecutes
    <2>2. j <= i
      BY <2>1, TypeFacts DEF MailboxInv, ExecutedSoFar
    <2>3. QED
      BY <2>2, TypeFacts
  <1>2. QED
    BY <1>1, TypeCorrect, MailboxCorrect, PTL DEF Spec, ExecutionOrder

\* A command whose answer a greenlet took is never executed again.
THEOREM NoReplayHolds == Spec => NoReplay
  <1>1. TypeOK /\ MailboxInv /\ [Next]_vars
          => [\A t \in Tasks : task[t].pc \in {"fetch", "answer", "mismatch"}
                => execs'[task[t].id] = execs[task[t].id]]_vars
    <2> SUFFICES ASSUME TypeOK, MailboxInv, [Next]_vars, NEW t \in Tasks,
                        task[t].pc \in {"fetch", "answer", "mismatch"},
                        execs'[task[t].id] # execs[task[t].id]
                 PROVE  FALSE
      OBVIOUS
    <2>1. task[t].id \in Ids
      BY TypeFacts DEF MailboxInv, NumbersIssued
    <2>2. reader = "write" /\ cur = task[t].id
      BY <2>1, OnlyWriteExecutes
    <2>3. QED
      BY <2>1, <2>2 DEF MailboxInv, DeliveredIsGone, Delivered
  <1>2. QED
    BY <1>1, TypeCorrect, MailboxCorrect, PTL DEF Spec, NoReplay

=============================================================================
