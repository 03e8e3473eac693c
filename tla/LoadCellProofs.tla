--------------------------- MODULE LoadCellProofs ---------------------------
(* Theorems about flashforge_loadcell.py, for any number of rounds, requests *)
(* on the line, late answers and refusals.                                   *)
EXTENDS LoadCell, SequenceTheorems, TLAPS

USE DEF TimeLeft, Forget, Matches, Keeps, MaySample, None, First

----------------------------------------------------------------------------
(* Type correctness.                                                       *)

\* A completion that is there holds a weight.
TypeInv == TypeOK /\ (got = None \/ got.val \in 0..2)

\* The command that runs, and its completion, as the types have them.
ProcOK == proc \in [what : {"none"} \cup DOMAIN First, round : 0..MaxRounds,
                    end : {"none", "again", "ok", "failed"}]
WaitOK == /\ active \in {"none", "H1", "H2", "H7"}
          /\ got \in [val : -1..2, ok : BOOLEAN, own : BOOLEAN]
          /\ got = None \/ got.val \in 0..2
CellOK == load \in 0..2 /\ zero \in 0..2 /\ last \in 0..2
ControlOK == /\ zcontrol \in BOOLEAN /\ mode \in {"auto", "pause", "abort"}
             /\ act \in {"none", "called", "paused", "shutdown"}
LineOK == line \in Seq(Requests)

\* The types of the model and those of a completion, variable by variable.
LEMMA TypeParts == TypeInv <=> ProcOK /\ WaitOK /\ CellOK /\ ControlOK /\ LineOK
  BY DEF TypeInv, TypeOK, ProcOK, WaitOK, CellOK, ControlOK, LineOK

\* A request whose own is replaced is the request with that own.
LEMMA OwnReplaced ==
  ASSUME NEW c, NEW o, NEW v
  PROVE  [[cmd |-> c, own |-> o] EXCEPT !.own = v] = [cmd |-> c, own |-> v]
  <1> DEFINE r == [[cmd |-> c, own |-> o] EXCEPT !.own = v]
  <1>1. r \in [cmd : {c}, own : {v}]
    OBVIOUS
  <1>2. r = [cmd |-> r.cmd, own |-> r.own]
    BY <1>1
  <1>3. r.cmd = c /\ r.own = v
    OBVIOUS
  <1> HIDE DEF r
  <1>4. r = [cmd |-> c, own |-> v]
    BY <1>2, <1>3
  <1>5. QED
    BY <1>4 DEF r

\* Whoever waited, its requests stay requests.
LEMMA DisownType ==
  ASSUME line \in Seq(Requests)
  PROVE  /\ Disown \in Seq(Requests) /\ Len(Disown) = Len(line)
         /\ \A i \in 1..Len(line) : Disown[i] = [cmd |-> line[i].cmd, own |-> FALSE]
  <1> DEFINE f(i) == [line[i] EXCEPT !.own = FALSE]
  <1>1. Len(line) \in Nat /\ DOMAIN line = 1..Len(line)
    OBVIOUS
  <1>2. ASSUME NEW i \in 1..Len(line)
        PROVE  f(i) \in Requests /\ f(i) = [cmd |-> line[i].cmd, own |-> FALSE]
    <2>1. line[i] \in Requests
      BY <1>2, ElementOfSeq
    <2>2. PICK c \in {"H1", "H2", "H7"}, o \in BOOLEAN : line[i] = [cmd |-> c, own |-> o]
      BY <2>1 DEF Requests
    <2>3. line[i].cmd = c
      BY <2>2
    <2>4. f(i) = [cmd |-> c, own |-> FALSE]
      <3>1. f(i) = [[cmd |-> c, own |-> o] EXCEPT !.own = FALSE]
        BY <2>2
      <3>2. [[cmd |-> c, own |-> o] EXCEPT !.own = FALSE] = [cmd |-> c, own |-> FALSE]
        BY OwnReplaced
      <3> HIDE DEF f
      <3>3. QED
        BY <3>1, <3>2
    <2>5. [cmd |-> c, own |-> FALSE] \in Requests
      BY DEF Requests
    <2> HIDE DEF f
    <2>6. QED
      BY <2>3, <2>4, <2>5
  <1> HIDE DEF f
  <1>3. Disown = [i \in 1..Len(line) |-> f(i)]
    BY <1>1 DEF Disown, f
  <1>4. Disown \in [1..Len(line) -> Requests]
    BY <1>2, <1>3
  <1>5. Disown \in Seq(Requests)
    BY <1>1, <1>4
  <1>6. Len(Disown) = Len(line)
    BY <1>1, <1>3, <1>5, LenProperties
  <1>7. QED
    BY <1>2, <1>3, <1>5, <1>6

\* A request keeps the types.
LEMMA RequestType ==
  ASSUME LineOK, NEW c \in {"H1", "H2", "H7"}, Request(c)
  PROVE  WaitOK' /\ LineOK'
  <1>1. [cmd |-> c, own |-> TRUE] \in Requests
    BY DEF Requests
  <1>2. QED
    BY <1>1, DisownType, AppendProperties DEF Request, WaitOK, LineOK

\* The weights of the cell stay weights.
LEMMA ReadingType == ASSUME CellOK PROVE Reading \in 0..2
  BY DEF CellOK, Reading

\* Nobody waits for anything.
LEMMA NoneType == None \in [val : -1..2, ok : BOOLEAN, own : BOOLEAN]
  OBVIOUS

\* So the wait keeps its types when it is over.
LEMMA NobodyType == ASSUME active' = "none", got' = None PROVE WaitOK'
  BY NoneType DEF WaitOK

\* Leaving _send_and_wait keeps the types.
LEMMA FinishType ==
  ASSUME LineOK, NEW end \in {"ok", "failed"}, Finish(end)
  PROVE  ProcOK' /\ WaitOK' /\ LineOK'
  <1>1. ProcOK'
    BY BoundsAssumption DEF Finish, ProcOK
  <1>2. WaitOK'
    BY NobodyType DEF Finish
  <1>3. LineOK'
    BY DisownType DEF Finish, LineOK
  <1>4. QED
    BY <1>1, <1>2, <1>3

\* Every variable keeps its type, and only weights are stored as last_weight_grams.
LEMMA TypeInvCorrect == Spec => []TypeInv
  <1>1. Init => TypeInv
    <2> SUFFICES ASSUME Init PROVE TypeInv
      OBVIOUS
    <2>1. ProcOK
      BY BoundsAssumption DEF Init, ProcOK
    <2>2. WaitOK
      BY NoneType DEF Init, WaitOK
    <2>3. CellOK /\ ControlOK
      <3>1. CellOK
        BY DEF Init, CellOK
      <3>2. ControlOK
        BY Zenon DEF Init, ControlOK
      <3>3. QED
        BY <3>1, <3>2
    <2>4. LineOK
      BY EmptySeq DEF Init, LineOK
    <2>5. QED
      BY <2>1, <2>2, <2>3, <2>4, TypeParts
  <1>2. TypeInv /\ [act # "shutdown" /\ Next]_vars => TypeInv'
    <2> SUFFICES ASSUME ProcOK, WaitOK, CellOK, ControlOK, LineOK,
                        [act # "shutdown" /\ Next]_vars
                 PROVE  ProcOK' /\ WaitOK' /\ CellOK' /\ ControlOK' /\ LineOK'
      BY TypeParts, PTL
    <2>1. CASE Begin
      <3>1. PICK what \in DOMAIN First :
              /\ proc' = [what |-> what, round |-> 1, end |-> "none"]
              /\ Request(First[what])
        BY <2>1 DEF Begin
      <3>2. ProcOK'
        BY <3>1, BoundsAssumption DEF ProcOK
      <3>3. WaitOK' /\ LineOK'
        BY <3>1, RequestType
      <3>4. QED
        BY <2>1, <3>2, <3>3 DEF Begin, cell, control, CellOK, ControlOK
    <2>2. CASE AfterTare
      <3>1. [cmd |-> "H7", own |-> TRUE] \in Requests
        BY DEF Requests
      <3>2. LineOK'
        BY <2>2, <3>1, DisownType, AppendProperties DEF AfterTare, LineOK
      <3>3. WaitOK' /\ ProcOK'
        BY <2>2 DEF AfterTare, WaitOK, ProcOK
      <3>4. QED
        BY <2>2, <3>2, <3>3 DEF AfterTare, cell, control, CellOK, ControlOK
    <2>3. CASE AfterWeight
      <3>1. CASE Finish("ok")
        BY <3>1, <2>3, FinishType DEF AfterWeight, cell, control, CellOK, ControlOK
      <3>2. CASE proc' = [proc EXCEPT !.end = "again"] /\ active' = "none" /\ got' = None
                 /\ line' = Disown
        <4>1. ProcOK'
          BY <3>2 DEF ProcOK
        <4>2. WaitOK' /\ LineOK'
          BY <3>2, NobodyType, DisownType DEF LineOK
        <4>3. QED
          BY <2>3, <4>1, <4>2 DEF AfterWeight, cell, control, CellOK, ControlOK
      <3>3. QED
        BY <2>3, <3>1, <3>2 DEF AfterWeight
    <2>4. CASE Again
      <3>1. CASE proc.round < MaxRounds /\ proc' = [proc EXCEPT !.round = @ + 1, !.end = "none"]
                 /\ Request("H1")
        <4>1. proc.round + 1 \in 0..MaxRounds
          BY <3>1, BoundsAssumption DEF ProcOK
        <4>2. ProcOK'
          BY <3>1, <4>1 DEF ProcOK
        <4>3. QED
          BY <2>4, <3>1, <4>2, RequestType DEF Again, cell, control, CellOK, ControlOK
      <3>2. CASE Finish("failed")
        BY <2>4, <3>2, FinishType DEF Again, cell, control, CellOK, ControlOK
      <3>3. QED
        BY <2>4, <3>1, <3>2 DEF Again
    <2>5. CASE Answered
      <3>1. got.val \in 0..2
        BY <2>5 DEF Answered, Woken, WaitOK
      <3>2. CellOK'
        BY <2>5, <3>1 DEF Answered, cell, CellOK
      <3>3. QED
        BY <2>5, <3>2, FinishType DEF Answered, control, ControlOK
    <2>6. CASE Refused
      BY <2>6, FinishType DEF Refused, cell, control, CellOK, ControlOK
    <2>7. CASE TimedOut
      BY <2>7, FinishType DEF TimedOut, cell, control, CellOK, ControlOK
    <2>8. CASE Control
      <3>1. zcontrol' \in BOOLEAN /\ mode' \in {"auto", "pause", "abort"} /\ act' = act
        BY <2>8, Zenon DEF Control, ControlOK
      <3>2. QED
        BY <2>8, <3>1 DEF Control, cell, ProcOK, WaitOK, CellOK, ControlOK, LineOK
    <2>9. CASE Press
      BY <2>9 DEF Press, control, ProcOK, WaitOK, CellOK, ControlOK, LineOK
    <2>10. CASE Answer
      <3> DEFINE r == Head(line)
      <3>1. r \in Requests /\ LineOK'
        BY <2>10, HeadTailProperties DEF Answer, LineOK
      <3>2. r.own \in BOOLEAN
        BY <3>1 DEF Requests
      <3>3. PICK ok \in BOOLEAN, to \in {load, zero}, val \in 0..2 :
              /\ zero' = IF r.cmd = "H1" /\ ok THEN to ELSE zero
              /\ got' = IF active = r.cmd /\ got = None
                          THEN [val |-> val, ok |-> ok, own |-> r.own] ELSE got
              /\ last' = IF active # r.cmd /\ r.cmd = "H7" /\ ok THEN val ELSE last
        BY <2>10, ReadingType DEF Answer
      <3>4. CellOK'
        BY <2>10, <3>3 DEF Answer, CellOK
      <3>5. WaitOK'
        <4>1. CASE active = r.cmd /\ got = None
          <5>1. got' = [val |-> val, ok |-> ok, own |-> r.own] /\ active' = active
            BY <2>10, <3>3, <4>1 DEF Answer
          <5>2. got' \in [val : -1..2, ok : BOOLEAN, own : BOOLEAN] /\ got'.val \in 0..2
            BY <5>1, <3>2
          <5>3. QED
            BY <5>1, <5>2 DEF WaitOK
        <4>2. CASE ~(active = r.cmd /\ got = None)
          BY <2>10, <3>3, <4>2 DEF Answer, WaitOK
        <4>3. QED
          BY <4>1, <4>2
      <3>6. QED
        BY <2>10, <3>1, <3>4, <3>5 DEF Answer, control, ProcOK, ControlOK
    <2>11. CASE Sample
      <3>1. [cmd |-> "H7", own |-> FALSE] \in Requests
        BY DEF Requests
      <3>2. LineOK'
        BY <2>11, <3>1, AppendProperties DEF Sample, LineOK
      <3>3. ControlOK'
        BY <2>11 DEF Sample, ControlOK
      <3>4. QED
        BY <2>11, <3>2, <3>3 DEF Sample, cell, ProcOK, WaitOK, CellOK
    <2>12. CASE AsyncPause
      BY <2>12 DEF AsyncPause, cell, ProcOK, WaitOK, CellOK, ControlOK, LineOK
    <2>13. CASE UNCHANGED vars
      BY <2>13 DEF vars, ProcOK, WaitOK, CellOK, ControlOK, LineOK
    <2>14. QED
      BY <2>1, <2>2, <2>3, <2>4, <2>5, <2>6, <2>7, <2>8, <2>9, <2>10, <2>11, <2>12, <2>13
         DEF Next, GCode
  <1>3. QED
    BY <1>1, <1>2, PTL DEF Spec

\* So the types of the model hold.
THEOREM TypeCorrect == Spec => []TypeOK
  <1>1. TypeInv => TypeOK
    BY DEF TypeInv
  <1>2. QED
    BY <1>1, TypeInvCorrect, PTL

----------------------------------------------------------------------------
(* The tare goes by its own answers.                                       *)

\* A H1 is the last request on the line, and the one that is waited for.
H1Last ==
  \A i \in 1..Len(line) :
    line[i].cmd = "H1" => i = Len(line) /\ active = "H1" /\ got = None
\* Who waits for a H1 sent it last, or has the answer to it, and the line is empty.
H1Own ==
  active = "H1" =>
    \/ got = None /\ line # <<>> /\ line[Len(line)] = [cmd |-> "H1", own |-> TRUE]
    \/ got # None /\ got.own /\ line = <<>>
\* The H7 of a tare follows its H1 with nothing in between.
H7Own ==
  proc.what = "tare" /\ active = "H7" =>
    \/ got = None /\ line = <<[cmd |-> "H7", own |-> TRUE]>>
    \/ got # None /\ got.own
\* A tare waits for one of these two, but between its rounds.
TareWaits ==
  /\ proc.what = "tare" => \/ active \in {"H1", "H7"} /\ proc.end # "again"
                           \/ active = "none" /\ proc.end = "again"
  /\ proc.end = "again" => active = "none"

\* A request that was late may be answered to whoever waits then.
TareInv == count.late = 0 => H1Last /\ H1Own /\ H7Own /\ TareWaits

CountOK == count \in [late : Nat, errors : Nat]
NoH1 == \A i \in 1..Len(line) : line[i].cmd # "H1"

\* Unless a H1 is waited for there is none on the line, and leaving keeps it so.
LEMMA Calm ==
  ASSUME LineOK, H1Last, active # "H1" \/ got # None
  PROVE  /\ NoH1 /\ Disown \in Seq(Requests)
         /\ \A i \in 1..Len(Disown) : Disown[i].cmd # "H1"
  <1>1. NoH1
    BY DEF H1Last, NoH1
  <1>2. ASSUME NEW i \in 1..Len(Disown) PROVE Disown[i].cmd # "H1"
    <2>1. i \in 1..Len(line) /\ Disown[i] = [cmd |-> line[i].cmd, own |-> FALSE]
      BY DisownType DEF LineOK
    <2>2. QED
      BY <1>1, <2>1 DEF NoH1
  <1>3. QED
    BY <1>1, <1>2, DisownType DEF LineOK

\* Whoever leaves _send_and_wait leaves no H1 behind, if it had its answer.
LEMMA FinishTare ==
  ASSUME LineOK, H1Last, active # "H1" \/ got # None, NEW end \in {"ok", "failed"}, Finish(end)
  PROVE  H1Last' /\ H1Own' /\ H7Own' /\ TareWaits'
  <1>1. active' = "none" /\ line' = Disown /\ proc' = [what |-> "none", round |-> 0, end |-> end]
    BY DEF Finish
  <1>2. H1Last'
    BY <1>1, Calm DEF H1Last
  <1>3. QED
    BY <1>1, <1>2 DEF H1Own, H7Own, TareWaits

\* A request is the last on the line, and no other one is a H1.
LEMMA RequestTare ==
  ASSUME LineOK, H1Last, NEW c \in {"H1", "H2", "H7"}, Request(c)
  PROVE  H1Last' /\ H1Own'
  <1> DEFINE r == [cmd |-> c, own |-> TRUE]
  <1>1. r \in Requests /\ r.cmd = c
    BY DEF Requests
  <1>2. active = "none" /\ active' = c /\ got' = None /\ line' = Append(Disown, r)
    BY DEF Request
  <1> HIDE DEF r
  <1>3. /\ Disown \in Seq(Requests)
        /\ \A i \in 1..Len(Disown) : Disown[i].cmd # "H1"
    BY <1>2, Calm
  <1>4. /\ Len(line') = Len(Disown) + 1 /\ line'[Len(Disown) + 1] = r
        /\ \A i \in 1..Len(Disown) : line'[i] = Disown[i]
        /\ line' # <<>> /\ Len(Disown) \in Nat
    BY <1>1, <1>2, <1>3, AppendProperties, LenProperties
  <1>5. H1Last'
    BY <1>1, <1>2, <1>3, <1>4 DEF H1Last
  <1>6. H1Own'
    BY <1>2, <1>4 DEF H1Own, r
  <1>7. QED
    BY <1>5, <1>6

\* What is answered first is the last H1 only if it is alone.
LEMMA AnswerTare ==
  ASSUME LineOK, CellOK, H1Last, H1Own, H7Own, TareWaits, Answer
  PROVE  H1Last' /\ H1Own' /\ H7Own' /\ TareWaits'
  <1> DEFINE r == Head(line)
  <1>1. /\ line # <<>> /\ line' = Tail(line) /\ active' = active /\ proc' = proc
    BY DEF Answer
  <1>2. /\ ~(active = r.cmd /\ got = None) => got' = got
        /\ active = r.cmd /\ got = None => got' # None /\ got'.own = r.own
    <2>1. PICK ok \in BOOLEAN, val \in 0..2 :
            got' = IF active = r.cmd /\ got = None
                     THEN [val |-> val, ok |-> ok, own |-> r.own] ELSE got
      BY ReadingType DEF Answer
    <2>2. ASSUME got' = [val |-> val, ok |-> ok, own |-> r.own]
          PROVE  got' # None /\ got'.own = r.own
      <3>1. got'.val # None.val
        BY <2>2
      <3>2. QED
        BY <2>2, <3>1
    <2>3. QED
      BY <2>1, <2>2
  <1>3. /\ Len(line) \in Nat \ {0} /\ Len(line') = Len(line) - 1 /\ r = line[1]
        /\ \A i \in 1..Len(line') : line'[i] = line[i + 1]
    BY <1>1, HeadTailProperties, EmptySeq DEF LineOK
  <1> HIDE DEF r
  <1>4. H1Last'
    <2> SUFFICES ASSUME NEW i \in 1..Len(line'), line'[i].cmd = "H1"
                 PROVE  i = Len(line') /\ active' = "H1" /\ got' = None
      BY DEF H1Last
    <2>1. i + 1 \in 1..Len(line) /\ line[i + 1].cmd = "H1"
      BY <1>3
    <2>2. i + 1 = Len(line) /\ active = "H1" /\ got = None
      BY <2>1 DEF H1Last
    <2>3. r.cmd # "H1"
      BY <1>3, <2>1, <2>2 DEF H1Last
    <2>4. got' = got
      BY <1>2, <2>2, <2>3
    <2>5. i = Len(line')
      BY <1>3, <2>2
    <2>6. QED
      BY <1>1, <2>2, <2>4, <2>5
  <1>5. H1Own'
    <2>1. CASE active = "H1" /\ got = None /\ Len(line) = 1
      <3>1. r = [cmd |-> "H1", own |-> TRUE]
        BY <2>1, <1>3 DEF H1Own
      <3>2. got' # None /\ got'.own
        BY <2>1, <3>1, <1>2
      <3>3. line' = <<>>
        BY <2>1, <1>1, <1>3, HeadTailProperties, EmptySeq DEF LineOK
      <3>4. QED
        BY <3>2, <3>3 DEF H1Own
    <2>2. CASE active = "H1" /\ got = None /\ Len(line) # 1
      <3>1. r.cmd # "H1"
        BY <2>2, <1>3 DEF H1Last
      <3>2. got' = None
        BY <2>2, <3>1, <1>2
      <3>3. Len(line') \in 1..Len(line') /\ Len(line') # 0
        BY <2>2, <1>3
      <3>4. line'[Len(line')] = line[Len(line)]
        BY <1>3, <3>3
      <3>5. line' # <<>>
        BY <3>3, EmptySeq
      <3>6. QED
        BY <2>2, <3>2, <3>4, <3>5 DEF H1Own
    <2>3. CASE active = "H1" /\ got # None
      BY <2>3, <1>1 DEF H1Own
    <2>4. CASE active # "H1"
      BY <2>4, <1>1 DEF H1Own
    <2>5. QED
      BY <2>1, <2>2, <2>3, <2>4
  <1>6. H7Own'
    <2> SUFFICES ASSUME proc.what = "tare", active = "H7"
                 PROVE  got' # None /\ got'.own
      BY <1>1 DEF H7Own
    <2>1. CASE got = None
      <3>1. r = [cmd |-> "H7", own |-> TRUE]
        BY <2>1, <1>3 DEF H7Own
      <3>2. QED
        BY <2>1, <3>1, <1>2
    <2>2. CASE got # None
      BY <2>2, <1>2 DEF H7Own
    <2>3. QED
      BY <2>1, <2>2
  <1>7. TareWaits'
    BY <1>1 DEF TareWaits
  <1>8. QED
    BY <1>4, <1>5, <1>6, <1>7

\* As long as nothing was late, TareInv's parts hold of every state, and the tare
\* judges the answers to its own requests.
THEOREM TareJudgedHolds == Spec => []TareJudged
  <1>1. Init => CountOK /\ TareInv
    <2> SUFFICES ASSUME Init PROVE CountOK /\ TareInv
      OBVIOUS
    <2>1. CountOK
      BY DEF Init, CountOK
    <2>2. H1Last
      BY EmptySeq DEF Init, H1Last
    <2>3. H1Own /\ H7Own /\ TareWaits
      BY DEF Init, H1Own, H7Own, TareWaits
    <2>4. QED
      BY <2>1, <2>2, <2>3 DEF TareInv
  <1>2. TypeInv /\ CountOK /\ TareInv /\ [act # "shutdown" /\ Next]_vars => CountOK' /\ TareInv'
    <2> SUFFICES ASSUME ProcOK, WaitOK, CellOK, LineOK, CountOK, TareInv,
                        [act # "shutdown" /\ Next]_vars
                 PROVE  CountOK' /\ TareInv'
      BY TypeParts
    <2>1. CASE TimedOut
      <3>1. count'.late = count.late + 1 /\ CountOK'
        BY <2>1 DEF TimedOut, CountOK
      <3>2. QED
        BY <3>1 DEF TareInv, CountOK
    <2>2. CASE Answer
      <3>1. CountOK' /\ count'.late = count.late
        BY <2>2 DEF Answer, CountOK
      <3>2. QED
        BY <2>2, <3>1, AnswerTare DEF TareInv
    <2>3. CASE ~TimedOut /\ ~Answer
      <3>1. count' = count
        BY <2>3 DEF Next, GCode, Begin, AfterTare, AfterWeight, Again, Answered, Refused,
                    Control, Press, Sample, AsyncPause, vars
      <3> SUFFICES ASSUME H1Last, H1Own, H7Own, TareWaits
                   PROVE  H1Last' /\ H1Own' /\ H7Own' /\ TareWaits'
        BY <3>1 DEF TareInv, CountOK
      <3>2. CASE Begin
        <4>1. PICK what \in DOMAIN First :
                /\ proc' = [what |-> what, round |-> 1, end |-> "none"]
                /\ Request(First[what])
          BY <3>2 DEF Begin
        <4>2. H1Last' /\ H1Own'
          BY <4>1, RequestTare
        <4>3. active' = First[what]
          BY <4>1 DEF Request
        <4>4. H7Own' /\ TareWaits'
          BY <4>1, <4>3 DEF H7Own, TareWaits
        <4>5. QED
          BY <4>2, <4>4
      <3>3. CASE AfterTare
        <4> DEFINE r == [cmd |-> "H7", own |-> TRUE]
        <4>1. /\ active = "H1" /\ got # None /\ active' = "H7" /\ got' = None
              /\ proc' = proc /\ line' = Append(Disown, r)
          BY <3>3 DEF AfterTare, Woken
        <4>2. line = <<>>
          BY <4>1 DEF H1Own
        <4>3. Disown = <<>>
          BY <4>2, DisownType, EmptySeq DEF LineOK
        <4>4. line' = <<r>>
          BY <4>1, <4>3
        <4>5. H7Own' /\ H1Own'
          BY <4>1, <4>4 DEF H7Own, H1Own
        <4>6. H1Last'
          BY <4>4 DEF H1Last
        <4>7. TareWaits'
          BY <4>1 DEF TareWaits
        <4>8. QED
          BY <4>5, <4>6, <4>7
      <3>4. CASE AfterWeight
        <4>1. got # None
          BY <3>4 DEF AfterWeight, Woken
        <4>2. CASE Finish("ok")
          BY <4>1, <4>2, FinishTare
        <4>3. CASE proc' = [proc EXCEPT !.end = "again"] /\ active' = "none" /\ got' = None
                   /\ line' = Disown
          <5>1. H1Last'
            BY <4>1, <4>3, Calm DEF H1Last
          <5>2. proc'.end = "again"
            BY <4>3 DEF ProcOK
          <5>3. QED
            BY <4>3, <5>1, <5>2 DEF H1Own, H7Own, TareWaits
        <4>4. QED
          BY <3>4, <4>2, <4>3 DEF AfterWeight
      <3>5. CASE Again
        <4>1. CASE Request("H1") /\ proc' = [proc EXCEPT !.round = @ + 1, !.end = "none"]
          <5>1. H1Last' /\ H1Own'
            BY <4>1, RequestTare
          <5>2. active' = "H1" /\ proc'.end = "none"
            BY <4>1 DEF Request, ProcOK
          <5>3. QED
            BY <5>1, <5>2 DEF H7Own, TareWaits
        <4>2. CASE Finish("failed")
          <5>1. active = "none"
            BY <3>5 DEF Again, TareWaits
          <5>2. QED
            BY <4>2, <5>1, FinishTare
        <4>3. QED
          BY <3>5, <4>1, <4>2 DEF Again
      <3>6. CASE Answered
        BY <3>6, FinishTare DEF Answered, Woken
      <3>7. CASE Refused
        BY <3>7, FinishTare DEF Refused, Woken
      <3>8. CASE Sample
        <4>1. CASE active = "none" /\ line' = Append(line, [cmd |-> "H7", own |-> FALSE])
          <5> DEFINE r == [cmd |-> "H7", own |-> FALSE]
          <5>1. r \in Requests /\ r.cmd = "H7"
            BY DEF Requests
          <5>2. active' = "none" /\ proc' = proc /\ line' = Append(line, r)
            BY <3>8, <4>1 DEF Sample
          <5> HIDE DEF r
          <5>3. /\ Len(line) \in Nat /\ Len(line') = Len(line) + 1 /\ line'[Len(line) + 1] = r
                /\ \A i \in 1..Len(line) : line'[i] = line[i]
            BY <5>1, <5>2, AppendProperties, LenProperties DEF LineOK
          <5>4. NoH1
            BY <4>1, Calm
          <5>5. H1Last'
            BY <5>1, <5>3, <5>4 DEF H1Last, NoH1
          <5>6. QED
            BY <4>1, <5>2, <5>5 DEF H1Own, H7Own, TareWaits
        <4>2. CASE line' = line
          BY <3>8, <4>2 DEF Sample, H1Last, H1Own, H7Own, TareWaits
        <4>3. QED
          BY <3>8, <4>1, <4>2 DEF Sample
      <3>9. CASE Control \/ Press \/ AsyncPause \/ UNCHANGED vars
        <4>1. UNCHANGED <<proc, active, got, line>>
          BY <3>9 DEF Control, Press, AsyncPause, vars
        <4>2. QED
          BY <4>1 DEF H1Last, H1Own, H7Own, TareWaits
      <3>10. QED
        BY <2>3, <3>2, <3>3, <3>4, <3>5, <3>6, <3>7, <3>8, <3>9 DEF Next, GCode
    <2>4. QED
      BY <2>1, <2>2, <2>3
  <1>3. WaitOK /\ TareInv => TareJudged
    BY DEF TareInv, TareJudged, H1Own, H7Own, TareWaits, Woken
  <1>4. TypeInv => WaitOK
    BY TypeParts
  <1>5. QED
    BY <1>1, <1>2, <1>3, <1>4, TypeInvCorrect, PTL DEF Spec

=============================================================================
