-------------------------- MODULE SensorGateProofs --------------------------
(* Theorems about the filament sensors of a print, for any number of         *)
(* commands, faults and cycles of a purge.                                   *)
EXTENDS SensorGate, SequenceTheorems, WellFoundedInduction, TLAPS

USE DEF world, job

----------------------------------------------------------------------------
(* Where a script goes on after an error.                                  *)

\* A set of natural numbers has a least one.
LEMMA Smallest == ASSUME NEW T, T \subseteq Nat, T # {} PROVE Min(T) \in T
  <1>1. \E x \in T : \A y \in T : ~(<<y, x>> \in OpToRel(<, Nat))
    BY NatLessThanWellFounded, WFMin
  <1>2. ASSUME NEW x \in T, NEW y \in T, ~(<<y, x>> \in OpToRel(<, Nat)) PROVE x =< y
    BY <1>2 DEF OpToRel
  <1>3. \E x \in T : \A y \in T : x =< y
    BY <1>1, <1>2
  <1>4. QED
    BY <1>3 DEF Min

\* The position of a step in a script is a number.
LEMMA Position ==
  ASSUME NEW S, NEW s \in Seq(S)
  PROVE  SelectInSeq(s, LAMBDA x : x = "end") \in Nat
  <1> DEFINE I == {i \in 1..Len(s) : s[i] = "end"}
  <1>1. I \subseteq Nat
    BY LenProperties
  <1>2. SelectInSeq(s, LAMBDA x : x = "end") = IF I # {} THEN Min(I) ELSE 0
    BY DEF SelectInSeq
  <1> HIDE DEF I
  <1>3. QED
    BY <1>1, <1>2, Smallest

----------------------------------------------------------------------------
(* Type correctness.                                                       *)

\* The script is one of known steps.
Scripts == [by : {"nobody", "file", "console"} \cup Sensors, todo : Seq(Steps)]
FlagsOK == /\ head \in BOOLEAN /\ ifs \in BOOLEAN /\ purge \in BOOLEAN
           /\ user \in BOOLEAN /\ missed \in BOOLEAN
SensorsOK == /\ on \in [Sensors -> BOOLEAN] /\ seen \in [Sensors -> BOOLEAN]
             /\ allowed \in [Sensors -> BOOLEAN] /\ cut \subseteq Sensors
             /\ event \in [Sensors -> {"open", "called", "waiting", "running", "delay"}]
PrintOK == /\ print \in {"running", "stopping", "stopped", "over", "dead"}
           /\ pr \in [paused : BOOLEAN, sent : BOOLEAN, sd : BOOLEAN]
TypeInv == FlagsOK /\ SensorsOK /\ PrintOK /\ script \in Scripts

\* What a step is replaced by: the rest follows.
LEMMA ThenIs ==
  ASSUME script \in Scripts, NEW step, Doing(step), NEW q \in Seq(Steps), Then(q)
  PROVE  /\ script' \in Scripts /\ script'.by = script.by
         /\ script'.todo = q \o Tail(script.todo)
  <1>1. script.todo \in Seq(Steps) /\ script.todo # <<>>
    BY DEF Scripts, Doing
  <1>2. q \o Tail(script.todo) \in Seq(Steps)
    BY <1>1, HeadTailProperties, ConcatProperties
  <1>3. script' = [script EXCEPT !.todo = q \o Tail(script.todo)]
    BY DEF Then
  <1>4. QED
    BY <1>2, <1>3 DEF Scripts

\* The lists a script is begun or goes on with are lists of steps.
LEMMA ListsAreScripts ==
  /\ <<>> \in Seq(Steps) /\ Gate \in Seq(Steps) /\ HeadRunout \in Seq(Steps)
  /\ ToolChange \in Seq(Steps) /\ <<"motion">> \in Seq(Steps)
  /\ StartMacro \in Seq(Steps) /\ Resuming \in Seq(Steps)
  /\ \A x \in Steps : <<x>> \in Seq(Steps)
  /\ Console \subseteq Seq(Steps) /\ Lines \subseteq Seq(Steps)
  <1>1. "disable" \in Steps /\ "extrude" \in Steps /\ "enable" \in Steps /\ "purge" \in Steps
        /\ "nopurge" \in Steps /\ "change" \in Steps /\ "pause" \in Steps /\ "resume" \in Steps
        /\ "set" \in Steps /\ "analog" \in Steps /\ "motion" \in Steps /\ "move" \in Steps
        /\ "rearm" \in Steps /\ "base" \in Steps /\ "clear" \in Steps
    BY DEF Steps
  <1>2. QED
    BY <1>1 DEF Gate, HeadRunout, ToolChange, Console, Lines, StartMacro, Resuming

\* The cycles of a purge.
Cycles(n) == [i \in 1..(3 * n) |-> Gate[1 + ((i - 1) % 3)]] \o <<"nopurge">>
LEMMA CyclesAreScripts ==
  ASSUME NEW n \in Nat
  PROVE  Cycles(n) \in Seq(Steps)
  <1> DEFINE q == [i \in 1..(3 * n) |-> Gate[1 + ((i - 1) % 3)]]
  <1>1. \A k \in 1..3 : Gate[k] \in Steps
    BY DEF Gate, Steps
  <1>2. \A i \in 1..(3 * n) : 1 + ((i - 1) % 3) \in 1..3
    OBVIOUS
  <1>3. q \in Seq(Steps)
    BY <1>1, <1>2
  <1>4. "nopurge" \in Steps
    BY DEF Steps
  <1> HIDE DEF q
  <1>5. QED
    BY <1>3, <1>4, ConcatProperties DEF Cycles, q

\* After an error the script is what is left of it.
LEMMA RaiseIs ==
  ASSUME TypeInv, AfterRaise, UNCHANGED pr
  PROVE  /\ script' \in Scripts /\ script'.by = script.by /\ PrintOK'
         /\ print' # "running" \/ print' = print
         /\ \/ script'.todo = <<>>
            \/ \E k \in Nat : script'.todo = <<"pause">> \o SubSeq(script.todo, 1 + k, Len(script.todo))
  <1>1. script \in Scripts /\ script.todo \in Seq(Steps)
    BY DEF TypeInv, Scripts
  <1>2. PrintOK' /\ (print' # "running" \/ print' = print)
    BY DEF TypeInv, PrintOK, AfterRaise
  <1>3. CASE ~Caught
    <2>1. script' = [script EXCEPT !.todo = <<>>]
      BY <1>3 DEF AfterRaise
    <2>2. script' \in Scripts /\ script'.by = script.by /\ script'.todo = <<>>
      BY <1>1, <2>1, ListsAreScripts DEF Scripts
    <2>3. QED
      BY <1>2, <2>2
  <1>4. CASE Caught
    <2> DEFINE k == SelectInSeq(script.todo, LAMBDA x : x = "end")
               q == <<"pause">> \o SubSeq(script.todo, 1 + k, Len(script.todo))
    <2>1. script' = [script EXCEPT !.todo = q]
      BY <1>4 DEF AfterRaise
    <2>2. k \in Nat
      BY <1>1, Position
    <2> HIDE DEF k
    <2>3. SubSeq(script.todo, 1 + k, Len(script.todo)) \in Seq(Steps)
      BY <1>1, <2>2, SubSeqProperties, LenProperties
    <2>4. q \in Seq(Steps)
      BY <2>3, ListsAreScripts, ConcatProperties DEF Steps
    <2> HIDE DEF q
    <2>5. /\ script' \in Scripts /\ script'.by = script.by /\ script'.todo = q
      BY <1>1, <2>1, <2>4 DEF Scripts
    <2>6. QED
      BY <1>2, <2>2, <2>5 DEF q
  <1>5. QED
    BY <1>3, <1>4

\* Whoever gets the mutex begins a script of known steps.
LEMMA StartIs ==
  ASSUME NEW by \in {"file", "console"} \cup Sensors, NEW q \in Seq(Steps), Start(by, q)
  PROVE  script' \in Scripts /\ script'.by = by /\ script'.todo = q /\ script.todo = <<>>
  BY DEF Start, Scripts, Nobody

\* A pause keeps the types of what it changes.
LEMMA PauseTypes ==
  ASSUME PrintOK
  PROVE  /\ Sent \in [paused : BOOLEAN, sent : BOOLEAN, sd : BOOLEAN]
         /\ Stopped \in {"running", "stopping", "stopped", "over", "dead"}
         /\ [Sent EXCEPT !.paused = TRUE] \in [paused : BOOLEAN, sent : BOOLEAN, sd : BOOLEAN]
  <1> DEFINE b == print \in {"running", "stopping"}
  <1>1. Stopped \in {"running", "stopping", "stopped", "over", "dead"}
    BY DEF PrintOK, Stopped
  <1>2. b \in BOOLEAN /\ Sent = IF pr.sent THEN pr ELSE [pr EXCEPT !.sent = TRUE, !.sd = b]
    BY DEF Sent
  <1> HIDE DEF b
  <1>3. Sent \in [paused : BOOLEAN, sent : BOOLEAN, sd : BOOLEAN]
    BY <1>2 DEF PrintOK
  <1>4. QED
    BY <1>1, <1>3

\* Every variable keeps its type.
LEMMA TypeStep == ASSUME TypeInv, Next PROVE TypeInv'
  <1> USE DEF TypeInv
  <1>1. ASSUME NEW s \in Sensors, Poll(s) PROVE TypeInv'
    <2>1. UNCHANGED <<head, ifs, user, on, allowed, purge, print, pr, script, cut>>
      BY <1>1 DEF Poll
    <2>2. PICK b \in BOOLEAN : Note(s, b)
      BY <1>1 DEF Poll, FlagsOK
    <2>3. seen' \in [Sensors -> BOOLEAN] /\ missed' \in BOOLEAN
      BY <2>2 DEF Note, FlagsOK, SensorsOK
    <2>4. event' \in [Sensors -> {"open", "called", "waiting", "running", "delay"}]
      BY <2>2 DEF Note, SensorsOK
    <2>5. QED
      BY <2>1, <2>3, <2>4 DEF FlagsOK, SensorsOK, PrintOK
  <1>2. ASSUME NEW s \in Sensors, Reopen(s) \/ SendPause(s) PROVE TypeInv'
    <2>1. PrintOK'
      BY <1>2, PauseTypes DEF Reopen, SendPause, SendPauseCommand, PrintOK
    <2>2. QED
      BY <1>2, <2>1 DEF Reopen, SendPause, FlagsOK, SensorsOK
  <1>3. ASSUME NEW s \in Sensors, Handle(s) PROVE TypeInv'
    <2>1. script' \in Scripts
      BY <1>3, StartIs, ListsAreScripts DEF Handle
    <2>2. QED
      BY <1>3, <2>1 DEF Handle, FlagsOK, SensorsOK, PrintOK
  <1>4. CASE Filament
    BY <1>4 DEF Filament, FlagsOK, SensorsOK, PrintOK
  <1>5. CASE Feeder
    BY <1>5 DEF Feeder, SwitchMotion, FlagsOK, SensorsOK, PrintOK
  <1>6. CASE AutoInsertFails
    BY <1>6 DEF AutoInsertFails, EnableAll, FlagsOK, SensorsOK, PrintOK
  <1>7. CASE FileLine
    <2>1. script' \in Scripts
      BY <1>7, StartIs, ListsAreScripts DEF FileLine
    <2>2. QED
      BY <1>7, <2>1 DEF FileLine, FlagsOK, SensorsOK, PrintOK
  <1>8. CASE Command
    <2>1. script' \in Scripts
      BY <1>8, StartIs, ListsAreScripts DEF Command
    <2>2. QED
      BY <1>8, <2>1 DEF Command, FlagsOK, SensorsOK, PrintOK
  <1>9. CASE PrintEnds \/ PrintStarts
    <2>1. script' \in Scripts
      BY <1>9, StartIs, ListsAreScripts DEF PrintEnds, PrintStarts
    <2>2. QED
      BY <1>9, <2>1 DEF PrintEnds, PrintStarts, FlagsOK, SensorsOK, PrintOK
  <1>10. CASE Disable \/ Enable
    <2>1. script' \in Scripts
      BY <1>10, ThenIs, ListsAreScripts DEF Disable, Enable
    <2>2. QED
      BY <1>10, <2>1 DEF Disable, Enable, DisableAll, EnableAll, FlagsOK, SensorsOK, PrintOK
  <1>11. CASE Extrude \/ Move \/ NoPurge \/ EndChange \/ Rearm \/ Set
    <2>1. script' \in Scripts
      BY <1>11, ThenIs, ListsAreScripts DEF Extrude, Move, NoPurge, EndChange, Rearm, Set
    <2>2. QED
      BY <1>11, <2>1 DEF Extrude, Move, NoPurge, EndChange, Rearm, Rearmed, Set,
                         FlagsOK, SensorsOK, PrintOK
  <1>20. CASE Pause \/ ResumeBase \/ ClearPause
    <2>1. script' \in Scripts
      BY <1>20, ThenIs, ListsAreScripts DEF Pause, ResumeBase, ClearPause
    <2>2. PrintOK'
      <3>1. CASE Pause
        BY <3>1, PauseTypes DEF Pause, PrintOK
      <3>2. CASE ResumeBase
        <4>1. /\ pr' = pr \/ pr' = [paused |-> FALSE, sent |-> FALSE, sd |-> FALSE]
              /\ print' = print \/ print' = "running"
          BY <3>2 DEF ResumeBase
        <4>2. pr' \in [paused : BOOLEAN, sent : BOOLEAN, sd : BOOLEAN]
          <5>1. pr \in [paused : BOOLEAN, sent : BOOLEAN, sd : BOOLEAN]
            BY DEF PrintOK
          <5>2. [paused |-> FALSE, sent |-> FALSE, sd |-> FALSE]
                  \in [paused : BOOLEAN, sent : BOOLEAN, sd : BOOLEAN]
            OBVIOUS
          <5>3. QED
            BY <4>1, <5>1, <5>2, Zenon
        <4>3. QED
          BY <4>1, <4>2 DEF PrintOK
      <3>3. CASE ClearPause
        BY <3>3 DEF ClearPause, PrintOK
      <3>4. QED
        BY <1>20, <3>1, <3>2, <3>3
    <2>3. QED
      BY <1>20, <2>1, <2>2 DEF Pause, ResumeBase, ClearPause, FlagsOK, SensorsOK
  <1>21. CASE Resume
    <2>1. CASE script' = [script EXCEPT !.todo = Resuming]
      <3>1. script' \in Scripts
        BY <2>1, ListsAreScripts DEF Scripts
      <3>2. QED
        BY <1>21, <3>1 DEF Resume, FlagsOK, SensorsOK, PrintOK
    <2>2. CASE Doing("resume") /\ Then(<<>>)
      <3>1. script' \in Scripts
        BY <2>2, ThenIs, ListsAreScripts
      <3>2. QED
        BY <1>21, <3>1 DEF Resume, FlagsOK, SensorsOK, PrintOK
    <2>3. QED
      BY <1>21, <2>1, <2>2 DEF Resume
  <1>12. CASE Purge
    <2>1. PICK n \in Nat : Doing("purge") /\ Then(Cycles(n))
      BY <1>12, CyclesAssumption DEF Purge, Cycles
    <2>2. script' \in Scripts
      BY <2>1, ThenIs, CyclesAreScripts
    <2>3. QED
      BY <1>12, <2>2 DEF Purge, FlagsOK, SensorsOK, PrintOK
  <1>13. CASE Change
    <2>1. <<"end">> \in Seq(Steps) /\ Gate \o <<"end">> \in Seq(Steps)
      BY ListsAreScripts, ConcatProperties DEF Steps
    <2>2. script' \in Scripts
      BY <1>13, <2>1, ThenIs, ListsAreScripts DEF Change
    <2>3. QED
      BY <1>13, <2>2 DEF Change, FlagsOK, SensorsOK, PrintOK
  <1>14. CASE Analog
    <2>1. <<"resume">> \in Seq(Steps) /\ ToolChange \o <<"resume">> \in Seq(Steps)
      BY ListsAreScripts, ConcatProperties DEF Steps
    <2>2. script' \in Scripts
      BY <1>14, <2>1, ThenIs, ListsAreScripts DEF Analog
    <2>3. QED
      BY <1>14, <2>2 DEF Analog, FlagsOK, SensorsOK, PrintOK
  <1>15. CASE Motion
    <2>1. <<"pause">> \in Seq(Steps)
      BY DEF Steps
    <2>2. script' \in Scripts
      BY <1>15, <2>1, ThenIs, ListsAreScripts DEF Motion
    <2>3. FlagsOK' /\ PrintOK'
      BY <1>15 DEF Motion, FlagsOK, PrintOK
    <2>4. /\ on' = on \/ on' = [on EXCEPT !["motion"] = FALSE]
          /\ allowed' = allowed \/ allowed' = [allowed EXCEPT !["motion"] = on["motion"]]
          /\ cut' = cut \/ cut' = cut \cup {"motion"}
          /\ seen' = seen /\ event' = event
      BY <1>15 DEF Motion
    <2>5. "motion" \in Sensors /\ on["motion"] \in BOOLEAN
      BY DEF Sensors, SensorsOK
    <2>6. on' \in [Sensors -> BOOLEAN]
      BY <2>4, <2>5 DEF SensorsOK
    <2>7. allowed' \in [Sensors -> BOOLEAN]
      BY <2>4, <2>5 DEF SensorsOK
    <2>8. QED
      BY <2>2, <2>3, <2>4, <2>5, <2>6, <2>7 DEF SensorsOK
  <1>16. CASE Release
    <2>1. script' \in Scripts
      BY <1>16, ListsAreScripts DEF Release, Nobody, Scripts
    <2>2. QED
      BY <1>16, <2>1 DEF Release, FlagsOK, SensorsOK, PrintOK
  <1>17. CASE FeederRaises
    <2>1. script' \in Scripts /\ PrintOK'
      BY <1>17, RaiseIs DEF FeederRaises
    <2>2. QED
      BY <1>17, <2>1 DEF FeederRaises, EnableAll, FlagsOK, SensorsOK
  <1>18. CASE OtherRaises
    <2>1. script' \in Scripts /\ PrintOK'
      BY <1>18, RaiseIs DEF OtherRaises
    <2>2. QED
      BY <1>18, <2>1 DEF OtherRaises, FlagsOK, SensorsOK
  <1>19. QED
    BY <1>1, <1>2, <1>3, <1>4, <1>5, <1>6, <1>7, <1>8, <1>9, <1>10, <1>11, <1>12, <1>13,
       <1>14, <1>15, <1>16, <1>17, <1>18, <1>20, <1>21 DEF Next, DoStep

\* So the types of the model hold in every state.
LEMMA TypeInvCorrect == Spec => []TypeInv
  <1>1. Init => TypeInv
    <2> SUFFICES ASSUME Init PROVE TypeInv
      OBVIOUS
    <2>1. script \in Scripts
      BY ListsAreScripts DEF Init, Nobody, Scripts
    <2>2. QED
      BY <2>1 DEF Init, TypeInv, FlagsOK, SensorsOK, PrintOK
  <1>2. TypeInv /\ [print # "dead" /\ Next]_vars => TypeInv'
    <2> SUFFICES ASSUME TypeInv, [print # "dead" /\ Next]_vars PROVE TypeInv'
      OBVIOUS
    <2>1. CASE UNCHANGED vars
      BY <2>1 DEF vars, TypeInv, FlagsOK, SensorsOK, PrintOK
    <2>2. QED
      BY <2>1, TypeStep
  <1>3. QED
    BY <1>1, <1>2, PTL DEF Spec

\* The flags of the sensors, of the gate and of the print keep their values, and the
\* script is made of known steps.
THEOREM TypeCorrect == Spec => []TypeOK
  <1>1. TypeInv => TypeOK
    BY DEF TypeInv, TypeOK, FlagsOK, SensorsOK, PrintOK, Scripts
  <1>2. QED
    BY <1>1, TypeInvCorrect, PTL

----------------------------------------------------------------------------
(* A print does not go on over an empty head.                              *)

\* The end of a RESUME is worked off on its own; every other step is one of these.
Plain == Steps \ {"rearm", "base"}
Rests == {Resuming, <<"rearm", "move", "base">>, <<"move", "base">>, <<"base">>}
Ordered == script.todo \in Seq(Plain) \/ script.todo \in Rests

\* What is left of a RESUME.
LEMMA RestsAre ==
  ASSUME NEW q \in Rests
  PROVE  /\ q # <<>> /\ Head(q) \in {"move", "rearm", "base"} /\ ~Contains(q, "end")
         /\ Tail(q) \in Rests \/ Tail(q) = <<>>
  <1>1. CASE q = Resuming
    <2>1. q # <<>> /\ Head(q) = "move" /\ ~Contains(q, "end")
      BY <1>1 DEF Resuming, Contains
    <2>2. Tail(q) = <<"rearm", "move", "base">>
      BY <1>1 DEF Resuming
    <2>3. QED
      BY <2>1, <2>2 DEF Rests
  <1>2. CASE q = <<"rearm", "move", "base">>
    <2>1. q # <<>> /\ Head(q) = "rearm" /\ ~Contains(q, "end")
      BY <1>2 DEF Contains
    <2>2. Tail(q) = <<"move", "base">>
      BY <1>2
    <2>3. QED
      BY <2>1, <2>2 DEF Rests
  <1>3. CASE q = <<"move", "base">>
    <2>1. q # <<>> /\ Head(q) = "move" /\ ~Contains(q, "end")
      BY <1>3 DEF Contains
    <2>2. Tail(q) = <<"base">>
      BY <1>3
    <2>3. QED
      BY <2>1, <2>2 DEF Rests
  <1>4. CASE q = <<"base">>
    BY <1>4 DEF Contains
  <1>5. QED
    BY <1>1, <1>2, <1>3, <1>4 DEF Rests

\* No part of it is plain.
LEMMA PlainIsNoRest == ASSUME NEW q \in Seq(Plain) PROVE q \notin Rests
  <1>1. \A i \in 1..Len(q) : q[i] \notin {"rearm", "base"}
    BY ElementOfSeq DEF Plain
  <1>2. ASSUME q \in Rests PROVE \E i \in 1..Len(q) : q[i] \in {"rearm", "base"}
    <2>1. Len(q) \in 1..4 /\ (q[1] \in {"rearm", "base"} \/ (Len(q) >= 2 /\ q[2] \in {"rearm", "base"}))
      BY <1>2 DEF Rests, Resuming
    <2>2. QED
      BY <2>1
  <1>3. QED
    BY <1>1, <1>2

\* The lists a script is begun or goes on with are such steps, but for a RESUME.
LEMMA ListsArePlain ==
  /\ <<>> \in Seq(Plain) /\ Gate \in Seq(Plain) /\ HeadRunout \in Seq(Plain)
  /\ ToolChange \in Seq(Plain) /\ StartMacro \in Seq(Plain)
  /\ \A x \in Plain : <<x>> \in Seq(Plain)
  /\ Console \subseteq Seq(Plain) /\ Lines \subseteq Seq(Plain)
  /\ <<"motion">> \in Seq(Plain) /\ <<"pause">> \in Seq(Plain) /\ <<"end">> \in Seq(Plain)
  /\ <<"resume">> \in Seq(Plain)
  <1>1. /\ "disable" \in Plain /\ "extrude" \in Plain /\ "enable" \in Plain /\ "purge" \in Plain
        /\ "nopurge" \in Plain /\ "change" \in Plain /\ "pause" \in Plain /\ "resume" \in Plain
        /\ "set" \in Plain /\ "analog" \in Plain /\ "motion" \in Plain /\ "move" \in Plain
        /\ "clear" \in Plain /\ "end" \in Plain
    BY DEF Plain, Steps
  <1>2. QED
    BY <1>1 DEF Gate, HeadRunout, ToolChange, Console, Lines, StartMacro

\* So are the cycles of a purge.
LEMMA CyclesArePlain ==
  ASSUME NEW n \in Nat
  PROVE  Cycles(n) \in Seq(Plain)
  <1> DEFINE q == [i \in 1..(3 * n) |-> Gate[1 + ((i - 1) % 3)]]
  <1>1. \A k \in 1..3 : Gate[k] \in Plain
    BY DEF Gate, Plain, Steps
  <1>2. \A i \in 1..(3 * n) : 1 + ((i - 1) % 3) \in 1..3
    OBVIOUS
  <1>3. q \in Seq(Plain)
    BY <1>1, <1>2
  <1>4. <<"nopurge">> \in Seq(Plain)
    BY ListsArePlain DEF Plain, Steps
  <1> HIDE DEF q
  <1>5. QED
    BY <1>3, <1>4, ConcatProperties DEF Cycles, q

\* A step that RESUME does not have is done outside of it, and what replaces it is plain.
LEMMA ThenPlain ==
  ASSUME script \in Scripts, Ordered, NEW step \in Plain \ {"move"}, Doing(step),
         NEW q \in Seq(Plain), Then(q)
  PROVE  script'.todo \in Seq(Plain)
  <1>1. script.todo \in Seq(Plain) /\ script.todo # <<>>
    BY RestsAre DEF Ordered, Doing, Step, Plain
  <1>2. q \o Tail(script.todo) \in Seq(Plain)
    BY <1>1, HeadTailProperties, ConcatProperties
  <1>3. script' = [script EXCEPT !.todo = q \o Tail(script.todo)]
    BY DEF Then
  <1>4. QED
    BY <1>2, <1>3 DEF Scripts

\* A step that is only left out leaves the rest.
LEMMA ThenTail ==
  ASSUME script \in Scripts, Ordered, NEW step, Doing(step), Then(<<>>)
  PROVE  /\ Ordered' /\ script'.todo = Tail(script.todo)
         /\ script'.todo \in Rests => script.todo \in Rests
  <1>1. script.todo \in Seq(Steps) /\ script.todo # <<>>
    BY DEF Scripts, Doing
  <1>2. script' = [script EXCEPT !.todo = <<>> \o Tail(script.todo)]
    BY DEF Then
  <1>3. <<>> \o Tail(script.todo) = Tail(script.todo)
    BY <1>1, ConcatEmptySeq, HeadTailProperties
  <1>4. script'.todo = Tail(script.todo)
    BY <1>2, <1>3 DEF Scripts
  <1>5. Tail(script.todo) \in Seq(Plain) \/ Tail(script.todo) \in Rests
    <2>1. CASE script.todo \in Seq(Plain)
      BY <1>1, <2>1, HeadTailProperties
    <2>2. CASE script.todo \in Rests
      BY <2>2, RestsAre, ListsArePlain
    <2>3. QED
      BY <2>1, <2>2 DEF Ordered
  <1>6. Tail(script.todo) \in Rests => script.todo \in Rests
    BY <1>1, PlainIsNoRest, HeadTailProperties DEF Ordered
  <1>7. QED
    BY <1>4, <1>5, <1>6 DEF Ordered

\* An error leaves no part of a RESUME.
LEMMA RaiseOrdered ==
  ASSUME TypeInv, Ordered, AfterRaise
  PROVE  script'.todo \in Seq(Plain)
  <1>1. script \in Scripts
    BY DEF TypeInv
  <1>2. CASE ~Caught
    <2>1. script'.todo = <<>>
      BY <1>1, <1>2 DEF AfterRaise, Scripts
    <2>2. QED
      BY <2>1, ListsArePlain
  <1>3. CASE Caught
    <2> DEFINE k == SelectInSeq(script.todo, LAMBDA x : x = "end")
               q == <<"pause">> \o SubSeq(script.todo, 1 + k, Len(script.todo))
    <2>1. script.todo \in Seq(Plain)
      BY <1>3, RestsAre DEF Ordered, Caught
    <2>2. script' = [script EXCEPT !.todo = q]
      BY <1>3 DEF AfterRaise
    <2>3. k \in Nat
      BY <2>1, Position
    <2> HIDE DEF k
    <2>4. SubSeq(script.todo, 1 + k, Len(script.todo)) \in Seq(Plain)
      BY <2>1, <2>3, SubSeqProperties, LenProperties
    <2>5. q \in Seq(Plain)
      BY <2>4, ListsArePlain, ConcatProperties
    <2> HIDE DEF q
    <2>6. QED
      BY <1>1, <2>2, <2>5 DEF Scripts
  <1>4. QED
    BY <1>2, <1>3

\* Every script is of that form.
LEMMA OrderedStep == ASSUME TypeInv, Ordered, Next PROVE Ordered'
  <1>a. script \in Scripts
    BY DEF TypeInv
  <1>1. CASE UNCHANGED script
    BY <1>1 DEF Ordered
  <1>2. ASSUME NEW by, NEW q \in Seq(Plain), Start(by, q) PROVE Ordered'
    BY <1>2 DEF Start, Ordered
  <1>3. ASSUME NEW s \in Sensors, Handle(s) PROVE Ordered'
    BY <1>2, <1>3, ListsArePlain DEF Handle
  <1>4. CASE FileLine \/ Command \/ PrintStarts
    BY <1>2, <1>4, ListsArePlain DEF FileLine, Command, PrintStarts
  <1>5. CASE Disable \/ Enable \/ Extrude \/ Move \/ NoPurge \/ EndChange \/ Pause \/ Rearm
             \/ ResumeBase \/ ClearPause \/ Set
    BY <1>5, <1>a, ThenTail DEF Disable, Enable, Extrude, Move, NoPurge, EndChange, Pause,
                                Rearm, ResumeBase, ClearPause, Set
  <1>6. CASE Purge
    <2>1. PICK n \in Nat : Doing("purge") /\ Then(Cycles(n))
      BY <1>6, CyclesAssumption DEF Purge, Cycles
    <2>2. QED
      BY <2>1, <1>a, ThenPlain, CyclesArePlain DEF Ordered, Plain, Steps
  <1>7. CASE Change
    <2>1. Gate \o <<"end">> \in Seq(Plain)
      BY ListsArePlain, ConcatProperties
    <2>2. QED
      BY <1>7, <2>1, <1>a, ThenPlain, ListsArePlain DEF Change, Ordered, Plain, Steps
  <1>8. CASE Analog
    <2>1. ToolChange \o <<"resume">> \in Seq(Plain)
      BY ListsArePlain, ConcatProperties
    <2>2. QED
      BY <1>8, <2>1, <1>a, ThenPlain, ListsArePlain DEF Analog, Ordered, Plain, Steps
  <1>9. CASE Motion
    BY <1>9, <1>a, ThenPlain, ListsArePlain DEF Motion, Ordered, Plain, Steps
  <1>10. CASE Resume
    <2>1. CASE script' = [script EXCEPT !.todo = Resuming]
      BY <1>a, <2>1 DEF Ordered, Rests, Scripts
    <2>2. CASE Doing("resume") /\ Then(<<>>)
      BY <1>a, <2>2, ThenTail
    <2>3. QED
      BY <1>10, <2>1, <2>2 DEF Resume
  <1>11. CASE Release
    BY <1>11, ListsArePlain DEF Release, Nobody, Ordered
  <1>12. CASE FeederRaises \/ OtherRaises
    BY <1>12, RaiseOrdered DEF FeederRaises, OtherRaises, Ordered
  <1>13. CASE \/ \E s \in Sensors : Poll(s) \/ Reopen(s) \/ SendPause(s)
              \/ Filament \/ Feeder \/ AutoInsertFails \/ PrintEnds
    BY <1>1, <1>13 DEF Poll, Reopen, SendPause, Filament, Feeder, AutoInsertFails, PrintEnds
  <1>14. QED
    BY <1>3, <1>4, <1>5, <1>6, <1>7, <1>8, <1>9, <1>10, <1>11, <1>12, <1>13 DEF Next, DoStep

\* pause_resume has no pause in it while a print runs, but what the last one left until
\* the start macro has cleared it.
Starts == {StartMacro, <<"clear">>}
Fresh == print = "running" => \/ ~pr.paused /\ ~pr.sent
                              \/ script.by = "file" /\ script.todo \in Starts

\* The start macro, step by step; an error gives it up.
LEMMA StartsAre ==
  ASSUME NEW q \in Starts
  PROVE  /\ q # <<>> /\ Head(q) \in {"move", "clear"} /\ ~Contains(q, "end")
         /\ Head(q) = "move" => Tail(q) = <<"clear">>
  <1>1. CASE q = StartMacro
    BY <1>1 DEF StartMacro, Contains
  <1>2. CASE q = <<"clear">>
    BY <1>2 DEF Contains
  <1>3. QED
    BY <1>1, <1>2 DEF Starts

\* A pause that is sent stops the print.
LEMMA PauseStops ==
  ASSUME TypeInv, ~pr.sent
  PROVE  Stopped # "running"
  BY DEF Stopped, TypeInv, PrintOK

\* A script's next step stays with the one who runs it.
LEMMA ThenBy == ASSUME NEW q, Then(q), script \in Scripts PROVE script'.by = script.by
  BY DEF Then, Scripts

\* Every step keeps that.
LEMMA FreshStep == ASSUME TypeInv, Ordered, Fresh, Next PROVE Fresh'
  <1>a. script \in Scripts
    BY DEF TypeInv
  <1>1. CASE UNCHANGED <<print, pr, script>>
    BY <1>1 DEF Fresh
  <1>2. ASSUME NEW step, Doing(step), step \notin {"move", "clear"}, UNCHANGED <<print, pr>>
        PROVE  Fresh'
    BY <1>2, StartsAre DEF Fresh, Doing, Step
  <1>3. ASSUME NEW s \in Sensors, SendPause(s) PROVE Fresh'
    <2>1. CASE s = "head"
      <3>1. script' = script /\ pr' = Sent /\ print' = Stopped
        BY <1>3, <2>1 DEF SendPause, SendPauseCommand
      <3>2. CASE pr.sent
        BY <3>1, <3>2 DEF Fresh, Sent, Stopped
      <3>3. CASE ~pr.sent
        BY <3>1, <3>3, PauseStops DEF Fresh
      <3>4. QED
        BY <3>2, <3>3
    <2>2. CASE s # "head"
      BY <1>1, <1>3, <2>2 DEF SendPause
    <2>3. QED
      BY <2>1, <2>2
  <1>4. CASE \/ \E s \in Sensors : Poll(s) \/ Reopen(s)
             \/ Filament \/ Feeder \/ AutoInsertFails
    BY <1>1, <1>4 DEF Poll, Reopen, Filament, Feeder, AutoInsertFails
  <1>5. ASSUME script = Nobody, UNCHANGED <<print, pr>> PROVE Fresh'
    BY <1>5 DEF Fresh, Nobody
  <1>6. CASE (\E s \in Sensors : Handle(s)) \/ FileLine \/ Command
    BY <1>5, <1>6 DEF Handle, FileLine, Command, Start
  <1>7. CASE PrintEnds
    BY <1>7 DEF PrintEnds, Fresh
  <1>8. CASE PrintStarts
    BY <1>8 DEF PrintStarts, Start, Fresh, Starts
  <1>9. CASE Disable \/ Enable \/ Extrude \/ Purge \/ NoPurge \/ Change \/ EndChange \/ Resume
             \/ Rearm \/ Analog \/ Motion \/ Set
    BY <1>2, <1>9 DEF Disable, Enable, Extrude, Purge, NoPurge, Change, EndChange, Resume,
                      Rearm, Analog, Motion, Set
  <1>10. CASE Move
    <2>1. script'.todo = Tail(script.todo) /\ script'.by = script.by
      BY <1>10, <1>a, ThenTail, ThenBy DEF Move
    <2>2. script.todo \in Starts => script'.todo \in Starts
      BY <1>10, <2>1, StartsAre DEF Move, Doing, Step, Starts
    <2>3. QED
      BY <1>10, <2>1, <2>2 DEF Move, Fresh
  <1>11. CASE Pause
    <2>1. script.todo \notin Starts
      BY <1>11, StartsAre DEF Pause, Doing, Step
    <2>2. CASE pr.paused
      BY <1>11, <2>1, <2>2 DEF Pause, Fresh
    <2>3. CASE ~pr.paused
      <3>1. print' = Stopped
        BY <1>11, <2>3 DEF Pause
      <3>2. QED
        BY <2>1, <3>1, PauseStops DEF Fresh, Stopped
    <2>4. QED
      BY <2>2, <2>3
  <1>12. CASE ResumeBase
    <2>1. script.todo \notin Starts
      BY <1>12, StartsAre DEF ResumeBase, Doing, Step
    <2>2. QED
      BY <1>12, <2>1 DEF ResumeBase, Fresh
  <1>13. CASE ClearPause
    BY <1>13 DEF ClearPause, Fresh, TypeInv, PrintOK
  <1>14. CASE Release
    BY <1>14, StartsAre DEF Release, Fresh
  <1>15. CASE FeederRaises \/ OtherRaises
    <2>1. AfterRaise /\ pr' = pr
      BY <1>15 DEF FeederRaises, OtherRaises
    <2>2. script.todo \in Starts => ~Caught
      BY StartsAre DEF Caught
    <2>3. print' = "running" => print = "running" /\ ~(script.by = "file" /\ script.todo \in Starts)
      BY <2>1, <2>2 DEF AfterRaise
    <2>4. QED
      BY <2>1, <2>3 DEF Fresh
  <1>16. QED
    BY <1>3, <1>4, <1>6, <1>7, <1>8, <1>9, <1>10, <1>11, <1>12, <1>13, <1>14, <1>15
       DEF Next, DoStep

\* A handler runs as long as its script; its pause is coming, or the edge was used up,
\* while a print runs and while a RESUME is worked off.
Running == script.by \in Sensors => event[script.by] = "running"
Called == missed \/ event["head"] \in {"called", "waiting"}
Blind == ~seen["head"] =>
           /\ print = "running" => Called \/ (script.by = "head" /\ Doing("pause"))
           /\ script.todo \in Rests => Called
BlindInv == Running /\ Blind

\* Every step keeps it.
LEMMA BlindStep == ASSUME TypeInv, Ordered, Fresh, BlindInv, Next PROVE BlindInv'
  <1> USE DEF Running, Blind, Called
  <1>a. script \in Scripts /\ "head" \in Sensors /\ "nobody" \notin Sensors
        /\ "file" \notin Sensors /\ "console" \notin Sensors
    BY DEF TypeInv, Sensors
  <1>b. <<>> \notin Rests
    BY RestsAre
  \* A script goes on and nothing else happens.
  <1>c. ASSUME script'.by = script.by, UNCHANGED <<seen, event>>, missed => missed',
               print' = "running" => print = "running" /\ ~Doing("pause"),
               script'.todo \in Rests => script.todo \in Rests
        PROVE  BlindInv'
    BY <1>c DEF BlindInv
  <1>1. ASSUME NEW s \in Sensors, Poll(s) PROVE BlindInv'
    <2>1. UNCHANGED <<print, script>>
      BY <1>1 DEF Poll
    <2>2. PICK b : Note(s, b)
      BY <1>1 DEF Poll
    <2>3. Running'
      BY <2>1, <2>2 DEF Note, Reports, BlindInv, TypeInv, SensorsOK
    <2>4. ~seen'["head"] => Called' \/ (~seen["head"] /\ event'["head"] = event["head"] /\ missed' = missed)
      BY <2>2, <1>a DEF Note, Reports, TypeInv, SensorsOK
    <2>5. Doing("pause") = Doing("pause")'
      BY <2>1 DEF Doing, Step
    <2>6. QED
      BY <2>1, <2>3, <2>4, <2>5 DEF BlindInv
  <1>2. ASSUME NEW s \in Sensors, Reopen(s) \/ SendPause(s) PROVE BlindInv'
    <2>1. UNCHANGED <<script, seen, missed>> /\ event[s] # "running"
      BY <1>2 DEF Reopen, SendPause
    <2>2. Running'
      BY <1>2, <2>1 DEF Reopen, SendPause, BlindInv, TypeInv, SensorsOK
    <2>3. Called => Called'
      BY <1>2, <2>1, <1>a DEF Reopen, SendPause, TypeInv, SensorsOK
    <2>4. print' = "running" => print = "running"
      BY <1>2 DEF Reopen, SendPause, SendPauseCommand, Stopped
    <2>5. Doing("pause") = Doing("pause")'
      BY <2>1 DEF Doing, Step
    <2>6. QED
      BY <2>1, <2>2, <2>3, <2>4, <2>5 DEF BlindInv
  <1>3. ASSUME NEW s \in Sensors, Handle(s) PROVE BlindInv'
    <2>1. /\ script'.by = s /\ event' = [event EXCEPT ![s] = "running"] /\ event[s] = "waiting"
          /\ script.by = "nobody" /\ UNCHANGED <<seen, print, missed>>
      BY <1>3 DEF Handle, Start, Nobody
    <2>2. script'.todo \notin Rests
      BY <1>3, RestsAre DEF Handle, Start, HeadRunout
    <2>3. s = "head" => Doing("pause")'
      BY <1>3 DEF Handle, Start, HeadRunout, Doing, Step
    <2>4. QED
      BY <2>1, <2>2, <2>3, <1>a DEF BlindInv, TypeInv, SensorsOK
  <1>4. CASE Filament \/ Feeder \/ AutoInsertFails
    <2>1. UNCHANGED <<script, seen, event, print, missed>>
      BY <1>4 DEF Filament, Feeder, AutoInsertFails
    <2>2. QED
      BY <2>1 DEF BlindInv, Doing, Step
  <1>5. CASE FileLine \/ Command
    <2>1. /\ script'.by \notin Sensors /\ script.by = "nobody"
          /\ UNCHANGED <<seen, event, print, missed>>
      BY <1>5, <1>a DEF FileLine, Command, Start, Nobody
    <2>2. script'.todo \notin Rests
      BY <1>5, RestsAre DEF FileLine, Command, Start, Console, Lines, Gate, ToolChange
    <2>3. QED
      BY <2>1, <2>2, <1>a DEF BlindInv
  <1>6. CASE PrintEnds
    <2>1. script.todo = <<>> /\ script' = script /\ print' = "over" /\ UNCHANGED <<seen, event, missed>>
      BY <1>6 DEF PrintEnds, Nobody
    <2>2. QED
      BY <2>1 DEF BlindInv
  <1>7. CASE PrintStarts
    <2>1. script'.by = "file" /\ event' = event /\ seen' = seen /\ missed' = ~seen["head"]
      BY <1>7 DEF PrintStarts, Start
    <2>2. QED
      BY <2>1, <1>a DEF BlindInv
  <1>8. CASE Disable \/ Enable \/ Extrude \/ Move \/ NoPurge \/ Set \/ ClearPause
    <2>1. /\ script'.by = script.by /\ (script'.todo \in Rests => script.todo \in Rests)
          /\ UNCHANGED <<seen, event, missed, print>>
      BY <1>8, <1>a, ThenBy, ThenTail
         DEF Disable, Enable, Extrude, Move, NoPurge, Set, ClearPause
    <2>2. ~Doing("pause")
      BY <1>8 DEF Disable, Enable, Extrude, Move, NoPurge, Set, ClearPause, Doing
    <2>3. QED
      BY <2>1, <2>2, <1>c
  <1>9. CASE Purge \/ Change \/ Analog \/ Motion
    <2>1. script'.by = script.by /\ UNCHANGED <<seen, event, missed, print>> /\ ~Doing("pause")
      BY <1>9, <1>a, ThenBy DEF Purge, Change, Analog, Motion, Doing
    <2>2. script'.todo \in Seq(Plain)
      <3>1. CASE Purge
        <4>1. PICK n \in Nat : Doing("purge") /\ Then(Cycles(n))
          BY <3>1, CyclesAssumption DEF Purge, Cycles
        <4>2. QED
          BY <4>1, <1>a, ThenPlain, CyclesArePlain DEF Plain, Steps
      <3>2. CASE Change
        <4>1. Gate \o <<"end">> \in Seq(Plain)
          BY ListsArePlain, ConcatProperties
        <4>2. QED
          BY <3>2, <4>1, <1>a, ThenPlain, ListsArePlain DEF Change, Plain, Steps
      <3>3. CASE Analog
        <4>1. ToolChange \o <<"resume">> \in Seq(Plain)
          BY ListsArePlain, ConcatProperties
        <4>2. QED
          BY <3>3, <4>1, <1>a, ThenPlain, ListsArePlain DEF Analog, Plain, Steps
      <3>4. CASE Motion
        BY <3>4, <1>a, ThenPlain, ListsArePlain DEF Motion, Plain, Steps
      <3>5. QED
        BY <1>9, <3>1, <3>2, <3>3, <3>4
    <2>3. QED
      BY <2>1, <2>2, PlainIsNoRest, <1>c
  <1>10. CASE Pause
    <2>1. print' # "running"
      <3>1. script.todo \notin Starts
        BY <1>10, StartsAre DEF Pause, Doing, Step
      <3>2. QED
        BY <1>10, <3>1, PauseStops DEF Pause, Fresh, Stopped
    <2>2. /\ script'.by = script.by /\ (script'.todo \in Rests => script.todo \in Rests)
          /\ UNCHANGED <<seen, event, missed>>
      BY <1>10, <1>a, ThenBy, ThenTail DEF Pause
    <2>3. QED
      BY <2>1, <2>2, <1>c
  <1>11. CASE EndChange \/ Rearm
    <2>1. script'.by = script.by /\ event' = event /\ seen'["head"]
      BY <1>11, <1>a, ThenBy DEF EndChange, Rearm, Rearmed
    <2>2. QED
      BY <2>1 DEF BlindInv
  <1>12. CASE Resume
    <2>1. /\ UNCHANGED <<seen, event, print>> /\ (missed => missed') /\ Doing("resume")
          /\ script'.by = script.by
      <3>1. UNCHANGED <<seen, event, print>> /\ (missed => missed') /\ Doing("resume")
        <4>1. UNCHANGED <<seen, event, print>> /\ Doing("resume")
          BY <1>12 DEF Resume
        <4>2. missed => missed'
          BY <1>12, Zenon DEF Resume
        <4>3. QED
          BY <4>1, <4>2
      <3>2. CASE Then(<<>>)
        BY <3>1, <3>2, <1>a, ThenBy
      <3>3. CASE script' = [script EXCEPT !.todo = Resuming]
        BY <3>1, <3>3, <1>a DEF Scripts
      <3>4. QED
        BY <1>12, <3>2, <3>3 DEF Resume
    <2>2. CASE Then(<<>>)
      <3>1. script'.todo \in Rests => script.todo \in Rests
        BY <2>1, <2>2, <1>a, ThenTail
      <3>2. ~Doing("pause")
        BY <2>1 DEF Doing
      <3>3. QED
        BY <2>1, <3>1, <3>2, <1>c
    <2>3. CASE Willing /\ missed' = (missed \/ (~seen["head"] /\ ~on["head"]))
      <3>1. ~seen'["head"] => missed'
        BY <2>1, <2>3 DEF Willing
      <3>2. QED
        BY <2>1, <3>1 DEF BlindInv
    <2>4. QED
      BY <1>12, <2>2, <2>3 DEF Resume
  <1>13. CASE ResumeBase
    <2>1. script.todo \in Rests
      <3>1. script.todo \notin Seq(Plain)
        BY <1>13, HeadTailProperties DEF ResumeBase, Doing, Step, Plain
      <3>2. QED
        BY <3>1 DEF Ordered
    <2>2. script'.by = script.by /\ UNCHANGED <<seen, event, missed>>
      BY <1>13, <1>a, ThenBy DEF ResumeBase
    <2>3. QED
      BY <2>1, <2>2 DEF BlindInv
  <1>14. CASE Release
    <2>1. /\ script.todo = <<>> /\ script'.by = "nobody" /\ script'.todo = <<>>
          /\ print' = "running" => print = "running"
      BY <1>14 DEF Release, Nobody
    <2>2. Called => Called'
      BY <1>14, <1>a DEF Release, BlindInv
    <2>3. UNCHANGED <<seen, missed>>
      BY <1>14 DEF Release
    <2>4. ~Doing("pause")
      BY <2>1 DEF Doing
    <2>5. QED
      BY <2>1, <2>2, <2>3, <2>4, <1>a, <1>b DEF BlindInv
  <1>15. CASE FeederRaises \/ OtherRaises
    <2>1. AfterRaise /\ UNCHANGED <<seen, event, missed, pr>> /\ ~Doing("pause")
      BY <1>15 DEF FeederRaises, OtherRaises, Doing
    <2>2. script'.by = script.by /\ (print' # "running" \/ print' = print)
      BY <2>1, RaiseIs
    <2>3. script'.todo \notin Rests
      BY <2>1, RaiseOrdered, PlainIsNoRest
    <2>4. QED
      BY <2>1, <2>2, <2>3, <1>c
  <1>16. QED
    BY <1>1, <1>2, <1>3, <1>4, <1>5, <1>6, <1>7, <1>8, <1>9, <1>10, <1>11, <1>12, <1>13,
       <1>14, <1>15 DEF Next, DoStep

\* A print goes on over a head found empty only where a PAUSE is coming or the edge was
\* used up, whenever in a RESUME the filament runs out.
THEOREM NoBlindPrintHolds == Spec => []NoBlindPrint
  <1> DEFINE Inv == Ordered /\ Fresh /\ BlindInv
  <1>1. Init => Inv
    <2> SUFFICES ASSUME Init PROVE Inv
      OBVIOUS
    <2>1. script.todo = <<>> /\ seen["head"] /\ script.by \notin Sensors
      BY DEF Init, Nobody, Sensors
    <2>2. Ordered
      BY <2>1, ListsArePlain DEF Ordered
    <2>3. Fresh
      BY DEF Init, Fresh
    <2>4. QED
      BY <2>1, <2>2, <2>3 DEF BlindInv, Blind, Running
  <1>2. TypeInv /\ Inv /\ [print # "dead" /\ Next]_vars => Inv'
    <2> SUFFICES ASSUME TypeInv, Inv, [print # "dead" /\ Next]_vars PROVE Inv'
      OBVIOUS
    <2>1. CASE UNCHANGED vars
      BY <2>1 DEF vars, Ordered, Fresh, BlindInv, Blind, Running, Called, Doing, Step
    <2>2. CASE Next
      BY <2>2, OrderedStep, FreshStep, BlindStep
    <2>3. QED
      BY <2>1, <2>2
  <1>3. Inv => NoBlindPrint
    BY DEF BlindInv, Blind, Called, NoBlindPrint, PauseComing
  <1>4. QED
    BY <1>1, <1>2, <1>3, TypeInvCorrect, PTL DEF Spec

----------------------------------------------------------------------------
(* No sensor is lost.                                                      *)

\* Whatever switches the sensors off is followed by what switches them on.
Gated(q) == \A i \in 1..Len(q) :
              q[i] = "disable" => /\ i + 2 \in 1..Len(q)
                                  /\ q[i + 1] = "extrude" /\ q[i + 2] = "enable"

\* The rest of a script, step by step.
LEMMA RestIs ==
  ASSUME NEW q \in Seq(Steps), q # <<>>
  PROVE  /\ Len(q) \in Nat /\ Len(Tail(q)) = Len(q) - 1
         /\ \A i \in 1..(Len(q) - 1) : Tail(q)[i] = q[i + 1]
         /\ Len(q) > 1 => Tail(q) # <<>>
  <1>1. Len(q) \in Nat /\ Len(Tail(q)) = Len(q) - 1
    BY HeadTailProperties, LenProperties
  <1>2. \A i \in 1..(Len(q) - 1) : Tail(q)[i] = q[i + 1]
    BY <1>1, HeadTailProperties
  <1>3. ASSUME NEW t, Len(t) = Len(q) - 1, Len(q) > 1 PROVE t # <<>>
    BY <1>1, <1>3
  <1>4. Len(q) > 1 => Tail(q) # <<>>
    BY <1>1, <1>3, Zenon
  <1>5. QED
    BY <1>1, <1>2, <1>4

\* A part of a script from any step on has its gates whole.
LEMMA GatedTail ==
  ASSUME NEW q \in Seq(Steps), q # <<>>, Gated(q)
  PROVE  Gated(Tail(q))
  BY RestIs DEF Gated

\* The same after an error.
LEMMA GatedSub ==
  ASSUME NEW q \in Seq(Steps), Gated(q), NEW k \in Nat
  PROVE  /\ SubSeq(q, 1 + k, Len(q)) \in Seq(Steps)
         /\ Gated(SubSeq(q, 1 + k, Len(q)))
  <1> DEFINE r == SubSeq(q, 1 + k, Len(q))
  <1>1. /\ Len(q) \in Nat /\ r \in Seq(Steps)
        /\ Len(r) = (IF 1 + k <= Len(q) THEN Len(q) - k ELSE 0)
        /\ \A i \in 1..(Len(q) - k) : r[i] = q[k + i]
    BY SubSeqProperties, LenProperties
  <1> HIDE DEF r
  <1>2. ASSUME NEW i \in 1..Len(r), r[i] = "disable"
        PROVE  i + 2 \in 1..Len(r) /\ r[i + 1] = "extrude" /\ r[i + 2] = "enable"
    <2>1. Len(r) = Len(q) - k /\ k + i \in 1..Len(q) /\ q[k + i] = "disable"
      BY <1>1, <1>2
    <2>2. k + i + 2 \in 1..Len(q) /\ q[k + i + 1] = "extrude" /\ q[k + i + 2] = "enable"
      BY <2>1 DEF Gated
    <2>3. i + 1 \in 1..(Len(q) - k) /\ i + 2 \in 1..(Len(q) - k)
      BY <1>1, <2>1, <2>2
    <2>4. QED
      BY <1>1, <2>1, <2>2, <2>3
  <1>3. Gated(r)
    BY <1>2 DEF Gated
  <1>4. QED
    BY <1>1, <1>3 DEF r

\* A script put before another keeps the gates of both.
LEMMA GatedJoin ==
  ASSUME NEW p \in Seq(Steps), NEW q \in Seq(Steps), Gated(p), Gated(q)
  PROVE  p \o q \in Seq(Steps) /\ Gated(p \o q)
  <1> DEFINE r == p \o q
  <1>1. /\ r \in Seq(Steps) /\ Len(p) \in Nat /\ Len(q) \in Nat
        /\ Len(r) = Len(p) + Len(q)
        /\ \A i \in 1..Len(r) : r[i] = IF i <= Len(p) THEN p[i] ELSE q[i - Len(p)]
    BY ConcatProperties, LenProperties
  <1> HIDE DEF r
  <1>2. ASSUME NEW i \in 1..Len(r), r[i] = "disable"
        PROVE  i + 2 \in 1..Len(r) /\ r[i + 1] = "extrude" /\ r[i + 2] = "enable"
    <2>1. CASE i <= Len(p)
      <3>1. i + 2 \in 1..Len(p) /\ p[i + 1] = "extrude" /\ p[i + 2] = "enable"
        BY <1>1, <1>2, <2>1 DEF Gated
      <3>2. QED
        BY <1>1, <3>1
    <2>2. CASE i > Len(p)
      <3> DEFINE j == i - Len(p)
      <3>1. j \in 1..Len(q) /\ q[j] = "disable"
        BY <1>1, <1>2, <2>2
      <3>2. j + 2 \in 1..Len(q) /\ q[j + 1] = "extrude" /\ q[j + 2] = "enable"
        BY <3>1 DEF Gated
      <3>3. QED
        BY <1>1, <2>2, <3>1, <3>2
    <2>3. QED
      BY <1>1, <2>1, <2>2
  <1>3. Gated(r)
    BY <1>2 DEF Gated
  <1>4. QED
    BY <1>1, <1>3 DEF r

\* The lists of the model have their gates whole.
LEMMA ListsAreGated ==
  /\ Gated(<<>>) /\ Gated(Gate) /\ Gated(HeadRunout) /\ Gated(ToolChange)
  /\ Gated(StartMacro) /\ Gated(Resuming)
  /\ \A x \in Steps \ {"disable"} : Gated(<<x>>)
  /\ \A q \in Console \cup Lines : Gated(q)
  BY DEF Gated, Gate, HeadRunout, ToolChange, Console, Lines, StartMacro, Resuming, Steps

\* A purge is a sequence of gates.
LEMMA CyclesAreGated == ASSUME NEW n \in Nat PROVE Gated(Cycles(n))
  <1> DEFINE q == [i \in 1..(3 * n) |-> Gate[1 + ((i - 1) % 3)]]
  <1>1. Gate[1] = "disable" /\ Gate[2] = "extrude" /\ Gate[3] = "enable"
    BY DEF Gate
  <1>2. q \in Seq(Steps) /\ Len(q) = 3 * n
    <2>1. \A k \in 1..3 : Gate[k] \in Steps
      BY DEF Gate, Steps
    <2>2. \A i \in 1..(3 * n) : 1 + ((i - 1) % 3) \in 1..3
      OBVIOUS
    <2>3. QED
      BY <2>1, <2>2
  <1>3. ASSUME NEW i \in 1..Len(q), q[i] = "disable"
        PROVE  i + 2 \in 1..Len(q) /\ q[i + 1] = "extrude" /\ q[i + 2] = "enable"
    <2>1. (i - 1) % 3 \in 0..2 /\ q[i] = Gate[1 + ((i - 1) % 3)]
      BY <1>2
    <2>2. (i - 1) % 3 = 0
      BY <1>1, <1>3, <2>1
    <2>3. i + 2 \in 1..Len(q) /\ i % 3 = 1 /\ (i + 1) % 3 = 2
      BY <1>2, <2>2
    <2>4. QED
      BY <1>1, <1>2, <2>3
  <1> HIDE DEF q
  <1>4. Gated(q)
    BY <1>3 DEF Gated
  <1>5. <<"nopurge">> \in Seq(Steps) /\ Gated(<<"nopurge">>)
    BY ListsAreScripts, ListsAreGated DEF Steps
  <1>6. QED
    BY <1>2, <1>4, <1>5, GatedJoin DEF Cycles, q
\* Inside a gate: the next step, or the one after an extrusion, switches on.
Inside(q) == q # <<>> /\ (q[1] = "enable" \/ (q[1] = "extrude" /\ 2 \in 1..Len(q) /\ q[2] = "enable"))

\* A sensor that is wanted is on, or off until the gate is left, or named.
Wanted(s) == IF s = "head" THEN user ELSE ifs
Kept(s) == Wanted(s) => on[s] \/ s \in cut \/ (Inside(script.todo) /\ allowed[s])
KeptInv == Gated(script.todo) /\ \A s \in Sensors : Kept(s)

\* What a step is replaced by has its gates whole, and so has the rest.
LEMMA ThenGated ==
  ASSUME TypeInv, KeptInv, NEW step, Doing(step), NEW q \in Seq(Steps), Gated(q), Then(q)
  PROVE  Gated(script'.todo)
  <1>1. script \in Scripts /\ script.todo \in Seq(Steps) /\ script.todo # <<>>
    BY DEF TypeInv, Scripts, Doing
  <1>2. Tail(script.todo) \in Seq(Steps) /\ Gated(Tail(script.todo))
    BY <1>1, GatedTail, HeadTailProperties DEF KeptInv
  <1>3. QED
    BY <1>1, <1>2, ThenIs, GatedJoin

\* A step that is not part of a gate is not inside one.
LEMMA Outside ==
  ASSUME TypeInv, NEW step \in Steps \ {"extrude", "enable"}, Doing(step)
  PROVE  ~Inside(script.todo)
  BY HeadTailProperties DEF Inside, Doing, Step, TypeInv, Scripts

\* So it loses no sensor that was kept, if it only goes on.
LEMMA GoOn ==
  ASSUME TypeInv, KeptInv, ~Inside(script.todo), Gated(script'.todo),
         UNCHANGED <<ifs, user, on, cut>>
  PROVE  KeptInv'
  BY DEF KeptInv, Kept, Wanted

\* A command that raises leaves the rest of the script with its gates whole.
LEMMA RaiseGated ==
  ASSUME TypeInv, KeptInv, AfterRaise, UNCHANGED pr
  PROVE  Gated(script'.todo)
  <1>1. script.todo \in Seq(Steps)
    BY DEF TypeInv, Scripts
  <1>2. CASE script'.todo = <<>>
    BY <1>2, ListsAreGated
  <1>3. ASSUME NEW k \in Nat,
               script'.todo = <<"pause">> \o SubSeq(script.todo, 1 + k, Len(script.todo))
        PROVE  Gated(script'.todo)
    <2>1. /\ SubSeq(script.todo, 1 + k, Len(script.todo)) \in Seq(Steps)
          /\ Gated(SubSeq(script.todo, 1 + k, Len(script.todo)))
      BY <1>1, GatedSub DEF KeptInv
    <2>2. <<"pause">> \in Seq(Steps) /\ Gated(<<"pause">>)
      BY ListsAreScripts, ListsAreGated DEF Steps
    <2>3. QED
      BY <1>3, <2>1, <2>2, GatedJoin
  <1>4. QED
    BY <1>2, <1>3, RaiseIs

\* Switching on keeps every sensor, wherever it happens.
LEMMA EnableKeeps ==
  ASSUME TypeInv, KeptInv, EnableAll, UNCHANGED <<ifs, user>>, Gated(script'.todo)
  PROVE  KeptInv'
  BY DEF KeptInv, Kept, Wanted, EnableAll, TypeInv, SensorsOK

\* Every step keeps the sensors.
LEMMA KeptStep == ASSUME TypeInv, KeptInv, Next PROVE KeptInv'
  <1>a. script \in Scripts /\ script.todo \in Seq(Steps)
    BY DEF TypeInv, Scripts
  <1>b. ASSUME UNCHANGED <<ifs, user, on, cut, allowed, script>> PROVE KeptInv'
    BY <1>b DEF KeptInv, Kept, Wanted
  <1>1. ASSUME NEW s \in Sensors, Poll(s) \/ Reopen(s) \/ SendPause(s) PROVE KeptInv'
    BY <1>1, <1>b DEF Poll, Reopen, SendPause
  <1>2. ASSUME NEW s \in Sensors, Handle(s) PROVE KeptInv'
    <2>1. ~Inside(script.todo)
      BY <1>2 DEF Handle, Start, Nobody, Inside
    <2>2. Gated(script'.todo)
      BY <1>2, ListsAreGated DEF Handle, Start, Steps
    <2>3. QED
      BY <1>2, <2>1, <2>2, GoOn DEF Handle
  <1>3. CASE FileLine \/ Command \/ PrintStarts
    <2>1. ~Inside(script.todo)
      BY <1>3 DEF FileLine, Command, PrintStarts, Start, Nobody, Inside
    <2>2. Gated(script'.todo)
      BY <1>3, ListsAreGated DEF FileLine, Command, PrintStarts, Start
    <2>3. QED
      BY <1>3, <2>1, <2>2, GoOn DEF FileLine, Command, PrintStarts
  <1>4. CASE Filament \/ PrintEnds
    BY <1>4, <1>b DEF Filament, PrintEnds
  <1>5. CASE Feeder
    <2>1. Kept("head")' /\ Kept("motion")'
      BY <1>5 DEF Feeder, SwitchMotion, KeptInv, Kept, Wanted, TypeInv, SensorsOK, Sensors
    <2>2. QED
      BY <1>5, <2>1 DEF Feeder, KeptInv, Sensors
  <1>6. CASE AutoInsertFails
    BY <1>6, EnableKeeps DEF AutoInsertFails, KeptInv
  <1>7. CASE Disable
    <2>1. script.todo # <<>> /\ script.todo[1] = "disable" /\ 1 \in 1..Len(script.todo)
      BY <1>7, <1>a, HeadTailProperties, LenProperties DEF Disable, Doing, Step
    <2>2. /\ 3 \in 1..Len(script.todo)
          /\ script.todo[2] = "extrude" /\ script.todo[3] = "enable"
      BY <2>1 DEF KeptInv, Gated
    <2>3. script'.todo = <<>> \o Tail(script.todo)
      BY <1>7, ThenIs, <1>a, ListsAreScripts DEF Disable
    <2>4. script'.todo = Tail(script.todo)
      BY <2>1, <2>3, <1>a, ConcatEmptySeq, HeadTailProperties
    <2>5. Inside(script'.todo)
      <3>1. /\ Len(script'.todo) = Len(script.todo) - 1 /\ script'.todo # <<>>
            /\ 1 \in 1..(Len(script.todo) - 1) /\ 2 \in 1..(Len(script.todo) - 1)
        BY <1>a, <2>1, <2>2, <2>4, RestIs
      <3>2. script'.todo[1] = "extrude" /\ script'.todo[2] = "enable"
        BY <1>a, <2>1, <2>2, <2>4, <3>1, RestIs
      <3>3. QED
        BY <3>1, <3>2 DEF Inside
    <2>6. Gated(script'.todo)
      BY <1>a, <2>1, <2>4, GatedTail DEF KeptInv
    <2>7. ~Inside(script.todo)
      BY <1>7, Outside DEF Disable, Steps
    <2>8. QED
      BY <1>7, <2>5, <2>6, <2>7 DEF Disable, DisableAll, KeptInv, Kept, Wanted
  <1>8. CASE Enable
    <2>1. Gated(script'.todo)
      BY <1>8, ThenGated, ListsAreScripts, ListsAreGated DEF Enable
    <2>2. QED
      BY <1>8, <2>1, EnableKeeps DEF Enable
  <1>9. CASE Extrude
    <2>1. Gated(script'.todo)
      BY <1>9, ThenGated, ListsAreScripts, ListsAreGated DEF Extrude
    <2>2. script.todo # <<>> /\ script.todo[1] = "extrude"
      BY <1>9, <1>a, HeadTailProperties DEF Extrude, Doing, Step
    <2>3. script'.todo = <<>> \o Tail(script.todo)
      BY <1>9, ThenIs, <1>a, ListsAreScripts DEF Extrude
    <2>4. script'.todo = Tail(script.todo)
      BY <2>2, <2>3, <1>a, ConcatEmptySeq, HeadTailProperties
    <2>5. Inside(script.todo) => Inside(script'.todo)
      <3>1. SUFFICES ASSUME 2 \in 1..Len(script.todo), script.todo[2] = "enable"
                     PROVE  Inside(script'.todo)
        BY <2>2 DEF Inside
      <3>2. 1 \in 1..(Len(script.todo) - 1) /\ script'.todo # <<>>
        BY <1>a, <2>2, <2>4, <3>1, RestIs
      <3>3. script'.todo[1] = "enable"
        BY <1>a, <2>2, <2>4, <3>1, <3>2, RestIs
      <3>4. QED
        BY <3>2, <3>3 DEF Inside
    <2>6. QED
      BY <1>9, <2>1, <2>5 DEF Extrude, KeptInv, Kept, Wanted
  <1>10. CASE Move \/ NoPurge \/ EndChange \/ Pause \/ Rearm \/ ResumeBase \/ ClearPause
    <2>1. Gated(script'.todo)
      BY <1>10, ThenGated, ListsAreScripts, ListsAreGated
         DEF Move, NoPurge, EndChange, Pause, Rearm, ResumeBase, ClearPause
    <2>2. ~Inside(script.todo)
      BY <1>10, Outside DEF Move, NoPurge, EndChange, Pause, Rearm, ResumeBase, ClearPause, Steps
    <2>3. QED
      BY <1>10, <2>1, <2>2, GoOn
         DEF Move, NoPurge, EndChange, Pause, Rearm, ResumeBase, ClearPause
  <1>20. CASE Resume
    <2>2. Gated(script'.todo)
      BY <1>20, ThenGated, ListsAreScripts, ListsAreGated, <1>a DEF Resume, Scripts
    <2>3. ~Inside(script.todo)
      BY <1>20, Outside DEF Resume, Steps
    <2>4. QED
      BY <1>20, <2>2, <2>3, GoOn DEF Resume
  <1>11. CASE Purge
    <2>1. PICK n \in Nat : Doing("purge") /\ Then(Cycles(n))
      BY <1>11, CyclesAssumption DEF Purge, Cycles
    <2>2. Gated(script'.todo)
      BY <2>1, ThenGated, CyclesAreScripts, CyclesAreGated
    <2>3. QED
      BY <1>11, <2>1, <2>2, Outside, GoOn DEF Purge, Steps
  <1>12. CASE Change
    <2>1. /\ <<"end">> \in Seq(Steps) /\ Gated(<<"end">>)
          /\ Gate \o <<"end">> \in Seq(Steps) /\ Gated(Gate \o <<"end">>)
      BY ListsAreScripts, ListsAreGated, GatedJoin DEF Steps
    <2>2. Gated(script'.todo)
      BY <1>12, <2>1, ThenGated, ListsAreScripts, ListsAreGated DEF Change
    <2>3. QED
      BY <1>12, <2>2, Outside, GoOn DEF Change, Steps
  <1>13. CASE Analog
    <2>1. /\ <<"resume">> \in Seq(Steps) /\ Gated(<<"resume">>)
          /\ ToolChange \o <<"resume">> \in Seq(Steps) /\ Gated(ToolChange \o <<"resume">>)
      BY ListsAreScripts, ListsAreGated, GatedJoin DEF Steps
    <2>2. Gated(script'.todo)
      BY <1>13, <2>1, ThenGated, ListsAreScripts, ListsAreGated DEF Analog
    <2>3. QED
      BY <1>13, <2>2, Outside, GoOn DEF Analog, Steps
  <1>14. CASE Motion
    <2>1. <<"pause">> \in Seq(Steps) /\ Gated(<<"pause">>)
      BY ListsAreScripts, ListsAreGated DEF Steps
    <2>2. Gated(script'.todo)
      BY <1>14, <2>1, ThenGated, ListsAreScripts, ListsAreGated DEF Motion
    <2>3. ~Inside(script.todo)
      BY <1>14, Outside DEF Motion, Steps
    <2>4. \/ UNCHANGED <<ifs, user, on, cut>>
          \/ /\ UNCHANGED <<ifs, user>>
             /\ on' = [on EXCEPT !["motion"] = FALSE]
             /\ cut' = IF on["motion"] THEN cut \cup {"motion"} ELSE cut
      BY <1>14 DEF Motion
    <2>5. QED
      BY <2>2, <2>3, <2>4, GoOn DEF KeptInv, Kept, Wanted, TypeInv, SensorsOK
  <1>15. CASE Set
    <2>1. Gated(script'.todo)
      BY <1>15, ThenGated, ListsAreScripts, ListsAreGated DEF Set
    <2>2. ~Inside(script.todo)
      BY <1>15, Outside DEF Set, Steps
    <2>3. Kept("head")' /\ Kept("motion")'
      BY <1>15, <2>2 DEF Set, KeptInv, Kept, Wanted, TypeInv, SensorsOK, Sensors
    <2>4. QED
      BY <2>1, <2>3 DEF KeptInv, Sensors
  <1>16. CASE Release
    <2>1. ~Inside(script.todo) /\ script'.todo = <<>>
      BY <1>16 DEF Release, Inside, Nobody
    <2>2. QED
      BY <1>16, <2>1, ListsAreGated, GoOn DEF Release
  <1>17. CASE FeederRaises
    BY <1>17, RaiseGated, EnableKeeps DEF FeederRaises
  <1>18. CASE OtherRaises
    <2>1. Gated(script'.todo)
      BY <1>18, RaiseGated DEF OtherRaises
    <2>2. Inside(script.todo) => Contains(script.todo, "enable")
      BY <1>a, LenProperties DEF Inside, Contains
    <2>3. QED
      BY <1>18, <2>1, <2>2 DEF OtherRaises, KeptInv, Kept, Wanted
  <1>19. QED
    BY <1>1, <1>2, <1>3, <1>4, <1>5, <1>6, <1>7, <1>8, <1>9, <1>10, <1>11, <1>12, <1>13,
       <1>14, <1>15, <1>16, <1>17, <1>18, <1>20 DEF Next, DoStep

\* Between scripts no sensor that is wanted is off, but where the property names why.
THEOREM SensorKeptHolds == Spec => []SensorKept
  <1>1. Init => KeptInv
    <2> SUFFICES ASSUME Init PROVE KeptInv
      OBVIOUS
    <2>1. Gated(script.todo)
      BY ListsAreGated DEF Init, Nobody
    <2>2. QED
      BY <2>1 DEF Init, KeptInv, Kept, Wanted, Sensors
  <1>2. TypeInv /\ KeptInv /\ [print # "dead" /\ Next]_vars => KeptInv'
    <2> SUFFICES ASSUME TypeInv, KeptInv, [print # "dead" /\ Next]_vars PROVE KeptInv'
      OBVIOUS
    <2>1. CASE UNCHANGED vars
      BY <2>1 DEF vars, KeptInv, Kept, Wanted
    <2>2. QED
      BY <2>1, KeptStep
  <1>3. KeptInv => SensorKept
    BY DEF KeptInv, Kept, Wanted, Inside, SensorKept, Nobody, Sensors
  <1>4. QED
    BY <1>1, <1>2, <1>3, TypeInvCorrect, PTL DEF Spec
=============================================================================
