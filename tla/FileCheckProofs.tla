--------------------------- MODULE FileCheckProofs ---------------------------
(* Theorems about the check of print files and the variables it is kept in, *)
(* for any set of files and any number of uploads and faults.               *)
EXTENDS FileCheck, SequenceTheorems, TLAPS

USE DEF Forget, Base, Value, Accepts

----------------------------------------------------------------------------
(* What a script can still have to do.                                     *)

Aims == {"ask", "run", "tell"}
Checked1(x) == <<"zero", "write", "shell", "wait", "load", "judge", x>>
Checked2(x) == <<"write", "shell", "wait", "load", "judge", x>>
Checked3(x) == <<"shell", "wait", "load", "judge", x>>
Checked4(x) == <<"wait", "load", "judge", x>>
Checked5(x) == <<"load", "judge", x>>
Checked6(x) == <<"judge", x>>
Checked7(x) == <<x>>
Nothing == <<>>
OnlyWrite == <<"write">>
Switch == <<"force", "write">>
Start == <<"start">>

\* Every plan begins with the step it is known by.
LEMMA Heads ==
  ASSUME NEW x
  PROVE  /\ Head(Checked1(x)) = "zero" /\ Head(Checked2(x)) = "write"
         /\ Head(Checked3(x)) = "shell" /\ Head(Checked4(x)) = "wait"
         /\ Head(Checked5(x)) = "load" /\ Head(Checked6(x)) = "judge"
         /\ Head(Checked7(x)) = x /\ Head(OnlyWrite) = "write"
         /\ Head(Switch) = "force" /\ Head(Start) = "start" /\ Head(Zero) = "zero"
  BY DEF Checked1, Checked2, Checked3, Checked4, Checked5, Checked6, Checked7, OnlyWrite,
         Switch, Start, Zero

\* A step done, the next plan follows.
LEMMA Tails ==
  ASSUME NEW x
  PROVE  /\ Tail(Checked1(x)) = Checked2(x) /\ Tail(Checked2(x)) = Checked3(x)
         /\ Tail(Checked3(x)) = Checked4(x) /\ Tail(Checked4(x)) = Checked5(x)
         /\ Tail(Checked5(x)) = Checked6(x) /\ Tail(Checked6(x)) = Checked7(x)
         /\ Tail(Checked7(x)) = Nothing /\ Tail(OnlyWrite) = Nothing
         /\ Tail(Switch) = OnlyWrite /\ Tail(Start) = Nothing /\ Tail(Zero) = OnlyWrite
  BY DEF Checked1, Checked2, Checked3, Checked4, Checked5, Checked6, Checked7, OnlyWrite,
         Switch, Start, Zero, Nothing

\* Only the empty plan is empty.
LEMMA NotNothing ==
  ASSUME NEW x
  PROVE  /\ Checked1(x) # <<>> /\ Checked2(x) # <<>> /\ Checked3(x) # <<>>
         /\ Checked4(x) # <<>> /\ Checked5(x) # <<>> /\ Checked6(x) # <<>>
         /\ Checked7(x) # <<>> /\ OnlyWrite # <<>> /\ Switch # <<>> /\ Start # <<>>
         /\ Zero # <<>> /\ Nothing = <<>>
  BY DEF Checked1, Checked2, Checked3, Checked4, Checked5, Checked6, Checked7, OnlyWrite,
         Switch, Start, Zero, Nothing

\* The last step of a check is what it is made for.
LEMMA Goals ==
  ASSUME NEW x,
         todo.steps \in {Checked1(x), Checked2(x), Checked3(x), Checked4(x), Checked5(x),
                         Checked6(x), Checked7(x)}
  PROVE  Goal = x /\ ~Idle
  <1>1. /\ Len(Checked1(x)) = 7 /\ Len(Checked2(x)) = 6 /\ Len(Checked3(x)) = 5
        /\ Len(Checked4(x)) = 4 /\ Len(Checked5(x)) = 3 /\ Len(Checked6(x)) = 2
        /\ Len(Checked7(x)) = 1
    BY DEF Checked1, Checked2, Checked3, Checked4, Checked5, Checked6, Checked7
  <1>2. /\ Checked1(x)[7] = x /\ Checked2(x)[6] = x /\ Checked3(x)[5] = x
        /\ Checked4(x)[4] = x /\ Checked5(x)[3] = x /\ Checked6(x)[2] = x
        /\ Checked7(x)[1] = x
    BY DEF Checked1, Checked2, Checked3, Checked4, Checked5, Checked6, Checked7
  <1>3. Goal = x
    BY <1>1, <1>2 DEF Goal
  <1>4. ~Idle
    BY NotNothing DEF Idle
  <1>5. QED
    BY <1>3, <1>4

\* The steps a plan is made of.
Steps == {"zero", "force", "write", "shell", "wait", "load", "judge", "ask", "run",
          "tell", "start"}

\* CHECK_MD5, step by step.
LEMMA CheckIs == Check = <<"zero", "write", "shell", "wait", "load", "judge">>
  <1> DEFINE a == <<"zero", "write">>
             b == <<"shell", "wait", "load", "judge">>
             c == <<"zero", "write", "shell", "wait", "load", "judge">>
  <1>1. a \in Seq(Steps) /\ b \in Seq(Steps) /\ c \in Seq(Steps)
    BY DEF Steps
  <1>2. Len(a) = 2 /\ Len(b) = 4 /\ Len(c) = 6
    OBVIOUS
  <1>3. c[1] = a[1] /\ c[2] = a[2] /\ c[3] = b[1] /\ c[4] = b[2] /\ c[5] = b[3] /\ c[6] = b[4]
    OBVIOUS
  <1> HIDE DEF a, b, c
  <1>4. /\ a \o b \in Seq(Steps) /\ Len(a \o b) = Len(a) + Len(b)
        /\ \A i \in 1..Len(a) + Len(b) :
             (a \o b)[i] = IF i <= Len(a) THEN a[i] ELSE b[i - Len(a)]
    BY <1>1, ConcatProperties
  <1>5. ASSUME NEW i \in 1..6 PROVE (a \o b)[i] = c[i]
    <2>1. (a \o b)[i] = IF i <= 2 THEN a[i] ELSE b[i - 2]
      <3>1. i \in 1..Len(a) + Len(b)
        BY <1>2
      <3>2. (a \o b)[i] = IF i <= Len(a) THEN a[i] ELSE b[i - Len(a)]
        BY <1>4, <3>1
      <3>3. QED
        BY <1>2, <3>2
    <2>2. i \in {1, 2, 3, 4, 5, 6}
      OBVIOUS
    <2>3. QED
      BY <1>3, <2>1, <2>2
  <1>6. a \o b = c
    <2>1. Len(a \o b) = Len(c)
      BY <1>2, <1>4
    <2>2. \A i \in 1..Len(a \o b) : (a \o b)[i] = c[i]
      BY <1>2, <1>5, <2>1
    <2> DEFINE d == a \o b
    <2>3. d \in Seq(Steps) /\ Len(d) = Len(c) /\ \A i \in 1..Len(d) : d[i] = c[i]
      BY <1>4, <2>1, <2>2
    <2> HIDE DEF d
    <2>4. d = c
      BY <1>1, <2>3, SeqEqual
    <2>5. QED
      BY <2>4 DEF d
  <1>7. QED
    BY <1>6 DEF a, b, c, Check, Zero

\* A check that goes on with x is one plan.
LEMMA CheckedIs == ASSUME NEW x \in Steps PROVE Check \o <<x>> = Checked1(x)
  <1> DEFINE a == <<"zero", "write", "shell", "wait", "load", "judge">>
             b == <<x>>
             c == <<"zero", "write", "shell", "wait", "load", "judge", x>>
  <1>1. a \in Seq(Steps) /\ b \in Seq(Steps) /\ c \in Seq(Steps)
    BY DEF Steps
  <1>2. Len(a) = 6 /\ Len(b) = 1 /\ Len(c) = 7
    OBVIOUS
  <1>3. /\ c[1] = a[1] /\ c[2] = a[2] /\ c[3] = a[3] /\ c[4] = a[4] /\ c[5] = a[5]
        /\ c[6] = a[6] /\ c[7] = b[1]
    OBVIOUS
  <1> HIDE DEF a, b, c
  <1>4. /\ a \o b \in Seq(Steps) /\ Len(a \o b) = Len(a) + Len(b)
        /\ \A i \in 1..Len(a) + Len(b) :
             (a \o b)[i] = IF i <= Len(a) THEN a[i] ELSE b[i - Len(a)]
    BY <1>1, ConcatProperties
  <1>5. ASSUME NEW i \in 1..7 PROVE (a \o b)[i] = c[i]
    <2>1. (a \o b)[i] = IF i <= 6 THEN a[i] ELSE b[i - 6]
      <3>1. i \in 1..Len(a) + Len(b)
        BY <1>2
      <3>2. (a \o b)[i] = IF i <= Len(a) THEN a[i] ELSE b[i - Len(a)]
        BY <1>4, <3>1
      <3>3. QED
        BY <1>2, <3>2
    <2>2. i \in {1, 2, 3, 4, 5, 6, 7}
      OBVIOUS
    <2>3. QED
      BY <1>3, <2>1, <2>2
  <1>6. a \o b = c
    <2>1. Len(a \o b) = Len(c)
      BY <1>2, <1>4
    <2>2. \A i \in 1..Len(a \o b) : (a \o b)[i] = c[i]
      BY <1>2, <1>5, <2>1
    <2> DEFINE d == a \o b
    <2>3. d \in Seq(Steps) /\ Len(d) = Len(c) /\ \A i \in 1..Len(d) : d[i] = c[i]
      BY <1>4, <2>1, <2>2
    <2> HIDE DEF d
    <2>4. d = c
      BY <1>1, <2>3, SeqEqual
    <2>5. QED
      BY <2>4 DEF d
  <1>7. QED
    BY <1>6, CheckIs DEF a, b, c, Checked1

\* Plans are sequences.
LEMMA PlansAreSeqs ==
  ASSUME NEW x \in Steps
  PROVE  /\ Checked1(x) \in Seq(Steps) /\ Checked2(x) \in Seq(Steps) /\ Checked3(x) \in Seq(Steps)
         /\ Checked4(x) \in Seq(Steps) /\ Checked5(x) \in Seq(Steps) /\ Checked6(x) \in Seq(Steps)
         /\ Checked7(x) \in Seq(Steps) /\ Nothing \in Seq(Steps) /\ OnlyWrite \in Seq(Steps)
         /\ <<x>> = Checked7(x)
  BY DEF Checked1, Checked2, Checked3, Checked4, Checked5, Checked6, Checked7, OnlyWrite,
         Nothing, Steps

\* Nothing put before or behind a plan changes it.
LEMMA Joins ==
  ASSUME NEW s \in Seq(Steps)
  PROVE  <<>> \o s = s /\ s \o <<>> = s
  BY ConcatEmptySeq

----------------------------------------------------------------------------
(* Type correctness.                                                       *)

SavedOK == mem \in Saved /\ new \in Saved /\ disk \in Saved
GhostOK == ghost \in [saved : 0..1, torn : BOOLEAN, sure : SUBSET Files,
                      must : BOOLEAN, left : BOOLEAN, past : BOOLEAN]
TodoOK == todo \in [file : Files \cup {NoFile}, steps : Seq(Steps)]
RestOK == /\ sh \in {"none", "judging", "asleep"}
          /\ content \in [Files -> {"good", "bad", "nosum", "gone"}]
          /\ prompt \in Files \cup {NoFile} /\ print \in Files \cup {NoFile}
TypeInv == SavedOK /\ GhostOK /\ TodoOK /\ RestOK

\* A step replaces the head of the script.
LEMMA ThenType ==
  ASSUME TodoOK, ~Idle, NEW p \in Seq(Steps), Then(p)
  PROVE  /\ TodoOK' /\ todo'.file = todo.file /\ todo'.steps = p \o Tail(todo.steps)
  <1>1. Tail(todo.steps) \in Seq(Steps)
    BY HeadTailProperties DEF TodoOK, Idle
  <1>2. p \o Tail(todo.steps) \in Seq(Steps)
    BY <1>1, ConcatProperties
  <1> DEFINE q == p \o Tail(todo.steps)
  <1>3. todo' = [todo EXCEPT !.steps = q]
    BY DEF Then
  <1> HIDE DEF q
  <1>4. QED
    BY <1>2, <1>3 DEF TodoOK, q

\* Scripts are begun with plans.
LEMMA ScriptType ==
  ASSUME NEW f \in Files \cup {NoFile}, NEW p \in Seq(Steps), Script(f, p)
  PROVE  TodoOK' /\ todo'.file = f /\ todo'.steps = p
  BY DEF Script, TodoOK

\* The plans a script is begun with.
LEMMA PlansGiven ==
  /\ Zero \in Seq(Steps) /\ Check \in Seq(Steps) /\ <<>> \in Seq(Steps)
  /\ <<"ask">> \in Seq(Steps) /\ <<"run">> \in Seq(Steps) /\ <<"start">> \in Seq(Steps)
  /\ <<"force", "write">> \in Seq(Steps) /\ <<"tell">> \in Seq(Steps)
  BY CheckIs DEF Zero, Steps

\* Every variable keeps its type; the script is only asked about files.
LEMMA TypeStep ==
  ASSUME TypeInv, sh # "none" => todo.file \in Files, [Next]_vars
  PROVE  TypeInv'
  <1> USE DEF TypeInv
  <1>1. ASSUME NEW f \in Files, Request(f) PROVE TypeInv'
    <2>1. \/ Script(f, Check \o <<"ask">>)
          \/ Script(f, <<>> \o <<"ask">>)
      BY <1>1 DEF Request
    <2>2. Check \o <<"ask">> \in Seq(Steps) /\ <<>> \o <<"ask">> \in Seq(Steps)
      BY PlansGiven, ConcatProperties
    <2>3. TodoOK'
      BY <2>1, <2>2, ScriptType
    <2>4. GhostOK'
      BY <1>1 DEF Request, GhostOK
    <2>5. QED
      BY <1>1, <2>3, <2>4 DEF Request, SavedOK, RestOK
  <1>2. ASSUME NEW f \in Files, Direct(f) PROVE TypeInv'
    <2>1. GhostOK'
      BY <1>2 DEF Direct, GhostOK
    <2>2. TodoOK'
      BY <1>2, ScriptType, PlansGiven DEF Direct
    <2>3. QED
      BY <1>2, <2>1, <2>2 DEF Direct, SavedOK, RestOK
  <1>3. ASSUME NEW f \in Files, Upload(f) PROVE TypeInv'
    <2>1. GhostOK'
      BY <1>3 DEF Upload, GhostOK
    <2>2. content' \in [Files -> {"good", "bad", "nosum", "gone"}]
      <3>1. PICK c \in {"good", "bad", "nosum"} : content' = [content EXCEPT ![f] = c]
        BY <1>3 DEF Upload
      <3>2. QED
        BY <3>1 DEF RestOK
    <2>3. QED
      BY <1>3, <2>1, <2>2 DEF Upload, SavedOK, RestOK, TodoOK
  <1>4. CASE Confirm
    <2>1. TodoOK'
      BY <1>4, ScriptType, PlansGiven DEF Confirm, RestOK
    <2>2. QED
      BY <1>4, <2>1 DEF Confirm, SavedOK, RestOK, GhostOK
  <1>5. CASE Dismiss
    <2>1. GhostOK'
      BY <1>5 DEF Dismiss, GhostOK
    <2>2. QED
      BY <1>5, <2>1 DEF Dismiss, SavedOK, RestOK, TodoOK
  <1>6. CASE End
    <2>1. TodoOK'
      BY <1>6, ScriptType, PlansGiven DEF End
    <2>2. QED
      BY <1>6, <2>1 DEF End, SavedOK, RestOK, GhostOK
  <1>7. CASE Toggle
    <2>1. TodoOK'
      BY <1>7, ScriptType, PlansGiven DEF Toggle
    <2>2. QED
      BY <1>7, <2>1 DEF Toggle, SavedOK, RestOK, GhostOK
  <1>8. CASE Open
    <2>1. TodoOK'
      BY <1>8, ThenType, PlansGiven DEF Open, Doing
    <2>2. new' \in Saved /\ Defaults \in Saved
      BY <1>8 DEF Open, SavedOK, Saved, Defaults
    <2>3. GhostOK'
      BY <1>8 DEF Open, GhostOK, SavedOK, Saved
    <2>4. QED
      BY <1>8, <2>1, <2>2, <2>3 DEF Open, SavedOK, RestOK
  <1>9. CASE Write
    <2>1. TodoOK'
      BY <1>9, ThenType, PlansGiven DEF Write, Doing
    <2>2. GhostOK'
      BY <1>9 DEF Write, GhostOK
    <2>3. QED
      BY <1>9, <2>1, <2>2 DEF Write, SavedOK, RestOK
  <1>10. CASE OpenFails \/ WriteFails
    <2>1. TodoOK'
      BY <1>10, ScriptType, PlansGiven DEF OpenFails, WriteFails
    <2>2. GhostOK'
      BY <1>10 DEF OpenFails, WriteFails, LeaveVerdict, GhostOK, SavedOK, Saved
    <2>3. disk' \in Saved
      BY <1>10 DEF OpenFails, WriteFails, SavedOK, Saved, Defaults
    <2>4. QED
      BY <1>10, <2>1, <2>2, <2>3 DEF OpenFails, WriteFails, SavedOK, RestOK
  <1>11. CASE Shell \/ Wait \/ Kill \/ Load
    <2>1. TodoOK'
      BY <1>11, ThenType, PlansGiven DEF Shell, Wait, Kill, Load, Doing
    <2>2. QED
      BY <1>11, <2>1 DEF Shell, Wait, Kill, Load, SavedOK, RestOK, GhostOK
  <1>12. CASE Judge
    <2>1. TodoOK'
      BY <1>12, ThenType, ScriptType, PlansGiven DEF Judge, Doing
    <2>2. QED
      BY <1>12, <2>1 DEF Judge, SavedOK, RestOK, GhostOK
  <1>13. CASE Ask \/ Run \/ Tell
    <2>1. TodoOK'
      BY <1>13, ThenType, PlansGiven DEF Ask, Run, Tell, Doing
    <2>2. GhostOK'
      BY <1>13 DEF Ask, Run, Tell, LeaveVerdict, GhostOK
    <2>3. QED
      BY <1>13, <2>1, <2>2 DEF Ask, Run, Tell, SavedOK, RestOK, TodoOK
  <1>14. CASE StartPrint
    <2>1. Then(Check \o <<"run">>) \/ Then(<<>> \o <<"run">>)
      BY <1>14 DEF StartPrint
    <2>2. Check \o <<"run">> \in Seq(Steps) /\ <<>> \o <<"run">> \in Seq(Steps)
      BY PlansGiven, ConcatProperties
    <2>3. TodoOK'
      BY <1>14, <2>1, <2>2, ThenType DEF StartPrint, Doing
    <2>4. GhostOK'
      BY <1>14 DEF StartPrint, GhostOK
    <2>5. QED
      BY <1>14, <2>3, <2>4 DEF StartPrint, SavedOK, RestOK
  <1>15. CASE Reboot
    <2>1. TodoOK'
      BY <1>15, ScriptType, PlansGiven DEF Reboot
    <2>2. GhostOK'
      BY <1>15 DEF Reboot, GhostOK, SavedOK, Saved
    <2>3. QED
      BY <1>15, <2>1, <2>2 DEF Reboot, SavedOK, RestOK
  <1>16. CASE Exit \/ UNCHANGED vars
    BY <1>16 DEF Exit, vars, SavedOK, RestOK, GhostOK, TodoOK
  <1>17. CASE Sum
    <2>1. content[todo.file] \in {"good", "bad", "nosum", "gone"} /\ todo.file \in Files
      BY <1>17 DEF Sum, RestOK
    <2>2. Verdicts(content[todo.file]) \subseteq {2, 3, 5, 6, 7}
      BY <2>1 DEF Verdicts, Bad
    <2>3. disk' \in Saved
      BY <1>17, <2>2 DEF Sum, SavedOK, Saved
    <2>4. GhostOK'
      BY <1>17, <2>1 DEF Sum, GhostOK
    <2>5. content' \in [Files -> {"good", "bad", "nosum", "gone"}]
      BY <1>17, <2>1 DEF Sum, RestOK
    <2>6. QED
      BY <1>17, <2>3, <2>4, <2>5 DEF Sum, SavedOK, RestOK, TodoOK
  <1>18. ASSUME NEW f \in Files, UserCheck(f) PROVE TypeInv'
    <2>1. Check \o <<"tell">> \in Seq(Steps)
      BY PlansGiven, ConcatProperties
    <2>2. TodoOK'
      BY <1>18, <2>1, ScriptType DEF UserCheck
    <2>3. QED
      BY <1>18, <2>2 DEF UserCheck, SavedOK, RestOK, GhostOK
  <1>19. CASE Reset \/ LineFails
    <2>1. GhostOK'
      BY <1>19 DEF Reset, LineFails, LeaveVerdict, GhostOK
    <2>2. QED
      BY <1>19, <2>1 DEF Reset, LineFails, SavedOK, RestOK, TodoOK
  <1>20. CASE Missing
    <2>1. TodoOK'
      BY <1>20, ScriptType, PlansGiven DEF Missing
    <2>2. GhostOK'
      BY <1>20 DEF Missing, LeaveVerdict, GhostOK
    <2>3. QED
      BY <1>20, <2>1, <2>2 DEF Missing, SavedOK, RestOK
  <1>21. QED
    BY <1>1, <1>2, <1>3, <1>4, <1>5, <1>6, <1>7, <1>8, <1>9, <1>10, <1>11, <1>12, <1>13,
       <1>14, <1>15, <1>16, <1>17, <1>18, <1>19, <1>20 DEF Next

----------------------------------------------------------------------------
(* The invariant.                                                          *)

Sure(f) == f \in ghost.sure \/ ghost.left

\* Between scripts a verdict is that of the file the dialog asks about, or outlived what
\* it was given for.
IdleOK == print = NoFile /\ mem.check # 0 => Sure(prompt)

\* What is printed was accepted if it had to be, or its start found an outlived verdict.
PrintOK == print # NoFile /\ ghost.must => print \in ghost.sure \/ ghost.past

\* Memory and, unless a write failed, the disk have the option as saved.
MemOK == /\ mem.force = ghost.saved
         /\ ~ghost.torn => disk.force = ghost.saved

\* A file that is about to be printed is loaded and not replaced: its acceptance stays.
Found(x, f) == IF x = "run" THEN f \in ghost.sure ELSE Sure(f)

\* What a check has established at each of its steps, for the file F it is made for.
CheckInv(x, s) ==
  LET F == todo.file IN
  \/ s = Checked1(x) /\ MemOK
  \/ s = Checked2(x) /\ new.force = ghost.saved /\ new.check = 0
  \/ s = Checked3(x) /\ MemOK /\ ~ghost.torn /\ disk.check = 0
  \/ /\ s \in {Checked4(x), Checked5(x)} /\ MemOK /\ ~ghost.torn
     /\ disk.check \in Passing => Found(x, F)
  \/ s = Checked6(x) /\ MemOK /\ (mem.check \in Passing => Found(x, F))
  \/ /\ s = Checked7(x) /\ MemOK /\ (mem.check # 0 => Sure(F))
     /\ x = "run" /\ ghost.must => F \in ghost.sure \/ ghost.past

\* A check before a print is made while nothing is printed.
CheckOK(x, s) == (x = "run" => print = NoFile) /\ CheckInv(x, s)

\* What holds while the script has this to do.
PlanInv ==
  LET s == todo.steps IN
  \/ s \in {Nothing, Switch} /\ MemOK /\ IdleOK
  \/ s = Zero /\ MemOK /\ print = NoFile
  \/ /\ s = OnlyWrite /\ new.force = ghost.saved
     /\ new.check = 0 \/ (new.check = mem.check /\ IdleOK)
  \/ /\ todo.file \in Files
     /\ \/ s = Start /\ MemOK /\ print = NoFile /\ (mem.check # 0 => Sure(todo.file))
        \/ \E x \in Aims : CheckOK(x, s)

Inv ==
  /\ PlanInv /\ PrintOK
  /\ sh # "none" => \E x \in Aims : todo.steps = Checked4(x)

\* Where a script with such a step is, and what holds there.
LEMMA Where ==
  ASSUME PlanInv
  PROVE  /\ Idle => todo.steps = Nothing /\ MemOK /\ IdleOK
         /\ Doing("zero") =>
              /\ MemOK
              /\ \/ todo.steps = Zero
                 \/ /\ todo.file \in Files
                    /\ \E x \in Aims : todo.steps = Checked1(x) /\ (x = "run" => print = NoFile)
         /\ Doing("force") => todo.steps = Switch /\ MemOK /\ IdleOK
         /\ Doing("write") =>
              /\ new.force = ghost.saved
              /\ \/ /\ todo.steps = OnlyWrite
                    /\ new.check = 0 \/ (new.check = mem.check /\ IdleOK)
                 \/ /\ todo.file \in Files /\ new.check = 0
                    /\ \E x \in Aims : todo.steps = Checked2(x) /\ (x = "run" => print = NoFile)
         /\ Doing("start") => /\ todo.steps = Start /\ MemOK /\ print = NoFile
                              /\ todo.file \in Files /\ (mem.check # 0 => Sure(todo.file))
  <1>1. Idle => todo.steps = Nothing /\ MemOK /\ IdleOK
    BY NotNothing DEF PlanInv, CheckOK, CheckInv, Idle
  <1>2. ASSUME Doing("zero")
        PROVE  /\ MemOK
               /\ \/ todo.steps = Zero
                  \/ /\ todo.file \in Files
                     /\ \E x \in Aims : todo.steps = Checked1(x) /\ (x = "run" => print = NoFile)
    BY <1>2, Heads, NotNothing DEF PlanInv, CheckOK, CheckInv, Doing, Idle, Aims
  <1>3. Doing("force") => todo.steps = Switch /\ MemOK /\ IdleOK
    BY Heads, NotNothing DEF PlanInv, CheckOK, CheckInv, Doing, Idle, Aims
  <1>4. ASSUME Doing("write")
        PROVE  /\ new.force = ghost.saved
               /\ \/ /\ todo.steps = OnlyWrite
                     /\ new.check = 0 \/ (new.check = mem.check /\ IdleOK)
                  \/ /\ todo.file \in Files /\ new.check = 0
                     /\ \E x \in Aims : todo.steps = Checked2(x) /\ (x = "run" => print = NoFile)
    BY <1>4, Heads, NotNothing DEF PlanInv, CheckOK, CheckInv, Doing, Idle, Aims
  <1>5. Doing("start") => /\ todo.steps = Start /\ MemOK /\ print = NoFile
                          /\ todo.file \in Files /\ (mem.check # 0 => Sure(todo.file))
    BY Heads, NotNothing DEF PlanInv, CheckOK, CheckInv, Doing, Idle, Aims
  <1>6. QED
    BY <1>1, <1>2, <1>3, <1>4, <1>5

\* The same for the steps of a check.
LEMMA WhereChecked ==
  ASSUME PlanInv, NEW h \in {"shell", "wait", "load", "judge", "ask", "run", "tell"}, Doing(h)
  PROVE  /\ todo.file \in Files /\ MemOK
         /\ \E x \in Aims :
              /\ CheckInv(x, todo.steps) /\ (x = "run" => print = NoFile)
              /\ h = "shell" => todo.steps = Checked3(x)
              /\ h = "wait" => todo.steps = Checked4(x)
              /\ h = "load" => todo.steps = Checked5(x)
              /\ h = "judge" => todo.steps = Checked6(x)
              /\ h \in Aims => todo.steps = Checked7(x) /\ x = h
  BY Heads, NotNothing DEF PlanInv, CheckOK, CheckInv, Doing, Idle, Aims

\* A step that adds no step goes on to the rest.
LEMMA ThenRest ==
  ASSUME TodoOK, ~Idle, Then(<<>>)
  PROVE  todo'.steps = Tail(todo.steps) /\ todo'.file = todo.file
  <1>1. Tail(todo.steps) \in Seq(Steps) /\ <<>> \in Seq(Steps)
    BY HeadTailProperties, PlansGiven DEF TodoOK, Idle
  <1>2. QED
    BY <1>1, ThenType, Joins

\* What the user may begin when no script runs.
LEMMA BeginKeeps ==
  ASSUME TypeInv, Inv, NEW f,
         \/ f \in Files /\ (Request(f) \/ UserCheck(f) \/ Direct(f))
         \/ Confirm \/ End \/ Toggle
  PROVE  Inv'
  <1>1. todo.steps = Nothing /\ MemOK /\ IdleOK /\ sh = "none"
    <2>1. Idle
      BY DEF Request, UserCheck, Direct, Confirm, End, Toggle, Ready
    <2>2. \A x : Checked4(x) # <<>>
      BY NotNothing
    <2>3. QED
      BY <2>1, <2>2, Where DEF Inv, Idle
  <1>2. sh' = "none" /\ mem' = mem /\ disk' = disk
    BY <1>1 DEF Request, UserCheck, Direct, Confirm, End, Toggle
  <1>3. CASE f \in Files /\ Request(f)
    <2>1. /\ print' = print /\ MemOK' /\ PrintOK' /\ ghost'.left = (mem.check # 0)
      BY <1>1, <1>2, <1>3 DEF Request, MemOK, GhostOK, TypeInv, Inv, PrintOK
    <2>2. /\ todo'.file = f
          /\ todo'.steps \in {Checked1("ask"), Checked7("ask")}
      <3>1. Script(f, Check \o <<"ask">>) \/ Script(f, <<>> \o <<"ask">>)
        BY <1>3 DEF Request
      <3>2. Check \o <<"ask">> = Checked1("ask") /\ <<>> \o <<"ask">> = Checked7("ask")
        BY CheckedIs, Joins, PlansAreSeqs, PlansGiven DEF Steps
      <3>3. QED
        BY <3>1, <3>2 DEF Script
    <2>3. CheckInv("ask", todo.steps)'
      BY <1>2, <2>1, <2>2 DEF CheckInv, Sure
    <2>4. PlanInv'
      BY <1>3, <2>2, <2>3 DEF PlanInv, CheckOK, Aims
    <2>5. QED
      BY <1>2, <2>1, <2>4 DEF Inv
  <1>4. CASE f \in Files /\ UserCheck(f)
    <2>1. print' = print /\ MemOK' /\ PrintOK'
      BY <1>1, <1>2, <1>4 DEF UserCheck, MemOK, Inv, PrintOK
    <2>2. todo'.file = f /\ todo'.steps = Checked1("tell")
      BY <1>4, CheckedIs DEF UserCheck, Script, Steps
    <2>3. PlanInv'
      BY <1>4, <2>1, <2>2 DEF PlanInv, CheckOK, CheckInv, Aims
    <2>4. QED
      BY <1>2, <2>1, <2>3 DEF Inv
  <1>5. CASE f \in Files /\ Direct(f)
    <2>1. /\ print = NoFile /\ print' = NoFile /\ MemOK' /\ todo'.file = f /\ todo'.steps = Start
          /\ ghost'.left = (ghost.left \/ prompt # NoFile)
      BY <1>1, <1>2, <1>5 DEF Direct, Ready, MemOK, GhostOK, TypeInv, Script, Start
    <2>2. mem.check # 0 => ghost.left \/ prompt # NoFile
      BY <1>1, <2>1, NoFileAssumption DEF IdleOK, Sure, GhostOK, TypeInv
    <2>3. PlanInv'
      BY <1>2, <1>5, <2>1, <2>2 DEF PlanInv, Sure
    <2>4. QED
      BY <1>2, <2>1, <2>3 DEF Inv, PrintOK
  <1>6. CASE Confirm
    <2>1. /\ print = NoFile /\ print' = NoFile /\ MemOK' /\ todo'.file = prompt /\ todo'.steps = Start
          /\ ghost' = ghost /\ prompt \in Files
      BY <1>1, <1>2, <1>6 DEF Confirm, Ready, MemOK, TypeInv, RestOK, Script, Start
    <2>2. PlanInv'
      BY <1>1, <1>2, <2>1 DEF PlanInv, IdleOK, Sure
    <2>3. QED
      BY <1>2, <2>1, <2>2 DEF Inv, PrintOK
  <1>7. CASE End
    <2>1. print' = NoFile /\ todo'.steps = Zero /\ MemOK'
      BY <1>1, <1>2, <1>7 DEF End, MemOK, Script
    <2>2. QED
      BY <1>2, <2>1 DEF Inv, PrintOK, PlanInv
  <1>8. CASE Toggle
    <2>1. /\ todo'.steps = Switch /\ ghost' = ghost /\ print' = print /\ prompt' = prompt
      BY <1>8 DEF Toggle, Script, Switch
    <2>2. MemOK' /\ IdleOK' /\ PrintOK'
      BY <1>1, <1>2, <2>1 DEF MemOK, IdleOK, PrintOK, Sure, Inv
    <2>3. QED
      BY <1>2, <2>1, <2>2 DEF Inv, PlanInv
  <1>9. QED
    BY <1>3, <1>4, <1>5, <1>6, <1>7, <1>8

\* A print that is dropped leaves its verdict behind, and is no longer there.
LEMMA DropKeeps == ASSUME TypeInv, Inv, Reset \/ LineFails PROVE Inv'
  <1>1. todo.steps = Nothing /\ MemOK /\ sh = "none"
    <2>1. Idle /\ \A x : Checked4(x) # <<>>
      BY NotNothing DEF Reset, LineFails
    <2>2. QED
      BY <2>1, Where DEF Inv, Idle
  <1>2. /\ UNCHANGED <<disk, mem, todo, sh>> /\ print' = NoFile
        /\ ghost'.left = (ghost.left \/ mem.check # 0)
        /\ ghost'.saved = ghost.saved /\ ghost'.torn = ghost.torn
    BY DEF Reset, LineFails, LeaveVerdict, TypeInv, GhostOK
  <1>3. MemOK' /\ IdleOK' /\ PrintOK'
    BY <1>1, <1>2 DEF MemOK, IdleOK, PrintOK, Sure
  <1>4. QED
    BY <1>1, <1>2, <1>3 DEF Inv, PlanInv

\* Closing the dialog or replacing a file only lets a verdict outlive what it was given for.
LEMMA AsideKeeps ==
  ASSUME TypeInv, Inv, NEW f, Dismiss \/ Upload(f)
  PROVE  Inv'
  <1>1. /\ UNCHANGED <<disk, mem, new, todo, sh, print>>
        /\ ghost'.saved = ghost.saved /\ ghost'.torn = ghost.torn /\ ghost'.must = ghost.must
        /\ ghost'.past = ghost.past
    BY DEF Dismiss, Upload, GhostOK, TypeInv
  <1>2. \A g : Sure(g) => Sure(g)'
    <2>1. CASE Dismiss
      BY <2>1 DEF Dismiss, GhostOK, TypeInv, Sure
    <2>2. CASE Upload(f)
      BY <2>2 DEF Upload, GhostOK, TypeInv, Sure
    <2>3. QED
      BY <2>1, <2>2
  <1>3. IdleOK => IdleOK'
    <2>1. CASE Dismiss
      BY <2>1 DEF Dismiss, GhostOK, TypeInv, Sure, IdleOK
    <2>2. CASE Upload(f)
      BY <1>1, <1>2, <2>2 DEF Upload, IdleOK
    <2>3. QED
      BY <2>1, <2>2
  <1>4. MemOK' <=> MemOK
    BY <1>1 DEF MemOK
  <1>5. \A g : Loaded(g) /\ g \in ghost.sure => g \in ghost'.sure
    <2>1. CASE Dismiss
      BY <2>1 DEF Dismiss, GhostOK, TypeInv
    <2>2. CASE Upload(f)
      BY <2>2 DEF Upload, GhostOK, TypeInv
    <2>3. QED
      BY <2>1, <2>2
  <1>6. ASSUME NEW x, NEW p, p = todo.steps, CheckInv(x, p) PROVE CheckInv(x, p)'
    <2>1. x = "run" => Loaded(todo.file)
      BY <1>6, Goals DEF CheckInv, Loaded
    <2>2. Found(x, todo.file) => Found(x, todo.file)'
      BY <1>1, <1>2, <1>5, <2>1 DEF Found
    <2>3. QED
      BY <1>1, <1>2, <1>4, <1>5, <1>6, <2>1, <2>2 DEF CheckInv
  <1>7. PrintOK'
    BY <1>1, <1>5 DEF Inv, PrintOK, Loaded
  <1>8. PlanInv'
    <2>1. ASSUME NEW x \in Aims, CheckOK(x, todo.steps) PROVE CheckOK(x, todo.steps)'
      BY <1>1, <1>6, <2>1 DEF CheckOK
    <2>2. QED
      BY <1>1, <1>2, <1>3, <1>4, <2>1 DEF Inv, PlanInv
  <1>9. QED
    BY <1>1, <1>7, <1>8 DEF Inv

\* A script that is not waiting for the shell script has none.
LEMMA NoShell ==
  ASSUME Inv, NEW h, Doing(h), h # "wait"
  PROVE  sh = "none"
  BY Heads DEF Inv, Doing

\* SAVE_VARIABLE truncates the file; what it will write has the option as saved.
LEMMA OpenKeeps == ASSUME TypeInv, Inv, Open PROVE Inv'
  <1>1. /\ ~Idle /\ todo'.steps = Tail(todo.steps) /\ todo'.file = todo.file
        /\ sh' = "none" /\ UNCHANGED <<mem, prompt, print>>
    BY ThenRest, NoShell DEF Open, Doing, TypeInv
  <1>2. CASE Doing("zero") /\ new' = [mem EXCEPT !.check = 0] /\ ghost' = ghost
    <2>1. /\ MemOK /\ new'.check = 0 /\ new'.force = ghost'.saved
      BY <1>2, Where DEF Inv, MemOK, TypeInv, SavedOK, Saved
    <2>2. \/ todo'.steps = OnlyWrite
          \/ /\ todo.file \in Files
             /\ \E x \in Aims : todo'.steps = Checked2(x) /\ (x = "run" => print = NoFile)
      BY <1>1, <1>2, Where, Tails DEF Inv
    <2>3. PlanInv'
      BY <1>1, <2>1, <2>2 DEF PlanInv, CheckOK, CheckInv
    <2>4. PrintOK'
      BY <1>1, <1>2 DEF Inv, PrintOK
    <2>5. QED
      BY <1>1, <2>3, <2>4 DEF Inv
  <1>3. CASE /\ Doing("force") /\ new' = [mem EXCEPT !.force = 1 - mem.force]
             /\ ghost' = [ghost EXCEPT !.saved = 1 - mem.force]
    <2>1. /\ new'.check = mem.check /\ new'.force = ghost'.saved
          /\ ghost'.sure = ghost.sure /\ ghost'.left = ghost.left /\ ghost'.must = ghost.must
          /\ ghost'.past = ghost.past
      BY <1>3 DEF TypeInv, SavedOK, Saved, GhostOK
    <2>2. todo'.steps = OnlyWrite /\ IdleOK
      BY <1>1, <1>3, Where, Tails DEF Inv
    <2>3. IdleOK' /\ PrintOK'
      BY <1>1, <2>1, <2>2 DEF IdleOK, PrintOK, Sure, Inv
    <2>4. PlanInv'
      BY <1>1, <2>1, <2>2, <2>3 DEF PlanInv
    <2>5. QED
      BY <1>1, <2>3, <2>4 DEF Inv
  <1>4. QED
    BY <1>2, <1>3 DEF Open

\* What was written is in memory and on the disk.
LEMMA WriteKeeps == ASSUME TypeInv, Inv, Write PROVE Inv'
  <1>1. /\ ~Idle /\ Doing("write") /\ todo'.steps = Tail(todo.steps) /\ todo'.file = todo.file
        /\ sh' = "none" /\ UNCHANGED <<new, prompt, print>>
        /\ disk' = new /\ mem' = new
    BY ThenRest, NoShell DEF Write, Doing, TypeInv
  <1>2. /\ ghost'.torn = FALSE /\ ghost'.left = (ghost.left /\ new.check # 0)
        /\ ghost'.saved = ghost.saved /\ ghost'.sure = ghost.sure /\ ghost'.must = ghost.must
        /\ ghost'.past = ghost.past
    BY DEF Write, TypeInv, GhostOK
  <1>3. new.force = ghost.saved /\ MemOK'
    BY <1>1, <1>2, Where DEF Inv, MemOK
  <1>4. PrintOK'
    BY <1>1, <1>2 DEF Inv, PrintOK
  <1>5. CASE todo.steps = OnlyWrite
    <2>1. todo'.steps = Nothing
      BY <1>1, <1>5, Tails
    <2>2. IdleOK'
      <3>1. new.check = 0 \/ (new.check = mem.check /\ IdleOK)
        BY <1>1, Where DEF Inv
      <3>2. new.check # 0 => (Sure(prompt) => Sure(prompt)')
        BY <1>1, <1>2 DEF Sure
      <3>3. QED
        BY <1>1, <3>1, <3>2 DEF IdleOK
    <2>3. QED
      BY <1>1, <1>3, <1>4, <2>1, <2>2 DEF Inv, PlanInv
  <1>6. CASE /\ todo.file \in Files /\ new.check = 0
             /\ \E x \in Aims : todo.steps = Checked2(x) /\ (x = "run" => print = NoFile)
    <2>1. PICK x \in Aims : todo'.steps = Checked3(x) /\ (x = "run" => print = NoFile)
      BY <1>1, <1>6, Tails
    <2>2. CheckInv(x, todo.steps)'
      BY <1>1, <1>2, <1>3, <1>6, <2>1 DEF CheckInv
    <2>3. PlanInv'
      BY <1>1, <1>6, <2>1, <2>2 DEF PlanInv, CheckOK
    <2>4. QED
      BY <1>1, <1>4, <2>3 DEF Inv
  <1>7. QED
    BY <1>1, <1>5, <1>6, Where DEF Inv

\* A write that fails leaves memory as it was, and what is saved with it.
LEMMA WriteFailsKeeps == ASSUME TypeInv, Inv, OpenFails \/ WriteFails PROVE Inv'
  <1>1. /\ todo'.steps = Nothing /\ sh' = "none" /\ UNCHANGED <<mem, prompt, print>>
    BY NoShell DEF OpenFails, WriteFails, Script, Nothing
  <1>2. /\ ghost'.left = (ghost.left \/ mem.check # 0)
        /\ ghost'.sure = ghost.sure /\ ghost'.must = ghost.must /\ ghost'.past = ghost.past
    BY DEF OpenFails, WriteFails, LeaveVerdict, TypeInv, GhostOK
  <1>3. MemOK'
    <2>1. CASE OpenFails
      <3>1. MemOK
        BY <2>1, Where DEF OpenFails, Inv
      <3>2. disk' = disk /\ ghost'.torn = ghost.torn /\ ghost'.saved = ghost.saved
        BY <2>1 DEF OpenFails, LeaveVerdict, TypeInv, GhostOK
      <3>3. QED
        BY <1>1, <3>1, <3>2 DEF MemOK
    <2>2. CASE WriteFails
      <3>1. ghost'.torn = TRUE /\ ghost'.saved = mem.force
        BY <2>2 DEF WriteFails, TypeInv, GhostOK
      <3>2. QED
        BY <1>1, <3>1 DEF MemOK
    <2>3. QED
      BY <2>1, <2>2
  <1>4. IdleOK' /\ PrintOK'
    BY <1>1, <1>2 DEF IdleOK, PrintOK, Sure, Inv
  <1>5. QED
    BY <1>1, <1>3, <1>4 DEF Inv, PlanInv

\* What CheckInv says at each plan.
LEMMA CheckSays ==
  ASSUME NEW x \in Aims, CheckInv(x, todo.steps)
  PROVE  /\ todo.steps = Checked3(x) => MemOK /\ ~ghost.torn /\ disk.check = 0
         /\ todo.steps \in {Checked4(x), Checked5(x)} =>
              MemOK /\ ~ghost.torn /\ (disk.check \in Passing => Found(x, todo.file))
         /\ todo.steps = Checked6(x) => MemOK /\ (mem.check \in Passing => Found(x, todo.file))
         /\ todo.steps = Checked7(x) =>
              /\ MemOK /\ (mem.check # 0 => Sure(todo.file))
              /\ x = "run" /\ ghost.must => todo.file \in ghost.sure \/ ghost.past
  <1> DEFINE s == todo.steps
  <1>1. /\ Head(Checked1(x)) = "zero" /\ Head(Checked2(x)) = "write"
        /\ Head(Checked3(x)) = "shell" /\ Head(Checked4(x)) = "wait"
        /\ Head(Checked5(x)) = "load" /\ Head(Checked6(x)) = "judge"
        /\ Head(Checked7(x)) \in {"ask", "run", "tell"}
    BY Heads DEF Aims
  <1>2. s = Checked3(x) => MemOK /\ ~ghost.torn /\ disk.check = 0
    BY <1>1 DEF CheckInv
  <1>3. s \in {Checked4(x), Checked5(x)} =>
          MemOK /\ ~ghost.torn /\ (disk.check \in Passing => Found(x, todo.file))
    BY <1>1 DEF CheckInv
  <1>4. s = Checked6(x) => MemOK /\ (mem.check \in Passing => Found(x, todo.file))
    BY <1>1 DEF CheckInv
  <1>5. s = Checked7(x) =>
          /\ MemOK /\ (mem.check # 0 => Sure(todo.file))
          /\ x = "run" /\ ghost.must => todo.file \in ghost.sure \/ ghost.past
    BY <1>1 DEF CheckInv
  <1>6. QED
    BY <1>2, <1>3, <1>4, <1>5

\* The steps of the check up to its verdict.
LEMMA CheckKeeps == ASSUME TypeInv, Inv, Shell \/ Wait \/ Kill \/ Load PROVE Inv'
  <1>1. UNCHANGED <<content, new, disk, print, ghost>>
    BY DEF Shell, Wait, Kill, Load
  <1>2. \A x, f : Found(x, f)' <=> Found(x, f)
    BY <1>1 DEF Found, Sure
  <1>3. PrintOK'
    BY <1>1 DEF Inv, PrintOK
  <1>4. CASE Shell
    <2>1. Doing("shell")
      BY <1>4 DEF Shell
    <2>2. PICK x \in Aims : CheckInv(x, todo.steps) /\ todo.steps = Checked3(x)
                         /\ (x = "run" => print = NoFile)
      BY <2>1, WhereChecked DEF Inv
    <2>3. todo.file \in Files
      BY <2>1, WhereChecked DEF Inv
    <2>4. todo'.steps = Checked4(x) /\ todo'.file = todo.file
      BY <1>4, <2>2, ThenRest, Tails DEF Shell, Doing, TypeInv
    <2>5. MemOK /\ ~ghost.torn /\ disk.check = 0
      BY <2>2, CheckSays
    <2>6. CheckInv(x, todo.steps)'
      BY <1>1, <1>4, <2>4, <2>5 DEF CheckInv, Shell, MemOK, Passing
    <2>7. QED
      BY <1>1, <1>3, <2>2, <2>3, <2>4, <2>6 DEF Inv, PlanInv, CheckOK
  <1>5. CASE Wait \/ Kill
    <2>1. Doing("wait")
      BY <1>5 DEF Wait, Kill
    <2>2. PICK x \in Aims : CheckInv(x, todo.steps) /\ todo.steps = Checked4(x)
                         /\ (x = "run" => print = NoFile)
      BY <2>1, WhereChecked DEF Inv
    <2>3. todo.file \in Files
      BY <2>1, WhereChecked DEF Inv
    <2>4. /\ todo'.steps = Checked5(x) /\ todo'.file = todo.file /\ sh' = "none"
          /\ mem' = mem
      BY <1>5, <2>2, ThenRest, Tails DEF Wait, Kill, Doing, TypeInv
    <2>5. MemOK /\ ~ghost.torn /\ (disk.check \in Passing => Found(x, todo.file))
      BY <2>2, CheckSays
    <2>6. CheckInv(x, todo.steps)'
      BY <1>1, <1>2, <2>4, <2>5 DEF CheckInv, MemOK
    <2>7. QED
      BY <1>1, <1>3, <2>2, <2>3, <2>4, <2>6 DEF Inv, PlanInv, CheckOK
  <1>6. CASE Load
    <2>1. Doing("load")
      BY <1>6 DEF Load
    <2>2. PICK x \in Aims : CheckInv(x, todo.steps) /\ todo.steps = Checked5(x)
                         /\ (x = "run" => print = NoFile)
      BY <2>1, WhereChecked DEF Inv
    <2>3. todo.file \in Files
      BY <2>1, WhereChecked DEF Inv
    <2>4. /\ todo'.steps = Checked6(x) /\ todo'.file = todo.file /\ sh' = "none"
          /\ mem' = disk
      BY <1>6, <2>1, <2>2, ThenRest, Tails, NoShell DEF Load, Doing, TypeInv
    <2>5. MemOK /\ ~ghost.torn /\ (disk.check \in Passing => Found(x, todo.file))
      BY <2>2, CheckSays
    <2>6. CheckInv(x, todo.steps)'
      BY <1>1, <1>2, <2>4, <2>5 DEF CheckInv, MemOK
    <2>7. QED
      BY <1>1, <1>3, <2>2, <2>3, <2>4, <2>6 DEF Inv, PlanInv, CheckOK
  <1>7. QED
    BY <1>4, <1>5, <1>6

\* A verdict that passes lets the script go on; any other cancels what is printed.
LEMMA JudgeKeeps == ASSUME TypeInv, Inv, Judge PROVE Inv'
  <1>1. Doing("judge") /\ sh = "none"
    BY NoShell DEF Judge
  <1>2. PICK x \in Aims : CheckInv(x, todo.steps) /\ todo.steps = Checked6(x)
                         /\ (x = "run" => print = NoFile)
    BY <1>1, WhereChecked DEF Inv
  <1>3. todo.file \in Files /\ MemOK /\ (mem.check \in Passing => Found(x, todo.file))
    BY <1>1, <1>2, WhereChecked, CheckSays DEF Inv
  <1>4. UNCHANGED <<mem, disk, sh, ghost>>
    BY DEF Judge
  <1>5. MemOK' /\ \A f : Sure(f)' <=> Sure(f)
    BY <1>3, <1>4 DEF MemOK, Sure
  <1>6. CASE mem.check \in Passing /\ Then(<<>>) /\ print' = print
    <2>1. todo'.steps = Checked7(x) /\ todo'.file = todo.file
      BY <1>1, <1>2, <1>6, ThenRest, Tails DEF Doing, TypeInv
    <2>2. Found(x, todo.file)
      BY <1>3, <1>6
    <2>3. CheckInv(x, todo.steps)'
      BY <1>4, <1>5, <2>1, <2>2 DEF CheckInv, Found, Sure
    <2>4. PlanInv'
      BY <1>2, <1>3, <1>6, <2>1, <2>3 DEF PlanInv, CheckOK
    <2>5. QED
      BY <1>1, <1>4, <1>6, <2>4 DEF Inv, PrintOK
  <1>7. CASE Script(NoFile, Zero) /\ print' = NoFile
    BY <1>1, <1>4, <1>5, <1>7 DEF Inv, PlanInv, PrintOK, Script
  <1>8. QED
    BY <1>6, <1>7 DEF Judge

\* The dialog asks about the file that was accepted; the user's own verdict is left behind.
LEMMA AskKeeps == ASSUME TypeInv, Inv, Ask \/ Tell PROVE Inv'
  <1>1. PICK x \in {"ask", "tell"} : Doing(x) /\ (x = "ask" => Ask) /\ (x = "tell" => Tell)
    BY DEF Ask, Tell
  <1>2. todo.steps = Checked7(x) /\ CheckInv(x, todo.steps)
    BY <1>1, WhereChecked DEF Inv, Aims
  <1>3. MemOK /\ (mem.check # 0 => Sure(todo.file))
    BY <1>2, CheckSays DEF Aims
  <1>4. /\ UNCHANGED <<mem, disk, print>> /\ sh' = "none"
        /\ ghost'.saved = ghost.saved /\ ghost'.torn = ghost.torn /\ ghost'.must = ghost.must
        /\ ghost'.sure = ghost.sure /\ ghost'.past = ghost.past
    BY <1>1, NoShell DEF Ask, Tell, LeaveVerdict, TypeInv, GhostOK
  <1>5. todo'.steps = Nothing
    BY <1>1, <1>2, ThenRest, Tails DEF Ask, Tell, Doing, TypeInv
  <1>6. IdleOK'
    <2>1. CASE Ask
      BY <1>3, <2>1 DEF Ask, IdleOK, Sure
    <2>2. CASE Tell
      BY <2>2 DEF Tell, LeaveVerdict, IdleOK, Sure, TypeInv, GhostOK
    <2>3. QED
      BY <2>1, <2>2
  <1>7. MemOK' /\ PrintOK'
    BY <1>3, <1>4 DEF MemOK, PrintOK, Inv
  <1>8. QED
    BY <1>4, <1>5, <1>6, <1>7 DEF Inv, PlanInv

\* A print whose file is gone does not start, and its verdict is left behind.
LEMMA MissingKeeps == ASSUME TypeInv, Inv, Missing PROVE Inv'
  <1>1. MemOK /\ print = NoFile /\ sh = "none"
    BY Where, NoShell DEF Missing, Inv
  <1>2. /\ UNCHANGED <<mem, disk, sh, print>> /\ todo'.steps = Nothing
        /\ ghost'.left = (ghost.left \/ mem.check # 0)
        /\ ghost'.saved = ghost.saved /\ ghost'.torn = ghost.torn
    BY DEF Missing, LeaveVerdict, Script, Nothing, TypeInv, GhostOK
  <1>3. MemOK' /\ IdleOK' /\ PrintOK'
    BY <1>1, <1>2 DEF MemOK, IdleOK, PrintOK, Sure
  <1>4. QED
    BY <1>1, <1>2, <1>3 DEF Inv, PlanInv

\* The macros that start the print.
LEMMA StartKeeps == ASSUME TypeInv, Inv, StartPrint PROVE Inv'
  <1>1. /\ ~Idle /\ todo.steps = Start /\ MemOK /\ print = NoFile /\ todo.file \in Files
        /\ (mem.check # 0 => Sure(todo.file)) /\ sh = "none"
    BY Where, NoShell DEF StartPrint, Doing, Inv
  <1>2. /\ UNCHANGED <<disk, mem, new, sh, prompt, print>>
        /\ ghost'.must = (mem.force = 1) /\ ghost'.saved = ghost.saved
        /\ ghost'.torn = ghost.torn /\ ghost'.sure = ghost.sure /\ ghost'.left = ghost.left
        /\ ghost'.past = (ghost.left /\ mem.check # 0)
    BY DEF StartPrint, TypeInv, GhostOK
  <1>3. MemOK' /\ \A f : Sure(f)' <=> Sure(f)
    BY <1>1, <1>2 DEF MemOK, Sure
  <1>4. /\ Check \o <<"run">> = Checked1("run") /\ <<>> \o <<"run">> = Checked7("run")
        /\ Checked1("run") \in Seq(Steps) /\ Checked7("run") \in Seq(Steps)
    BY CheckedIs, Joins, PlansAreSeqs, PlansGiven DEF Steps
  <1>5. ASSUME NEW p \in {Checked1("run"), Checked7("run")}, Then(p)
        PROVE  todo'.file = todo.file /\ todo'.steps = p
    <2>1. todo'.file = todo.file /\ todo'.steps = p \o Nothing
      BY <1>1, <1>4, <1>5, ThenType, Tails DEF TypeInv
    <2>2. QED
      BY <2>1, <1>4, Joins DEF Nothing
  <1>6. CASE mem.force = 1 /\ mem.check = 0 /\ Then(Check \o <<"run">>)
    <2>1. todo'.file = todo.file /\ todo'.steps = Checked1("run")
      BY <1>4, <1>5, <1>6
    <2>2. CheckInv("run", todo.steps)'
      BY <1>1, <1>2, <1>3, <2>1 DEF CheckInv
    <2>3. QED
      BY <1>1, <1>2, <2>1, <2>2 DEF Inv, PlanInv, CheckOK, PrintOK, Aims
  <1>7. CASE ~(mem.force = 1 /\ mem.check = 0) /\ Then(<<>> \o <<"run">>)
    <2>1. todo'.file = todo.file /\ todo'.steps = Checked7("run")
      BY <1>4, <1>5, <1>7
    <2>2. ghost'.must => todo.file \in ghost'.sure \/ ghost'.past
      BY <1>1, <1>2, <1>7 DEF Sure
    <2>3. CheckInv("run", todo.steps)'
      BY <1>1, <1>2, <1>3, <2>1, <2>2 DEF CheckInv
    <2>4. QED
      BY <1>1, <1>2, <2>1, <2>3 DEF Inv, PlanInv, CheckOK, PrintOK, Aims
  <1>8. QED
    BY <1>6, <1>7 DEF StartPrint

\* The print runs; its file was accepted if that was asked for.
LEMMA RunKeeps == ASSUME TypeInv, Inv, Run PROVE Inv'
  <1>1. /\ todo.steps = Checked7("run") /\ CheckInv("run", todo.steps)
        /\ todo.file \in Files /\ sh = "none"
    BY WhereChecked, NoShell DEF Inv, Run, Aims
  <1>2. MemOK /\ (ghost.must => todo.file \in ghost.sure \/ ghost.past)
    BY <1>1, CheckSays DEF Aims
  <1>3. todo'.steps = Nothing /\ print' = todo.file /\ print' # NoFile
    BY <1>1, ThenRest, Tails, NoFileAssumption DEF Run, Doing, TypeInv
  <1>4. MemOK' /\ IdleOK' /\ PrintOK'
    BY <1>2, <1>3 DEF Run, MemOK, IdleOK, PrintOK
  <1>5. QED
    BY <1>1, <1>3, <1>4 DEF Inv, PlanInv, Run

\* The shell script files its verdict for the file it was started for.
LEMMA ShellKeeps == ASSUME TypeInv, Inv, Sum \/ Exit PROVE Inv'
  <1>1. PICK y \in Aims : todo.steps = Checked4(y)
    BY DEF Inv, Sum, Exit
  <1>2. Doing("wait")
    BY <1>1, Heads, NotNothing DEF Doing, Idle
  <1>3. PICK x \in Aims : CheckInv(x, todo.steps) /\ todo.steps = Checked4(x)
                         /\ (x = "run" => print = NoFile)
    BY <1>2, WhereChecked DEF Inv
  <1>4. todo.file \in Files /\ MemOK
    BY <1>2, WhereChecked DEF Inv
  <1>5. ~ghost.torn /\ (disk.check \in Passing => Found(x, todo.file))
    BY <1>3, CheckSays
  <1>6. UNCHANGED <<mem, new, todo, print>>
    BY DEF Sum, Exit
  <1>7. /\ MemOK' /\ ~ghost'.torn /\ (disk'.check \in Passing => Found(x, todo.file)')
        /\ PrintOK'
    <2>1. CASE Sum
      <3>1. PICK v \in Verdicts(content[todo.file]) :
              /\ disk' = [disk EXCEPT !.check = v]
              /\ ghost' = [ghost EXCEPT !.sure = IF v \in Passing THEN @ \cup {todo.file} ELSE @]
        BY <2>1 DEF Sum
      <3>2. /\ disk'.force = disk.force /\ disk'.check = v
            /\ ghost'.saved = ghost.saved /\ ghost'.torn = ghost.torn
            /\ ghost'.must = ghost.must /\ ghost'.past = ghost.past
            /\ ghost.sure \subseteq ghost'.sure
            /\ v \in Passing => todo.file \in ghost'.sure
        BY <3>1 DEF TypeInv, SavedOK, Saved, GhostOK
      <3>3. QED
        BY <1>4, <1>5, <1>6, <3>2 DEF MemOK, Found, Sure, PrintOK, Inv
    <2>2. CASE Exit
      BY <1>4, <1>5, <2>2 DEF Exit, MemOK, Found, Sure, PrintOK, Inv
    <2>3. QED
      BY <2>1, <2>2
  <1>8. CheckInv(x, todo.steps)'
    BY <1>3, <1>6, <1>7 DEF CheckInv
  <1>9. QED
    BY <1>3, <1>4, <1>6, <1>7, <1>8 DEF Inv, PlanInv, CheckOK

\* After a reboot nothing runs, and the option is as the disk has it.
LEMMA RebootKeeps == ASSUME TypeInv, Inv, Reboot PROVE Inv'
  <1>1. todo'.steps = Zero /\ print' = NoFile /\ sh' = "none" /\ mem' = disk /\ disk' = disk
    BY DEF Reboot, Script
  <1>2. ghost'.saved = disk.force
    <2>1. ghost.torn \/ Doing("write") \/ disk.force = ghost.saved
      BY Heads, NotNothing DEF Inv, PlanInv, CheckOK, CheckInv, MemOK, Doing, Idle, Aims
    <2>2. QED
      BY <2>1 DEF Reboot, TypeInv, GhostOK
  <1>3. MemOK'
    BY <1>1, <1>2 DEF MemOK
  <1>4. QED
    BY <1>1, <1>3 DEF Inv, PlanInv, PrintOK

\* Every state has its types and its plan.
THEOREM PlansCorrect == Spec => [](TypeInv /\ Inv)
  <1>1. Init => TypeInv /\ Inv
    <2> SUFFICES ASSUME Init PROVE TypeInv /\ Inv
      OBVIOUS
    <2>1. SavedOK
      BY DEF Init, SavedOK, Saved, Defaults
    <2>2. GhostOK
      BY DEF Init, GhostOK
    <2>3. TodoOK
      BY EmptySeq DEF Init, TodoOK
    <2>4. RestOK
      BY DEF Init, RestOK
    <2>5. MemOK /\ IdleOK /\ PrintOK
      BY DEF Init, MemOK, IdleOK, PrintOK, Defaults
    <2>6. QED
      BY <2>1, <2>2, <2>3, <2>4, <2>5 DEF Init, TypeInv, Inv, PlanInv, Nothing
  <1>2. TypeInv /\ Inv /\ [Next]_vars => TypeInv' /\ Inv'
    <2> SUFFICES ASSUME TypeInv, Inv, [Next]_vars PROVE TypeInv' /\ Inv'
      OBVIOUS
    <2>1. sh # "none" => todo.file \in Files
      <3> SUFFICES ASSUME sh # "none" PROVE todo.file \in Files
        OBVIOUS
      <3>1. Doing("wait")
        BY Heads, NotNothing DEF Inv, Doing, Idle
      <3>2. QED
        BY <3>1, WhereChecked DEF Inv
    <2>2. TypeInv'
      BY <2>1, TypeStep
    <2> SUFFICES Inv'
      BY <2>2
    <2>3. CASE UNCHANGED vars
      <3>1. /\ (MemOK' <=> MemOK) /\ (IdleOK' <=> IdleOK) /\ (PrintOK' <=> PrintOK)
            /\ \A f : Sure(f)' <=> Sure(f)
        BY <2>3 DEF vars, PrintOK, MemOK, IdleOK, Sure
      <3>2. \A x, p : CheckOK(x, p)' <=> CheckOK(x, p)
        BY <2>3, <3>1 DEF vars, CheckInv, CheckOK, Found
      <3>3. PlanInv' <=> PlanInv
        BY <2>3, <3>1, <3>2 DEF vars, PlanInv
      <3>4. QED
        BY <2>3, <3>1, <3>3 DEF vars, Inv
    <2>4. CASE Next
      <3>1. ASSUME NEW f \in Files, Request(f) \/ UserCheck(f) \/ Direct(f) \/ Upload(f) PROVE Inv'
        <4>1. CASE Request(f) \/ UserCheck(f) \/ Direct(f)
          BY <3>1, <4>1, BeginKeeps
        <4>2. CASE Upload(f)
          BY <4>2, AsideKeeps
        <4>3. QED
          BY <3>1, <4>1, <4>2
      <3>2. CASE Confirm \/ Dismiss \/ End \/ Toggle
        <4>1. CASE Confirm \/ End \/ Toggle
          BY <4>1, BeginKeeps
        <4>2. CASE Dismiss
          BY <4>2, AsideKeeps
        <4>3. QED
          BY <3>2, <4>1, <4>2
      <3>3. QED
        BY <2>4, <3>1, <3>2, DropKeeps, OpenKeeps, WriteKeeps, WriteFailsKeeps, CheckKeeps,
           JudgeKeeps, AskKeeps, MissingKeeps, StartKeeps, RunKeeps, ShellKeeps, RebootKeeps
           DEF Next
    <2>5. QED
      BY <2>3, <2>4
  <1>3. QED
    BY <1>1, <1>2, PTL DEF Spec

\* An option outlives whatever is written next to it.
THEOREM OptionsKeptHolds == Spec => []OptionsKept
  <1>1. Inv => OptionsKept
    BY Where DEF Inv, OptionsKept, MemOK
  <1>2. QED
    BY <1>1, PlansCorrect, PTL

\* With force_md5 on, what is printed was accepted as it is, or its start found a verdict
\* that had outlived what it was given for.
THEOREM StartCheckedHolds == Spec => []StartChecked
  <1>1. Inv => StartChecked
    BY DEF Inv, PrintOK, StartChecked
  <1>2. QED
    BY <1>1, PlansCorrect, PTL

\* The variables, the script and the files are known ones.
THEOREM TypeCorrect == Spec => []TypeOK
  <1>1. TypeInv => TypeOK
    BY DEF TypeInv, SavedOK, TodoOK, RestOK, TypeOK
  <1>2. QED
    BY <1>1, PlansCorrect, PTL

=============================================================================
