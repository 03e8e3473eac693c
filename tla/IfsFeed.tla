------------------------------ MODULE IfsFeed ------------------------------
(***************************************************************************)
(* The feed commands of zmod_ifs.py: cmd_IFS_F10 .. cmd_IFS_F112,          *)
(* wait_for_state, IFS_AUTOINSERT, their retries and their ways to fail,   *)
(* run by greenlets that do not exclude each other; the status IfsData     *)
(* keeps for all of them and for the reader thread; and the rods the       *)
(* reader announces.                                                       *)
(*                                                                         *)
(* A greenlet is the list of what it has still to do, head first.  Every   *)
(* command is one step, confirmed, refused or timed out: how the mailbox   *)
(* gets it there is IfsLink's matter.  A failure replaces the list by the  *)
(* recovery and raises when that is done.                                  *)
(***************************************************************************)
EXTENDS Naturals, Sequences, FiniteSetsExt

CONSTANTS
  Tasks,     \* greenlets that run handlers
  Ports,     \* the feeder's ports, 1..4 in the machine
  Retries,   \* retry_count
  MaxCalls,  \* bound on G-code commands given
  MaxRods,   \* bound on rods put into a port
  Kinds,     \* what may go wrong: some of Faults
  MaxFaults  \* bound on how often something but the driver goes wrong

ASSUME PortsAssumption == Ports \subseteq Nat \ {0} /\ Ports # {}
ASSUME RetriesAssumption == Retries \in Nat \ {0}

\* An answer or a state comes too late, the driver fails, an answer is not the one
\* expected, the feeder is silent, the extruder switch changes between two looks.
Faults == {"late", "broken", "garbled", "gone", "bounce"}
ASSUME KindsAssumption == Kinds \subseteq Faults

VARIABLES
  dev,      \* the feeder: state, port and owner of a movement, rods marked and held
  ext,      \* the switch in the extruder
  ifs,      \* self.ifs
  data,     \* IfsData: the last status stored, and NeedInsert
  task,     \* per greenlet: what it has to do and where it is
  reader,   \* _sensor_reader: between rounds or about to read NeedInsert
  pending,  \* announced rods whose callback has not run, oldest first
  rods,     \* ghost: the ports whose rod was announced, or noted without announcing it
  count,    \* G-code commands given and rods put in
  faults    \* per kind, how often it happened

vars == <<dev, ext, ifs, data, task, reader, pending, rods, count, faults>>

Moves == {"feed", "exit"}
NoAnswer == [st |-> "none", port |-> 0, ins |-> 0]   \* send_command_and_wait gave None
Garbage  == [st |-> "zero", port |-> 0, ins |-> 0]   \* no field of the status matched

\* What a greenlet does: a command, its port, and the arguments that matter.
Op(cmd, how, p) == [cmd |-> cmd, how |-> how, port |-> p]
Stop == Op("F112", "plain", 0)
ReleaseAll == Op("F18", "plain", 0)
Reset == Op("F15", "plain", 0)
\* F112, F18, then the error: after every time-out, and for a speed of zero.
RecoveryBug == <<Stop>>
Recovery == <<Stop, ReleaseAll>>
AutoInsert(p) == <<Op("wait", "plain", 0), Op("F24", "plain", p), Op("F10", "auto", p),
                   Op("F23", "plain", p), Op("F39", "plain", p)>>
Calls == UNION {{<<Op("F10", "check", p)>>, <<Op("F11", "check", p)>>,
                 <<Op("F11", "plain", p)>>, <<Stop>>, <<ReleaseAll>>, Recovery} : p \in Ports}

\* Only these end with the answer: F112 has WAIT=0, F15 never waits.
Unwaited == {"F112", "F15"}

Idle == [todo |-> <<>>, pc |-> "idle", att |-> 1, watch |-> "none", got |-> NoAnswer]
Starting(todo) == [Idle EXCEPT !.todo = todo, !.pc = "next"]

Init ==
  /\ dev = [st |-> "ready", port |-> 0, by |-> {}, marks |-> {}, held |-> {}]
  /\ ext \in BOOLEAN /\ ifs = TRUE
  /\ data = [st |-> "ready", port |-> 0, ins |-> 0, need |-> FALSE]
  /\ task = [t \in Tasks |-> Idle]
  /\ reader = "round" /\ pending = <<>> /\ rods = [announced |-> {}, noted |-> {}]
  /\ count = [calls |-> 0, rods |-> 0] /\ faults = [k \in Faults |-> 0]

Counted(e) == count' = [count EXCEPT ![e] = @ + 1]
Fault(k) == /\ k \in Kinds /\ MapThenSumSet(LAMBDA j : faults[j], Faults) < MaxFaults
            /\ faults' = [faults EXCEPT ![k] = @ + 1]
Fine == UNCHANGED faults

----------------------------------------------------------------------------
(* The feeder, the extruder switch and the serial line.                    *)

Still(st) == [dev EXCEPT !.st = st, !.port = 0, !.by = {}]

\* What executing a command of greenlet t does.  A broken driver moves nothing.
Executed(t, op) ==
  LET busy == [dev EXCEPT !.st = IF @ = "ready" THEN "busy" ELSE @]
      move(st) == IF dev.st = "error" THEN dev
                    ELSE [dev EXCEPT !.st = st, !.port = op.port, !.by = {t}]
  IN CASE op.cmd = "F10"  -> move("feed")
       [] op.cmd = "F11"  -> move("exit")
       [] op.cmd = "F112" -> IF dev.st \in Moves
                               THEN Still("ready") ELSE dev
       [] op.cmd = "F15"  -> [dev EXCEPT !.st = IF @ = "error" THEN "ready" ELSE @]
       [] op.cmd = "F18"  -> [busy EXCEPT !.held = {}]
       [] op.cmd = "F23"  -> [busy EXCEPT !.marks = @ \ {op.port}]
       [] op.cmd = "F24"  -> [busy EXCEPT !.held = @ \cup {op.port}]
       [] op.cmd = "F39"  -> [busy EXCEPT !.held = @ \ {op.port}]

\* A movement or another operation is over.
Settle == /\ dev.st \in Moves \cup {"busy"}
          /\ dev' = Still("ready")
          /\ UNCHANGED <<ext, ifs, data, task, reader, pending, rods, count, faults>>

Break == /\ dev.st \in Moves /\ "broken" \in Kinds
         /\ dev' = Still("error")
         /\ UNCHANGED <<ext, ifs, data, task, reader, pending, rods, count, faults>>

\* A rod is put into a port, or pulled out before it was taken in.
PutIn(p) == /\ p \notin dev.marks /\ count.rods < MaxRods /\ Counted("rods")
            /\ dev' = [dev EXCEPT !.marks = @ \cup {p}]
            /\ rods' = [announced |-> rods.announced \ {p},
                        noted |-> IF data.ins = p THEN rods.noted \cup {p} ELSE rods.noted \ {p}]
            /\ UNCHANGED <<ext, ifs, data, task, reader, pending, faults>>

PullOut(p) == /\ p \in dev.marks /\ dev' = [dev EXCEPT !.marks = @ \ {p}]
              /\ UNCHANGED <<ext, ifs, data, task, reader, pending, rods, count, faults>>

\* The switch changes.  Between the two looks of one poll that is a bounce.
Polled(t) == task[t].pc = "judge" /\ task[t].got = NoAnswer
Switch == /\ ext' = ~ext
          /\ IF \E t \in Tasks : Polled(t) THEN Fault("bounce") ELSE Fine
          /\ UNCHANGED <<dev, ifs, data, task, reader, pending, rods, count>>

\* The reader finds the feeder silent, and later there again.
Gone == /\ ifs /\ Fault("gone") /\ ifs' = FALSE
        /\ UNCHANGED <<dev, ext, data, task, reader, pending, rods, count>>
Back == /\ ~ifs /\ ifs' = TRUE
        /\ UNCHANGED <<dev, ext, data, task, reader, pending, rods, count, faults>>

----------------------------------------------------------------------------
(* IfsData and the reader's polls.                                         *)

\* A status names one port only: the highest whose rod is marked.
Status == [st |-> dev.st, port |-> dev.port, ins |-> Max(dev.marks \cup {0})]

StoredBug(s) ==                                     \* compared after it is stored
  IF s = NoAnswer THEN data ELSE [st |-> s.st, port |-> s.port, ins |-> s.ins, need |-> FALSE]
Stored(s) ==
  IF s = NoAnswer THEN data
    ELSE [st |-> s.st, port |-> s.port, ins |-> s.ins,
          need |-> s.ins # 0 /\ s.ins # data.ins /\ s.st = "ready"]

\* A new rod is stored and will not be announced: the feeder was not ready, or it is
\* a wait that stored it, or a wait overwrote NeedInsert before the reader looked (or
\* it came before the one it replaces was seen to be gone, see PutIn).
Noted(p, so) == IF so THEN [rods EXCEPT !.noted = @ \cup ({p} \ {0})] ELSE rods

\* The reader stores the answer to an idle poll, then looks at NeedInsert: two
\* critical sections, between which a greenlet may store another one.
Poll == /\ reader = "round" /\ ifs
        /\ \/ data' = Stored(Status) /\ Fine
           \/ data' = Stored(Garbage) /\ Fault("garbled")
        /\ reader' = "look"
        /\ rods' = Noted(data'.ins, data'.ins # data.ins /\ data'.st # "ready")
        /\ UNCHANGED <<dev, ext, ifs, task, pending, count>>

Look == /\ reader = "look" /\ reader' = "round"
        /\ IF data.need THEN pending' = Append(pending, data.ins)
                             /\ rods' = [rods EXCEPT !.announced = @ \cup {data.ins}]
                        ELSE UNCHANGED <<pending, rods>>
        /\ UNCHANGED <<dev, ext, ifs, data, task, count, faults>>

----------------------------------------------------------------------------
(* The greenlets.                                                          *)

Begin(t, prog) == task' = [task EXCEPT ![t] = Starting(prog)]

\* A G-code command, or the callback of an announced rod.
Give(t) == /\ task[t].pc = "idle" /\ count.calls < MaxCalls /\ Counted("calls")
           /\ \E prog \in Calls : Begin(t, prog)
           /\ UNCHANGED <<dev, ext, ifs, data, reader, pending, rods, faults>>

RunAuto(t) == /\ task[t].pc = "idle" /\ pending # <<>>
              /\ Begin(t, AutoInsert(Head(pending))) /\ pending' = Tail(pending)
              /\ UNCHANGED <<dev, ext, ifs, data, reader, rods, count, faults>>

\* Go on with this list: the next attempt or the next operation; when nothing is
\* left the call is over.
Goto(t, todo, att) ==
  task' = [task EXCEPT ![t] =
             IF todo = <<>> THEN Idle
               ELSE [Starting(todo) EXCEPT !.att = att,
                                           !.watch = IF att > 1 THEN task[t].watch ELSE "none"]]
Enter(t, pc, watch) == task' = [task EXCEPT ![t].pc = pc, ![t].watch = watch]

\* A refused command raises at once, everything else recovers first.
Recover(t) == task' = [task EXCEPT ![t] = Starting(Recovery)]
Raise(t) == task' = [task EXCEPT ![t] = Idle]

\* What the wait after this command watches the extruder switch for.
WatchOf(t, op) ==
  CASE op.cmd = "F10" /\ op.how = "check" -> "on"
    [] op.cmd = "F11" /\ op.how = "check" -> "off"
    [] op.cmd = "F10" /\ op.how = "auto"  ->
         IF task[t].att > 1 THEN task[t].watch ELSE IF ext THEN "none" ELSE "on"
    [] OTHER -> "none"
Tripped(watch) == watch = IF ext THEN "on" ELSE "off"

\* Give the command at the head of the list: a handler that finds the feeder off
\* does nothing; inside a loop of attempts F10 and F11 are left out, not the wait.
Command(t) ==
  LET op == Head(task[t].todo)
      first == op.cmd = "F15" \/ (task[t].att = 1 /\ op.how # "auto")
      next == IF op.cmd \in Unwaited THEN Goto(t, Tail(task[t].todo), task[t].att)
                                     ELSE Enter(t, "ask", WatchOf(t, op))
  IN /\ task[t].pc = "next"
     /\ \/ /\ op.cmd = "wait" /\ next
           /\ UNCHANGED dev /\ Fine
        \/ /\ op.cmd # "wait" /\ ~ifs /\ first
           /\ Goto(t, Tail(task[t].todo), task[t].att)
           /\ UNCHANGED dev /\ Fine
        \/ /\ op.cmd \in {"F10", "F11"} /\ ~ifs /\ ~first /\ next
           /\ UNCHANGED dev /\ Fine
        \/ /\ op.cmd \notin {"wait", "F10", "F11"} /\ ~ifs /\ ~first /\ Recover(t)
           /\ UNCHANGED dev /\ Fine
        \/ /\ op.cmd # "wait" /\ ifs
           /\ \/ dev' = Executed(t, op) /\ next /\ Fine
              \/ dev' \in {dev, Executed(t, op)} /\ Fault("late") /\ Recover(t)
              \/ dev' \in {dev, Executed(t, op)} /\ Fault("garbled") /\ Raise(t)
  /\ UNCHANGED <<ext, ifs, data, reader, pending, rods, count>>

\* The status request of wait_for_state.  It gives None when the switch trips.
Ask(t) ==
  LET answer(s) == task' = [task EXCEPT ![t].pc = "judge", ![t].got = s]
  IN /\ task[t].pc = "ask"
     /\ \/ Tripped(task[t].watch) /\ answer(NoAnswer) /\ Fine
        \/ ifs /\ answer(Status) /\ Fine
        \/ ifs /\ answer(Garbage) /\ Fault("garbled")
        \/ ifs /\ Recover(t) /\ Fault("late")
        \/ ~ifs /\ Recover(t) /\ Fine
     /\ UNCHANGED <<dev, ext, ifs, data, reader, pending, rods, count>>

\* What the caller of wait_for_state does with its verdict.  The first look at the
\* switch decides between RET_EXTRUDER and the rest, a later one whether F10
\* complains; without rod or movement F10 recovers and raises.
AfterExtruderBug(op) ==                             \* F10 returns without the stop
  IF op.how = "auto" THEN <<Stop, Op("F11", "plain", op.port)>> ELSE <<>>
AfterExtruder(op) ==
  IF op.how = "auto" THEN <<Stop, Op("F11", "plain", op.port)>> ELSE <<Stop>>

AfterLack(t, op, rest) ==
  IF op.cmd = "F10" /\ op.how = "check" /\ ~ext THEN Recover(t)
    ELSE Goto(t, <<Stop>> \o rest, 1)

\* A driver error is reset and the command given again, Retries times in all.
AfterErrorBug(t, op, rest) == Goto(t, <<Reset, op>> \o rest, task[t].att)   \* not counted
AfterErrorOff(t, op, rest) ==                       \* one attempt too many
  IF task[t].att <= Retries /\ op.cmd # "wait"
    THEN Goto(t, <<Reset, op>> \o rest, task[t].att + 1)
    ELSE Goto(t, <<Reset>> \o (IF op.how = "auto" THEN <<Stop>> ELSE <<>>) \o rest, 1)
AfterError(t, op, rest) ==
  IF task[t].att < Retries /\ op.cmd # "wait"
    THEN Goto(t, <<Reset, op>> \o rest, task[t].att + 1)
    ELSE Goto(t, <<Reset>> \o (IF op.how = "auto" THEN <<Stop>> ELSE <<>>) \o rest, 1)

\* In the state waited for, with a sensor watched: rod or movement may be missing.
MayLack(op, s) == /\ op.how \in {"check", "auto"} /\ s.port = op.port
                  /\ s.st = IF op.cmd = "F10" THEN "feed" ELSE "exit"

JudgeOn(t, s) ==
  LET op == Head(task[t].todo)
      rest == Tail(task[t].todo)
  IN /\ data' = Stored(s)
     /\ \/ /\ Tripped(task[t].watch)
           /\ Goto(t, AfterExtruder(op) \o rest, 1) /\ Fine
        \/ /\ ~Tripped(task[t].watch)
           /\ \/ /\ data'.st = "ready" /\ Fine
                 /\ Goto(t, (IF op.cmd = "F11" /\ op.how = "check" THEN <<Stop>> ELSE <<>>) \o rest, 1)
              \/ data'.st = "error" /\ AfterError(t, op, rest) /\ Fine
              \/ MayLack(op, data') /\ AfterLack(t, op, rest) /\ Fine
              \/ data'.st \notin {"ready", "error"} /\ Fault("late") /\ Recover(t)
              \/ data'.st \notin {"ready", "error"} /\ Enter(t, "ask", task[t].watch) /\ Fine

\* With None the verdict is drawn from whatever IfsData holds.
Judge(t) ==
  /\ task[t].pc = "judge" /\ JudgeOn(t, task[t].got)
  /\ rods' = Noted(data'.ins, data'.ins # data.ins \/ (data.need /\ reader = "look"))
  /\ UNCHANGED <<dev, ext, ifs, reader, pending, count>>

----------------------------------------------------------------------------

Run(t) == Command(t) \/ Ask(t) \/ Judge(t)

Next == \/ \E t \in Tasks : Give(t) \/ RunAuto(t) \/ Run(t)
        \/ Settle \/ Break \/ Switch \/ Gone \/ Back
        \/ \E p \in Ports : PutIn(p) \/ PullOut(p)
        \/ Poll \/ Look

Spec == Init /\ [][Next]_vars

\* A waiting greenlet re-arms its timer, the reader never blocks for good, and
\* the feeder comes to the end of what it started.
Fairness == /\ \A t \in Tasks : WF_vars(Run(t))
            /\ WF_vars(Poll \/ Look) /\ WF_vars(Settle)
FairSpec == Spec /\ Fairness

----------------------------------------------------------------------------
(* Properties.                                                             *)

Answer == [st : {"ready", "busy", "error", "none", "zero"} \cup Moves,
           port : Ports \cup {0}, ins : Ports \cup {0}]
OpsOf(S) == [cmd : {"F10", "F11", "F112", "F15", "F18", "F23", "F24", "F39", "wait"},
             how : {"plain", "check", "auto"}, port : S \cup {0}]

\* The state of zmod_ifs.py's handlers, IfsData and the feeder stays of its shape.
TypeOK ==
  /\ dev \in [st : {"ready", "busy", "error"} \cup Moves, port : Ports \cup {0},
              by : SUBSET Tasks, marks : SUBSET Ports, held : SUBSET Ports]
  /\ {ext, ifs} \subseteq BOOLEAN /\ reader \in {"round", "look"}
  /\ \E a \in Answer, b \in BOOLEAN :
       data = [st |-> a.st, port |-> a.port, ins |-> a.ins, need |-> b]
  /\ \A t \in Tasks :
       /\ task[t].todo \in Seq(OpsOf(Ports)) /\ task[t].pc \in {"idle", "next", "ask", "judge"}
       /\ task[t].att \in 1..Retries /\ task[t].watch \in {"none", "on", "off"}
       /\ task[t].got \in Answer
  /\ pending \in Seq(Ports) /\ rods \in [{"announced", "noted"} -> SUBSET Ports]

Happened(K) == \E k \in K : faults[k] > 0

\* A feed command that is over, by whatever return or error, has left no movement
\* of its own behind: every exit of cmd_IFS_F10, cmd_IFS_F11 and IFS_AUTOINSERT
\* stops the feeder, late answers, late states and driver errors included.
\* A refused command, a feeder gone during the recovery and a switch that changes
\* between the two looks of one poll are the exceptions the code leaves open.
OwnMoveOver ==
  ~Happened({"garbled", "gone", "bounce"}) => \A t \in Tasks : task[t].pc = "idle" => t \notin dev.by

\* IFS_AUTOINSERT holds the rod (F24) and gives it free again on every way out:
\* F39 at its end, F18 in the recovery.  When no handler runs, no rod is held.
RodReleased ==
  ~Happened({"garbled", "gone"}) /\ (\A t \in Tasks : task[t].pc = "idle") => dev.held = {}

\* Every call ends, however often it is answered late or garbled and whatever the
\* driver does: the attempts are counted, and a failing recovery runs out of failures
\* before anything else does.
CallEnds == \A t \in Tasks : (task[t].pc # "idle") ~> (task[t].pc = "idle")

\* A rod put into a port is announced, so that IFS_AUTOINSERT takes it in, unless it is
\* pulled out or marked (F23) before, the feeder is away, a rod in a higher port hides it,
\* or its one-shot flag NeedInsert was used up: there is no other way to miss one.
RodAnnounced ==
  \A p \in Ports : (p \in dev.marks) ~>
    (p \in rods.announced \cup rods.noted \/ p \notin dev.marks \/ p < Max(dev.marks) \/ ~ifs)
=============================================================================
