----------------------------- MODULE SensorGate -----------------------------
(***************************************************************************)
(* The two filament sensors of a print with the feeder: the switch in the  *)
(* head and the feeder's motion sensor, each with Klipper's RunoutHelper;  *)
(* the macros that switch them off around an extrusion (_DISABLE_SENSOR,   *)
(* _ENABLE_SENSOR); what a runout starts (PAUSE, ANALOG_PRUTOK,            *)
(* _RESUME_MOTION_SENSOR, the purge before the next change) and what       *)
(* RESUME asks for.                                                        *)
(*                                                                         *)
(* G-code runs as scripts: whoever holds the G-code mutex works off a list *)
(* of steps, head first.  Printing itself is one word; SdPrint has it.     *)
(***************************************************************************)
EXTENDS Integers, SequencesExt

CONSTANTS
  MaxConsole,  \* bound on commands given at the console
  MaxFaults,   \* bound on commands that raise and on the feeder coming or going
  MaxEvents,   \* bound on both together
  MaxCycles    \* bound on the cycles of a purge, 20 in the code

ASSUME CyclesAssumption == MaxCycles \in Nat

Sensors == {"head", "motion"}

VARIABLES
  head,     \* filament at the switch of the head
  ifs,      \* the feeder is there, as _IFS_ON and _IFS_OFF last said
  on,       \* sensor_enabled of each RunoutHelper
  seen,     \* filament_present of each
  event,    \* where the runout handler of each is; "delay" is event_delay
  allowed,  \* allowed and allowed2 of _ENABLE_SENSOR
  purge,    \* purge of _A_CHANGE_FILAMENT
  print,    \* the print: running, stopping (after this line), stopped, over, dead
  pr,       \* is_paused, pause_command_sent and sd_paused of pause_resume
  script,   \* who holds the mutex and what the script still does
  user,     \* ghost: the user wants the head sensor on
  cut,      \* ghost: sensors left off by a gate nobody closed, or by IFS_MOTION
  missed,   \* ghost: an empty head that no event will report
  count     \* console commands and faults so far

vars == <<head, ifs, on, seen, event, allowed, purge, print, pr, script,
          user, cut, missed, count>>
world == <<head, ifs, user>>
job == <<print, pr>>

Nobody == [by |-> "nobody", todo |-> <<>>]
Gate == <<"disable", "extrude", "enable">>
HeadRunoutBug == <<"nopurge", "enable", "analog">>   \* send_pause_command alone
HeadRunout == <<"pause", "nopurge", "enable", "analog">>
ToolChange == <<"purge", "change">>
Console == {<<"pause">>, <<"resume">>, <<"set">>, Gate}
Lines == {<<"extrude">>, ToolChange}
StartMacro == <<"move", "clear">>
Resuming == <<"move", "rearm", "move", "base">>

Init ==
  /\ head = TRUE /\ ifs \in BOOLEAN /\ user = TRUE
  /\ on = [s \in Sensors |-> s = "head" \/ ifs] /\ seen = [s \in Sensors |-> TRUE]
  /\ event = [s \in Sensors |-> "open"] /\ allowed = [s \in Sensors |-> FALSE]
  /\ purge = FALSE /\ print = "running" /\ script = Nobody
  /\ pr = [paused |-> FALSE, sent |-> FALSE, sd |-> FALSE]
  /\ cut = {} /\ missed = FALSE
  /\ count = [console |-> 0, faults |-> 0]

Count(k, max) == /\ count[k] < max /\ count.console + count.faults < MaxEvents
                 /\ count' = [count EXCEPT ![k] = @ + 1]

----------------------------------------------------------------------------
(* The sensors.                                                            *)

\* idle_timeout says Printing from the first move of a print or a script to its end,
\* and some time after.
Unmoved == {<<>>, StartMacro, Resuming, <<"extrude", "enable">>, <<"motion">>} \cup Console
Busy == IF print = "running" THEN script.todo # StartMacro
        ELSE script # Nobody /\ script.todo \notin Unmoved

Reports(s, present) == ~present /\ seen[s] /\ on[s] /\ event[s] = "open"

\* note_filament_present: only an edge counts.  One that is seen while the sensor is
\* off, in its delay or while its handler runs is used up and starts nothing.
NoteBug(s, present) ==                              \* an edge while the handler runs, too
  /\ seen' = [seen EXCEPT ![s] = present]
  /\ event' = IF ~present /\ seen[s] /\ on[s] THEN [event EXCEPT ![s] = "called"] ELSE event
  /\ UNCHANGED missed
Note(s, present) ==
  /\ seen' = [seen EXCEPT ![s] = present]
  /\ \/ /\ Reports(s, present)
        /\ event' = [event EXCEPT ![s] = "called"] /\ UNCHANGED missed
     \/ /\ ~Reports(s, present) \/ ~Busy
        /\ missed' = IF s = "head" /\ seen[s] # present THEN ~present ELSE missed
        /\ UNCHANGED event

\* The head switch is polled always, the movement while idle_timeout says Printing:
\* what the motion sensor makes of it, and when, is left open.
Poll(s) ==
  /\ IF s = "head" THEN Note(s, head) ELSE \E b \in BOOLEAN : Note(s, b)
  /\ UNCHANGED <<world, job, on, allowed, purge, script, cut, count>>

Filament == /\ head' = ~head
            /\ UNCHANGED <<job, ifs, on, seen, event, allowed, purge, script,
                           user, cut, missed, count>>

\* The reader's callbacks _IFS_ON and _IFS_OFF take no mutex.
SwitchMotion(b) == /\ on' = [on EXCEPT !["motion"] = b]
                   /\ cut' = cut \ {"motion"}
Feeder ==
  /\ Count("faults", MaxFaults)
  /\ ifs' = ~ifs /\ SwitchMotion(~ifs)
  /\ UNCHANGED <<job, head, seen, event, allowed, purge, script, user, missed>>

\* event_delay is over.
Reopen(s) ==
  /\ event[s] = "delay" /\ event' = [event EXCEPT ![s] = "open"]
  /\ UNCHANGED <<world, job, on, seen, allowed, purge, script, cut, missed, count>>

----------------------------------------------------------------------------
(* pause_resume.  sd_paused says that RESUME has a print to go on with.    *)

\* send_pause_command: nothing while pause_command_sent is still set.  A print whose
\* line runs stops after it; any other has stopped when do_pause returns.
Sent == IF pr.sent THEN pr
        ELSE [pr EXCEPT !.sent = TRUE, !.sd = print \in {"running", "stopping"}]
Stopped == IF pr.sent \/ print # "running" THEN print
           ELSE IF script.by = "file" THEN "stopping" ELSE "stopped"
SendPauseCommand == pr' = Sent /\ print' = Stopped

----------------------------------------------------------------------------
(* Who gets the mutex.                                                     *)

Start(by, todo) == script = Nobody /\ script' = [by |-> by, todo |-> todo]

\* The head sensor's handler pauses the print before it asks for the mutex.  The motion
\* sensor has pause_on_runout off.
SendPause(s) ==
  /\ event[s] = "called" /\ event' = [event EXCEPT ![s] = "waiting"]
  /\ IF s = "head" THEN SendPauseCommand ELSE UNCHANGED job
  /\ UNCHANGED <<world, on, seen, allowed, purge, script, cut, missed, count>>

Handle(s) ==
  /\ event[s] = "waiting" /\ event' = [event EXCEPT ![s] = "running"]
  /\ Start(s, IF s = "head" THEN HeadRunout ELSE <<"motion">>)
  /\ UNCHANGED <<world, job, on, seen, allowed, purge, cut, missed, count>>

FileLine ==
  /\ print = "running"
  /\ \E l \in Lines : Start("file", l)
  /\ UNCHANGED <<world, job, on, seen, event, allowed, purge, cut, missed, count>>

Command ==
  /\ \E c \in Console : Start("console", c)
  /\ Count("console", MaxConsole)
  /\ UNCHANGED <<world, job, on, seen, event, allowed, purge, cut, missed>>

\* The file ends.  Another may be started instead of a stopped one, too, with or without
\* filament seen; its first line is the start macro, up to whose CLEAR_PAUSE a pause of
\* the last print is still in pause_resume.
PrintEnds ==
  /\ print = "running" /\ script = Nobody /\ print' = "over"
  /\ UNCHANGED <<world, on, seen, event, allowed, purge, pr, script, cut, missed, count>>
PrintStarts ==
  /\ print \in {"stopped", "over"} /\ Start("file", StartMacro) /\ print' = "running"
  /\ missed' = ~seen["head"]
  /\ UNCHANGED <<world, on, seen, event, allowed, purge, pr, cut, count>>

----------------------------------------------------------------------------
(* The steps of a script.                                                  *)

Step == Head(script.todo)
Then(todo) == script' = [script EXCEPT !.todo = todo \o Tail(@)]
Doing(step) == script.todo # <<>> /\ Step = step

\* What _DISABLE_SENSOR and _ENABLE_SENSOR do to each sensor.
DisableAllBug == /\ allowed' = [s \in {"head"} |-> on[s]]    \* allowed2 is not kept
                 /\ on' = [s \in Sensors |-> FALSE] /\ UNCHANGED cut
DisableAll == /\ allowed' = on /\ on' = [s \in Sensors |-> FALSE] /\ UNCHANGED cut
EnableAllBug == /\ on' = [s \in Sensors |-> on[s] \/ allowed["head"]]    \* allowed twice
                /\ cut' = cut \ {s \in Sensors : allowed[s]}
EnableAll == /\ on' = [s \in Sensors |-> on[s] \/ allowed[s]]
             /\ cut' = cut \ {s \in Sensors : allowed[s]}

Disable == /\ Doing("disable") /\ DisableAll /\ Then(<<>>)
           /\ UNCHANGED <<world, job, seen, event, purge, missed, count>>
Enable == /\ Doing("enable") /\ EnableAll /\ Then(<<>>)
          /\ UNCHANGED <<world, job, seen, event, allowed, purge, missed, count>>

\* A feeder command that fails outside any script, in IFS_AUTOINSERT, switches the
\* sensors on as well.
AutoInsertFails ==
  /\ Count("faults", MaxFaults) /\ EnableAll
  /\ UNCHANGED <<world, job, seen, event, allowed, purge, script, missed>>

\* Moves, inside a gate with extrusion and feeder commands.
Extrude == /\ Doing("extrude") /\ Then(<<>>)
           /\ UNCHANGED <<world, job, on, seen, event, allowed, purge, cut, missed, count>>
Move == /\ Doing("move") /\ Then(<<>>)
        /\ UNCHANGED <<world, job, on, seen, event, allowed, purge, cut, missed, count>>

\* A command raises.  A feeder command with a missing or wrong answer runs
\* _ENABLE_SENSOR before it does; G-code, a status that wait_for_state waits for in vain
\* and IFS_PRINT_STATE without an answer do not.  cmd_CHANGE_FILAMENT turns an error of
\* the change into a pause; elsewhere the script is given up: the file stops, and an
\* error of the purge, outside of every try of the work handler, takes the host down.
Caught == Contains(script.todo, "end")
AfterRaise ==
  /\ script' = IF Caught
       THEN [script EXCEPT !.todo = <<"pause">> \o SubSeq(@, 1 + SelectInSeq(@, LAMBDA x : x = "end"), Len(@))]
       ELSE [script EXCEPT !.todo = <<>>]
  /\ print' = IF Caught \/ script.by # "file" THEN print
              ELSE IF Contains(script.todo, "change") THEN "dead" ELSE "stopped"
FeederRaises ==
  /\ Doing("extrude") /\ Count("faults", MaxFaults)
  /\ AfterRaise /\ EnableAll
  /\ UNCHANGED <<world, pr, seen, event, allowed, purge, missed>>
OtherRaises ==
  /\ Doing("extrude") \/ Doing("move")
  /\ Count("faults", MaxFaults) /\ AfterRaise
  /\ cut' = IF Contains(script.todo, "enable")
              THEN cut \cup {s \in Sensors : ~on[s] /\ allowed[s]} ELSE cut
  /\ UNCHANGED <<world, pr, on, seen, event, allowed, purge, missed>>

\* PURGE_PRUTOK_IFS, only if purge is set and until the head is empty; the flag goes
\* after the last cycle, and stays if one of them raises.
Purge ==
  /\ Doing("purge")
  /\ \E n \in IF purge /\ head THEN 1..MaxCycles ELSE {0} :
       Then([i \in 1..(3 * n) |-> Gate[1 + ((i - 1) % 3)]] \o <<"nopurge">>)
  /\ UNCHANGED <<world, job, on, seen, event, allowed, purge, cut, missed, count>>
NoPurge == /\ Doing("nopurge") /\ purge' = FALSE /\ Then(<<>>)
           /\ UNCHANGED <<world, job, on, seen, event, allowed, cut, missed, count>>

\* cmd_CHANGE_FILAMENT: nothing without the feeder; else remove and feed, unless the
\* spool is in already, then END_CHANGE_FILAMENT.
Change ==
  /\ Doing("change")
  /\ Then(IF ifs THEN Gate \o <<"end">> ELSE <<>>) \/ (ifs /\ Then(<<"end">>))
  /\ UNCHANGED <<world, job, on, seen, event, allowed, purge, cut, missed, count>>

\* IFS_MOTION_ON and IFS_SWITCH_ON tell both sensors that filament is there, so that
\* the next poll that finds none is an edge again.
Rearmed == seen' = [s \in Sensors |-> TRUE] /\ missed' = FALSE
EndChangeBug ==                                     \* they are told nothing
  /\ Doing("end") /\ Then(<<>>)
  /\ UNCHANGED <<world, job, on, seen, event, allowed, purge, cut, missed, count>>
EndChange ==
  /\ Doing("end") /\ Then(<<>>) /\ Rearmed
  /\ UNCHANGED <<world, job, on, event, allowed, purge, cut, count>>

\* PAUSE, or nothing if the print is paused.
Pause == /\ Doing("pause") /\ Then(<<>>)
         /\ IF pr.paused THEN UNCHANGED job
              ELSE pr' = [Sent EXCEPT !.paused = TRUE] /\ print' = Stopped
         /\ UNCHANGED <<world, on, seen, event, allowed, purge, cut, missed, count>>

\* RESUME asks the head sensor before anything else and refuses while it is on and sees
\* nothing, or the nozzle is cold.  Only then it heats, moves, ends with
\* END_CHANGE_FILAMENT, extrudes and moves back: every script ends with it.
Willing == ~on["head"] \/ seen["head"]
Resume ==
  /\ Doing("resume")
  /\ \/ /\ Willing /\ script' = [script EXCEPT !.todo = Resuming]
        /\ missed' = (missed \/ (~seen["head"] /\ ~on["head"]))
     \/ Then(<<>>) /\ UNCHANGED missed
  /\ UNCHANGED <<world, job, on, seen, event, allowed, purge, cut, count>>
Rearm ==
  /\ Doing("rearm") /\ Then(<<>>) /\ Rearmed
  /\ UNCHANGED <<world, job, on, event, allowed, purge, cut, count>>

\* RESUME_BASE.  No print runs here, the script has the mutex; one whose file is gone
\* ends again at once.
ResumeBase ==
  /\ Doing("base") /\ Then(<<>>)
  /\ IF pr.paused
       THEN /\ pr' = [paused |-> FALSE, sent |-> FALSE, sd |-> FALSE]
            /\ print' = IF pr.sd /\ print = "stopped" THEN "running" ELSE print
       ELSE UNCHANGED job
  /\ UNCHANGED <<world, on, seen, event, allowed, purge, cut, missed, count>>
ClearPause ==
  /\ Doing("clear") /\ Then(<<>>)
  /\ pr' = [pr EXCEPT !.paused = FALSE, !.sent = FALSE]
  /\ UNCHANGED <<world, on, seen, event, allowed, purge, print, cut, missed, count>>

\* ANALOG_PRUTOK: another spool of the same kind is loaded, if there is one; RESUME
\* in both cases, whatever became of the change.
Analog ==
  /\ Doing("analog")
  /\ IF ~ifs THEN Then(<<>>)
       ELSE Then(ToolChange \o <<"resume">>) \/ Then(<<"resume">>)
  /\ UNCHANGED <<world, job, on, seen, event, allowed, purge, cut, missed, count>>

\* IFS_MOTION: a jam pauses; a spool that ran out leaves the rest in the tube to be
\* printed with the motion sensor off, and purged at the next change.
Motion ==
  /\ Doing("motion")
  /\ \/ Then(<<"pause">>) /\ UNCHANGED <<on, allowed, purge, cut>>
     \/ /\ Then(<<>>) /\ purge' = TRUE
        /\ allowed' = [allowed EXCEPT !["motion"] = on["motion"]]
        /\ on' = [on EXCEPT !["motion"] = FALSE]
        /\ cut' = IF on["motion"] THEN cut \cup {"motion"} ELSE cut
  /\ UNCHANGED <<world, job, seen, event, missed, count>>

\* SET_FILAMENT_SENSOR for the head sensor.
Set == /\ Doing("set") /\ Then(<<>>)
       /\ user' = ~user /\ on' = [on EXCEPT !["head"] = ~user]
       /\ cut' = cut \ {"head"}
       /\ UNCHANGED <<job, head, ifs, seen, event, allowed, purge, missed, count>>

\* The script is over; a handler's errors are swallowed and its delay starts, and a
\* print that was to stop after this line has stopped.
Release ==
  /\ script # Nobody /\ script.todo = <<>> /\ script' = Nobody
  /\ event' = [s \in Sensors |-> IF script.by = s THEN "delay" ELSE event[s]]
  /\ print' = IF print = "stopping" THEN "stopped" ELSE print
  /\ UNCHANGED <<world, on, seen, allowed, purge, pr, cut, missed, count>>

----------------------------------------------------------------------------

DoStep == \/ Disable \/ Enable \/ Extrude \/ Move \/ Purge \/ NoPurge \/ Change
          \/ EndChange \/ Pause \/ Resume \/ Rearm \/ ResumeBase \/ ClearPause
          \/ Analog \/ Motion \/ Set \/ Release
Next == \/ \E s \in Sensors : Poll(s) \/ Reopen(s) \/ SendPause(s) \/ Handle(s)
        \/ Filament \/ Feeder \/ AutoInsertFails
        \/ FileLine \/ Command \/ PrintEnds \/ PrintStarts
        \/ DoStep \/ FeederRaises \/ OtherRaises

Spec == Init /\ [][print # "dead" /\ Next]_vars

\* Timers of the reactor fire, scripts go on, and the mutex is granted in turn.
Fairness == /\ \A s \in Sensors : WF_vars(print # "dead" /\ (SendPause(s) \/ Reopen(s)))
            /\ \A s \in Sensors : SF_vars(print # "dead" /\ Handle(s))
            /\ WF_vars(print # "dead" /\ Poll("head")) /\ WF_vars(print # "dead" /\ DoStep)
FairSpec == Spec /\ Fairness

----------------------------------------------------------------------------
(* Properties.                                                             *)

Steps == {"disable", "extrude", "enable", "purge", "nopurge", "change", "end", "pause",
          "resume", "set", "analog", "motion", "move", "rearm", "base", "clear"}

\* The flags of the sensors, of the gate and of the print keep their values.
TypeOK ==
  /\ {head, ifs, purge, user, missed} \subseteq BOOLEAN
  /\ {on, seen, allowed} \subseteq [Sensors -> BOOLEAN]
  /\ event \in [Sensors -> {"open", "called", "waiting", "running", "delay"}]
  /\ print \in {"running", "stopping", "stopped", "over", "dead"}
  /\ pr \in [paused : BOOLEAN, sent : BOOLEAN, sd : BOOLEAN]
  /\ script.by \in {"nobody", "file", "console"} \cup Sensors
  /\ script.todo \in Seq(Steps) /\ cut \subseteq Sensors

\* Between scripts a sensor that is wanted is on, unless the last gate around it was
\* left by an error other than a feeder command's missing or wrong answer, or a spool ran
\* out (Motion) and no change has brought it back: the calls of _DISABLE_SENSOR and
\* _ENABLE_SENSOR, whose flags do not nest, never lose a sensor otherwise, whatever
\* callback runs between.
SensorKept ==
  script = Nobody => /\ user => on["head"] \/ "head" \in cut
                     /\ ifs => on["motion"] \/ "motion" \in cut

\* The handler of an empty head has yet to run the PAUSE it begins with.
PauseComing == \/ event["head"] \in {"called", "waiting"}
               \/ script.by = "head" /\ Doing("pause")

\* A print does not go on over a head its sensor found empty: a PAUSE is on its way, or
\* the edge was used up where it starts nothing (missed).  That PAUSE stops the print
\* although a RESUME whose check came before the edge has made send_pause_command do
\* nothing and sets the print going again; and the RESUME at the end of ANALOG_PRUTOK
\* does not undo the pause of a failed change.
NoBlindPrint ==
  print = "running" /\ on["head"] /\ ~seen["head"] => missed \/ PauseComing

\* An empty head whose edge was used up inside a tool change is found after it:
\* END_CHANGE_FILAMENT makes the next poll an edge, which stops the print.
RearmedByChange ==
  (Doing("end") /\ on["head"] /\ ~head /\ event["head"] = "open")
    ~> (head \/ ~on["head"] \/ print # "running")
=============================================================================
