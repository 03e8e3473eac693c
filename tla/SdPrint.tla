------------------------------ MODULE SdPrint ------------------------------
(***************************************************************************)
(* Printing a file with tool changes on the AD5X: the work handler of      *)
(* virtual_sdcard.py, the pause flags of pause_resume.py, print_stats.py,  *)
(* and the filament change that zmod_color.py, zmod_ifs.py and the macros  *)
(* of ad5x_display_off.cfg carry out together.                             *)
(*                                                                         *)
(* Three actors interleave.  The work handler reads the file; the console  *)
(* runs the user's scripts; the feeder reader switches the feeder on and   *)
(* off and queues the callbacks _IFS_ON and _IFS_OFF.  Scripts of the      *)
(* first two exclude each other by the G-code mutex, the callbacks take no *)
(* mutex.  A change of filament runs inside a script of either.            *)
(***************************************************************************)
EXTENDS Naturals, Sequences

CONSTANTS
  Mappings,     \* the tool -> spool tables a user may choose (FILE_CONFIG)
  Bodies,       \* files, without their start and end macros
  Modes,        \* ways a print is started: with the feeder, without it
  BootIfs,      \* the feeder may answer when the model starts
  MaxOps,       \* bound on console commands
  MaxLosses,    \* bound on how often the feeder stops answering
  MaxFails      \* bound on commands that fail

ASSUME SdBounds ==
  /\ Modes \subseteq {"ifs", "plain"} /\ BootIfs \subseteq BOOLEAN
  /\ MaxOps \in Nat /\ MaxLosses \in Nat /\ MaxFails \in Nat

\* A table gives each of the tools T0 to T3 one of the four spools.
ASSUME SdTables == Mappings \subseteq [1..4 -> 1..4]
ASSUME SdFiles ==
  \A body \in Bodies : body \in Seq([kind : {"move", "T", "pause"}, tool : 0..3])

VARIABLES
  sd,      \* VirtualSD: work_timer, must_pause_work, cmd_from_sd, current_file,
           \* change_filament, enable_ffm, load_channel, print_channel, file_position
  pr,      \* PauseResume: is_paused, pause_command_sent, sd_paused
  stats,   \* PrintStats: state, and whether print_start_time is set
  work,    \* the work handler: where it is, its line, next_file_position
  con,     \* the console: where it is, and the print it is preparing
  chg,     \* the running change: step, tool, RESTORE_TEMP
  feeder,  \* zmod_ifs.ifs, zmod_color.ifs, FFMInfo.channel, the spool in the
           \* extruder (0: none), queued callbacks, FILE_CONFIG
  job,     \* the print: lines, mode; ghosts: tool asked for, runs of each line
  ghost    \* counters: ops, losses, fails; TRUE in busy: a print was refused

vars == <<sd, pr, stats, work, con, chg, feeder, job, ghost>>

----------------------------------------------------------------------------
(* Files                                                                   *)

Line(kind) == [kind |-> kind, tool |-> 0]
T(tool)    == [kind |-> "T", tool |-> tool]
File(body) == <<Line("start")>> \o body \o <<Line("end")>>

\* find_t_code: the first tool of the file, T0 when it has none.
FirstTool(body) ==
  LET Ts == {i \in DOMAIN body : body[i].kind = "T"}
  IN IF Ts = {} THEN 0 ELSE body[CHOOSE i \in Ts : \A j \in Ts : i <= j].tool

NoChange == [step |-> "none", tool |-> 0, restore |-> 0]
NoOrder  == [pc |-> "idle", body |-> <<>>, mode |-> "plain"]

\* The feeder has answered and its callback has run, or it has not answered.
Init ==
  \E on \in BootIfs, map \in Mappings, spool \in 0..2 :
    /\ sd = [timer |-> FALSE, must |-> FALSE, from |-> FALSE, file |-> FALSE,
             change |-> FALSE, ffm |-> on, load |-> 0, print |-> 0, pos |-> 0]
    /\ pr = [paused |-> FALSE, sent |-> FALSE, sd |-> FALSE]
    /\ stats = [state |-> "standby", started |-> FALSE]
    /\ work = [pc |-> "off", idx |-> 0, next |-> 0]
    /\ con = NoOrder /\ chg = NoChange
    /\ feeder = [ifs |-> on, color |-> FALSE, chan |-> IF spool = 0 THEN 1 ELSE spool,
                 spool |-> spool, calls |-> <<>>, map |-> map]
    /\ job = [lines |-> <<>>, mode |-> "plain", asked |-> 0, runs |-> <<>>]
    /\ ghost = [ops |-> 0, losses |-> 0, fails |-> 0, busy |-> FALSE]

\* A command fails, or one of the feeder's.
Fault == ghost.fails < MaxFails /\ ghost' = [ghost EXCEPT !.fails = @ + 1]
Fails == feeder.ifs /\ Fault

\* The work handler is inside run_script.
Running == work.pc \in {"line", "m400", "change"}

\* The console obtains the G-code mutex for one more command.
Console == /\ con.pc = "idle" /\ ~Running
           /\ ghost.ops < MaxOps
           /\ ghost' = [ghost EXCEPT !.ops = @ + 1]

----------------------------------------------------------------------------
(* print_stats.py                                                          *)

NoteStart  == [state |-> "printing", started |-> TRUE]
NotePause  == IF stats.state = "error" THEN stats ELSE [stats EXCEPT !.state = "paused"]
NoteFinishBug(state) == [state |-> state, started |-> FALSE]
NoteFinish(state) ==
  IF stats.started THEN [state |-> state, started |-> FALSE] ELSE stats

----------------------------------------------------------------------------
(* Pausing, resuming, cancelling                                           *)

\* do_pause returns at once when it is called from the file.
MustWaitBug == sd.timer
MustWait == sd.timer /\ ~sd.from

\* do_resume, and the flags of do_pause.
Started(s) == [s EXCEPT !.timer = TRUE, !.must = FALSE]
Stopping(s) == [s EXCEPT !.must = @ \/ s.timer]
NewHandler == [pc |-> "start", idx |-> 0, next |-> 0]

\* send_pause_command followed by cmd_PAUSE.
PauseFlags == [paused |-> TRUE, sent |-> TRUE, sd |-> IF pr.sent THEN pr.sd ELSE sd.timer]
PauseFromFile ==
  /\ sd' = IF pr.sent THEN sd ELSE Stopping(sd)
  /\ pr' = PauseFlags

Pause ==
  /\ Console /\ ~pr.paused
  /\ \/ /\ MustWait /\ ~pr.sent
        /\ sd' = Stopping(sd) /\ pr' = [pr EXCEPT !.sd = TRUE]
        /\ con' = [con EXCEPT !.pc = "pause"]
     \/ /\ ~(MustWait /\ ~pr.sent)
        /\ PauseFromFile /\ UNCHANGED con
  /\ UNCHANGED <<stats, work, chg, feeder, job>>

PauseDone ==
  /\ con.pc = "pause" /\ ~MustWait
  /\ pr' = [paused |-> TRUE, sent |-> TRUE, sd |-> TRUE]
  /\ con' = NoOrder
  /\ UNCHANGED <<sd, stats, work, chg, feeder, job, ghost>>

\* RESUME, and M24 of a print that is not paused; do_resume of a running work
\* handler raises "SD busy" and changes nothing.
Resume ==
  /\ Console
  /\ \/ /\ pr.paused /\ pr.sd /\ ~sd.timer
        /\ sd' = Started(sd) /\ work' = NewHandler
     \/ /\ pr.paused /\ ~pr.sd
        /\ UNCHANGED <<sd, work>>
     \/ /\ ~pr.paused /\ ~sd.timer
        /\ sd' = Started(sd) /\ work' = NewHandler
  /\ pr' = IF pr.paused THEN [paused |-> FALSE, sent |-> FALSE, sd |-> FALSE] ELSE pr
  /\ UNCHANGED <<stats, con, chg, feeder, job>>

\* do_cancel without its wait, and CLEAR_PAUSE.
DoCancel(s) == [Stopping(s) EXCEPT !.file = FALSE, !.change = FALSE, !.pos = 0]
ClearPause == [pr EXCEPT !.paused = FALSE, !.sent = FALSE]

\* CANCEL_PRINT: _STOP switches tool changes off first.
Cancel ==
  /\ Console
  /\ LET s == [sd EXCEPT !.ffm = FALSE]
         sdPrint == sd.timer \/ pr.sd
     IN \/ /\ sd.file /\ MustWait
           /\ sd' = Stopping(s) /\ con' = [con EXCEPT !.pc = "cancel"]
           /\ UNCHANGED <<pr, stats>>
        \/ /\ sdPrint /\ sd.file /\ ~MustWait
           /\ sd' = DoCancel(s) /\ stats' = NoteFinish("cancelled")
           /\ pr' = ClearPause /\ UNCHANGED con
        \/ /\ ~(sdPrint /\ sd.file)
           /\ sd' = IF sdPrint THEN [s EXCEPT !.pos = 0] ELSE s
           /\ pr' = ClearPause /\ UNCHANGED <<stats, con>>
  /\ UNCHANGED <<work, chg, feeder, job>>

CancelDone ==
  /\ con.pc = "cancel" /\ ~MustWait
  /\ sd' = DoCancel(sd) /\ stats' = NoteFinish("cancelled")
  /\ pr' = ClearPause /\ con' = NoOrder
  /\ UNCHANGED <<work, chg, feeder, job, ghost>>

\* _reset_file without its wait.
ResetFile ==
  /\ sd' = [Stopping(sd) EXCEPT !.file = FALSE, !.pos = 0]
  /\ stats' = [state |-> "standby", started |-> FALSE]

\* SDCARD_RESET_FILE, which also runs by itself twenty seconds after a print.
\* It is refused as coming from the file whenever cmd_from_sd is set, also when
\* a tool line left it so.
Reset ==
  /\ Console /\ ~sd.from
  /\ \/ /\ sd.file /\ sd.timer
        /\ sd' = Stopping(sd) /\ con' = [con EXCEPT !.pc = "reset"]
        /\ UNCHANGED stats
     \/ /\ ~(sd.file /\ sd.timer)
        /\ ResetFile /\ UNCHANGED con
  /\ UNCHANGED <<pr, work, chg, feeder, job>>

ResetDone ==
  /\ con.pc = "reset" /\ ~MustWait
  /\ ResetFile /\ con' = NoOrder
  /\ UNCHANGED <<pr, work, chg, feeder, job, ghost>>

----------------------------------------------------------------------------
(* Starting a print                                                        *)

\* GET_ZCOLOR, and SET_ZCOLOR when it only asks: the feeder flag is copied.
GetZcolor ==
  /\ Console /\ feeder' = [feeder EXCEPT !.color = feeder.ifs]
  /\ UNCHANGED <<sd, pr, stats, work, con, chg, job>>

\* PRINT_ZCOLOR up to find_t_code: the mapping is already overwritten.
PrintWithIfs ==
  /\ Console /\ "ifs" \in Modes
  /\ \E map \in Mappings, body \in Bodies :
       /\ feeder' = [feeder EXCEPT !.color = feeder.ifs, !.map = map]
       /\ con' = [pc |-> "setup", body |-> body,
                  mode |-> IF feeder.ifs THEN "ifs" ELSE "plain"]
  /\ UNCHANGED <<sd, pr, stats, work, chg, job>>

\* SET_ZCOLOR with SILENT=2: _IFS_OFF and SDCARD_PRINT_FILE.
PrintWithoutIfs ==
  /\ Console /\ "plain" \in Modes
  /\ \E body \in Bodies : con' = [pc |-> "launch", body |-> body, mode |-> "plain"]
  /\ feeder' = [feeder EXCEPT !.color = feeder.ifs]
  /\ sd' = [sd EXCEPT !.ffm = FALSE]
  /\ UNCHANGED <<pr, stats, work, chg, job>>

\* The T number of the spool in the extruder: 98 when no tool uses it, 99
\* when there is none.
CurrentTool ==
  LET Uses == {i \in DOMAIN feeder.map : feeder.map[i] = feeder.chan}
  IN IF feeder.spool = 0 THEN 99
     ELSE IF Uses = {} THEN 98
     ELSE (CHOOSE i \in Uses : \A j \in Uses : i <= j) - 1

SetChannel(s, channel) == [s EXCEPT !.load = channel, !.print = channel]

\* SET_CURRENT_PRUTOK CHANNEL=<first tool of the file>.
Setup ==
  /\ con.pc = "setup"
  /\ LET first == FirstTool(con.body) IN
     \/ /\ ~feeder.ifs
        /\ sd' = [sd EXCEPT !.ffm = FALSE]
        /\ con' = [con EXCEPT !.pc = "launch"]
        /\ UNCHANGED chg
     \/ /\ feeder.ifs /\ CurrentTool = first
        /\ sd' = [SetChannel(sd, first) EXCEPT !.ffm = TRUE]
        /\ con' = [con EXCEPT !.pc = "launch"]
        /\ UNCHANGED chg
     \/ /\ feeder.ifs /\ CurrentTool # first
        /\ chg' = [step |-> "begin", tool |-> first, restore |-> 0]
        /\ con' = [con EXCEPT !.pc = "changing"]
        /\ UNCHANGED sd
  /\ UNCHANGED <<pr, stats, work, feeder, job, ghost>>

\* SDCARD_PRINT_FILE; a running work handler refuses it with "SD busy".
Launch ==
  /\ con.pc = "launch" /\ con' = NoOrder
  /\ \/ /\ sd.timer
        /\ ghost' = [ghost EXCEPT !.busy = TRUE]
        /\ UNCHANGED <<sd, stats, work, job>>
     \/ /\ ~sd.timer
        /\ sd' = [Started(sd) EXCEPT !.file = TRUE, !.pos = 0]
        /\ stats' = [state |-> "standby", started |-> FALSE]
        /\ work' = NewHandler
        /\ job' = [lines |-> File(con.body), mode |-> con.mode, asked |-> FirstTool(con.body),
                   runs |-> [i \in DOMAIN File(con.body) |-> 0]]
        /\ UNCHANGED ghost
  /\ UNCHANGED <<pr, chg, feeder>>

----------------------------------------------------------------------------
(* work_handler                                                            *)

\* After seek fails for want of a file the handler is gone.
NoFileBug == UNCHANGED sd
NoFile == sd' = [sd EXCEPT !.timer = FALSE]
WorkStart ==
  /\ work.pc = "start"
  /\ \/ /\ sd.file /\ stats' = NoteStart
        /\ work' = [work EXCEPT !.pc = "loop", !.idx = sd.pos] /\ UNCHANGED sd
     \/ /\ ~sd.file /\ NoFile
        /\ work' = [work EXCEPT !.pc = "off"] /\ UNCHANGED stats
  /\ UNCHANGED <<pr, con, chg, feeder, job, ghost>>

\* The end of work_handler, in the state s.
Leave(s, outcome) ==
  /\ sd' = [s EXCEPT !.timer = FALSE, !.from = FALSE]
  /\ work' = [work EXCEPT !.pc = "off"]
  /\ stats' = outcome

\* The handler wakes up at the head of its loop: it was told to pause, or the
\* file is at its end.
WorkExit ==
  /\ work.pc = "loop"
  /\ \/ /\ sd.must
        /\ Leave(sd, IF sd.file THEN NotePause ELSE NoteFinish("complete"))
     \/ /\ ~sd.must /\ work.idx = Len(job.lines)
        /\ Leave([sd EXCEPT !.file = FALSE], NoteFinish("complete"))
  /\ UNCHANGED <<pr, con, chg, feeder, job, ghost>>

\* The line is done: file_position = next_file_position, and the head of the
\* loop without a pause when it ends there.
Advance(s) == [s EXCEPT !.pos = work.next]
NextLine(s) ==
  /\ job' = [job EXCEPT !.runs[work.idx + 1] = @ + 1]
  /\ \/ s.must /\ Leave(Advance(s), IF s.file THEN NotePause ELSE NoteFinish("complete"))
     \/ /\ ~s.must /\ sd' = Advance(s)
        /\ work' = [work EXCEPT !.pc = "loop", !.idx = @ + 1]
        /\ UNCHANGED stats

\* A line T<n> ends without cmd_from_sd being reset.
AfterToolBug(s) ==
  /\ job' = [job EXCEPT !.runs[work.idx + 1] = @ + 1]
  /\ sd' = [s EXCEPT !.load = s.print, !.change = FALSE]
  /\ work' = [work EXCEPT !.pc = "loop", !.idx = @ + 1]
  /\ UNCHANGED stats
AfterTool(s) == NextLine([s EXCEPT !.load = s.print, !.change = FALSE])

Line1 == job.lines[work.idx + 1]
DispatchableBug == work.pc = "loop" /\ work.idx < Len(job.lines) /\ con.pc = "idle"
Dispatchable == /\ work.pc = "loop" /\ ~sd.must /\ work.idx < Len(job.lines)
                /\ con.pc = "idle"

\* A line runs as a script; a tool the handler does not change to is unknown.
DispatchLine ==
  /\ Dispatchable /\ ~(Line1.kind = "T" /\ sd.ffm)
  /\ sd' = [sd EXCEPT !.from = TRUE]
  /\ work' = [work EXCEPT !.pc = "line", !.next = sd.pos + 1]
  /\ job' = IF Line1.kind = "T" THEN [job EXCEPT !.asked = Line1.tool] ELSE job
  /\ UNCHANGED <<pr, stats, con, chg, feeder, ghost>>

\* T<n> with tool changes enabled, for another tool than the loaded one.
DispatchTool ==
  /\ Dispatchable /\ Line1.kind = "T" /\ sd.ffm /\ Line1.tool # sd.load
  /\ sd' = [sd EXCEPT !.from = TRUE, !.print = Line1.tool]
  /\ work' = [work EXCEPT !.pc = "m400", !.next = sd.pos + 1]
  /\ job' = [job EXCEPT !.asked = Line1.tool]
  /\ UNCHANGED <<pr, stats, con, chg, feeder, ghost>>

\* T<n> for the loaded tool.
SameTool ==
  /\ Dispatchable /\ Line1.kind = "T" /\ sd.ffm /\ Line1.tool = sd.load
  /\ sd' = [sd EXCEPT !.from = TRUE, !.print = Line1.tool, !.change = FALSE, !.pos = @ + 1]
  /\ job' = [job EXCEPT !.asked = Line1.tool, !.runs[work.idx + 1] = @ + 1]
  /\ work' = [work EXCEPT !.idx = @ + 1, !.next = sd.pos + 1]
  /\ UNCHANGED <<pr, stats, con, chg, feeder, ghost>>

\* Between the scripts M400 and _A_CHANGE_FILAMENT the mutex is free: whoever
\* waited for it runs first.  The text of the second is made before that.
M400Done ==
  /\ work.pc = "m400"
  /\ work' = [work EXCEPT !.pc = "gap"] /\ sd' = [sd EXCEPT !.change = TRUE]
  /\ UNCHANGED <<pr, stats, con, chg, feeder, job, ghost>>

BeginChange ==
  /\ work.pc = "gap" /\ con.pc = "idle"
  /\ work' = [work EXCEPT !.pc = "change"]
  /\ chg' = [step |-> "begin", tool |-> Line1.tool, restore |-> 1]
  /\ UNCHANGED <<sd, pr, stats, con, feeder, job, ghost>>

\* The macros a file runs: START_PRINT clears the pause flags, END_PRINT
\* switches tool changes off, PAUSE pauses from the file.
StartLineBug == UNCHANGED pr /\ NextLine([sd EXCEPT !.from = FALSE])
StartLine == pr' = ClearPause /\ NextLine([sd EXCEPT !.from = FALSE])
EndLine ==
  /\ work.pc = "line"
  /\ \/ Line1.kind = "start" /\ StartLine
     \/ /\ Line1.kind = "end" /\ NextLine([sd EXCEPT !.ffm = FALSE, !.from = FALSE])
        /\ UNCHANGED pr
     \/ /\ Line1.kind \in {"move", "T"} /\ NextLine([sd EXCEPT !.from = FALSE])
        /\ UNCHANGED pr
     \/ /\ Line1.kind = "pause"
        /\ pr' = IF pr.paused THEN pr ELSE PauseFlags
        /\ NextLine([(IF pr.paused \/ pr.sent THEN sd ELSE Stopping(sd)) EXCEPT !.from = FALSE])
  /\ UNCHANGED <<con, chg, feeder, ghost>>

\* A line raises before it has done what it is for; START_PRINT perhaps after CLEAR_PAUSE.
LineFails ==
  /\ work.pc = "line" /\ Fault
  /\ Leave(sd, NoteFinish("error"))
  /\ \/ UNCHANGED pr
     \/ Line1.kind = "start" /\ pr' = ClearPause
  /\ UNCHANGED <<con, chg, feeder, job>>

\* The wait for change_filament, every half second.
RefuelEnd ==
  /\ work.pc = "refuel" /\ (~sd.change \/ sd.must)
  /\ AfterTool(sd)
  /\ UNCHANGED <<pr, con, chg, feeder, ghost>>

----------------------------------------------------------------------------
(* _A_CHANGE_FILAMENT: the tool change, in the script of whoever asked     *)

Wanted == feeder.map[chg.tool + 1]

\* The script ends in state s: the work handler looks at change_filament, the
\* console enables tool changes and goes on to SDCARD_PRINT_FILE.
EndChange(s) ==
  /\ chg' = NoChange
  /\ \/ /\ work.pc = "change" /\ UNCHANGED con
        /\ \/ (~s.change \/ s.must) /\ AfterTool(s)
           \/ /\ s.change /\ ~s.must /\ sd' = s
              /\ work' = [work EXCEPT !.pc = "refuel"] /\ UNCHANGED <<stats, job>>
     \/ /\ con.pc = "changing" /\ con' = [con EXCEPT !.pc = "launch"]
        /\ sd' = [s EXCEPT !.ffm = TRUE] /\ UNCHANGED <<work, stats, job>>

\* cmd_CHANGE_FILAMENT: "Off. T<n> ignore" without END_CHANGE_FILAMENT.
Ignore ==
  /\ chg.step = "begin" /\ ~feeder.color
  /\ EndChange(sd)
  /\ UNCHANGED <<pr, feeder, ghost>>

Step(next) == chg' = [chg EXCEPT !.step = next]

\* The spool wanted is the current one by FFMInfo.channel, and the extruder
\* sees filament.
Compare ==
  /\ chg.step = "begin" /\ feeder.color
  /\ Step(IF Wanted = feeder.chan /\ feeder.spool # 0 THEN "same" ELSE "remove")
  /\ UNCHANGED <<sd, pr, stats, work, con, feeder, job, ghost>>

\* IFS_REMOVE_CURRENT_PRUTOK, then IFS_F24, F10 and F23: without the feeder
\* each runs _IFS_OFF and returns as if it had done its work.
Remove ==
  /\ chg.step = "remove" /\ Step("feed")
  /\ sd' = IF feeder.ifs THEN sd ELSE [sd EXCEPT !.ffm = FALSE]
  /\ feeder' = IF feeder.ifs THEN [feeder EXCEPT !.spool = 0] ELSE feeder
  /\ UNCHANGED <<pr, stats, work, con, job, ghost>>

\* The last retry of F10 may pass without a filament and without an error.
Feed ==
  /\ chg.step = "feed" /\ Step("record")
  /\ sd' = IF feeder.ifs THEN sd ELSE [sd EXCEPT !.ffm = FALSE]
  /\ \/ /\ feeder' = IF feeder.ifs /\ feeder.spool = 0
                     THEN [feeder EXCEPT !.spool = Wanted] ELSE feeder
        /\ UNCHANGED ghost
     \/ Fails /\ UNCHANGED feeder
  /\ UNCHANGED <<pr, stats, work, con, job>>

\* IFS_EXTRUDER_SENSOR raises when there is no filament; then
\* _SET_EXTRUDER_SLOT, and neither looks at the feeder.
RecordBug == UNCHANGED feeder
RecordSlot == feeder' = [feeder EXCEPT !.chan = Wanted]
Record ==
  /\ chg.step = "record" /\ feeder.spool # 0
  /\ Step("current") /\ RecordSlot
  /\ UNCHANGED <<sd, pr, stats, work, con, job, ghost>>

\* SET_CURRENT_PRUTOK without a channel.
SetCurrent ==
  /\ chg.step = "current" /\ Step("end")
  /\ sd' = IF feeder.ifs THEN [SetChannel(sd, CurrentTool) EXCEPT !.ffm = TRUE]
           ELSE [sd EXCEPT !.ffm = FALSE]
  /\ UNCHANGED <<pr, stats, work, con, feeder, job, ghost>>

\* END_CHANGE_FILAMENT.
EndMacro ==
  /\ chg.step \in {"same", "end"}
  /\ EndChange([SetChannel(sd, chg.tool) EXCEPT !.change = FALSE])
  /\ UNCHANGED <<pr, feeder, ghost>>

\* The script raises.  A change of the file pauses the print; one of the
\* console ends its script, and no print is started.
Raise ==
  /\ \/ /\ chg.restore = 1
        /\ EndChange(IF pr.sent THEN sd ELSE Stopping(sd))
        /\ pr' = IF pr.paused THEN [pr EXCEPT !.sent = TRUE] ELSE PauseFlags
     \/ /\ chg.restore = 0
        /\ chg' = NoChange /\ con' = NoOrder
        /\ UNCHANGED <<sd, pr, stats, work, job>>
  /\ UNCHANGED feeder

ChangeFails == chg.step \in {"remove", "feed", "record"} /\ Fails /\ Raise
FoundEmpty == chg.step = "record" /\ feeder.spool = 0 /\ Raise /\ UNCHANGED ghost

----------------------------------------------------------------------------
(* The reader of zmod_ifs.py: its flag, and the callbacks it queues         *)

IfsDown ==
  /\ feeder.ifs /\ ghost.losses < MaxLosses
  /\ ghost' = [ghost EXCEPT !.losses = @ + 1]
  /\ feeder' = [feeder EXCEPT !.ifs = FALSE, !.calls = Append(@, FALSE)]
  /\ UNCHANGED <<sd, pr, stats, work, con, chg, job>>

IfsUp ==
  /\ ~feeder.ifs
  /\ feeder' = [feeder EXCEPT !.ifs = TRUE, !.calls = Append(@, TRUE)]
  /\ UNCHANGED <<sd, pr, stats, work, con, chg, job, ghost>>

\* _IFS_ON and _IFS_OFF.
RunCallback ==
  /\ feeder.calls # <<>>
  /\ sd' = [sd EXCEPT !.ffm = Head(feeder.calls)]
  /\ feeder' = [feeder EXCEPT !.calls = Tail(@)]
  /\ UNCHANGED <<pr, stats, work, con, chg, job, ghost>>

----------------------------------------------------------------------------
Commands == Pause \/ Resume \/ Cancel \/ Reset \/ GetZcolor \/ PrintWithIfs \/ PrintWithoutIfs
Waits == PauseDone \/ CancelDone \/ ResetDone
Worker == \/ WorkStart \/ WorkExit \/ DispatchLine \/ DispatchTool \/ SameTool
          \/ M400Done \/ BeginChange \/ EndLine \/ RefuelEnd
Change == \/ Ignore \/ Compare \/ Remove \/ Feed \/ Record \/ SetCurrent \/ EndMacro
          \/ FoundEmpty
Next == \/ Commands \/ Waits \/ Setup \/ Launch \/ Worker \/ LineFails
        \/ Change \/ ChangeFails \/ IfsDown \/ IfsUp \/ RunCallback

Spec == Init /\ [][Next]_vars

\* The reactor runs every greenlet that is ready, and a script that holds the
\* mutex goes on: nothing is assumed of the user, the feeder or failures.
Fairness == /\ WF_vars(Worker) /\ WF_vars(Change) /\ WF_vars(RunCallback)
            /\ WF_vars(Waits) /\ WF_vars(Setup \/ Launch)
FairSpec == Spec /\ Fairness

----------------------------------------------------------------------------
(* Properties                                                              *)

Booleans(r) == \A f \in DOMAIN r : r[f] \in BOOLEAN

\* The states the fields can take; positions stay inside the file and one
\* script at a time holds the mutex, so one change of filament runs at a time.
TypeOK ==
  /\ \A f \in {"timer", "must", "from", "file", "change", "ffm"} : sd[f] \in BOOLEAN
  /\ sd.load \in 0..99 /\ sd.print \in 0..99 /\ sd.pos \in 0..Len(job.lines)
  /\ Booleans(pr) /\ stats.started \in BOOLEAN
  /\ stats.state \in {"standby", "printing", "paused", "complete", "cancelled", "error"}
  /\ work.pc \in {"off", "start", "loop", "line", "m400", "gap", "change", "refuel"}
  /\ work.idx \in 0..Len(job.lines) /\ work.next \in 0..Len(job.lines)
  /\ con.pc \in {"idle", "pause", "cancel", "reset", "setup", "changing", "launch"}
  /\ sd.timer = (work.pc # "off")
  /\ ~(Running /\ con.pc # "idle")
  /\ (chg.step # "none") = (work.pc = "change" \/ con.pc = "changing")
  /\ feeder.spool \in 0..4 /\ feeder.chan \in 1..4

\* While the feeder keeps answering, no command fails and nobody asks for a print during
\* a print, a move of a print started with the feeder extrudes from the spool
\* the user mapped to the tool the file asked for last (work_handler,
\* cmd_CHANGE_FILAMENT, find_t_code).
Untroubled == ghost.losses = 0 /\ ghost.fails = 0 /\ ~ghost.busy
RightSpool ==
  Untroubled /\ job.mode = "ifs" /\ work.pc = "line" /\ Line1.kind = "move"
     => feeder.spool = feeder.map[job.asked + 1]

\* No line of a file is executed twice, however often the print is paused and
\* resumed, and a print that is "complete" has executed every line
\* (file_position against the lines read ahead).
EachLineOnce ==
  /\ \A i \in DOMAIN job.runs : job.runs[i] <= 1
  /\ stats.state = "complete" => \A i \in DOMAIN job.runs : job.runs[i] = 1

\* After its start macro a paused print executes no further line and asks for
\* no tool: what is paused stays still until RESUME (must_pause_work, is_paused).
Dispatches == work.pc = "loop" /\ (DispatchLine \/ DispatchTool \/ SameTool)
NoDispatchWhilePaused == [][Dispatches /\ work.idx > 0 => ~pr.paused]_vars

\* A cancelled print is never reported as complete, failed or running again
\* (the work handler that notices late must not overwrite the state).
CancelStays ==
  [][stats.state = "cancelled" => stats'.state \in {"cancelled", "standby"}]_vars

\* Handler, flags, console and tool changes together are a PrintJob: what the print
\* reports is what was done with its file (work_handler, _note_finish, do_cancel).
Job == INSTANCE PrintJob WITH open <- sd.file, state <- stats.state, runs <- job.runs,
         busy <- work.pc \in {"line", "m400", "gap", "change", "refuel"}
ImplementsJob == Job!Spec

\* A console command that waits in do_pause gets out of it.
PauseReturns == con.pc \in {"pause", "cancel", "reset"} ~> con.pc = "idle"

\* A tool change the file asked for comes to an end, done or failed: the handler
\* is not left waiting for the change script or for change_filament.
ToolChangeEnds == work.pc \in {"gap", "change", "refuel"} ~> work.pc \in {"loop", "off"}
=============================================================================
