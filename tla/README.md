# A TLA+ model of zmod_ff5x

`zmod_ff5x` turns a FlashForge Adventurer 5M / 5M Pro / AD5X into a Klipper
printer: Klipper extras in Python (`src/.shell/*.py`), a few patched files of the
printer's own Klipper (`src/.shell/root/klippy/extras`), and many G-code macros
(`src/en/*.cfg`, `src/ru/*.cfg`).  The models follow the code; where a comment or
a macro text says something else, that is listed under *Where the code and its texts disagree*.

## 1. Inventory

| Component | State | Operations | Talks to | Hard part | What makes it correct |
|---|---|---|---|---|---|
| **IFS command mailbox**: `zmod_ifs.py` `send_command_and_wait`, `_sensor_reader` | `_command`, `_command_id`, `_ret_command_id`, `_ret_command_data`, `ifs`, `stop_thread`; the serial input buffer | send and wait, time-out with recovery, one reader round, shutdown | the feeder by serial line; `_IFS_ON`/`_IFS_OFF` by async callback | many greenlets and an OS thread on one slot and one cell; lost and cut answers; re-sending after reopening the port | an answer belongs to its command; order of execution; no replay; every wait ends |
| **IFS commands**: `zmod_ifs.py` `cmd_IFS_*`, `wait_for_state`, `IfsData` | the state of four ports, stall and silk counters, `NeedInsert` | F10/F11/F13/F15/F18/F23/F24/F39/F112, insert and remove, retry loops | mailbox, macros, extruder switch | state filed by the reader and consumed by whoever waits; retries that end silently | a command that returns did what it reports; an inserted filament is noticed once |
| **Weight sensor**: `zmod_tenz.py` | the same mailbox, older; weight, `_zcontrol` flags | `H1`..`H7`, tare loop, nozzle control | the sensor by serial line; PAUSE by reactor callback | the number and the data of an answer are published separately; the slot is cleared blindly | as the mailbox; a tare is judged by a weight measured after it |
| **File printing**: `virtual_sdcard.py`, `pause_resume.py`, `print_stats.py` | `work_timer`, `must_pause_work`, `cmd_from_sd`, `current_file`, `file_position`, `next_file_position`, `change_filament`, `enable_ffm`, `load_channel`, `print_channel`; `is_paused`, `pause_command_sent`, `sd_paused`; the print state | start, the work handler, T lines, pause, resume, cancel, reset | G-code mutex, filament change | three scripts' worth of flags read and written around yields | right spool; each line once; paused means still; no wait forever |
| **Filament change**: `zmod_color.py`, `ad5x_display_off.cfg`, parts of `zmod_ifs.py` | `ifs` (a copy), `FFMInfo.channel`, `FILE_CONFIG` | choose and store the mapping, `_A_CHANGE_FILAMENT`, `END_CHANGE_FILAMENT` | IFS commands, file printing | every step may be skipped (feeder away) or raise | the spool recorded is the spool fed; a failed change pauses |
| **Printer macros**: `client.cfg`, `base.cfg`, `display_off.cfg` | macro variables | PAUSE, RESUME, CANCEL_PRINT, START_PRINT, END_PRINT | all of the above | a macro that raises half-way | as above |
| **Filament sensors**: `zmod_ifs_motion_sensor.py`, `zmod_ifs_switch_sensor.py`, `filament_switch_sensor.py`, `_DISABLE_SENSOR`/`_ENABLE_SENSOR` | enabled flags, `min_event_systime`, last state; `allowed`, `allowed2`, `purge` of the macros | polls, runout, gating, `IFS_MOTION`, `ANALOG_PRUTOK` | PAUSE, RESUME, filament change, callbacks of the feeder | an edge seen while gated is consumed; gates do not nest and callbacks run inside them | a runout during a print is acted on; a gate leaves the sensors as it found them |
| **FlashForge load cell**: `flashforge_loadcell.py` | `active_command` and its completion, `last_weight_grams`, `zcontrol`, `zcommand` | weigh, tare, calibrate, sample, nozzle control | the MCU; PAUSE by reactor callback; shutdown | requests of one name from a command and from a timer; an answer that is late | a tare goes by its own weight; no command locks out the next; too much weight is acted on |
| **Saved variables**: `save_variables.py` | the file and `allVariables` | save, load | the file system, `checkMD5.sh` | truncate, then write; another process edits the file | a setting survives what is written next to it |
| **Shell commands**: `gcode_shell_command.py` | the process | run, poll, time out | Linux | a script killed half-way | the macros after it do not take silence for success |
| **MD5 check**: `checkMD5.sh`, `CHECK_MD5` and its callers | `check_md5`, a saved variable; the dialog | check, ask, print | the three above | a verdict kept in a file that others rewrite, and used later than it was given | what is printed was checked |
| `FFCONFIG`; `zmod.py`; webhooks patch; air and temperature drivers; installation scripts; KAMP, Telegram; vendored Klipper and Moonraker | | | | file and register I/O, text, third-party code | not modelled, see 5 |

How they interact in a print: the *work handler* of `virtual_sdcard.py` reads a
line and runs it as a script under the G-code mutex.  A line `T<n>` is not run:
the handler runs `M400`, releases the mutex, runs `_A_CHANGE_FILAMENT` and then
waits for `change_filament` to be cleared.  `_A_CHANGE_FILAMENT` asks `zmod_color.py`
for the spool, whose macros send feeder commands through the *mailbox*.  The
*reader thread* of `zmod_ifs.py` decides from every read whether the feeder is there
and queues `_IFS_ON` or `_IFS_OFF`, which set `enable_ffm` of the work handler without
taking the mutex.  The *console* (screen, web) runs PAUSE, RESUME, CANCEL_PRINT and new
prints between the handler's scripts.

## 2. Modules

| Module | Models | Composes |
|---|---|---|
| `IfsLink` | the mailbox of `zmod_ifs.py` | greenlets, the reader thread, the feeder, the reactor's callback queue |
| `IfsLinkProofs` | theorems about `IfsLink` | |
| `IfsChannelProofs` | that `IfsLink` implements `CommandChannel`, and what holds of a greenlet alone | |
| `TenzLink` | the mailbox of `zmod_tenz.py` | greenlets, the reader thread, the sensor |
| `TenzLinkProofs` | theorems about `TenzLink` | |
| `CommandChannel` | what the feeder's mailbox promises to its callers | implemented by `IfsLink` |
| `IfsFeed` | the feed commands of `zmod_ifs.py`, `wait_for_state`, `IfsData`, `IFS_AUTOINSERT` | greenlets, the feeder, the extruder switch, the reader's polls and announcements |
| `IfsFeedProofs` | theorems about `IfsFeed` | |
| `SdPrint` | a print with tool changes | work handler, pause flags, print state, console, filament change, callbacks of the feeder |
| `SdPrintProofs` | theorems about `SdPrint`: the report, the right spool, and that it implements `PrintJob` | |
| `PrintJob` | what a print promises to whoever watches it | implemented by `SdPrint` |
| `SensorGate` | the filament sensors of a print, the gate, the runouts | sensors, scripts under the G-code mutex, callbacks of the feeder |
| `SensorGateProofs` | theorems about `SensorGate` | |
| `LoadCell` | `flashforge_loadcell.py` | a G-code command, the timer, the MCU |
| `LoadCellProofs` | theorems about `LoadCell` | |
| `FileCheck` | the MD5 check, `SAVE_VARIABLE`, `RUN_SHELL_COMMAND` | user, macros, the shell script, the file of variables, power |
| `FileCheckProofs` | theorems about `FileCheck` | |
| `MC…` | instances for TLC | |

The modules share no variables; what one has in detail another has as one step.  A
feed command of `IfsFeed` is one step, confirmed, refused or late: `IfsLink` has the mailbox under
it.  A feed in `SdPrint` does its work, is skipped, raises or gives up silently:
`IfsFeed` has the reasons.  `extrude` in `SensorGate` is any line that moves filament: `SdPrint` has the
lines.

### `IfsLink`

One action per step that the code makes without giving up the interpreter to
another actor that could interfere: `Send` (inside `Issue` and `Recover`) is the critical
section that numbers a command and puts it into the slot; `PollMatch`, `PollMiss` and
`Timeout` are what one poll of the loop does under the lock; `Fetch` is the second
read of `_ret_command_data`, after the lock was released.  A time-out runs `IFS_F112` and `IFS_F18`
before it raises (`Recover`), and their own waits can time out: `todo` and `rec` follow the
recovery in progress.  The model keeps one frame of it: a time-out inside a
recovery starts a new recovery instead of nesting it; the frames that remain
would only raise.  The waits for the feeder's state with which `IFS_F18` ends are not repeated here: they are those of `IfsFeed`.
The reader is `Open`, `Exit`, `Take`, `Write`, `Lose` and `ReadEmpty`, `Find` and `ReadLine`,
`Store`, in the order of `_sensor_reader`.  A loss or a find is two steps, because the callback is queued
(`zmod_ifs.py:1041`, `:1053`) before `self.ifs` is set (`:1044`, `:1056`): `_IFS_OFF` can run, and a handler send one more command, in between.
`PortFails` is a `SerialException`, after which the reader opens the port again; `Die` is any other exception.
`enable_ffm` is written by the callbacks (`RunCallback`), by handlers that find the feeder off (`Refuse`, `Recover`), and by commands that do not
ask the reader at all, `SDCARD_ENABLE_FFM`, `_STOP`, M23 (`SwitchFfm`); what it is for is a matter of `SdPrint`.
The feeder is external: it executes the frames it gets
and confirms them, or the line loses the frame or the answer, or the feeder refuses, or `readline`
returns an answer in two pieces.

Texts are abstracted to the number of the frame they answer and whether the line is
the confirmation of that frame's command.  Time is counted in reader rounds:
`TimeoutRounds` rounds fit into a wait.

### `TenzLink`

As above with the differences that matter: `PutNumber` and `PutData` are two critical
sections, a poll's answer is filed too, `PutData` clears the slot whatever it holds, and every
round empties the input buffer.  `Prompt` says that a waiting greenlet
polls in every round (the reactor is not busy); it is FALSE where that must not be
assumed, and TRUE where a disagreement must be shown not to need a slow
reactor.

### `SdPrint`

`work.pc` is where `work_handler` is: `start`, the head of the `loop`, inside the script of a
`line`, inside `m400`, in the `gap` between the two scripts of a tool line, inside the `change` script, or in
the loop that waits for `change_filament` (`refuel`).  `con` is the console's script when
it waits (`do_pause` in PAUSE, CANCEL_PRINT and SDCARD_RESET_FILE) or prepares a print.  `chg` is the change
in progress, of either actor.  A script that takes no wait is one action.  `Console`
(the console gets the mutex) excludes the scripts of the handler; callbacks need no mutex.

A file is a start macro, a body of moves, tool lines and PAUSE, and an end
macro.  Ghost variables: `job.asked`, the tool the file asked for last; `job.runs`, how
often each line ran; `ghost`, the bounds' counters and whether a print was refused as busy.
`feeder.spool` is the spool that is really in the extruder; `feeder.chan` is what `zmod_color.py`
recorded.

### `CommandChannel` and the refinement

`CommandChannel` has callers and numbered commands only.  A command is executed, again if
it must be sent again, but never after a newer one and never after its caller has the answer;
and an answer is given only to a command that was executed, unless an answer was garbled.  `IfsLink`
implements it under the mapping `CallOf` (a call is pending while its greenlet waits, answered when a
confirmed result is returned, over otherwise), with `issued` the last number and `clean` the absence of cut
answers.  `ImplementsChannel` is checked in `ifs_shared`.

### `PrintJob` and the refinement

`PrintJob` is a print as Moonraker and the screen see it: an open file, the reported state, which lines were carried out,
and whether one is being carried out now.  A line begins only in an open file that is reported as `printing`; a line that
was begun ends, or fails, although the print was cancelled meanwhile; the first line not yet carried out is the next; a print is paused only between
lines, complete only after the last one.  `SdPrint` implements it under the mapping `Job`: a line is being carried out in every place of
the handler inside a line, the three scripts and waits of a tool line included; a `T<n>` for the loaded tool is `Pass`, a line that takes no time.  Everything
the console, the flags of `pause_resume.py`, the mutex and the change of filament do in between is a stutter of `PrintJob`.
`ImplementsJob` is checked in `sd_print`.

### `IfsFeed`

A greenlet is the list `todo` of what it has still to do: a command goes out (`Command`), its wait asks for
the status (`Ask`) and judges it (`Judge`), which replaces the head of the list by what the handler does then, the
stop (F112), the next attempt after a reset (F15), or the recovery (F112, F18, raise).  `Ask` and `Judge` are two steps because
the status is stored in the `IfsData` all greenlets and the reader share, and because the switch is looked at
in both: when it trips in `Ask` the request returns `None`, and `Judge` goes on with whatever `IfsData` holds.
`IFS_AUTOINSERT` is a callback of the reader (`RunAuto`) and runs without the G-code mutex, besides any
other command.  The feeder (external) is a state (`ready`, `busy`, moving, `error`), the port it moves, the
ports it has marked as newly filled, and the rods it holds.

`Poll` and `Look` are the reader's update and its look at `NeedInsert`, two critical sections.
Ghosts: `dev.by` is who started the movement; `rods` are the announced ports and those
whose flag was used up otherwise.  `rods` decides nothing, which is why `feed`, whose properties do not read it, leaves it
out of the VIEW.

### `SensorGate`

Who holds the G-code mutex works off the list `script.todo`: a line of the file, a console
command, or what a runout starts; a list is made of single words such as `purge`, `disable`, `pause`.  The two `RunoutHelper`s are `on` (`sensor_enabled`), `seen` (`filament_present`) and
`event`: open, called, waiting for the mutex, running, or in its `event_delay`; all but the first stand for a
`min_event_systime` in the future.  `Poll` is a sensor's timer, `Note` is `note_filament_present` with every early
return; `SendPause` runs before the mutex is asked for, `Handle` with it.  `_IFS_ON`, `_IFS_OFF` (`Feeder`) and the
`_ENABLE_SENSOR` of a failing `IFS_AUTOINSERT` (`AutoInsertFails`) take no mutex.

`print` is whether the print runs, and `pr` what `pause_resume.py` knows of it: a pause sent while `pause_command_sent` is still set
does nothing (`SendPauseCommand`), and PAUSE asks only `is_paused`.  RESUME looks at the head sensor when the macro is rendered
(`Resume`); then it waits for the temperature, runs the user's macro with `END_CHANGE_FILAMENT`, extrudes and moves (`Resuming`), and only
then lets the print go on (`ResumeBase`).  Filament that runs out in between is reported while the last pause is still sent; what stops the print
after `RESUME_BASE` is the PAUSE with which the runout handler's own script begins, once it gets the mutex.

A move or an extrusion may raise (`OtherRaises`), an extrusion also as a feeder command whose answer is missing or wrong, which runs
`_ENABLE_SENSOR` first (`FeederRaises`).  A status that `wait_for_state` waits for in vain, or `IFS_PRINT_STATE` without an answer, is an error of
the feeder that does not, and counts as the other kind.  `cmd_CHANGE_FILAMENT` turns either into a pause, everything else gives up the script.  An error of the purge before a change is outside every `try` of
`work_handler` and ends the host (`print` is `dead`).

Ghosts: `user` is whether the user wants the head sensor; `cut` are the sensors left off by a
script that died inside its gate, or by `_RESUME_MOTION_SENSOR`; `missed` is an empty head whose edge was used
up.

### `LoadCell`

`line` is the queue of requests the MCU has not answered, from a command (`own`) and from the timer.  `Answer` is
`_handle_flashforge_response`: it completes the active command if the name matches, and is kept as `last_weight_grams`
otherwise.  A command that timed out leaves its request on the line.  Weights are 0, 1 (more than
`tare_threshold`) and 2 (more than `max_temp`).  The MCU tares or not, as it likes, and the load changes at any
moment.

### `FileCheck`

`disk` and `mem` are the variables file and `allVariables`, of which two variables are kept, `check_md5` and `force_md5`.
`SAVE_VARIABLE` is two steps, since opening the file truncates it; `Sum` is the script's `sed`; `OpenFails`, `WriteFails`, `Kill` and `Reboot` are the
faults.  A write that fails leaves nothing of what was to be written or the beginning of it; a file that cannot be parsed is read by nobody before it
is written again, except by a boot, which then fails.  An empty file reads as the macros' defaults.

A print ends with `END_PRINT` or `CANCEL_PRINT`, which forget the verdict (`End`), with a refused check (`Judge`), or without any script that
would (`Reset`, `LineFails`).  `UserCheck` is CHECK_MD5 from the console.  The ghosts say of a verdict that
is there whether it outlived what it was given for (`left`), and of the print whether its start found such a one (`past`).
Verdict 1 (no name) cannot occur from the modelled callers, and 4 and 8 (good, with arcs or planes) count as 5.

## 3. Runs

| Run | Bounds | Shows |
|---|---|---|
| `ifs_shared` | 2 greenlets, 2 commands, 1 fault, 1 cut answer, 2 rounds | `OwnAnswer`, `ExecutionOrder`, `NoReplay`, `ResendsNeedFaults`, `CallbackTellsIfs`, the refinement `ImplementsChannel`; and for a greenlet that is alone `OwnAnswerAll` (status requests too) and `TimeoutMeansFault` |
| `ifs_live` | 2 greenlets, 2 commands, 1 crash, fair | every wait ends; the reader stops at shutdown |
| `tenz_shared` | 2 greenlets, 3 commands, 1 fault, fair | what is reported as answered was executed; order; repeats need faults; every wait ends |
| `sd_print` | two files, 3 console commands, 1 loss of the feeder, 1 failing command or line; with and without the feeder | `RightSpool`, `EachLineOnce`, `NoDispatchWhilePaused`, `CancelStays`, the refinement `ImplementsJob` |
| `sd_live` | one file, 3 console commands, 1 failing command or line, feeder on, fair | a console command leaves `do_pause`; a tool change ends, done or failed |
| `feed` | 2 greenlets, 1 port, 1 command, 1 rod, 2 attempts, 1 late answer, driver sound | `OwnMoveOver`: what a feed command moved is stopped when it is over; `RodReleased`: no rod is held when no handler runs |
| `feed_live` | 1 greenlet, 1 port, 1 command, 1 rod, 2 attempts, a driver that may break at each, 1 other failure of any kind, fair | `CallEnds`; `RodAnnounced`: a rod is announced unless something named used up its flag |
| `sensor` | 1 console command or 1 fault, purges of 1 cycle, fair | `SensorKept`: no sensor stays off unnoticed; `NoBlindPrint`: a print goes on over an empty head only where the edge was used up; `RearmedByChange`: such a head is found after the next change |
| `loadcell` | tares of 2 rounds, 3 requests on the line, 1 late answer, 1 refusal, fair | `TareJudged`, `CommandEnds`, `HeavyActs` |
| `saved` | 2 files, 1 upload, 2 faults | `OptionsKept`: a saved option survives every other write; `StartChecked`: a print was checked, or its start found a verdict that had outlived what it was given for, in one of the listed ways |

Why the bounds are enough.  *Mailbox*: what goes wrong needs at most two
callers (who overwrites whose number), two numbers (an older and a newer), one
fault to make a resend and one more round.  The theorems cover every larger instance of all its safety
properties.  *Feed*: two attempts are a first and a last one; one late answer makes
one recovery, which can meet the other greenlet anywhere.  What every other failure does to a movement or a rod is a matter of the theorems.  One port is not enough for a rod in a lower port that a
higher one hides: `RodAnnounced` names that case, the run does not reach it.  *Printing*: two spools and three tool lines give a change, a change
back and the same tool again; three commands give start–pause–resume, start–pause–cancel,
start–cancel–start and start–pause–start.  *Sensors*: a gate in a gate needs a script and a callback or a failing one, which is
one fault; runouts, tool changes, new prints and the RESUME of `ANALOG_PRUTOK` are not counted, so filament runs out within a gate, a pause or
either RESUME with one command; what two commands and more do to `SensorKept` and `NoBlindPrint` is proved; a purge of one cycle has every interleaving of a longer one except a second gate, which is again a
`Gate`.  *Load cell*: the names H1 and H7 repeat after one round, and one late answer shifts all answers after it.
*Check*: one file's verdict used for another needs two files; a failed write and a
reboot are two faults.  `ifs_shared` takes states that differ in the flag `enable_ffm` only for one (`WithoutSwitch`): no guard reads it.  The bounds on counters (`Max…`) are guards; the code's own counters are Python integers and do not
overflow.

Deadlock is not checked where the system may stop (after shutdown, or when bounded commands are used up); it is
in `saved`.  Symmetry is used in `ifs_shared`, `feed` and `saved`: tasks and files are only compared for
equality, and what these runs check (invariants, action properties, a refinement without fairness) is symmetric in them.

Fairness.  The reader thread's reads and writes have time-outs, so it always takes another
step (`WF_vars(ReaderStep)`; `Poll \/ Look` in `IfsFeed`); a crash (`Die`) and the faults get no fairness.  A waiting greenlet
re-arms its own reactor timer (`WF_vars(Poll(t))`, `WF_vars(Run(t))`), and callbacks that were queued are run.  In `SdPrint` a ready
work handler, a script in progress and a waiting console command go on; nothing is assumed
of the user, of the feeder coming back or going, or of failures.  In `IfsFeed` the feeder comes to the end of a movement
(`WF_vars(Settle)`): lengths are finite.  In `SensorGate` scripts go on and the sensor's timers fire; a runout handler that waits
for the mutex gets it (`SF_vars(Handle)`), because the mutex has a queue.  In `LoadCell` the MCU
answers, and the sample timer fires also in the gaps between the commands of the load cell (`SF`: one that
is always running would hold back every request of the timer; the code's commands come from a user or a macro and end
within `tare_timeout`).

### Where the code and its texts disagree

Two runs are expected to end in a violation; `PROJECT.json` quotes the line each refutes.

| Run | Property | What happens |
|---|---|---|
| `tenz_stale` | `OwnAnswer` | a wait finds its number before its data and returns the data of an earlier answer |
| `sd_ignored` | `ToolChangeEnds` | "IFS: Off. T… ignore" does not ignore the tool line: `change_filament` stays set and the print waits |

The others are named exceptions of the properties, or excluded by their preconditions, and can be followed in the models:

- *Mailbox* (`TimeoutMeansFault`, `OwnAnswerAll` are stated for a greenlet that is alone).  With two callers a command is overwritten before
  it was sent, or its answer is cleared by the other; its wait times out and releases all filaments although the feeder
  answered everything.  A status request may return the answer to another command, because `_ret_command_data` is
  read again after the lock was released (`Fetch`).
- *Weight sensor*.  The slot returns to `H7` over a newer command, and a poll's answer overwrites its number: a time-out without
  any fault.
- *Feed commands* (`OwnMoveOver`, `RodReleased`).  A refused command raises without the stop every time-out gets (`zmod_ifs.py:181`).
  A switch that bounces between the two looks of one poll ends the wait in whatever state was stored last
  (`zmod_ifs.py:221`).  When the feeder is away during a recovery, stop and release are skipped.
- *Rods* (`RodAnnounced`).  "Insert rod automatically // SAVE_ZMOD_DATA AUTOINSERT=…" (`src/en/base.cfg:2178`) does not hold for a rod
  that is first seen by a wait, while the feeder is not ready, or below another marked port: `NeedInsert` is true for one update only.
- *Printing*.  After a change during which the feeder was away the spool recorded is not the one in the extruder, and the next
  change to a tool mapped to it says "Current Prutok = Prutok" of another one.  A PAUSE that ran between `M400` and
  the change script is followed by the change.  `_IFS_ON` sets `enable_ffm` for a print the user started without the feeder
  (`RunCallback`).  A tool line leaves `cmd_from_sd` set, so the next console command is taken for a line of the
  file (`SameTool`, `AfterTool`, the guard of `Reset`, `MustWait`).
- *Mailbox and print*.  Between the announcement and `self.ifs` (`Find`) a handler still finds the feeder off, and its `_IFS_OFF` may run after the
  reader's `_IFS_ON`: tool changes are off and the feeder is there.  `CallbackTellsIfs` says only what the last callback does.
- *Sensors* (`SensorKept`, `NoBlindPrint`).  A script that dies between `_DISABLE_SENSOR` and `_ENABLE_SENSOR` leaves the sensors off, unless it dies
  of a feeder command's missing or wrong answer: a time-out of `wait_for_state` (`zmod_ifs.py:257`) is an error of the feeder, too, and does leave them off.
  A runout seen inside a gate, within 3 s of another event or while
  its handler runs is used up; until the next `END_CHANGE_FILAMENT` nothing looks again.  One seen during the moves of the RESUME at
  the end of `ANALOG_PRUTOK` is such an edge: its own handler runs that script.  A feeder command that fails in the purge
  before a change is caught by nobody.
- *Load cell* (`HeavyActs`, `TareJudged`).  After one late answer the answers stay one request late, since only names are
  compared.  `_sample` returns `NEVER` after the first pause, and "Control is configured and active" (`flashforge_loadcell.py:365`) is then
  said of a control that is dead.  A tare does not keep the weight it measured, so a `ZCONTROL_ON` soon after it may act on
  the weight before it.
- *Check* (`StartChecked`).  `_START_PRINT` (`base.cfg:1334`) skips the check if a verdict is there, for whatever file is started.  A verdict outlives what it
  was given for when the dialog is dismissed or passed over, when the file is replaced, when the print ends by SDCARD_RESET_FILE or
  by a line that raises, when CHECK_MD5 is called by the user, and when the reset of the verdict cannot be saved.  A write that fails, or power
  lost within one, leaves an empty file: all options return to their defaults at the next start (`OptionsKept`).

## 4. Proofs

| Module | Theorems | Assumptions |
|---|---|---|
| `IfsLinkProofs` | `TypeCorrect`, `MailboxCorrect`, `OwnAnswerHolds`, `ExecutionOrderHolds`, `NoReplayHolds` | `TimeoutAssumption`, `BoundsAssumption`, `CmdsAssumption` |
| `IfsChannelProofs` | `ChannelImplemented`, `TimeoutMeansFaultHolds`, `OwnAnswerAllHolds`, `CallbackTellsIfsHolds`, `ResendsNeedFaultsHolds` | the same |
| `TenzLinkProofs` | `TypeCorrect`, `AnsweredWasExecutedHolds`, `ResendsNeedFaultsHolds`, `ExecutionOrderHolds` | `TenzConstants` |
| `IfsFeedProofs` | `TypeCorrect`, `OwnMoveOverHolds`, `RodReleasedHolds` | `PortsAssumption`, `RetriesAssumption`, `KindsAssumption` |
| `SdPrintProofs` | `TypeCorrect`, `EachLineOnceHolds`, `CancelStaysHolds`, `NoDispatchWhilePausedHolds`, `RightSpoolHolds`, `JobImplemented` | `SdBounds`, `SdTables`, `SdFiles` |
| `SensorGateProofs` | `TypeCorrect`, `NoBlindPrintHolds`, `SensorKeptHolds` | `CyclesAssumption` |
| `LoadCellProofs` | `TypeCorrect`, `TareJudgedHolds` | `BoundsAssumption` |
| `FileCheckProofs` | `TypeCorrect`, `PlansCorrect`, `OptionsKeptHolds`, `StartCheckedHolds` | `NoFileAssumption` |

Each theorem holds for every value of the constants that satisfies the assumptions, which are `ASSUME`s of the
modules and evaluated by TLC in every run: any set of greenlets, commands, files, any number of faults and rounds.
None of the properties is inductive; what follows is what had to be added.

*The feeder's mailbox* (`MailboxInv`).  *NumbersIssued*: the slot holds the poll or the last number, so nothing older can
be sent again once a newer number was given, and no frame, filed number or wait is newer than that.  *LinesInStep*: as
long as no answer was cut, the input buffer holds at most the answer to the frame of this round, because `Open`
empties it, an empty read closes the port and every line is consumed in its round; the cell then holds data of the
number filed with it, which is why the matching poll returns its own answer.  *ExecutedSoFar*: no executed number is
newer than the frame about to go out, which gives the order of execution.  *DeliveredIsGone*: a number that was filed,
fetched or returned is neither in the slot nor in the frame about to be written, because `Store` clears the slot when no
newer command is waiting.  The proof has one lemma per conjunct and action.

*Its refinement* (`ChannelImplemented`).  `GoodWasExecuted`: a confirmed answer in the buffer or the cell belongs to a
command that was executed.  With it and the two action properties every step of `IfsLink` is a step of `CommandChannel` under
`CallOf`, or a stutter.  `ImplementsChannel` states initial states and steps, no fairness.

*A greenlet alone*.  `AloneNumbers`, `StoreHasFrame`, `CellQuiet` and `FetchQuiet` say that between the poll that finds its number and the
second read nobody else can have filed anything (`OwnAnswerAll`); `InTime`, `OnItsWay` and `LineAnswers` count the
reader's rounds: without a fault the answer is in the buffer before the last poll (`TimeoutMeansFault`).  `CallsTell`: the last queued
callback says what the reader last found (`CallbackTellsIfs`), `self.ifs` or, between announcement and assignment, the announcement.  `PaidFor` and `MaySend`: each repeated
execution was paid for by a counted fault, and the right to one more is held by the slot or by the frame about to go
out (`ResendsNeedFaults`).

*The weight sensor's mailbox*.  `FiledWasExecuted` (a filed number was executed, although its data may still be missing),
`NumbersIssued`, `ExecutedSoFar` and `PaidFor`, as above for this reader.

*The print* (`IInv`).  *ControlInv*: the handler lives as long as its timer, and its scripts exclude the console's; a change is run by the
one or the other.  *FileInv*: a handler that has read `idx` lines has run exactly those (`Done`), and while the file is open its
position, or `next_file_position` inside a line, says so too, also when nobody reads: this is what a later RESUME
relies on.  What is cancelled or complete has no file and no start time, so a handler that notices late has nothing to report.
*StillInv*: in a paused print a handler was told to pause, or has not run the start macro, which clears the pause.
Proofs about steps do not open the actions: for each action a lemma says first what it does to each field (`PauseIs`, `EndLineIs`,
`Ends`), for any of the flags it starts from.

*The right spool* (`SpoolInv`, on top of `IInv`).  *OpenInv*: a handler inside a line has its file, or was told to stop.  The rest
is claimed only while nothing went wrong (`Untroubled`), which no step makes true again.  *HeldInv*: an open file that nobody
reads is paused and to be resumed, so CANCEL_PRINT, which disables tool changes first, cannot leave it open.  *FeederInv*:
a tool change, a print with the feeder and every queued callback imply that the feeder answers and that
the copied flag says so, which rules out "Off. T<n> ignore" and the steps that return as if they had worked.  *ChangeInv* says at each step of
a change what is in the extruder and what is recorded, and for which tool the change is made: the one the file asked for last.  *ReadyInv*: a
print that reads on, or may, has that tool's spool loaded, and the handler's `load_channel` says so; this is what
lets it skip a `T<n>` for the loaded tool.

*What a print reports* (`JobImplemented`).  On top of `IInv` and `OpenInv`, `ReportInv`: there is a start time exactly while the
print is reported as printing or paused; it is reported as printing exactly while a handler reads its open file; a script of the file runs
only while it is open.  This is what makes `_note_finish` safe, which reports nothing without a start time and anything with one: whoever
ends late finds either a print that is his to end, or no start time.

*The feed commands* (`TypeInv`, `OwnInv`, `HeldInv`), for any number of greenlets, ports, attempts, rods and failures.
`TypeInv` has what the lists need: a greenlet is idle exactly when its list is empty (`Busy`), and `NeedInsert` comes with a port.  `OwnInv`: a greenlet whose movement
goes on is about to stop it, or asks, or judges a state that is neither `ready` nor `error` (`OwnAt`); and an answer is missing only where the
switch has tripped (`Tripping`), so that `Judge` answers it with the stop and not with a stored state.  No other wait can end while the
feeder moves.  `HeldInv`: in every list a F24 is followed by what frees its port (`Gated`, kept by joining lists
and by taking the rest of one), and a rod that is held is given free by what some greenlet has left to do (`Owes`).  The failures the properties
except (`Unowned`, `Unheld`) never un-happen (`QuietIs`), so both are claimed only as long as none did.

*The sensors*.  `SensorKept` needs to know the scripts: `Gated`, every "disable" in the list is followed by "extrude" and "enable", is
kept by joining lists, by taking the rest of one, and by what is left after an error; it holds of a purge of any
number of cycles.  Then `Kept`: a wanted sensor is on, or named in `cut`, or the script is `Inside` a gate that remembers it.  `NoBlindPrint`
needs `Running`: a handler's event is `running` as long as its script has the mutex, so its release cannot use up another; `Ordered`: the rest of a
RESUME after its check stands alone in a script (`Rests`), so nothing follows `RESUME_BASE`; `Fresh`: while a print runs no pause is left
in `pause_resume`, so a pause that is sent does stop it, but for the start macro, whose print began with `missed` if the head was empty.
`Blind` is `NoBlindPrint` with what a RESUME on its way needs: filament that runs out after its check is called or missed.

*The load cell*.  As long as no request was late: a `H1` is the last request on the line and is waited for (`H1Last`); when its answer
has come the line is empty (`H1Own`), so the `H7` that follows it is alone on the line (`H7Own`), and no sample of the timer can be
taken for it.  `TareWaits` says when a tare waits for either.  The line is a queue of any length.

*The check*.  A script is one of a few plans (`PlanInv`); `CheckInv` says at each of its steps what the check has
established for the file it is made for, which is more for a print about to run, whose file is not replaced (`Found`), and
only there that nothing is printed meanwhile (`CheckOK`).  `IdleOK`: between scripts, and with no print, a verdict is that of the file the
dialog asks about, or it outlived what it was given for (`Sure`); `PrintOK` keeps the same of the print, with what its start found.
`MemOK`: memory and, unless a write failed, the disk have the option as it was saved.

Only model-checked: `OwnAnswer` of `TenzLink`, which is refuted, and everything that needs fairness (`WaitEnds`, `ReaderStops`, `PauseReturns`, `ToolChangeEnds`, `CallEnds`,
`RodAnnounced`, `RearmedByChange`, `CommandEnds`, `HeavyActs`), which TLAPS cannot prove.

## 5. What is not modelled

- Almost all of the repository's lines are Klipper and Moonraker as the printer ships them (`src/.shell/root`), copied
  with at most a patch, and the macros of `src/en` once more in eleven languages.  They are third-party or repetition; only
  what the components of section 1 use of them is modelled.  This is why the modelled share of the lines is small.
- `FFCONFIG`, the configuration of the stock firmware: `zmod_color.py` reads it, changes it and writes it back as a whole, and so
  does the firmware, whose side is not in the repository.
- The tare and the nozzle control of `zmod_tenz.py` (`LoadCell` has those of `flashforge_loadcell.py`, which differ: this one judges a
  tare by the last poll, and registers a pause for every heavy sample).
- WAIT=0 and SLEEP=1 of the feed commands, which leave a movement to the macro that asked for it.
- The nesting depth of a recovery inside a recovery: with a dead reader and `ifs` still set it has no bound but the
  Python stack; `IfsLink` and `IfsFeed` keep one frame and bound the numbers or the failures.
- M23, M24 of a file selected with it, M25, M26; a RESUME of a print that ended with an error; the failures of macros in CANCEL_PRINT; the sensors of the single ports; the distance of the motion sensor, which
  may report anything while something prints.
- Heating, motion, dialogs, languages: no property is about them.  `zcheckmd5.sh`, `addMD5.py`, drivers and installation scripts: sequences of
  file, register and process operations with no second actor.
- The stock firmware, the feeder's, the sensor's and the MCU's firmware: external, as the code uses them.

## 6. Plan

Done: `PrintJob`, `IfsLink` with `IfsLinkProofs` and `CommandChannel`, `TenzLink`, `SdPrint`, `IfsFeed`, `SensorGate`, `LoadCell`, `FileCheck`.

Done as theorems: every invariant, action property and refinement that a passing run checks.

Modules to add: the nozzle control of `zmod_tenz.py`; `CANCEL_PRINT` in steps that may fail.
