----------------------------- MODULE FileCheck -----------------------------
(***************************************************************************)
(* The MD5 check of a print file: the macros that ask for it and go by its *)
(* verdict, the script that leaves the verdict in the file of the saved    *)
(* variables (checkMD5.sh, run by RUN_SHELL_COMMAND), and SAVE_VARIABLE,   *)
(* which truncates that file and writes it again from memory.              *)
(*                                                                         *)
(* Of the saved variables, check_md5 and force_md5 are kept.  Verdicts: 0  *)
(* is none yet, 2 no file, 3 no sum in it, 5 good, 6 bad and deleted, 7    *)
(* bad and kept.                                                           *)
(***************************************************************************)
EXTENDS Naturals, Sequences

CONSTANTS
  Files,      \* print files
  NoFile,     \* none of them
  MaxUploads, \* bound on files replaced
  MaxFaults   \* bound on power losses, failed writes and checks cut off at 300 s

ASSUME NoFileAssumption == NoFile \notin Files

VARIABLES
  content,  \* what is in each print file
  disk,     \* the variables file
  mem,      \* allVariables
  new,      \* what SAVE_VARIABLE is about to write
  todo,     \* what the G-code that runs still does; its file
  sh,       \* the script: none, judging, or asleep after it
  prompt,   \* the file the colour dialog asks about
  print,    \* the file that is printed
  ghost,    \* saved: force_md5 as last saved; torn: a write failed half way;
            \* sure: files whose present content was accepted; must: force_md5 at the
            \* start; left: the verdict that is there outlived what it was given for;
            \* past: the start found such a one
  count     \* uploads and faults so far

vars == <<content, disk, mem, new, todo, sh, prompt, print, ghost, count>>

\* What an empty file and the defaults of the macros amount to.
Defaults == [check |-> 0, force |-> 1]
Passing == {3, 5}

Zero == <<"zero", "write">>                         \* SAVE_VARIABLE check_md5 0
Check == Zero \o <<"shell", "wait", "load", "judge">>
Goal == todo.steps[Len(todo.steps)]                 \* what a check is made for
Script(file, steps) == todo' = [file |-> file, steps |-> steps]

Init ==
  /\ content \in [Files -> {"good", "bad", "nosum"}]
  /\ disk = Defaults /\ mem = Defaults /\ new = Defaults
  /\ todo = [file |-> NoFile, steps |-> <<>>]
  /\ sh = "none" /\ prompt = NoFile /\ print = NoFile
  /\ ghost = [saved |-> 1, torn |-> FALSE, sure |-> {}, must |-> FALSE,
            left |-> FALSE, past |-> FALSE]
  /\ count = [uploads |-> 0, faults |-> 0]

Fault == count.faults < MaxFaults /\ count' = [count EXCEPT !.faults = @ + 1]

----------------------------------------------------------------------------
(* What the user does.                                                     *)

Idle == todo.steps = <<>>
Ready == Idle /\ print = NoFile

\* The verdict that is there, if any, is no longer wanted for what it was given for.
LeaveVerdict == ghost' = [ghost EXCEPT !.left = @ \/ mem.check # 0]

\* _ZSDCARD_PRINT_FILE, for Moonraker: the check, then the dialog.
Request(f) ==
  /\ Idle /\ Script(f, (IF mem.force = 1 THEN Check ELSE <<>>) \o <<"ask">>)
  /\ ghost' = [ghost EXCEPT !.left = mem.check # 0]
  /\ UNCHANGED <<content, disk, mem, new, sh, prompt, print, count>>

\* CHECK_MD5 from the console, also while something is printed.
UserCheck(f) ==
  /\ Idle /\ Script(f, Check \o <<"tell">>)
  /\ UNCHANGED <<content, disk, mem, new, sh, prompt, print, ghost, count>>

\* The dialog is answered; cancelling it only closes it.
Confirm ==
  /\ Ready /\ prompt # NoFile
  /\ Script(prompt, <<"start">>) /\ prompt' = NoFile
  /\ UNCHANGED <<content, disk, mem, new, sh, print, ghost, count>>
Dismiss ==
  /\ prompt # NoFile /\ prompt' = NoFile
  /\ ghost' = [ghost EXCEPT !.left = TRUE]
  /\ UNCHANGED <<content, disk, mem, new, todo, sh, print, count>>

\* SDCARD_PRINT_FILE from the console or the screen (over a paused print: Reset, then it).
Direct(f) ==
  /\ Ready /\ Script(f, <<"start">>)
  /\ ghost' = [ghost EXCEPT !.left = @ \/ prompt # NoFile]
  /\ UNCHANGED <<content, disk, mem, new, sh, prompt, print, count>>

\* END_PRINT and CANCEL_PRINT forget the verdict.
ForgetBug == <<>>
Forget == Zero
End ==
  /\ Idle /\ print # NoFile
  /\ Script(NoFile, Forget) /\ print' = NoFile
  /\ UNCHANGED <<content, disk, mem, new, sh, prompt, ghost, count>>

\* SDCARD_RESET_FILE, or a line of the file that raises: the print is over, and no script
\* runs that would forget anything.
Reset ==
  /\ Idle /\ print # NoFile
  /\ print' = NoFile /\ LeaveVerdict
  /\ UNCHANGED <<content, disk, mem, new, todo, sh, prompt, count>>
LineFails ==
  /\ Idle /\ print # NoFile
  /\ print' = NoFile /\ LeaveVerdict
  /\ UNCHANGED <<content, disk, mem, new, todo, sh, prompt, count>>

\* SAVE_ZMOD_DATA FORCE_MD5=...
Toggle ==
  /\ Idle /\ Script(NoFile, <<"force", "write">>)
  /\ UNCHANGED <<content, disk, mem, new, sh, prompt, print, ghost, count>>

\* The file that is loaded is not replaced.
Loaded(f) == print = f \/ (todo.file = f /\ ~Idle /\ Goal = "run")
Upload(f) ==
  /\ ~Loaded(f) /\ count.uploads < MaxUploads
  /\ count' = [count EXCEPT !.uploads = @ + 1]
  /\ content' \in {[content EXCEPT ![f] = c] : c \in {"good", "bad", "nosum"}}
  /\ ghost' = [ghost EXCEPT !.sure = @ \ {f}, !.left = @ \/ f \in ghost.sure]
  /\ UNCHANGED <<disk, mem, new, todo, sh, prompt, print>>

----------------------------------------------------------------------------
(* The steps of the G-code.                                                *)

Doing(step) == ~Idle /\ Head(todo.steps) = step
Then(steps) == todo' = [todo EXCEPT !.steps = steps \o Tail(@)]

\* SAVE_VARIABLE: open truncates; write, close and loadVariables follow.
BaseBug == Defaults                                 \* newvars starts empty
Base == mem
ValueOff == mem.force + 1                           \* any number is taken
Value == 1 - mem.force
Open ==
  /\ \/ Doing("zero") /\ new' = [Base EXCEPT !.check = 0] /\ UNCHANGED ghost
     \/ /\ Doing("force") /\ new' = [Base EXCEPT !.force = Value]
        /\ ghost' = [ghost EXCEPT !.saved = Value]
  /\ disk' = Defaults /\ Then(<<>>)
  /\ UNCHANGED <<content, mem, sh, prompt, print, count>>
Write ==
  /\ Doing("write") /\ disk' = new /\ mem' = new /\ Then(<<>>)
  /\ ghost' = [ghost EXCEPT !.torn = FALSE, !.left = @ /\ new.check # 0]
  /\ UNCHANGED <<content, new, sh, prompt, print, count>>

\* It raises, and the script ends; memory is as it was.  The file is intact, or has nothing
\* of what was written, or its beginning, where check_md5 stands before force_md5.  (If that
\* cannot be parsed, nothing reads it before it is written again but a boot, which fails.)
OpenFails ==
  /\ (Doing("zero") \/ Doing("force")) /\ Fault /\ Script(NoFile, <<>>)
  /\ LeaveVerdict
  /\ UNCHANGED <<content, disk, mem, new, sh, prompt, print>>
WriteFails ==
  /\ Doing("write") /\ Fault /\ Script(NoFile, <<>>)
  /\ disk' \in {Defaults, [Defaults EXCEPT !.check = new.check]}
  /\ ghost' = [ghost EXCEPT !.torn = TRUE, !.saved = mem.force,
                             !.left = @ \/ mem.check # 0]
  /\ UNCHANGED <<content, mem, new, sh, prompt, print>>

\* RUN_SHELL_COMMAND: start the script, poll until it is over, or kill it.
Shell == /\ Doing("shell") /\ sh' = "judging" /\ Then(<<>>)
         /\ UNCHANGED <<content, disk, mem, new, prompt, print, ghost, count>>
Wait ==
  /\ Doing("wait") /\ sh = "none" /\ Then(<<>>)
  /\ UNCHANGED <<content, disk, mem, new, sh, prompt, print, ghost, count>>
Kill ==
  /\ Doing("wait") /\ sh # "none" /\ Fault
  /\ sh' = "none" /\ Then(<<>>)
  /\ UNCHANGED <<content, disk, mem, new, prompt, print, ghost>>

\* ZLOAD_VARIABLE; the script being over, loading it again finds nothing else.
Load == /\ Doing("load") /\ mem' = disk /\ Then(<<>>)
        /\ UNCHANGED <<content, disk, new, sh, prompt, print, ghost, count>>

\* _FINAL_CHECK_MD5: go on, or cancel the print, whichever it is, and raise.
AcceptsBug(v) == v \notin {2, 6, 7}                 \* no verdict is no objection
Accepts(v) == v \in Passing
Judge ==
  /\ Doing("judge")
  /\ \/ Accepts(mem.check) /\ Then(<<>>) /\ UNCHANGED print
     \/ ~Accepts(mem.check) /\ Script(NoFile, Zero) /\ print' = NoFile
  /\ UNCHANGED <<content, disk, mem, new, sh, prompt, ghost, count>>

Ask == /\ Doing("ask") /\ prompt' = todo.file /\ Then(<<>>)
       /\ UNCHANGED <<content, disk, mem, new, sh, print, ghost, count>>

\* A check by the user ends with its verdict there, and nothing to forget it.
Tell == /\ Doing("tell") /\ Then(<<>>) /\ LeaveVerdict
        /\ UNCHANGED <<content, disk, mem, new, sh, prompt, print, count>>

\* BASE_SDCARD_PRINT_FILE raises if the file is not there.
Missing ==
  /\ Doing("start") /\ content[todo.file] = "gone" /\ Script(NoFile, <<>>) /\ LeaveVerdict
  /\ UNCHANGED <<content, disk, mem, new, sh, prompt, print, count>>

\* _START_PRINT: a verdict that is there already is taken for that of this file.
StartPrint ==
  /\ Doing("start") /\ content[todo.file] # "gone"
  /\ Then((IF mem.force = 1 /\ mem.check = 0 THEN Check ELSE <<>>) \o <<"run">>)
  /\ ghost' = [ghost EXCEPT !.must = (mem.force = 1), !.past = (ghost.left /\ mem.check # 0)]
  /\ UNCHANGED <<content, disk, mem, new, sh, prompt, print, count>>
Run == /\ Doing("run") /\ print' = todo.file /\ Then(<<>>)
       /\ UNCHANGED <<content, disk, mem, new, sh, prompt, ghost, count>>

----------------------------------------------------------------------------
(* checkMD5.sh and the power.                                              *)

\* Only the user asks for a check that keeps a bad file.
Bad == IF Goal = "tell" THEN {6, 7} ELSE {6}
Verdicts(c) == CASE c = "good" -> {5} [] c = "nosum" -> {3} [] c = "bad" -> Bad [] c = "gone" -> {2}

\* One sed replaces the line of check_md5 and renames the file; then sleep 1.
Sum ==
  /\ sh = "judging"
  /\ \E v \in Verdicts(content[todo.file]) :
     /\ disk' = [disk EXCEPT !.check = v]
     /\ ghost' = [ghost EXCEPT !.sure = IF v \in Passing THEN @ \cup {todo.file} ELSE @]
     /\ content' = IF v = 6 THEN [content EXCEPT ![todo.file] = "gone"] ELSE content
  /\ sh' = "asleep"
  /\ UNCHANGED <<mem, new, todo, prompt, print, count>>
Exit == /\ sh = "asleep" /\ sh' = "none"
        /\ UNCHANGED <<content, disk, mem, new, todo, prompt, print, ghost, count>>

\* The memory is read from the disk again, and start_led resets the verdict.
Reboot ==
  /\ Fault
  /\ mem' = disk /\ Script(NoFile, Zero)
  /\ sh' = "none" /\ prompt' = NoFile /\ print' = NoFile
  /\ ghost' = [ghost EXCEPT !.left = (disk.check # 0), !.torn = FALSE,
                             !.saved = IF @ # disk.force /\ (ghost.torn \/ Doing("write"))
                                         THEN disk.force ELSE @]
  /\ UNCHANGED <<content, disk, new>>

----------------------------------------------------------------------------

Next == \/ \E f \in Files : Request(f) \/ UserCheck(f) \/ Direct(f) \/ Upload(f)
        \/ Confirm \/ Dismiss \/ End \/ Reset \/ LineFails \/ Toggle
        \/ Open \/ Write \/ OpenFails \/ WriteFails
        \/ Shell \/ Wait \/ Kill \/ Load \/ Judge \/ Ask \/ Tell
        \/ Missing \/ StartPrint \/ Run
        \/ Sum \/ Exit \/ Reboot

Spec == Init /\ [][Next]_vars

----------------------------------------------------------------------------
(* Properties.                                                             *)

\* The saved variables, the script and the files that are checked, asked about and
\* printed are known ones.
Saved == [check : {0, 2, 3, 5, 6, 7}, force : 0..1]
TypeOK ==
  /\ {disk, mem, new} \subseteq Saved /\ sh \in {"none", "judging", "asleep"}
  /\ content \in [Files -> {"good", "bad", "nosum", "gone"}]
  /\ {prompt, print, todo.file} \subseteq Files \cup {NoFile}

\* Whoever writes the variables file, SAVE_VARIABLE or the script, force_md5 stays as it
\* was saved, in memory and between two writes on the disk, unless a write failed; only
\* power lost within a write, or after a failed one, brings the default back (Reboot).
OptionsKept ==
  /\ Idle => mem.force = ghost.saved
  /\ Idle /\ ~ghost.torn => disk.force = ghost.saved

\* With force_md5 on, a print runs only if its file, as it is, was accepted by the script,
\* or its start found a verdict that had outlived what it was given for, in one of the ways
\* the code has: a dialog dismissed or passed over, the file replaced, a print that ended
\* without END_PRINT or CANCEL_PRINT (SDCARD_RESET_FILE, a line that raises), CHECK_MD5 by
\* the user, or a reset of the verdict that could not be saved.  A check that was cut off,
\* the option switched, a print that was finished or cancelled or a reboot is no way around.
StartChecked == print # NoFile /\ ghost.must => print \in ghost.sure \/ ghost.past
=============================================================================
