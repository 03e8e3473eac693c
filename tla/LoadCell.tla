------------------------------ MODULE LoadCell ------------------------------
(***************************************************************************)
(* flashforge_loadcell.py: the load cell behind the MCU.  One G-code       *)
(* command at a time sends a request and waits for an answer of that name; *)
(* a timer samples the weight with requests of the same kind, and pauses   *)
(* or shuts down when it is too heavy and ZCONTROL is on.                  *)
(*                                                                         *)
(* Weights are 0 (tared), 1 (more than tare_threshold) and 2 (more than    *)
(* max_temp).  The requests are answered in the order they were sent.      *)
(***************************************************************************)
EXTENDS Integers, Sequences

CONSTANTS
  MaxRounds,  \* rounds of the tare loop that fit into tare_timeout
  MaxLine,    \* bound on requests without an answer
  MaxLate,    \* bound on requests not answered within 0.6 s
  MaxErrors   \* bound on answers whose status is not ok

ASSUME BoundsAssumption ==
  MaxRounds \in Nat \ {0} /\ MaxLine \in Nat /\ MaxLate \in Nat /\ MaxErrors \in Nat

VARIABLES
  proc,     \* the G-code command that runs, its round, and how the last one ended
  active,   \* active_command: the name of the request waited for
  got,      \* its completion
  line,     \* requests without an answer; own: that of the command that waits
  load,     \* what presses on the cell
  zero,     \* what it takes for nothing
  last,     \* last_weight_grams
  zcontrol, \* ZCONTROL_ON
  mode,     \* zcommand
  act,      \* what the timer did; it is armed as long as that is nothing
  count     \* late answers and errors so far

vars == <<proc, active, got, line, load, zero, last, zcontrol, mode, act, count>>
cell == <<load, zero>>
control == <<zcontrol, mode, act>>

None == [val |-> -1, ok |-> FALSE, own |-> FALSE]
Requests == [cmd : {"H1", "H2", "H7"}, own : BOOLEAN]

\* FLASHFORGE_LOAD_CELL_TARE and H1, FLASHFORGE_GET_LOAD_CELL_WEIGHT, and the
\* commands that send one request and only report its answer (H2, H3 and TEST).
First == [tare |-> "H1", weigh |-> "H7", set |-> "H2"]

Init ==
  /\ proc = [what |-> "none", round |-> 0, end |-> "none"]
  /\ active = "none" /\ got = None /\ line = <<>>
  /\ load \in 0..2 /\ zero = 0 /\ last = 0
  /\ zcontrol = FALSE /\ mode = "auto" /\ act = "none"
  /\ count = [late |-> 0, errors |-> 0]

Reading == IF load > zero THEN load - zero ELSE zero - load

----------------------------------------------------------------------------
(* G-code, under its mutex.                                                *)

Idle == proc.what = "none"
Disown == [i \in DOMAIN line |-> [line[i] EXCEPT !.own = FALSE]]

\* _send_and_wait would raise if a request were active; every way out clears it.
Request(cmd) ==
  /\ active = "none" /\ active' = cmd /\ got' = None
  /\ line' = Append(Disown, [cmd |-> cmd, own |-> TRUE])

Begin ==
  /\ Idle
  /\ \E what \in DOMAIN First :
       /\ proc' = [what |-> what, round |-> 1, end |-> "none"]
       /\ Request(First[what])
  /\ UNCHANGED <<cell, last, control, count>>

\* _send_and_wait is left, whichever way: its finally clears active_command.
Forget == active' = "none"
Finish(end) == /\ proc' = [what |-> "none", round |-> 0, end |-> end]
               /\ Forget /\ got' = None /\ line' = Disown

Woken == active # "none" /\ got # None

\* The H1 of a round is followed by its H7 at once.
AfterTare ==
  /\ Woken /\ got.ok /\ active = "H1"
  /\ active' = "H7" /\ got' = None
  /\ line' = Append(Disown, [cmd |-> "H7", own |-> TRUE])
  /\ UNCHANGED <<proc, cell, last, control, count>>

\* The tare judges the weight it asked for, and does not keep it.
AfterWeight ==
  /\ Woken /\ got.ok /\ active = "H7" /\ proc.what = "tare"
  /\ \/ got.val = 0 /\ Finish("ok")
     \/ /\ got.val > 0 /\ proc' = [proc EXCEPT !.end = "again"]
        /\ active' = "none" /\ got' = None /\ line' = Disown
  /\ UNCHANGED <<cell, last, control, count>>

TimeLeftOff == proc.round <= MaxRounds              \* one round too many
TimeLeft == proc.round < MaxRounds

\* After a pause of 0.2 s, in which the timer may sample, until tare_timeout.
AgainBug ==                                         \* the deadline moves along
  /\ proc.end = "again"
  /\ proc' = [proc EXCEPT !.end = "none"]
  /\ Request("H1")
  /\ UNCHANGED <<cell, last, control, count>>
Again ==
  /\ proc.end = "again"
  /\ \/ /\ TimeLeft
        /\ proc' = [proc EXCEPT !.round = @ + 1, !.end = "none"]
        /\ Request("H1")
     \/ ~TimeLeft /\ Finish("failed")
  /\ UNCHANGED <<cell, last, control, count>>

Answered ==
  /\ Woken /\ got.ok /\ proc.what # "tare"
  /\ Finish("ok")
  /\ last' = IF proc.what = "weigh" THEN got.val ELSE last
  /\ UNCHANGED <<cell, control, count>>

Refused == /\ Woken /\ ~got.ok /\ Finish("failed")
           /\ UNCHANGED <<cell, last, control, count>>

\* No answer within 0.6 s; it may still come, to whoever waits then.
TimedOut ==
  /\ active # "none" /\ got = None
  /\ count.late < MaxLate /\ count' = [count EXCEPT !.late = @ + 1]
  /\ Finish("failed")
  /\ UNCHANGED <<cell, last, control>>

\* ZCONTROL_ON, _OFF, _PAUSE, _ABORT and _AUTO.
Control ==
  /\ Idle
  /\ \/ zcontrol' = ~zcontrol /\ UNCHANGED mode
     \/ mode' \in {"auto", "pause", "abort"} \ {mode} /\ UNCHANGED zcontrol
  /\ UNCHANGED <<proc, active, got, line, cell, last, act, count>>

----------------------------------------------------------------------------
(* The MCU, the handler of its answers and the timer.                      *)

Press == /\ load' \in 0..2 \ {load}
         /\ UNCHANGED <<proc, active, got, line, zero, last, control, count>>

\* _handle_flashforge_response: the name is all that is compared.
Matches(cmd) == active = cmd
KeepsBug(cmd) == active = "none"                    \* lost while a command waits
Keeps(cmd) == ~Matches(cmd)

\* The request at the head is executed and answered.  A tare may have no effect.
Answer ==
  LET r == Head(line) IN
  /\ line # <<>>
  /\ \E ok \in BOOLEAN, to \in {load, zero} :
       LET val == IF r.cmd = "H7" THEN Reading ELSE 0 IN
       /\ ok \/ count.errors < MaxErrors
       /\ count' = [count EXCEPT !.errors = IF ok THEN @ ELSE @ + 1]
       /\ zero' = IF r.cmd = "H1" /\ ok THEN to ELSE zero
       /\ got' = IF Matches(r.cmd) /\ got = None
                   THEN [val |-> val, ok |-> ok, own |-> r.own] ELSE got
       /\ last' = IF Keeps(r.cmd) /\ r.cmd = "H7" /\ ok THEN val ELSE last
  /\ line' = Tail(line)
  /\ UNCHANGED <<proc, active, load, control>>

Heavy == last = 2 /\ zcontrol

MaySampleBug == TRUE                                \* active_command is not looked at
MaySample == active = "none"

\* _sample: a request unless a command waits, then the weight known so far.  Where
\* the nozzle stands is left open.  The timer is never armed again.
Sample ==
  /\ act = "none"
  /\ line' = IF MaySample /\ Len(line) < MaxLine
               THEN Append(line, [cmd |-> "H7", own |-> FALSE]) ELSE line
  /\ \/ /\ Heavy /\ mode \in {"auto", "pause"}
        /\ act' = "called" /\ zcontrol' = FALSE
     \/ Heavy /\ mode \in {"auto", "abort"} /\ act' = "shutdown" /\ UNCHANGED zcontrol
     \/ ~Heavy /\ UNCHANGED <<act, zcontrol>>
  /\ UNCHANGED <<proc, active, got, cell, last, mode, count>>

\* async_pause, whatever G-code is running.
AsyncPause == /\ act = "called" /\ act' = "paused"
              /\ UNCHANGED <<proc, active, got, line, cell, last, zcontrol, mode, count>>

----------------------------------------------------------------------------

GCode == AfterTare \/ AfterWeight \/ Again \/ Answered \/ Refused
Next == \/ Begin \/ GCode \/ TimedOut \/ Control
        \/ Press \/ Answer \/ AsyncPause
        \/ Sample

\* invoke_async_shutdown ends it all.
Spec == Init /\ [][act # "shutdown" /\ Next]_vars

\* The MCU answers, the reactor wakes who waits and fires the timer, also between
\* the commands of the cell, which never follow each other without a gap for good.
Fairness == /\ WF_vars(act # "shutdown" /\ GCode) /\ WF_vars(act # "shutdown" /\ Answer)
            /\ SF_vars(act # "shutdown" /\ active = "none" /\ Sample)
FairSpec == Spec /\ Fairness

----------------------------------------------------------------------------
(* Properties.                                                             *)

\* The cell's requests, weights and modes are known ones, and so is what the timer did.
TypeOK ==
  /\ proc \in [what : {"none"} \cup DOMAIN First, round : 0..MaxRounds,
               end : {"none", "again", "ok", "failed"}]
  /\ active \in {"none", "H1", "H2", "H7"} /\ line \in Seq(Requests)
  /\ got \in [val : -1..2, ok : BOOLEAN, own : BOOLEAN]
  /\ {load, zero, last} \subseteq 0..2 /\ zcontrol \in BOOLEAN
  /\ mode \in {"auto", "pause", "abort"} /\ act \in {"none", "called", "paused", "shutdown"}

\* As long as nothing was late, what a tare goes by is the answer to its own requests,
\* although the samples on the line have the name of its H7: it succeeds on a weight
\* measured after its H1 was executed.
TareJudged == proc.what = "tare" /\ Woken /\ count.late = 0 => got.own

\* Every command ends: the tare at its deadline, whatever the cell says.
CommandEnds == ~Idle ~> (Idle \/ act = "shutdown")

\* As long as nothing was late, what is too heavy and stays so is acted upon, whatever
\* commands take answers of the same name in between.  After a late answer, tares that
\* follow each other may take the answer to every sample.
HeavyActs ==
  (act = "none" /\ zcontrol /\ Reading = 2)
    ~> (act # "none" \/ ~zcontrol \/ Reading # 2 \/ count.late > 0)
=============================================================================
