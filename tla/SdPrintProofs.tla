---------------------------- MODULE SdPrintProofs ----------------------------
(* Theorems about printing a file with tool changes, for any files, tables,  *)
(* commands, losses of the feeder and failures.                              *)
EXTENDS SdPrint, SequenceTheorems, WellFoundedInduction, TLAPS

----------------------------------------------------------------------------
(* The types of the fields.                                                *)

Lines == [kind : {"start", "move", "T", "pause", "end"}, tool : 0..3]
Sds == [timer : BOOLEAN, must : BOOLEAN, from : BOOLEAN, file : BOOLEAN, change : BOOLEAN,
        ffm : BOOLEAN, load : 0..99, print : 0..99, pos : Nat]
Prs == [paused : BOOLEAN, sent : BOOLEAN, sd : BOOLEAN]
Stats == [state : {"standby", "printing", "paused", "complete", "cancelled", "error"},
          started : BOOLEAN]
Works == [pc : {"off", "start", "loop", "line", "m400", "gap", "change", "refuel"},
          idx : Nat, next : Nat]
Orders == [pc : {"idle", "pause", "cancel", "reset", "setup", "changing", "launch"},
           body : Bodies \cup {<<>>}, mode : {"ifs", "plain"}]
Changes == [step : {"none", "begin", "same", "remove", "feed", "record", "current", "end"},
            tool : 0..3, restore : {0, 1}]
Feeders == [ifs : BOOLEAN, color : BOOLEAN, chan : 1..4, spool : 0..4,
            calls : Seq(BOOLEAN), map : [1..4 -> 1..4]]
Jobs == [lines : Seq(Lines), mode : {"ifs", "plain"}, asked : 0..3, runs : Seq(Nat)]
Ghosts == [ops : Nat, losses : Nat, fails : Nat, busy : BOOLEAN]

TypeInv == /\ sd \in Sds /\ pr \in Prs /\ stats \in Stats /\ work \in Works
           /\ con \in Orders /\ chg \in Changes /\ feeder \in Feeders
           /\ job \in Jobs /\ ghost \in Ghosts

\* A set of numbers has a least one.
LEMMA Least ==
  ASSUME NEW S, S \subseteq Nat, S # {}
  PROVE  \E i \in S : \A j \in S : i <= j
  <1>1. \E i \in S : \A j \in S : ~(<<j, i>> \in OpToRel(<, Nat))
    BY NatLessThanWellFounded, WFMin
  <1>2. ASSUME NEW i \in S, NEW j \in S, ~(<<j, i>> \in OpToRel(<, Nat)) PROVE i <= j
    BY <1>2 DEF OpToRel
  <1>3. QED
    BY <1>1, <1>2

\* The files of the orders, and their lines.
BodyLines == [kind : {"move", "T", "pause"}, tool : 0..3]
Files == Seq(BodyLines)

\* What the console has chosen to print is a file.
LEMMA BodiesAreFiles == ASSUME NEW o \in Orders PROVE o.body \in Files
  <1>1. o.body \in Bodies \/ o.body = <<>>
    BY DEF Orders
  <1>2. <<>> \in Files
    BY EmptySeq DEF Files
  <1>3. \A body \in Bodies : body \in Files
    BY SdFiles DEF Files, BodyLines
  <1>4. QED
    BY <1>1, <1>2, <1>3

\* A line of a body.
LEMMA BodyIs ==
  ASSUME NEW body \in Files
  PROVE  /\ body \in Seq(Lines) /\ Len(body) \in Nat /\ DOMAIN body = 1..Len(body)
         /\ \A i \in 1..Len(body) : body[i].kind \in {"move", "T", "pause"} /\ body[i].tool \in 0..3
  <1>1. Len(body) \in Nat /\ DOMAIN body = 1..Len(body)
    BY LenProperties DEF Files
  <1>2. \A i \in 1..Len(body) : body[i] \in BodyLines
    BY ElementOfSeq DEF Files
  <1>3. BodyLines \subseteq Lines
    BY DEF BodyLines, Lines
  <1>4. body \in Seq(Lines)
    BY <1>1, <1>2, <1>3 DEF Files
  <1>5. QED
    BY <1>1, <1>2, <1>4 DEF BodyLines

\* The first tool of a file is one of the four.
LEMMA FirstToolType == ASSUME NEW body \in Files PROVE FirstTool(body) \in 0..3
  <1> DEFINE Ts == {i \in DOMAIN body : body[i].kind = "T"}
  <1>1. DOMAIN body \subseteq Nat /\ \A i \in DOMAIN body : body[i].tool \in 0..3
    BY BodyIs
  <1>2. CASE Ts = {}
    BY <1>2 DEF FirstTool
  <1>3. CASE Ts # {}
    <2>1. \E i \in Ts : \A j \in Ts : i <= j
      BY <1>1, <1>3, Least
    <2> DEFINE i == CHOOSE x \in Ts : \A j \in Ts : x <= j
    <2>2. i \in DOMAIN body
      BY <2>1
    <2>3. FirstTool(body) = body[i].tool
      BY <1>3 DEF FirstTool
    <2> HIDE DEF i
    <2>4. QED
      BY <1>1, <2>2, <2>3
  <1>4. QED
    BY <1>2, <1>3

\* The tool in the extruder is one of the four, 98 or 99; if it is one of the four, the
\* table gives it the spool recorded.
LEMMA CurrentToolIs ==
  ASSUME feeder \in Feeders
  PROVE  /\ CurrentTool \in 0..99
         /\ CurrentTool \in 0..3 => feeder.spool # 0 /\ feeder.map[CurrentTool + 1] = feeder.chan
  <1> DEFINE Uses == {i \in DOMAIN feeder.map : feeder.map[i] = feeder.chan}
  <1>1. DOMAIN feeder.map = 1..4
    BY DEF Feeders
  <1>2. CASE feeder.spool = 0 \/ Uses = {}
    BY <1>2 DEF CurrentTool
  <1>3. CASE feeder.spool # 0 /\ Uses # {}
    <2>1. \E i \in Uses : \A j \in Uses : i <= j
      BY <1>1, <1>3, Least
    <2> DEFINE i == CHOOSE x \in Uses : \A j \in Uses : x <= j
    <2>2. i \in Uses
      BY <2>1
    <2>3. CurrentTool = i - 1
      BY <1>3 DEF CurrentTool
    <2> HIDE DEF i
    <2>4. QED
      BY <1>1, <1>3, <2>2, <2>3
  <1>4. QED
    BY <1>2, <1>3

\* A file with its macros: a start macro, the body, an end macro.
LEMMA FileIs ==
  ASSUME NEW body \in Files
  PROVE  /\ File(body) \in Seq(Lines) /\ Len(File(body)) \in Nat /\ Len(File(body)) > 1
         /\ DOMAIN File(body) = 1..Len(File(body))
         /\ File(body)[1].kind = "start"
         /\ \A i \in 1..Len(File(body)) : File(body)[i].kind = "end" => i = Len(File(body))
  <1>1. <<Line("start")>> \in Seq(Lines) /\ <<Line("end")>> \in Seq(Lines)
    BY DEF Line, Lines
  <1>2. /\ body \in Seq(Lines) /\ Len(body) \in Nat
        /\ \A i \in 1..Len(body) : body[i].kind \in {"move", "T", "pause"}
    BY BodyIs
  <1> DEFINE a == <<Line("start")>> \o body
  <1>3. /\ a \in Seq(Lines) /\ Len(a) = 1 + Len(body) /\ a[1] = Line("start")
        /\ \A i \in 2..Len(a) : a[i] = body[i - 1]
    BY <1>1, <1>2, ConcatProperties
  <1> HIDE DEF a
  <1>4. /\ a \o <<Line("end")>> \in Seq(Lines) /\ Len(a \o <<Line("end")>>) = Len(a) + 1
        /\ \A i \in 1..Len(a) : (a \o <<Line("end")>>)[i] = a[i]
    BY <1>1, <1>3, ConcatProperties
  <1>5. File(body) = a \o <<Line("end")>>
    BY DEF File, a
  <1>6. /\ File(body) \in Seq(Lines) /\ Len(File(body)) = Len(body) + 2
        /\ \A i \in 1..(Len(body) + 1) : File(body)[i] = a[i]
    BY <1>2, <1>3, <1>4, <1>5
  <1>7. File(body)[1].kind = "start"
    BY <1>2, <1>3, <1>6 DEF Line
  <1>8. ASSUME NEW i \in 1..Len(File(body)), File(body)[i].kind = "end" PROVE i = Len(File(body))
    <2>1. CASE i = 1
      BY <1>7, <1>8, <2>1
    <2>2. CASE i \in 2..(Len(body) + 1)
      <3>1. File(body)[i] = body[i - 1] /\ i - 1 \in 1..Len(body)
        BY <1>2, <1>3, <1>6, <2>2
      <3>2. QED
        BY <1>2, <1>8, <3>1
    <2>3. QED
      BY <1>2, <1>6, <2>1, <2>2
  <1>9. QED
    BY <1>2, <1>6, <1>7, <1>8, LenProperties
----------------------------------------------------------------------------
(* Who holds the mutex.                                                    *)

\* The handler lives exactly as long as its timer; its scripts exclude the console; and
\* a change is run by the one or the other, which restore tells apart.
ControlInv ==
  /\ sd.timer = (work.pc # "off")
  /\ Running => con.pc = "idle"
  /\ (chg.step # "none") = (work.pc = "change" \/ con.pc = "changing")
  /\ work.pc = "change" => chg.restore = 1
  /\ con.pc = "changing" => chg.restore = 0

----------------------------------------------------------------------------
(* Where the print is in its file.                                         *)

\* Exactly the first k lines have run.
Done(k) == \A i \in 1..Len(job.lines) : job.runs[i] = IF i <= k THEN 1 ELSE 0
InLine == {"line", "m400", "gap", "change", "refuel"}

\* A handler that has read idx lines has run them; while the file is open its position
\* says so too, also when nobody reads.
RunsInv ==
  /\ Len(job.runs) = Len(job.lines)
  /\ \A i \in 1..Len(job.lines) : job.runs[i] <= 1
  /\ work.pc \in {"off", "start"} => (sd.file => Done(sd.pos))
  /\ work.pc \in InLine \cup {"loop"} => Done(work.idx) /\ (sd.file => sd.pos = work.idx)
PosInv ==
  /\ sd.pos <= Len(job.lines) /\ work.idx <= Len(job.lines) /\ work.next <= Len(job.lines)
  /\ work.pc = "loop" => sd.pos <= work.idx
  /\ work.pc \in InLine => /\ work.idx < Len(job.lines) /\ work.next <= work.idx + 1
                           /\ sd.file => work.next = work.idx + 1

\* What was cancelled or completed is closed, and so is what never started.
StatsInv ==
  /\ stats.started => sd.file
  /\ stats.state = "cancelled" => ~sd.file /\ ~stats.started
  /\ stats.state = "complete" => /\ work.pc \in {"off", "start"} /\ ~sd.file
                                 /\ ~stats.started /\ Done(Len(job.lines))
FileInv == RunsInv /\ PosInv /\ StatsInv

----------------------------------------------------------------------------
(* What a step does to the fields.                                         *)

\* The line that is read, as long as one is.
LEMMA LineIs ==
  ASSUME TypeInv, work.idx < Len(job.lines)
  PROVE  Line1 \in Lines /\ work.idx + 1 \in 1..Len(job.lines)
  BY ElementOfSeq, LenProperties DEF TypeInv, Jobs, Works, Line1

\* A line more is counted.
LEMMA RunsAre ==
  ASSUME TypeInv, NEW q, q = [job.runs EXCEPT ![work.idx + 1] = @ + 1]
  PROVE  /\ q \in Seq(Nat) /\ Len(q) = Len(job.runs)
         /\ \A i \in 1..Len(job.runs) : q[i] = IF i = work.idx + 1 THEN job.runs[i] + 1 ELSE job.runs[i]
  <1> DEFINE r == job.runs
             k == work.idx + 1
  <1>1. r \in Seq(Nat) /\ k \in Nat /\ Len(r) \in Nat /\ DOMAIN r = 1..Len(r)
        /\ \A i \in 1..Len(r) : r[i] \in Nat
    BY ElementOfSeq, LenProperties DEF TypeInv, Jobs, Works
  <1>2. q = [r EXCEPT ![k] = @ + 1]
    OBVIOUS
  <1> HIDE DEF r, k
  <1>3. /\ DOMAIN q = 1..Len(r)
        /\ \A i \in 1..Len(r) : q[i] = IF i = k THEN r[i] + 1 ELSE r[i]
    BY <1>1, <1>2
  <1>4. q \in [1..Len(r) -> Nat]
    <2>1. q = [i \in 1..Len(r) |-> IF i = k THEN r[k] + 1 ELSE r[i]]
      BY <1>1, <1>2
    <2>2. \A i \in 1..Len(r) : (IF i = k THEN r[k] + 1 ELSE r[i]) \in Nat
      BY <1>1
    <2>3. QED
      BY <2>1, <2>2
  <1>5. ASSUME NEW n \in Nat, NEW f \in [1..n -> Nat] PROVE f \in Seq(Nat) /\ Len(f) = n
    OBVIOUS
  <1>6. q \in Seq(Nat) /\ Len(q) = Len(r)
    BY <1>1, <1>4, <1>5
  <1>7. QED
    BY <1>3, <1>6 DEF r, k

\* The print with that line counted.
LEMMA CountedIs ==
  ASSUME TypeInv, job' = [job EXCEPT !.runs[work.idx + 1] = @ + 1]
  PROVE  /\ job' \in Jobs /\ job'.lines = job.lines /\ job'.mode = job.mode
         /\ job'.asked = job.asked /\ Len(job'.runs) = Len(job.runs)
         /\ \A i \in 1..Len(job.runs) :
              job'.runs[i] = IF i = work.idx + 1 THEN job.runs[i] + 1 ELSE job.runs[i]
  <1> DEFINE q == [job.runs EXCEPT ![work.idx + 1] = @ + 1]
  <1>1. job' = [job EXCEPT !.runs = q]
    OBVIOUS
  <1>2. /\ q \in Seq(Nat) /\ Len(q) = Len(job.runs)
        /\ \A i \in 1..Len(job.runs) : q[i] = IF i = work.idx + 1 THEN job.runs[i] + 1 ELSE job.runs[i]
    BY RunsAre
  <1> HIDE DEF q
  <1>3. /\ job' \in Jobs /\ job'.lines = job.lines /\ job'.mode = job.mode
        /\ job'.asked = job.asked /\ job'.runs = q
    BY <1>1, <1>2 DEF TypeInv, Jobs
  <1>4. QED
    BY <1>2, <1>3

\* The outcome of a print that stops.
LEMMA OutcomeIs ==
  ASSUME stats \in Stats
  PROVE  /\ NotePause \in Stats /\ NotePause.started = stats.started
         /\ NotePause.state \in {"error", "paused"}
         /\ \A x \in {"complete", "cancelled", "error"} :
              /\ NoteFinish(x) \in Stats /\ ~NoteFinish(x).started
              /\ NoteFinish(x).state = IF stats.started THEN x ELSE stats.state
  BY DEF Stats, NotePause, NoteFinish

\* The handler leaves.
LEMMA LeaveIs ==
  ASSUME TypeInv, NEW s \in Sds, NEW o \in Stats, Leave(s, o)
  PROVE  /\ sd' \in Sds /\ ~sd'.timer /\ ~sd'.from /\ sd'.must = s.must /\ sd'.file = s.file
         /\ sd'.change = s.change /\ sd'.ffm = s.ffm /\ sd'.load = s.load
         /\ sd'.print = s.print /\ sd'.pos = s.pos
         /\ work' \in Works /\ work'.pc = "off" /\ work'.idx = work.idx /\ work'.next = work.next
         /\ stats' = o
  BY DEF Leave, TypeInv, Sds, Works

\* A line is done, in the state s of the handler's flags.
AfterLine(s) ==
  /\ sd' \in Sds /\ sd'.must = s.must /\ sd'.file = s.file /\ sd'.change = s.change
  /\ sd'.ffm = s.ffm /\ sd'.load = s.load /\ sd'.print = s.print /\ sd'.pos = work.next
  /\ work' \in Works /\ work'.next = work.next
  /\ job' \in Jobs /\ job'.lines = job.lines /\ job'.mode = job.mode
  /\ job'.asked = job.asked /\ Len(job'.runs) = Len(job.runs)
  /\ \A i \in 1..Len(job.runs) :
       job'.runs[i] = IF i = work.idx + 1 THEN job.runs[i] + 1 ELSE job.runs[i]
  /\ stats' \in Stats
  /\ \/ /\ s.must /\ ~sd'.timer /\ ~sd'.from /\ work'.pc = "off" /\ work'.idx = work.idx
        /\ stats' = IF s.file THEN NotePause ELSE NoteFinish("complete")
     \/ /\ ~s.must /\ sd'.timer = s.timer /\ sd'.from = s.from
        /\ work'.pc = "loop" /\ work'.idx = work.idx + 1 /\ stats' = stats

\* The handler is done with a line in the state s of its flags.
LEMMA NextLineIs ==
  ASSUME TypeInv, NEW s \in Sds, NextLine(s)
  PROVE  AfterLine(s)
  <1>1. /\ job' \in Jobs /\ job'.lines = job.lines /\ job'.mode = job.mode
        /\ job'.asked = job.asked /\ Len(job'.runs) = Len(job.runs)
        /\ \A i \in 1..Len(job.runs) :
             job'.runs[i] = IF i = work.idx + 1 THEN job.runs[i] + 1 ELSE job.runs[i]
    BY CountedIs DEF NextLine
  <1> DEFINE a == Advance(s)
             o == IF s.file THEN NotePause ELSE NoteFinish("complete")
  <1>2. /\ a \in Sds /\ a.timer = s.timer /\ a.from = s.from /\ a.must = s.must /\ a.file = s.file
        /\ a.change = s.change /\ a.ffm = s.ffm /\ a.load = s.load /\ a.print = s.print
        /\ a.pos = work.next
    BY DEF Advance, TypeInv, Sds, Works
  <1>3. o \in Stats
    BY OutcomeIs DEF TypeInv
  <1>4. \/ s.must /\ Leave(a, o)
        \/ /\ ~s.must /\ sd' = a /\ stats' = stats
           /\ work' = [work EXCEPT !.pc = "loop", !.idx = @ + 1]
    BY DEF NextLine
  <1> HIDE DEF a, o
  <1>5. CASE s.must /\ Leave(a, o)
    BY <1>1, <1>2, <1>3, <1>5, LeaveIs DEF AfterLine, o
  <1>6. CASE /\ ~s.must /\ sd' = a /\ stats' = stats
             /\ work' = [work EXCEPT !.pc = "loop", !.idx = @ + 1]
    <2>1. work' \in Works /\ work'.pc = "loop" /\ work'.idx = work.idx + 1 /\ work'.next = work.next
      <3> DEFINE k == work.idx + 1
      <3>1. k \in Nat /\ work \in Works
        BY DEF TypeInv, Works
      <3>2. work' = [work EXCEPT !.pc = "loop", !.idx = k]
        BY <1>6
      <3> HIDE DEF k
      <3>3. work' \in Works /\ work'.pc = "loop" /\ work'.idx = k /\ work'.next = work.next
        BY <3>1, <3>2 DEF Works
      <3>4. QED
        BY <3>3 DEF k
    <2>2. QED
      BY <1>1, <1>2, <1>6, <2>1 DEF AfterLine, TypeInv
  <1>7. QED
    BY <1>4, <1>5, <1>6

\* A tool line is done.
Released(s) == [s EXCEPT !.load = s.print, !.change = FALSE]

\* It is done with a tool line: what it wanted is what it has.
LEMMA AfterToolIs ==
  ASSUME TypeInv, NEW s \in Sds, AfterTool(s)
  PROVE  /\ Released(s) \in Sds /\ AfterLine(Released(s))
         /\ Released(s).timer = s.timer /\ Released(s).from = s.from /\ Released(s).must = s.must
         /\ Released(s).file = s.file /\ Released(s).ffm = s.ffm /\ Released(s).load = s.print
         /\ Released(s).print = s.print /\ Released(s).pos = s.pos
  <1>1. /\ Released(s) \in Sds
        /\ Released(s).timer = s.timer /\ Released(s).from = s.from /\ Released(s).must = s.must
        /\ Released(s).file = s.file /\ Released(s).ffm = s.ffm /\ Released(s).load = s.print
        /\ Released(s).print = s.print /\ Released(s).pos = s.pos
    BY DEF Sds, Released
  <1>2. NextLine(Released(s))
    BY DEF AfterTool, Released
  <1>3. QED
    BY <1>1, <1>2, NextLineIs

\* The script of a change ends.
Ends(s) ==
  /\ chg' = NoChange
  /\ \/ /\ work.pc = "change" /\ con' = con /\ (~s.change \/ s.must) /\ AfterLine(Released(s))
     \/ /\ work.pc = "change" /\ con' = con /\ s.change /\ ~s.must /\ sd' = s
        /\ work' \in Works /\ work'.pc = "refuel" /\ work'.idx = work.idx /\ work'.next = work.next
        /\ stats' = stats /\ job' = job
     \/ /\ con.pc = "changing" /\ con' \in Orders /\ con'.pc = "launch"
        /\ con'.body = con.body /\ con'.mode = con.mode
        /\ sd' \in Sds /\ sd'.timer = s.timer /\ sd'.from = s.from /\ sd'.must = s.must
        /\ sd'.file = s.file /\ sd'.ffm /\ sd'.load = s.load /\ sd'.print = s.print
        /\ sd'.pos = s.pos
        /\ work' = work /\ stats' = stats /\ job' = job

\* The script of a change has ended, in the state s of the handler's flags.
LEMMA EndChangeIs ==
  ASSUME TypeInv, NEW s \in Sds, EndChange(s)
  PROVE  Ends(s)
  <1>1. CASE work.pc = "change" /\ con' = con /\ (~s.change \/ s.must) /\ AfterTool(s)
    BY <1>1, AfterToolIs DEF EndChange, Ends
  <1>2. CASE /\ work.pc = "change" /\ con' = con /\ s.change /\ ~s.must /\ sd' = s
             /\ work' = [work EXCEPT !.pc = "refuel"] /\ UNCHANGED <<stats, job>>
    BY <1>2 DEF EndChange, Ends, TypeInv, Works
  <1>3. CASE /\ con.pc = "changing" /\ con' = [con EXCEPT !.pc = "launch"]
             /\ sd' = [s EXCEPT !.ffm = TRUE] /\ UNCHANGED <<work, stats, job>>
    BY <1>3 DEF EndChange, Ends, TypeInv, Orders, Sds
  <1>4. QED
    BY <1>1, <1>2, <1>3 DEF EndChange
----------------------------------------------------------------------------
(* Type correctness.                                                       *)

\* do_pause: the handler that lives is told to pause.
LEMMA StoppingIs ==
  ASSUME NEW s \in Sds
  PROVE  /\ Stopping(s) \in Sds /\ Stopping(s).must = (s.must \/ s.timer)
         /\ Stopping(s).timer = s.timer /\ Stopping(s).from = s.from
         /\ Stopping(s).file = s.file /\ Stopping(s).change = s.change
         /\ Stopping(s).ffm = s.ffm /\ Stopping(s).load = s.load
         /\ Stopping(s).print = s.print /\ Stopping(s).pos = s.pos
  <1> DEFINE b == s.must \/ s.timer
  <1>1. b \in BOOLEAN /\ Stopping(s) = [s EXCEPT !.must = b]
    BY DEF Stopping
  <1> HIDE DEF b
  <1>2. /\ Stopping(s) \in Sds /\ Stopping(s).must = b
        /\ Stopping(s).timer = s.timer /\ Stopping(s).from = s.from
        /\ Stopping(s).file = s.file /\ Stopping(s).change = s.change
        /\ Stopping(s).ffm = s.ffm /\ Stopping(s).load = s.load /\ Stopping(s).print = s.print
        /\ Stopping(s).pos = s.pos
    BY <1>1 DEF Sds
  <1>3. QED
    BY <1>2 DEF b

\* do_resume: a handler lives and was not told to pause.
LEMMA StartedIs ==
  ASSUME NEW s \in Sds
  PROVE  /\ Started(s) \in Sds /\ Started(s).timer /\ ~Started(s).must
         /\ Started(s).from = s.from /\ Started(s).file = s.file
         /\ Started(s).change = s.change /\ Started(s).ffm = s.ffm /\ Started(s).load = s.load
         /\ Started(s).print = s.print /\ Started(s).pos = s.pos
  BY DEF Started, Sds

\* Tool changes are switched on or off.
LEMMA SwitchedIs ==
  ASSUME NEW s \in Sds, NEW b \in BOOLEAN
  PROVE  /\ [s EXCEPT !.ffm = b] \in Sds /\ [s EXCEPT !.ffm = b].ffm = b
         /\ [s EXCEPT !.ffm = b].timer = s.timer /\ [s EXCEPT !.ffm = b].must = s.must
         /\ [s EXCEPT !.ffm = b].from = s.from /\ [s EXCEPT !.ffm = b].file = s.file
         /\ [s EXCEPT !.ffm = b].change = s.change /\ [s EXCEPT !.ffm = b].load = s.load
         /\ [s EXCEPT !.ffm = b].print = s.print /\ [s EXCEPT !.ffm = b].pos = s.pos
  BY DEF Sds

\* The position goes back to the beginning.
LEMMA RewoundIs ==
  ASSUME NEW s \in Sds
  PROVE  /\ [s EXCEPT !.pos = 0] \in Sds /\ [s EXCEPT !.pos = 0].pos = 0
         /\ [s EXCEPT !.pos = 0].timer = s.timer /\ [s EXCEPT !.pos = 0].must = s.must
         /\ [s EXCEPT !.pos = 0].from = s.from /\ [s EXCEPT !.pos = 0].file = s.file
         /\ [s EXCEPT !.pos = 0].change = s.change /\ [s EXCEPT !.pos = 0].ffm = s.ffm
         /\ [s EXCEPT !.pos = 0].load = s.load /\ [s EXCEPT !.pos = 0].print = s.print
  BY DEF Sds

\* The line that came from the file is over.
LEMMA NotFromIs ==
  ASSUME NEW s \in Sds
  PROVE  /\ [s EXCEPT !.from = FALSE] \in Sds /\ ~[s EXCEPT !.from = FALSE].from
         /\ [s EXCEPT !.from = FALSE].timer = s.timer
         /\ [s EXCEPT !.from = FALSE].must = s.must /\ [s EXCEPT !.from = FALSE].file = s.file
         /\ [s EXCEPT !.from = FALSE].change = s.change
         /\ [s EXCEPT !.from = FALSE].ffm = s.ffm /\ [s EXCEPT !.from = FALSE].load = s.load
         /\ [s EXCEPT !.from = FALSE].print = s.print /\ [s EXCEPT !.from = FALSE].pos = s.pos
  BY DEF Sds

\* The end macro is over: no tool changes, no line from the file.
LEMMA EndedIs ==
  ASSUME NEW s \in Sds
  PROVE  /\ [s EXCEPT !.ffm = FALSE, !.from = FALSE] \in Sds
         /\ ~[s EXCEPT !.ffm = FALSE, !.from = FALSE].ffm
         /\ [s EXCEPT !.ffm = FALSE, !.from = FALSE].timer = s.timer
         /\ [s EXCEPT !.ffm = FALSE, !.from = FALSE].must = s.must
         /\ [s EXCEPT !.ffm = FALSE, !.from = FALSE].file = s.file
         /\ [s EXCEPT !.ffm = FALSE, !.from = FALSE].change = s.change
         /\ [s EXCEPT !.ffm = FALSE, !.from = FALSE].load = s.load
         /\ [s EXCEPT !.ffm = FALSE, !.from = FALSE].print = s.print
         /\ [s EXCEPT !.ffm = FALSE, !.from = FALSE].pos = s.pos
  BY DEF Sds

\* The file is closed.
LEMMA ClosedIs ==
  ASSUME NEW s \in Sds
  PROVE  /\ [s EXCEPT !.file = FALSE] \in Sds /\ ~[s EXCEPT !.file = FALSE].file
         /\ [s EXCEPT !.file = FALSE].timer = s.timer
         /\ [s EXCEPT !.file = FALSE].must = s.must /\ [s EXCEPT !.file = FALSE].from = s.from
         /\ [s EXCEPT !.file = FALSE].change = s.change
         /\ [s EXCEPT !.file = FALSE].ffm = s.ffm /\ [s EXCEPT !.file = FALSE].load = s.load
         /\ [s EXCEPT !.file = FALSE].print = s.print /\ [s EXCEPT !.file = FALSE].pos = s.pos
  BY DEF Sds

\* The tool c is the one loaded and the one wanted.
LEMMA ChannelIs ==
  ASSUME NEW s \in Sds, NEW c \in 0..99
  PROVE  /\ SetChannel(s, c) \in Sds /\ SetChannel(s, c).load = c /\ SetChannel(s, c).print = c
         /\ SetChannel(s, c).timer = s.timer /\ SetChannel(s, c).must = s.must
         /\ SetChannel(s, c).from = s.from /\ SetChannel(s, c).file = s.file
         /\ SetChannel(s, c).change = s.change /\ SetChannel(s, c).ffm = s.ffm
         /\ SetChannel(s, c).pos = s.pos
  BY DEF SetChannel, Sds

\* do_cancel: told to pause, closed, at the beginning.
LEMMA CancelledIs ==
  ASSUME NEW s \in Sds
  PROVE  /\ DoCancel(s) \in Sds /\ DoCancel(s).must = (s.must \/ s.timer) /\ ~DoCancel(s).file
         /\ DoCancel(s).pos = 0
         /\ DoCancel(s).timer = s.timer /\ DoCancel(s).from = s.from
         /\ DoCancel(s).ffm = s.ffm /\ DoCancel(s).load = s.load
         /\ DoCancel(s).print = s.print
  <1>1. DoCancel(s) = [Stopping(s) EXCEPT !.file = FALSE, !.change = FALSE, !.pos = 0]
    BY DEF DoCancel
  <1> DEFINE t == Stopping(s)
             u == DoCancel(s)
  <1>2. /\ t \in Sds /\ t.must = (s.must \/ s.timer) /\ t.timer = s.timer /\ t.from = s.from
        /\ t.ffm = s.ffm /\ t.load = s.load /\ t.print = s.print
    BY StoppingIs
  <1>3. u = [t EXCEPT !.file = FALSE, !.change = FALSE, !.pos = 0]
    BY <1>1
  <1> HIDE DEF t, u
  <1>4. u \in Sds
    BY <1>2, <1>3 DEF Sds
  <1>5. /\ u.must = t.must /\ ~u.file /\ u.pos = 0 /\ u.timer = t.timer /\ u.from = t.from
        /\ u.ffm = t.ffm /\ u.load = t.load /\ u.print = t.print
    BY <1>2, <1>3 DEF Sds
  <1>6. QED
    BY <1>2, <1>4, <1>5 DEF u

\* _reset_file: the same, and the statistics start over.
LEMMA DroppedIs ==
  ASSUME TypeInv, ResetFile
  PROVE  /\ sd' \in Sds /\ sd'.must = (sd.must \/ sd.timer) /\ ~sd'.file /\ sd'.pos = 0
         /\ sd'.timer = sd.timer /\ sd'.from = sd.from /\ sd'.change = sd.change
         /\ sd'.ffm = sd.ffm /\ sd'.load = sd.load /\ sd'.print = sd.print
         /\ stats' \in Stats /\ stats'.state = "standby" /\ ~stats'.started
  <1>1. sd' = [Stopping(sd) EXCEPT !.file = FALSE, !.pos = 0]
        /\ stats' = [state |-> "standby", started |-> FALSE]
    BY DEF ResetFile
  <1>2. stats' \in Stats /\ stats'.state = "standby" /\ ~stats'.started
    BY <1>1 DEF Stats
  <1> DEFINE t == Stopping(sd)
  <1>3. /\ t \in Sds /\ t.must = (sd.must \/ sd.timer) /\ t.timer = sd.timer /\ t.from = sd.from
        /\ t.change = sd.change /\ t.ffm = sd.ffm /\ t.load = sd.load /\ t.print = sd.print
    BY StoppingIs DEF TypeInv
  <1>4. sd' = [t EXCEPT !.file = FALSE, !.pos = 0]
    BY <1>1
  <1> HIDE DEF t
  <1>5. sd' \in Sds
    BY <1>3, <1>4 DEF Sds
  <1>6. /\ sd'.must = t.must /\ ~sd'.file /\ sd'.pos = 0 /\ sd'.timer = t.timer
        /\ sd'.from = t.from /\ sd'.change = t.change /\ sd'.ffm = t.ffm
        /\ sd'.load = t.load /\ sd'.print = t.print
    BY <1>3, <1>4 DEF Sds
  <1>7. QED
    BY <1>2, <1>3, <1>5, <1>6

\* The file is opened at its beginning, for a new handler.
LEMMA LaunchedIs ==
  ASSUME NEW s \in Sds, NEW t, t = [Started(s) EXCEPT !.file = TRUE, !.pos = 0]
  PROVE  /\ t \in Sds /\ t.timer /\ ~t.must /\ t.file /\ t.pos = 0 /\ t.from = s.from
         /\ t.change = s.change /\ t.ffm = s.ffm /\ t.load = s.load /\ t.print = s.print
  <1> DEFINE u == Started(s)
  <1>1. /\ u \in Sds /\ u.timer /\ ~u.must /\ u.from = s.from
        /\ u.change = s.change /\ u.ffm = s.ffm /\ u.load = s.load /\ u.print = s.print
    BY StartedIs
  <1>a. u \in Sds
    BY <1>1
  <1>2. t = [u EXCEPT !.file = TRUE, !.pos = 0]
    OBVIOUS
  <1> HIDE DEF u
  <1>3. t \in Sds
    <2> DEFINE v == [u EXCEPT !.file = TRUE]
    <2>1. v \in Sds
      BY <1>a DEF Sds
    <2>2. t = [v EXCEPT !.pos = 0]
      BY <1>a, <1>2 DEF Sds
    <2> HIDE DEF v
    <2>3. QED
      BY <2>1, <2>2, RewoundIs
  <1>4. /\ t.timer = u.timer /\ t.must = u.must /\ t.file /\ t.pos = 0 /\ t.from = u.from
        /\ t.change = u.change /\ t.ffm = u.ffm /\ t.load = u.load /\ t.print = u.print
    BY <1>1, <1>2 DEF Sds
  <1>5. QED
    BY <1>1, <1>3, <1>4

\* A tool is chosen, with tool changes on.
LEMMA ChosenIs ==
  ASSUME NEW s \in Sds, NEW c \in 0..99, NEW t, t = [SetChannel(s, c) EXCEPT !.ffm = TRUE]
  PROVE  /\ t \in Sds /\ t.timer = s.timer /\ t.must = s.must /\ t.file = s.file /\ t.pos = s.pos
         /\ t.from = s.from /\ t.change = s.change /\ t.ffm /\ t.load = c /\ t.print = c
  <1> DEFINE u == SetChannel(s, c)
  <1>1. /\ u \in Sds /\ u.timer = s.timer /\ u.must = s.must /\ u.file = s.file
        /\ u.pos = s.pos /\ u.from = s.from /\ u.change = s.change /\ u.load = c /\ u.print = c
    BY ChannelIs
  <1>2. t = [u EXCEPT !.ffm = TRUE]
    OBVIOUS
  <1> HIDE DEF u
  <1>a. u \in Sds
    BY <1>1
  <1>3. /\ t \in Sds /\ t.ffm = TRUE /\ t.timer = u.timer /\ t.must = u.must /\ t.file = u.file
        /\ t.pos = u.pos /\ t.from = u.from /\ t.change = u.change /\ t.load = u.load
        /\ t.print = u.print
    BY <1>a, <1>2 DEF Sds
  <1>4. QED
    BY <1>1, <1>3

\* The flags of a pause are set or cleared.
LEMMA PausesAre ==
  ASSUME TypeInv
  PROVE  PauseFlags \in Prs /\ ClearPause \in Prs
  BY DEF TypeInv, Prs, Sds, PauseFlags, ClearPause

\* The commands of the console.
LEMMA TypeCommand == ASSUME TypeInv, Commands PROVE TypeInv'
  <1>1. /\ ghost' \in Ghosts
    <2>1. ghost' = [ghost EXCEPT !.ops = @ + 1]
      BY DEF Commands, Console, Pause, Resume, Cancel, Reset, GetZcolor, PrintWithIfs, PrintWithoutIfs
    <2>2. QED
      BY <2>1 DEF TypeInv, Ghosts
  <1>2. CASE Pause
    <2>1. sd' \in Sds
      BY <1>2, StoppingIs DEF Pause, PauseFromFile, TypeInv
    <2>2. pr' \in Prs
      BY <1>2, PausesAre DEF Pause, PauseFromFile, TypeInv, Prs
    <2>3. con' \in Orders
      BY <1>2 DEF Pause, TypeInv, Orders
    <2>4. QED
      BY <1>1, <1>2, <2>1, <2>2, <2>3 DEF Pause, TypeInv
  <1>3. CASE Resume
    <2>1. sd' \in Sds
      BY <1>3, StartedIs DEF Resume, TypeInv
    <2>2. work' \in Works
      BY <1>3 DEF Resume, NewHandler, TypeInv, Works
    <2>3. pr' \in Prs
      BY <1>3 DEF Resume, TypeInv, Prs
    <2>4. QED
      BY <1>1, <1>3, <2>1, <2>2, <2>3 DEF Resume, TypeInv
  <1>4. CASE Cancel
    <2> DEFINE s == [sd EXCEPT !.ffm = FALSE]
    <2>1. s \in Sds
      BY SwitchedIs DEF TypeInv
    <2>2. sd' \in {Stopping(s), DoCancel(s), [s EXCEPT !.pos = 0], s}
      BY <1>4 DEF Cancel
    <2> HIDE DEF s
    <2>3. sd' \in Sds
      BY <2>1, <2>2, StoppingIs, CancelledIs, RewoundIs
    <2>4. pr' \in Prs /\ stats' \in Stats
      BY <1>4, PausesAre, OutcomeIs DEF Cancel, TypeInv
    <2>5. con' \in Orders
      BY <1>4 DEF Cancel, TypeInv, Orders
    <2>6. QED
      BY <1>1, <1>4, <2>3, <2>4, <2>5 DEF Cancel, TypeInv
  <1>5. CASE Reset
    <2>1. sd' \in Sds /\ stats' \in Stats
      BY <1>5, StoppingIs, DroppedIs DEF Reset, TypeInv
    <2>2. con' \in Orders
      BY <1>5 DEF Reset, TypeInv, Orders
    <2>3. QED
      BY <1>1, <1>5, <2>1, <2>2 DEF Reset, TypeInv
  <1>6. CASE GetZcolor
    BY <1>1, <1>6 DEF GetZcolor, TypeInv, Feeders
  <1>7. CASE PrintWithIfs
    <2>1. feeder' \in Feeders
      BY <1>7, SdTables DEF PrintWithIfs, TypeInv, Feeders
    <2>2. con' \in Orders
      BY <1>7 DEF PrintWithIfs, Orders
    <2>3. QED
      BY <1>1, <1>7, <2>1, <2>2 DEF PrintWithIfs, TypeInv
  <1>8. CASE PrintWithoutIfs
    <2>1. feeder' \in Feeders
      BY <1>8 DEF PrintWithoutIfs, TypeInv, Feeders
    <2>2. con' \in Orders
      BY <1>8 DEF PrintWithoutIfs, Orders
    <2>3. QED
      BY <1>1, <1>8, <2>1, <2>2, SwitchedIs DEF PrintWithoutIfs, TypeInv
  <1>9. QED
    BY <1>2, <1>3, <1>4, <1>5, <1>6, <1>7, <1>8 DEF Commands

\* What a command that waited does then, and the start of a print.
LEMMA TypeOrder == ASSUME TypeInv, Waits \/ Setup \/ Launch PROVE TypeInv'
  <1>a. NoOrder \in Orders
    BY DEF NoOrder, Orders
  <1>1. CASE PauseDone
    BY <1>1, <1>a DEF PauseDone, TypeInv, Prs
  <1>2. CASE CancelDone
    BY <1>2, <1>a, CancelledIs, PausesAre, OutcomeIs DEF CancelDone, TypeInv
  <1>3. CASE ResetDone
    BY <1>3, <1>a, DroppedIs DEF ResetDone, TypeInv
  <1>4. CASE Setup
    <2> DEFINE first == FirstTool(con.body)
    <2>1. first \in 0..3 /\ first \in 0..99
      BY BodiesAreFiles, FirstToolType DEF TypeInv
    <2>2. sd' \in {[sd EXCEPT !.ffm = FALSE], [SetChannel(sd, first) EXCEPT !.ffm = TRUE], sd}
      BY <1>4 DEF Setup
    <2>3. con' \in {[con EXCEPT !.pc = "launch"], [con EXCEPT !.pc = "changing"]}
      BY <1>4 DEF Setup
    <2>4. chg' = chg \/ chg' = [step |-> "begin", tool |-> first, restore |-> 0]
      BY <1>4 DEF Setup
    <2> HIDE DEF first
    <2>5. sd' \in Sds
      <3>1. CASE sd' = [sd EXCEPT !.ffm = FALSE]
        BY <3>1, SwitchedIs DEF TypeInv
      <3>2. CASE sd' = [SetChannel(sd, first) EXCEPT !.ffm = TRUE]
        BY <2>1, <3>2, ChosenIs DEF TypeInv
      <3>3. QED
        BY <2>2, <3>1, <3>2 DEF TypeInv
    <2>6. con' \in Orders
      BY <2>3 DEF TypeInv, Orders
    <2>7. chg' \in Changes
      BY <2>1, <2>4 DEF TypeInv, Changes
    <2>8. QED
      BY <1>4, <2>5, <2>6, <2>7 DEF Setup, TypeInv
  <1>5. CASE Launch
    <2>1. CASE sd.timer
      BY <1>5, <1>a, <2>1 DEF Launch, TypeInv, Ghosts
    <2>2. CASE ~sd.timer
      <3>1. con.body \in Files /\ con.mode \in {"ifs", "plain"}
        BY BodiesAreFiles DEF TypeInv, Orders
      <3> DEFINE f == File(con.body)
                 first == FirstTool(con.body)
      <3>2. f \in Seq(Lines) /\ DOMAIN f = 1..Len(f) /\ Len(f) \in Nat /\ first \in 0..3
        BY <3>1, FileIs, FirstToolType
      <3>3. job' = [lines |-> f, mode |-> con.mode, asked |-> first, runs |-> [i \in DOMAIN f |-> 0]]
        BY <1>5, <2>2 DEF Launch
      <3> HIDE DEF f, first
      <3>4. [i \in DOMAIN f |-> 0] \in Seq(Nat)
        BY <3>2
      <3>5. job' \in Jobs
        BY <3>1, <3>2, <3>3, <3>4 DEF Jobs
      <3>6. sd' \in Sds
        BY <1>5, <2>2, LaunchedIs DEF Launch, TypeInv
      <3>7. /\ stats' \in Stats /\ work' \in Works
        <4>1. stats' = [state |-> "standby", started |-> FALSE] /\ work' = NewHandler
          BY <1>5, <2>2 DEF Launch
        <4>2. stats' \in Stats
          BY <4>1 DEF Stats
        <4>3. work' \in Works
          BY <4>1 DEF NewHandler, Works
        <4>4. QED
          BY <4>2, <4>3
      <3>8. QED
        BY <1>5, <1>a, <2>2, <3>5, <3>6, <3>7 DEF Launch, TypeInv
    <2>3. QED
      BY <2>1, <2>2
  <1>6. QED
    BY <1>1, <1>2, <1>3, <1>4, <1>5 DEF Waits
----------------------------------------------------------------------------
(* What the handler does at each step.                                     *)

\* The handler goes on to pc, having read idx lines; next is where it will be in the file.
At(pc, idx, next) == /\ work' \in Works /\ work'.pc = pc /\ work'.idx = idx /\ work'.next = next
\* Of its flags only some change.
Flags(timer, must, file, pos) ==
  /\ sd' \in Sds /\ sd'.timer = timer /\ sd'.must = must /\ sd'.file = file /\ sd'.pos = pos
Tools(ffm, load, print) == sd'.ffm = ffm /\ sd'.load = load /\ sd'.print = print
SameFlags == Flags(sd.timer, sd.must, sd.file, sd.pos)
SameTools == Tools(sd.ffm, sd.load, sd.print)

\* It opens the file.
LEMMA WorkStartIs ==
  ASSUME TypeInv, WorkStart
  PROVE  /\ work.pc = "start" /\ UNCHANGED <<pr, con, chg, feeder, job, ghost>> /\ SameTools
         /\ \/ /\ sd.file /\ stats' = NoteStart /\ stats' \in Stats /\ sd' = sd
               /\ At("loop", sd.pos, work.next)
            \/ /\ ~sd.file /\ stats' = stats /\ Flags(FALSE, sd.must, sd.file, sd.pos)
               /\ At("off", work.idx, work.next)
  <1>1. CASE sd.file
    <2>1. work' = [work EXCEPT !.pc = "loop", !.idx = sd.pos] /\ sd.pos \in Nat /\ work \in Works
      BY <1>1 DEF WorkStart, TypeInv, Sds
    <2>2. At("loop", sd.pos, work.next)
      BY <2>1 DEF At, Works
    <2>3. stats' = NoteStart /\ stats' \in Stats
      <3>1. stats' = NoteStart
        BY <1>1 DEF WorkStart
      <3>2. NoteStart \in Stats
        BY DEF NoteStart, Stats
      <3>3. QED
        BY <3>1, <3>2
    <2>4. QED
      BY <1>1, <2>2, <2>3 DEF WorkStart, Tools, SameTools
  <1>2. CASE ~sd.file
    <2>1. At("off", work.idx, work.next)
      BY <1>2 DEF WorkStart, At, TypeInv, Works
    <2>2. Flags(FALSE, sd.must, sd.file, sd.pos) /\ SameTools
      BY <1>2 DEF WorkStart, NoFile, Flags, Tools, SameTools, TypeInv, Sds
    <2>3. QED
      BY <1>2, <2>1, <2>2 DEF WorkStart
  <1>3. QED
    BY <1>1, <1>2

\* It leaves at the head of its loop.
LEMMA WorkExitIs ==
  ASSUME TypeInv, WorkExit
  PROVE  /\ work.pc = "loop" /\ UNCHANGED <<pr, con, chg, feeder, job, ghost>> /\ SameTools
         /\ At("off", work.idx, work.next) /\ stats' \in Stats
         /\ \/ /\ sd.must /\ Flags(FALSE, sd.must, sd.file, sd.pos)
               /\ stats' = IF sd.file THEN NotePause ELSE NoteFinish("complete")
            \/ /\ ~sd.must /\ work.idx = Len(job.lines) /\ Flags(FALSE, sd.must, FALSE, sd.pos)
               /\ stats' = NoteFinish("complete")
  <1>1. CASE sd.must
    <2>1. Leave(sd, IF sd.file THEN NotePause ELSE NoteFinish("complete"))
      BY <1>1 DEF WorkExit
    <2>2. (IF sd.file THEN NotePause ELSE NoteFinish("complete")) \in Stats
      BY OutcomeIs DEF TypeInv
    <2> DEFINE o == IF sd.file THEN NotePause ELSE NoteFinish("complete")
    <2>3. Leave(sd, o) /\ o \in Stats
      BY <2>1, <2>2
    <2> HIDE DEF o
    <2>4. /\ At("off", work.idx, work.next) /\ stats' = o
          /\ Flags(FALSE, sd.must, sd.file, sd.pos) /\ SameTools
      BY <2>3, LeaveIs DEF At, Flags, Tools, SameTools, TypeInv
    <2>5. work.pc = "loop" /\ UNCHANGED <<pr, con, chg, feeder, job, ghost>>
      BY DEF WorkExit
    <2>6. stats' \in Stats
      BY <2>3, <2>4
    <2>7. QED
      BY <1>1, <2>4, <2>5, <2>6 DEF o
  <1>2. CASE ~sd.must
    <2> DEFINE s == [sd EXCEPT !.file = FALSE]
    <2>1. Leave(s, NoteFinish("complete")) /\ work.idx = Len(job.lines)
      BY <1>2 DEF WorkExit
    <2>2. NoteFinish("complete") \in Stats
      BY OutcomeIs DEF TypeInv
    <2>3. /\ s \in Sds /\ ~s.file /\ s.must = sd.must /\ s.pos = sd.pos /\ s.ffm = sd.ffm
          /\ s.load = sd.load /\ s.print = sd.print
      BY ClosedIs DEF TypeInv
    <2> HIDE DEF s
    <2>4. /\ At("off", work.idx, work.next) /\ stats' = NoteFinish("complete")
          /\ Flags(FALSE, sd.must, FALSE, sd.pos) /\ SameTools
      BY <2>1, <2>2, <2>3, LeaveIs DEF At, Flags, Tools, SameTools
    <2>5. work.pc = "loop" /\ UNCHANGED <<pr, con, chg, feeder, job, ghost>>
      BY DEF WorkExit
    <2> DEFINE o == NoteFinish("complete")
    <2>6. o \in Stats /\ stats' = o /\ work.idx = Len(job.lines)
      BY <2>1, <2>2, <2>4
    <2> HIDE DEF o
    <2>7. stats' \in Stats
      BY <2>6
    <2>8. ~sd.must /\ work.idx = Len(job.lines) /\ Flags(FALSE, sd.must, FALSE, sd.pos) /\ stats' = o
      BY <1>2, <2>4, <2>6
    <2>9. QED
      BY <2>4, <2>5, <2>7, <2>8 DEF o
  <1>3. QED
    BY <1>1, <1>2

\* It reads a line and begins its script.
LEMMA DispatchIs ==
  ASSUME TypeInv, DispatchLine \/ DispatchTool
  PROVE  /\ work.pc = "loop" /\ con.pc = "idle" /\ ~sd.must /\ work.idx < Len(job.lines)
         /\ UNCHANGED <<pr, stats, con, chg, feeder, ghost>>
         /\ SameFlags /\ sd'.ffm = sd.ffm /\ sd'.load = sd.load
         /\ job' \in Jobs /\ job'.lines = job.lines /\ job'.mode = job.mode
         /\ job'.runs = job.runs
         /\ \/ /\ ~(Line1.kind = "T" /\ sd.ffm) /\ At("line", work.idx, sd.pos + 1)
               /\ Line1.kind # "T" => job'.asked = job.asked
            \/ /\ Line1.kind = "T" /\ sd.ffm /\ job'.asked = Line1.tool
               /\ At("m400", work.idx, sd.pos + 1)
  <1>1. /\ work.pc = "loop" /\ con.pc = "idle" /\ ~sd.must /\ work.idx < Len(job.lines)
        /\ UNCHANGED <<pr, stats, con, chg, feeder, ghost>>
    BY DEF DispatchLine, DispatchTool, Dispatchable
  <1>2. Line1 \in Lines /\ Line1.tool \in 0..3 /\ Line1.tool \in 0..99
    BY <1>1, LineIs DEF Lines
  <1> DEFINE tool == Line1.tool
             next == sd.pos + 1
  <1>3. next \in Nat
    BY DEF TypeInv, Sds
  <1>4. /\ sd' = [sd EXCEPT !.from = TRUE] \/ sd' = [sd EXCEPT !.from = TRUE, !.print = tool]
        /\ job' = job \/ job' = [job EXCEPT !.asked = tool]
    BY DEF DispatchLine, DispatchTool
  <1>5. \/ /\ ~(Line1.kind = "T" /\ sd.ffm) /\ work' = [work EXCEPT !.pc = "line", !.next = next]
           /\ Line1.kind # "T" => job' = job
        \/ /\ Line1.kind = "T" /\ sd.ffm /\ job' = [job EXCEPT !.asked = tool]
           /\ work' = [work EXCEPT !.pc = "m400", !.next = next]
    BY DEF DispatchLine, DispatchTool
  <1>6. tool \in 0..3 /\ tool \in 0..99
    BY <1>2
  <1> HIDE DEF next, tool
  <1>7. SameFlags /\ sd'.ffm = sd.ffm /\ sd'.load = sd.load
    BY <1>4, <1>6 DEF SameFlags, Flags, TypeInv, Sds
  <1>8. /\ job' \in Jobs /\ job'.lines = job.lines /\ job'.mode = job.mode /\ job'.runs = job.runs
        /\ job' = [job EXCEPT !.asked = tool] => job'.asked = tool
    BY <1>4, <1>6 DEF TypeInv, Jobs
  <1>9. \/ ~(Line1.kind = "T" /\ sd.ffm) /\ At("line", work.idx, next)
        \/ Line1.kind = "T" /\ sd.ffm /\ At("m400", work.idx, next)
    BY <1>3, <1>5 DEF At, TypeInv, Works
  <1>10. \/ /\ ~(Line1.kind = "T" /\ sd.ffm) /\ At("line", work.idx, next)
            /\ Line1.kind # "T" => job'.asked = job.asked
         \/ /\ Line1.kind = "T" /\ sd.ffm /\ job'.asked = tool /\ At("m400", work.idx, next)
    BY <1>5, <1>8, <1>9
  <1>11. QED
    BY <1>1, <1>7, <1>8, <1>10 DEF next, tool

\* It reads a tool line for the tool that is loaded.
LEMMA SameToolIs ==
  ASSUME TypeInv, SameTool
  PROVE  /\ work.pc = "loop" /\ con.pc = "idle" /\ ~sd.must /\ work.idx < Len(job.lines)
         /\ UNCHANGED <<pr, stats, con, chg, feeder, ghost>>
         /\ Line1.kind = "T" /\ sd.ffm /\ Line1.tool = sd.load
         /\ Flags(sd.timer, sd.must, sd.file, sd.pos + 1)
         /\ sd'.ffm = sd.ffm /\ sd'.load = sd.load
         /\ job' \in Jobs /\ job'.lines = job.lines /\ job'.mode = job.mode
         /\ job'.asked = Line1.tool /\ Len(job'.runs) = Len(job.runs)
         /\ \A i \in 1..Len(job.runs) :
              job'.runs[i] = IF i = work.idx + 1 THEN job.runs[i] + 1 ELSE job.runs[i]
         /\ At("loop", work.idx + 1, sd.pos + 1)
  <1>1. /\ work.pc = "loop" /\ con.pc = "idle" /\ ~sd.must /\ work.idx < Len(job.lines)
        /\ UNCHANGED <<pr, stats, con, chg, feeder, ghost>>
        /\ Line1.kind = "T" /\ sd.ffm /\ Line1.tool = sd.load
    BY DEF SameTool, Dispatchable
  <1>2. Line1.tool \in 0..3 /\ Line1.tool \in 0..99
    BY <1>1, LineIs DEF Lines
  <1> DEFINE tool == Line1.tool
             next == sd.pos + 1
             idx == work.idx + 1
  <1>3. next \in Nat /\ idx \in Nat /\ tool \in 0..3 /\ tool \in 0..99
    BY <1>2 DEF TypeInv, Sds, Works
  <1>4. /\ sd' = [sd EXCEPT !.from = TRUE, !.print = tool, !.change = FALSE, !.pos = next]
        /\ job' = [job EXCEPT !.asked = tool, !.runs[work.idx + 1] = @ + 1]
        /\ work' = [work EXCEPT !.idx = idx, !.next = next]
    BY DEF SameTool
  <1> DEFINE q == [job.runs EXCEPT ![work.idx + 1] = @ + 1]
  <1>5. job' = [job EXCEPT !.asked = tool, !.runs = q]
    BY <1>4
  <1>6. /\ q \in Seq(Nat) /\ Len(q) = Len(job.runs)
        /\ \A i \in 1..Len(job.runs) : q[i] = IF i = work.idx + 1 THEN job.runs[i] + 1 ELSE job.runs[i]
    BY RunsAre
  <1> HIDE DEF tool, next, idx, q
  <1>7. Flags(sd.timer, sd.must, sd.file, next) /\ sd'.ffm = sd.ffm /\ sd'.load = sd.load
    BY <1>3, <1>4 DEF Flags, TypeInv, Sds
  <1>8. /\ job' \in Jobs /\ job'.lines = job.lines /\ job'.mode = job.mode /\ job'.asked = tool
        /\ job'.runs = q
    BY <1>3, <1>5, <1>6 DEF TypeInv, Jobs
  <1>9. At("loop", idx, next)
    BY <1>1, <1>3, <1>4 DEF At, TypeInv, Works
  <1>10. QED
    BY <1>1, <1>6, <1>7, <1>8, <1>9 DEF tool, next, idx

\* It goes from M400 to the change of filament.
LEMMA M400DoneIs ==
  ASSUME TypeInv, M400Done
  PROVE  /\ work.pc = "m400" /\ At("gap", work.idx, work.next)
         /\ UNCHANGED <<pr, stats, con, chg, feeder, job, ghost>>
         /\ SameFlags /\ SameTools
  <1>1. At("gap", work.idx, work.next)
    BY DEF M400Done, At, TypeInv, Works
  <1>2. SameFlags /\ SameTools
    BY DEF M400Done, SameFlags, Flags, SameTools, Tools, TypeInv, Sds
  <1>3. QED
    BY <1>1, <1>2 DEF M400Done

\* The change of filament begins.
LEMMA BeginChangeIs ==
  ASSUME TypeInv, BeginChange, work.idx < Len(job.lines)
  PROVE  /\ work.pc = "gap" /\ con.pc = "idle" /\ At("change", work.idx, work.next)
         /\ chg' \in Changes /\ chg'.step = "begin" /\ chg'.restore = 1
         /\ chg'.tool = Line1.tool
         /\ UNCHANGED <<sd, pr, stats, con, feeder, job, ghost>>
  <1>1. Line1.tool \in 0..3
    BY LineIs DEF Lines
  <1> DEFINE tool == Line1.tool
  <1>2. chg' = [step |-> "begin", tool |-> tool, restore |-> 1] /\ tool \in 0..3
    BY <1>1 DEF BeginChange
  <1> HIDE DEF tool
  <1>3. chg' \in Changes /\ chg'.step = "begin" /\ chg'.restore = 1 /\ chg'.tool = tool
    BY <1>2 DEF Changes
  <1>4. At("change", work.idx, work.next)
    BY DEF BeginChange, At, TypeInv, Works
  <1>5. QED
    BY <1>3, <1>4 DEF BeginChange, tool

\* The flags s in which a line ends.
EndsLine(s, must, ffm) ==
  /\ s \in Sds /\ AfterLine(s) /\ s.timer = sd.timer /\ s.must = must /\ s.file = sd.file
  /\ s.change = sd.change /\ s.ffm = ffm /\ s.load = sd.load /\ s.print = sd.print

\* A line ends: the start macro clears the pause, the end macro switches tool changes off,
\* and PAUSE tells the handler unless the print is paused.
LEMMA EndLineIs ==
  ASSUME TypeInv, EndLine
  PROVE  /\ work.pc = "line" /\ UNCHANGED <<con, chg, feeder, ghost>> /\ pr' \in Prs
         /\ \E s \in Sds :
              \/ /\ Line1.kind = "start" /\ EndsLine(s, sd.must, sd.ffm)
                 /\ ~pr'.paused /\ ~pr'.sent
              \/ Line1.kind = "end" /\ EndsLine(s, sd.must, FALSE) /\ pr' = pr
              \/ Line1.kind \in {"move", "T"} /\ EndsLine(s, sd.must, sd.ffm) /\ pr' = pr
              \/ /\ Line1.kind = "pause" /\ (pr.paused \/ pr.sent)
                 /\ EndsLine(s, sd.must, sd.ffm) /\ pr'.paused
                 /\ pr' = pr \/ pr'.sent
              \/ /\ Line1.kind = "pause" /\ ~pr.paused /\ ~pr.sent
                 /\ EndsLine(s, sd.must \/ sd.timer, sd.ffm) /\ pr'.paused /\ pr'.sent
  <1>1. work.pc = "line" /\ UNCHANGED <<con, chg, feeder, ghost>>
    BY DEF EndLine
  <1>2. CASE Line1.kind = "start" /\ StartLine
    <2> DEFINE s == [sd EXCEPT !.from = FALSE]
    <2>1. s \in Sds /\ EndsLine(s, sd.must, sd.ffm)
      BY <1>2, NotFromIs, NextLineIs DEF StartLine, EndsLine, TypeInv
    <2>2. pr' \in Prs /\ ~pr'.paused /\ ~pr'.sent
      BY <1>2, PausesAre DEF StartLine, ClearPause, TypeInv, Prs
    <2> HIDE DEF s
    <2>3. QED
      BY <1>1, <1>2, <2>1, <2>2
  <1>3. CASE /\ Line1.kind = "end" /\ NextLine([sd EXCEPT !.ffm = FALSE, !.from = FALSE])
             /\ pr' = pr
    <2> DEFINE s == [sd EXCEPT !.ffm = FALSE, !.from = FALSE]
    <2>a. /\ s \in Sds /\ s.timer = sd.timer /\ s.must = sd.must /\ s.file = sd.file
          /\ s.change = sd.change /\ s.load = sd.load /\ s.print = sd.print
      BY EndedIs DEF TypeInv
    <2>b. s.ffm = FALSE
      BY DEF TypeInv, Sds
    <2>c. NextLine(s)
      BY <1>3
    <2>2. pr' \in Prs
      BY <1>3 DEF TypeInv
    <2> HIDE DEF s
    <2>1. s \in Sds /\ EndsLine(s, sd.must, FALSE)
      BY <2>a, <2>b, <2>c, NextLineIs DEF EndsLine
    <2>3. QED
      BY <1>1, <1>3, <2>1, <2>2
  <1>4. CASE /\ Line1.kind \in {"move", "T"} /\ NextLine([sd EXCEPT !.from = FALSE])
             /\ pr' = pr
    <2> DEFINE s == [sd EXCEPT !.from = FALSE]
    <2>1. s \in Sds /\ EndsLine(s, sd.must, sd.ffm)
      BY <1>4, NotFromIs, NextLineIs DEF EndsLine, TypeInv
    <2>2. pr' \in Prs
      BY <1>4 DEF TypeInv
    <2> HIDE DEF s
    <2>3. QED
      BY <1>1, <1>4, <2>1, <2>2
  <1>5. CASE /\ Line1.kind = "pause"
             /\ pr' = IF pr.paused THEN pr ELSE PauseFlags
             /\ NextLine([(IF pr.paused \/ pr.sent THEN sd ELSE Stopping(sd)) EXCEPT !.from = FALSE])
    <2>1. pr' \in Prs /\ pr'.paused /\ (pr' = pr \/ pr'.sent)
      BY <1>5, PausesAre DEF PauseFlags, TypeInv, Prs
    <2>2. CASE pr.paused \/ pr.sent
      <3> DEFINE s == [sd EXCEPT !.from = FALSE]
      <3>1. s \in Sds /\ EndsLine(s, sd.must, sd.ffm)
        BY <1>5, <2>2, NotFromIs, NextLineIs DEF EndsLine, TypeInv
      <3> HIDE DEF s
      <3>2. QED
        BY <1>1, <1>5, <2>1, <2>2, <3>1
    <2>3. CASE ~pr.paused /\ ~pr.sent
      <3> DEFINE t == Stopping(sd)
                 s == [t EXCEPT !.from = FALSE]
      <3>1. /\ t \in Sds /\ t.must = (sd.must \/ sd.timer) /\ t.timer = sd.timer /\ t.file = sd.file
            /\ t.change = sd.change /\ t.ffm = sd.ffm /\ t.load = sd.load /\ t.print = sd.print
        BY StoppingIs DEF TypeInv
      <3>2. NextLine(s)
        BY <1>5, <2>3
      <3> HIDE DEF t
      <3>3. s \in Sds /\ EndsLine(s, sd.must \/ sd.timer, sd.ffm)
        BY <3>1, <3>2, NotFromIs, NextLineIs DEF EndsLine
      <3>4. pr'.sent
        BY <1>5, <2>3 DEF PauseFlags
      <3> HIDE DEF s
      <3>5. QED
        BY <1>1, <1>5, <2>1, <2>3, <3>3, <3>4
    <2>4. QED
      BY <2>2, <2>3
  <1>6. QED
    BY <1>2, <1>3, <1>4, <1>5 DEF EndLine

\* A line raises.
LEMMA LineFailsIs ==
  ASSUME TypeInv, LineFails
  PROVE  /\ work.pc = "line" /\ At("off", work.idx, work.next)
         /\ Flags(FALSE, sd.must, sd.file, sd.pos) /\ SameTools
         /\ stats' \in Stats /\ stats' = NoteFinish("error")
         /\ ghost' \in Ghosts /\ ghost'.fails = ghost.fails + 1
         /\ pr' = pr \/ pr' = ClearPause
         /\ UNCHANGED <<con, chg, feeder, job>>
  <1>1. Leave(sd, NoteFinish("error")) /\ NoteFinish("error") \in Stats
    BY OutcomeIs DEF LineFails, TypeInv
  <1> DEFINE o == NoteFinish("error")
  <1>2. Leave(sd, o) /\ o \in Stats
    BY <1>1
  <1> HIDE DEF o
  <1>3. /\ At("off", work.idx, work.next) /\ stats' = o
        /\ Flags(FALSE, sd.must, sd.file, sd.pos) /\ SameTools
    BY <1>2, LeaveIs DEF At, Flags, Tools, SameTools, TypeInv
  <1>4. /\ work.pc = "line" /\ (pr' = pr \/ pr' = ClearPause)
        /\ UNCHANGED <<con, chg, feeder, job>>
        /\ ghost' = [ghost EXCEPT !.fails = @ + 1]
    BY DEF LineFails, Fault
  <1>5. ghost' \in Ghosts /\ ghost'.fails = ghost.fails + 1
    BY <1>4 DEF TypeInv, Ghosts
  <1>6. stats' \in Stats
    BY <1>2, <1>3
  <1>7. QED
    BY <1>3, <1>4, <1>5, <1>6 DEF o

\* The wait for the change of filament ends.
LEMMA RefuelEndIs ==
  ASSUME TypeInv, RefuelEnd
  PROVE  /\ work.pc = "refuel" /\ AfterLine(Released(sd)) /\ Released(sd) \in Sds
         /\ Released(sd).timer = sd.timer /\ Released(sd).must = sd.must
         /\ Released(sd).file = sd.file
         /\ UNCHANGED <<pr, con, chg, feeder, ghost>>
  BY AfterToolIs DEF RefuelEnd, TypeInv
----------------------------------------------------------------------------
(* What the console does.                                                  *)

\* PAUSE waits for the handler, or sets the flags.
LEMMA PauseIs ==
  ASSUME TypeInv, Pause
  PROVE  /\ con.pc = "idle" /\ ~Running /\ ~pr.paused /\ SameTools
         /\ UNCHANGED <<stats, work, chg, feeder, job>>
         /\ \/ /\ sd.timer /\ ~pr.sent /\ Flags(sd.timer, sd.must \/ sd.timer, sd.file, sd.pos)
               /\ con'.pc = "pause" /\ pr'.paused = pr.paused /\ pr'.sent = pr.sent
            \/ /\ ~pr.sent /\ Flags(sd.timer, sd.must \/ sd.timer, sd.file, sd.pos)
               /\ con' = con /\ pr'.paused /\ pr'.sent
            \/ pr.sent /\ SameFlags /\ con' = con /\ pr'.paused /\ pr'.sent
  <1>1. con.pc = "idle" /\ ~Running /\ ~pr.paused /\ UNCHANGED <<stats, work, chg, feeder, job>>
    BY DEF Pause, Console
  <1> DEFINE t == Stopping(sd)
             must == sd.must \/ sd.timer
  <1>2. /\ t \in Sds /\ t.must = must /\ t.timer = sd.timer /\ t.file = sd.file /\ t.pos = sd.pos
        /\ t.ffm = sd.ffm /\ t.load = sd.load /\ t.print = sd.print
    BY StoppingIs DEF TypeInv
  <1>3. \/ /\ sd.timer /\ ~pr.sent /\ sd' = t /\ pr' = [pr EXCEPT !.sd = TRUE]
           /\ con' = [con EXCEPT !.pc = "pause"]
        \/ ~pr.sent /\ sd' = t /\ pr' = PauseFlags /\ con' = con
        \/ pr.sent /\ sd' = sd /\ pr' = PauseFlags /\ con' = con
    BY DEF Pause, PauseFromFile, MustWait
  <1> HIDE DEF t, must
  <1>4. CASE /\ sd.timer /\ ~pr.sent /\ sd' = t /\ pr' = [pr EXCEPT !.sd = TRUE]
             /\ con' = [con EXCEPT !.pc = "pause"]
    <2>1. Flags(sd.timer, must, sd.file, sd.pos) /\ SameTools
      BY <1>2, <1>4 DEF Flags, Tools, SameTools
    <2>2. con'.pc = "pause" /\ pr'.paused = pr.paused /\ pr'.sent = pr.sent
      BY <1>4 DEF TypeInv, Orders, Prs
    <2>3. QED
      BY <1>1, <1>4, <2>1, <2>2 DEF must
  <1>5. CASE ~pr.sent /\ sd' = t /\ pr' = PauseFlags /\ con' = con
    <2>1. Flags(sd.timer, must, sd.file, sd.pos) /\ SameTools
      BY <1>2, <1>5 DEF Flags, Tools, SameTools
    <2>2. QED
      BY <1>1, <1>5, <2>1 DEF must, PauseFlags
  <1>6. CASE pr.sent /\ sd' = sd /\ pr' = PauseFlags /\ con' = con
    BY <1>1, <1>6 DEF PauseFlags, SameFlags, Flags, SameTools, Tools, TypeInv
  <1>7. QED
    BY <1>3, <1>4, <1>5, <1>6

\* RESUME starts a handler where none is.
LEMMA ResumeIs ==
  ASSUME TypeInv, Resume
  PROVE  /\ con.pc = "idle" /\ ~Running /\ SameTools
         /\ UNCHANGED <<stats, con, chg, feeder, job>>
         /\ ~pr'.paused /\ (pr.paused => ~pr'.sent) /\ (~pr.paused => pr' = pr)
         /\ \/ ~sd.timer /\ Flags(TRUE, FALSE, sd.file, sd.pos) /\ At("start", 0, 0)
            \/ UNCHANGED <<sd, work>>
  <1>1. /\ con.pc = "idle" /\ ~Running /\ UNCHANGED <<stats, con, chg, feeder, job>>
        /\ pr' = IF pr.paused THEN [paused |-> FALSE, sent |-> FALSE, sd |-> FALSE] ELSE pr
    BY DEF Resume, Console
  <1>2. ~pr'.paused /\ (pr.paused => ~pr'.sent) /\ (~pr.paused => pr' = pr)
    BY <1>1
  <1>3. \/ ~sd.timer /\ sd' = Started(sd) /\ work' = NewHandler
        \/ UNCHANGED <<sd, work>>
    BY DEF Resume
  <1>4. CASE ~sd.timer /\ sd' = Started(sd) /\ work' = NewHandler
    <2>1. Flags(TRUE, FALSE, sd.file, sd.pos) /\ SameTools
      BY <1>4, StartedIs DEF Flags, Tools, SameTools, TypeInv
    <2>2. At("start", 0, 0)
      BY <1>4 DEF At, NewHandler, Works
    <2>3. QED
      BY <1>1, <1>2, <1>4, <2>1, <2>2
  <1>5. CASE UNCHANGED <<sd, work>>
    BY <1>1, <1>2, <1>5 DEF SameTools, Tools
  <1>6. QED
    BY <1>3, <1>4, <1>5

\* CANCEL_PRINT waits for the handler, closes the file, or has nothing to close.
LEMMA CancelIs ==
  ASSUME TypeInv, Cancel
  PROVE  /\ con.pc = "idle" /\ ~Running /\ UNCHANGED <<work, chg, feeder, job>>
         /\ ~sd'.ffm /\ sd'.load = sd.load /\ sd'.print = sd.print
         /\ \/ /\ sd.timer /\ Flags(sd.timer, sd.must \/ sd.timer, sd.file, sd.pos)
               /\ con'.pc = "cancel" /\ UNCHANGED <<pr, stats>>
            \/ /\ Flags(sd.timer, sd.must \/ sd.timer, FALSE, 0) /\ stats' = NoteFinish("cancelled")
               /\ con' = con /\ ~pr'.paused /\ ~pr'.sent
            \/ /\ ~sd.file /\ Flags(sd.timer, sd.must, FALSE, 0)
               /\ UNCHANGED <<stats, con>> /\ ~pr'.paused /\ ~pr'.sent
            \/ /\ Flags(sd.timer, sd.must, sd.file, sd.pos)
               /\ UNCHANGED <<stats, con>> /\ ~pr'.paused /\ ~pr'.sent
  <1>1. con.pc = "idle" /\ ~Running /\ UNCHANGED <<work, chg, feeder, job>>
    BY DEF Cancel, Console
  <1> DEFINE s == [sd EXCEPT !.ffm = FALSE]
             r == [s EXCEPT !.pos = 0]
             must == sd.must \/ sd.timer
  <1>2. /\ s \in Sds /\ ~s.ffm /\ s.timer = sd.timer /\ s.must = sd.must /\ s.file = sd.file
        /\ s.pos = sd.pos /\ s.load = sd.load /\ s.print = sd.print
    BY SwitchedIs DEF TypeInv
  <1>3. \/ /\ sd.timer /\ sd' = Stopping(s) /\ con' = [con EXCEPT !.pc = "cancel"]
           /\ UNCHANGED <<pr, stats>>
        \/ /\ sd' = DoCancel(s) /\ stats' = NoteFinish("cancelled")
           /\ pr' = ClearPause /\ con' = con
        \/ ~sd.file /\ sd' = r /\ pr' = ClearPause /\ UNCHANGED <<stats, con>>
        \/ sd' = s /\ pr' = ClearPause /\ UNCHANGED <<stats, con>>
    BY DEF Cancel, MustWait
  <1>4. ~ClearPause.paused /\ ~ClearPause.sent
    BY DEF ClearPause, TypeInv, Prs
  <1> HIDE DEF s
  <1>5. /\ r \in Sds /\ ~r.ffm /\ r.timer = sd.timer /\ r.must = sd.must /\ r.file = sd.file
        /\ r.pos = 0 /\ r.load = sd.load /\ r.print = sd.print
    BY <1>2, RewoundIs
  <1> HIDE DEF r, must
  <1>6. CASE /\ sd.timer /\ sd' = Stopping(s) /\ con' = [con EXCEPT !.pc = "cancel"]
             /\ UNCHANGED <<pr, stats>>
    <2>1. /\ Flags(sd.timer, must, sd.file, sd.pos)
          /\ ~sd'.ffm /\ sd'.load = sd.load /\ sd'.print = sd.print
      BY <1>2, <1>6, StoppingIs DEF Flags, must
    <2>2. con'.pc = "cancel"
      BY <1>6 DEF TypeInv, Orders
    <2>3. QED
      BY <1>1, <1>6, <2>1, <2>2 DEF must
  <1>7. CASE /\ sd' = DoCancel(s) /\ stats' = NoteFinish("cancelled")
             /\ pr' = ClearPause /\ con' = con
    <2>1. /\ Flags(sd.timer, must, FALSE, 0)
          /\ ~sd'.ffm /\ sd'.load = sd.load /\ sd'.print = sd.print
      BY <1>2, <1>7, CancelledIs DEF Flags, must
    <2>2. QED
      BY <1>1, <1>4, <1>7, <2>1 DEF must
  <1>8. CASE ~sd.file /\ sd' = r /\ pr' = ClearPause /\ UNCHANGED <<stats, con>>
    <2>1. /\ Flags(sd.timer, sd.must, FALSE, 0)
          /\ ~sd'.ffm /\ sd'.load = sd.load /\ sd'.print = sd.print
      BY <1>5, <1>8 DEF Flags, Sds
    <2>2. QED
      BY <1>1, <1>4, <1>8, <2>1
  <1>9. CASE sd' = s /\ pr' = ClearPause /\ UNCHANGED <<stats, con>>
    <2>1. /\ Flags(sd.timer, sd.must, sd.file, sd.pos)
          /\ ~sd'.ffm /\ sd'.load = sd.load /\ sd'.print = sd.print
      BY <1>2, <1>9 DEF Flags
    <2>2. QED
      BY <1>1, <1>4, <1>9, <2>1
  <1>10. QED
    BY <1>3, <1>6, <1>7, <1>8, <1>9

\* SDCARD_RESET_FILE waits for the handler, or closes the file.
LEMMA ResetIs ==
  ASSUME TypeInv, Reset
  PROVE  /\ con.pc = "idle" /\ ~Running /\ SameTools
         /\ UNCHANGED <<pr, work, chg, feeder, job>>
         /\ \/ /\ sd.timer /\ Flags(sd.timer, sd.must \/ sd.timer, sd.file, sd.pos)
               /\ con'.pc = "reset" /\ UNCHANGED stats
            \/ /\ Flags(sd.timer, sd.must \/ sd.timer, FALSE, 0) /\ con' = con
               /\ stats'.state = "standby" /\ ~stats'.started
  <1>1. /\ con.pc = "idle" /\ ~Running /\ UNCHANGED <<pr, work, chg, feeder, job>>
        /\ \/ /\ sd.timer /\ sd' = Stopping(sd) /\ con' = [con EXCEPT !.pc = "reset"]
              /\ UNCHANGED stats
           \/ ResetFile /\ con' = con
    BY DEF Reset, Console
  <1>2. CASE ResetFile /\ con' = con
    BY <1>1, <1>2, DroppedIs DEF Flags, Tools, SameTools
  <1>3. CASE /\ sd.timer /\ sd' = Stopping(sd) /\ con' = [con EXCEPT !.pc = "reset"]
             /\ UNCHANGED stats
    <2>1. Flags(sd.timer, sd.must \/ sd.timer, sd.file, sd.pos) /\ SameTools
      BY <1>3, StoppingIs DEF Flags, Tools, SameTools, TypeInv
    <2>2. con'.pc = "reset"
      BY <1>3 DEF TypeInv, Orders
    <2>3. QED
      BY <1>1, <1>3, <2>1, <2>2
  <1>4. QED
    BY <1>1, <1>2, <1>3

\* A file is asked for, with or without the feeder.
LEMMA PrintIs ==
  ASSUME TypeInv, GetZcolor \/ PrintWithIfs \/ PrintWithoutIfs
  PROVE  /\ con.pc = "idle" /\ ~Running /\ SameFlags
         /\ sd'.load = sd.load /\ sd'.print = sd.print
         /\ UNCHANGED <<pr, stats, work, chg, job>>
         /\ feeder'.ifs = feeder.ifs /\ feeder'.color = feeder.ifs /\ feeder'.chan = feeder.chan
         /\ feeder'.spool = feeder.spool /\ feeder'.calls = feeder.calls
         /\ \/ con' = con /\ sd' = sd /\ feeder'.map = feeder.map
            \/ /\ con'.pc = "setup" /\ sd' = sd /\ con'.body \in Bodies
               /\ con'.mode = IF feeder.ifs THEN "ifs" ELSE "plain"
            \/ /\ con'.pc = "launch" /\ ~sd'.ffm /\ con'.mode = "plain" /\ con'.body \in Bodies
               /\ feeder'.map = feeder.map
  <1>1. CASE GetZcolor
    BY <1>1 DEF GetZcolor, Console, SameFlags, Flags, TypeInv, Feeders
  <1>2. CASE PrintWithIfs
    <2>1. \E map \in Mappings : feeder' = [feeder EXCEPT !.color = feeder.ifs, !.map = map]
      BY <1>2 DEF PrintWithIfs
    <2>2. /\ feeder'.ifs = feeder.ifs /\ feeder'.color = feeder.ifs /\ feeder'.chan = feeder.chan
          /\ feeder'.spool = feeder.spool /\ feeder'.calls = feeder.calls
      BY <2>1 DEF TypeInv, Feeders
    <2>3. \E body \in Bodies :
            con' = [pc |-> "setup", body |-> body, mode |-> IF feeder.ifs THEN "ifs" ELSE "plain"]
      BY <1>2 DEF PrintWithIfs
    <2>4. /\ con'.pc = "setup" /\ con'.body \in Bodies
          /\ con'.mode = IF feeder.ifs THEN "ifs" ELSE "plain"
      BY <2>3
    <2>5. con.pc = "idle" /\ ~Running /\ UNCHANGED <<sd, pr, stats, work, chg, job>>
      BY <1>2 DEF PrintWithIfs, Console
    <2>6. SameFlags
      BY <2>5 DEF SameFlags, Flags, TypeInv
    <2>7. QED
      BY <2>2, <2>4, <2>5, <2>6
  <1>3. CASE PrintWithoutIfs
    <2>1. SameFlags /\ sd'.load = sd.load /\ sd'.print = sd.print /\ ~sd'.ffm
      BY <1>3, SwitchedIs DEF PrintWithoutIfs, SameFlags, Flags, TypeInv
    <2>2. /\ feeder'.ifs = feeder.ifs /\ feeder'.color = feeder.ifs /\ feeder'.chan = feeder.chan
          /\ feeder'.spool = feeder.spool /\ feeder'.calls = feeder.calls
          /\ feeder'.map = feeder.map
      BY <1>3 DEF PrintWithoutIfs, TypeInv, Feeders
    <2>3. /\ con.pc = "idle" /\ ~Running /\ UNCHANGED <<pr, stats, work, chg, job>>
          /\ con'.pc = "launch" /\ con'.mode = "plain" /\ con'.body \in Bodies
      BY <1>3 DEF PrintWithoutIfs, Console
    <2>4. QED
      BY <2>1, <2>2, <2>3
  <1>4. QED
    BY <1>1, <1>2, <1>3

\* A command that waited for the handler goes on.
LEMMA WaitsAre ==
  ASSUME TypeInv, Waits
  PROVE  /\ SameTools /\ con'.pc = "idle" /\ UNCHANGED <<work, chg, feeder, job, ghost>>
         /\ \/ /\ con.pc = "pause" /\ SameFlags /\ pr'.paused /\ pr'.sent /\ UNCHANGED stats
            \/ /\ con.pc = "cancel" /\ Flags(sd.timer, sd.must \/ sd.timer, FALSE, 0)
               /\ stats' = NoteFinish("cancelled") /\ ~pr'.paused /\ ~pr'.sent
            \/ /\ con.pc = "reset" /\ Flags(sd.timer, sd.must \/ sd.timer, FALSE, 0)
               /\ stats'.state = "standby" /\ ~stats'.started /\ pr' = pr
  <1>1. CASE PauseDone
    BY <1>1 DEF PauseDone, NoOrder, SameFlags, Flags, SameTools, Tools, TypeInv
  <1>2. CASE CancelDone
    <2>1. Flags(sd.timer, sd.must \/ sd.timer, FALSE, 0) /\ SameTools
      BY <1>2, CancelledIs DEF CancelDone, Flags, SameTools, Tools, TypeInv
    <2>2. ~ClearPause.paused /\ ~ClearPause.sent
      BY DEF ClearPause, TypeInv, Prs
    <2>3. QED
      BY <1>2, <2>1, <2>2 DEF CancelDone, NoOrder
  <1>3. CASE ResetDone
    BY <1>3, DroppedIs DEF ResetDone, NoOrder, Flags, SameTools, Tools
  <1>4. QED
    BY <1>1, <1>2, <1>3 DEF Waits

\* The tool of the file is set, or changed to.
LEMMA SetupIs ==
  ASSUME TypeInv, Setup
  PROVE  /\ con.pc = "setup" /\ SameFlags /\ UNCHANGED <<pr, stats, work, feeder, job, ghost>>
         /\ con'.body = con.body /\ con'.mode = con.mode
         /\ \/ ~feeder.ifs /\ ~sd'.ffm /\ con'.pc = "launch" /\ chg' = chg
            \/ /\ feeder.ifs /\ CurrentTool = FirstTool(con.body)
               /\ Tools(TRUE, FirstTool(con.body), FirstTool(con.body))
               /\ con'.pc = "launch" /\ chg' = chg
            \/ /\ feeder.ifs /\ chg'.step = "begin" /\ chg'.tool = FirstTool(con.body)
               /\ chg'.restore = 0 /\ con'.pc = "changing" /\ sd' = sd
  <1> DEFINE first == FirstTool(con.body)
  <1>1. first \in 0..99
    BY BodiesAreFiles, FirstToolType DEF TypeInv
  <1>2. /\ con.pc = "setup" /\ UNCHANGED <<pr, stats, work, feeder, job, ghost>>
        /\ \/ /\ ~feeder.ifs /\ sd' = [sd EXCEPT !.ffm = FALSE]
              /\ con' = [con EXCEPT !.pc = "launch"] /\ chg' = chg
           \/ /\ feeder.ifs /\ CurrentTool = first
              /\ sd' = [SetChannel(sd, first) EXCEPT !.ffm = TRUE]
              /\ con' = [con EXCEPT !.pc = "launch"] /\ chg' = chg
           \/ /\ feeder.ifs /\ chg' = [step |-> "begin", tool |-> first, restore |-> 0]
              /\ con' = [con EXCEPT !.pc = "changing"] /\ sd' = sd
    BY DEF Setup
  <1> HIDE DEF first
  <1>3. con'.body = con.body /\ con'.mode = con.mode
    BY <1>2 DEF TypeInv, Orders
  <1>4. CASE /\ ~feeder.ifs /\ sd' = [sd EXCEPT !.ffm = FALSE]
             /\ con' = [con EXCEPT !.pc = "launch"] /\ chg' = chg
    <2>1. SameFlags /\ ~sd'.ffm
      BY <1>4, SwitchedIs DEF SameFlags, Flags, TypeInv
    <2>2. con'.pc = "launch"
      BY <1>4 DEF TypeInv, Orders
    <2>3. QED
      BY <1>2, <1>3, <1>4, <2>1, <2>2
  <1>5. CASE /\ feeder.ifs /\ CurrentTool = first
             /\ sd' = [SetChannel(sd, first) EXCEPT !.ffm = TRUE]
             /\ con' = [con EXCEPT !.pc = "launch"] /\ chg' = chg
    <2> DEFINE t == [SetChannel(sd, first) EXCEPT !.ffm = TRUE]
    <2> DEFINE v == SetChannel(sd, first)
    <2>a. /\ v \in Sds /\ v.timer = sd.timer /\ v.must = sd.must /\ v.file = sd.file
          /\ v.pos = sd.pos /\ v.load = first /\ v.print = first
      BY <1>1, ChannelIs DEF TypeInv
    <2>b. t = [v EXCEPT !.ffm = TRUE] /\ sd' = t
      BY <1>5
    <2> HIDE DEF t, v
    <2>c. v \in Sds
      BY <2>a
    <2>d. /\ t \in Sds /\ t.timer = v.timer /\ t.must = v.must /\ t.file = v.file
          /\ t.pos = v.pos /\ t.ffm = TRUE /\ t.load = v.load /\ t.print = v.print
      BY <2>b, <2>c DEF Sds
    <2>1. SameFlags /\ Tools(TRUE, first, first)
      BY <2>a, <2>b, <2>d DEF SameFlags, Flags, Tools
    <2>2. con'.pc = "launch"
      BY <1>5 DEF TypeInv, Orders
    <2>3. QED
      BY <1>2, <1>3, <1>5, <2>1, <2>2 DEF first
  <1>6. CASE /\ feeder.ifs /\ chg' = [step |-> "begin", tool |-> first, restore |-> 0]
             /\ con' = [con EXCEPT !.pc = "changing"] /\ sd' = sd
    <2>1. con'.pc = "changing"
      BY <1>6 DEF TypeInv, Orders
    <2>2. chg'.step = "begin" /\ chg'.tool = first /\ chg'.restore = 0
      BY <1>6
    <2>3. SameFlags
      BY <1>6 DEF SameFlags, Flags, TypeInv
    <2>4. feeder.ifs /\ sd' = sd
      BY <1>6
    <2>5. QED
      BY <1>2, <1>3, <2>1, <2>2, <2>3, <2>4 DEF first
  <1>7. QED
    BY <1>2, <1>4, <1>5, <1>6

\* A print starts, or is refused because another runs.
LEMMA LaunchIs ==
  ASSUME TypeInv, Launch
  PROVE  /\ con.pc = "launch" /\ con'.pc = "idle" /\ SameTools /\ UNCHANGED <<pr, chg, feeder>>
         /\ \/ sd.timer /\ UNCHANGED <<sd, stats, work, job>> /\ ghost'.busy
            \/ /\ ~sd.timer /\ Flags(TRUE, FALSE, TRUE, 0) /\ At("start", 0, 0)
               /\ stats'.state = "standby" /\ ~stats'.started
               /\ job'.lines = File(con.body) /\ job'.mode = con.mode
               /\ job'.asked = FirstTool(con.body)
               /\ Len(job'.runs) = Len(job'.lines)
               /\ \A i \in 1..Len(job'.lines) : job'.runs[i] = 0
               /\ ghost' = ghost
  <1>1. con.pc = "launch" /\ con'.pc = "idle" /\ UNCHANGED <<pr, chg, feeder>>
    BY DEF Launch, NoOrder
  <1>2. CASE sd.timer
    BY <1>1, <1>2 DEF Launch, SameTools, Tools, TypeInv, Ghosts
  <1>3. CASE ~sd.timer
    <2>1. Flags(TRUE, FALSE, TRUE, 0) /\ SameTools
      <3> DEFINE t == [Started(sd) EXCEPT !.file = TRUE, !.pos = 0]
      <3>1. /\ t \in Sds /\ t.timer /\ ~t.must /\ t.file /\ t.pos = 0
            /\ t.ffm = sd.ffm /\ t.load = sd.load /\ t.print = sd.print
        BY LaunchedIs DEF TypeInv
      <3>2. sd' = t
        BY <1>3 DEF Launch
      <3> HIDE DEF t
      <3>3. t.timer = TRUE /\ t.must = FALSE /\ t.file = TRUE
        BY <3>1 DEF Sds
      <3>4. QED
        BY <3>1, <3>2, <3>3 DEF Flags, SameTools, Tools
    <2>2. At("start", 0, 0) /\ stats'.state = "standby" /\ ~stats'.started /\ ghost' = ghost
      BY <1>3 DEF Launch, At, NewHandler, Works
    <2> DEFINE f == File(con.body)
               first == FirstTool(con.body)
    <2>3. f \in Seq(Lines) /\ DOMAIN f = 1..Len(f) /\ Len(f) \in Nat
      BY BodiesAreFiles, FileIs DEF TypeInv
    <2>4. job' = [lines |-> f, mode |-> con.mode, asked |-> first, runs |-> [i \in DOMAIN f |-> 0]]
      BY <1>3 DEF Launch
    <2> HIDE DEF f, first
    <2> DEFINE q == [i \in 1..Len(f) |-> 0]
    <2>5. /\ job'.lines = f /\ job'.mode = con.mode /\ job'.asked = first /\ job'.runs = q
      BY <2>3, <2>4
    <2>6. Len(q) = Len(f) /\ \A i \in 1..Len(f) : q[i] = 0
      BY <2>3
    <2> HIDE DEF q
    <2>7. QED
      BY <1>1, <1>3, <2>1, <2>2, <2>5, <2>6 DEF f, first
  <1>4. QED
    BY <1>2, <1>3
----------------------------------------------------------------------------
(* What a change of filament does.                                         *)

\* The spool it wants is one of the four.
LEMMA WantedType == ASSUME TypeInv PROVE Wanted \in 1..4
  <1>1. feeder.map \in [1..4 -> 1..4] /\ chg.tool + 1 \in 1..4
    BY DEF TypeInv, Feeders, Changes
  <1>2. QED
    BY <1>1 DEF Wanted

\* It ends with the macro END_CHANGE_FILAMENT.
LEMMA EndMacroIs ==
  ASSUME TypeInv, EndMacro
  PROVE  /\ chg.step \in {"same", "end"} /\ UNCHANGED <<pr, feeder, ghost>>
         /\ \E s \in Sds : /\ Ends(s) /\ s.timer = sd.timer /\ s.must = sd.must
                           /\ s.file = sd.file /\ s.pos = sd.pos /\ s.ffm = sd.ffm /\ ~s.change
                           /\ s.load = chg.tool /\ s.print = chg.tool
  <1> DEFINE u == SetChannel(sd, chg.tool)
             s == [u EXCEPT !.change = FALSE]
  <1>1. /\ u \in Sds /\ u.load = chg.tool /\ u.print = chg.tool /\ u.timer = sd.timer
        /\ u.must = sd.must /\ u.file = sd.file /\ u.pos = sd.pos /\ u.ffm = sd.ffm
    BY ChannelIs DEF TypeInv, Changes
  <1>2. EndChange(s) /\ chg.step \in {"same", "end"} /\ UNCHANGED <<pr, feeder, ghost>>
    BY DEF EndMacro
  <1> HIDE DEF u
  <1>3. u \in Sds
    BY <1>1
  <1>4. /\ s \in Sds /\ s.change = FALSE /\ s.load = u.load /\ s.print = u.print
        /\ s.timer = u.timer /\ s.must = u.must /\ s.file = u.file /\ s.pos = u.pos
        /\ s.ffm = u.ffm
    BY <1>3 DEF Sds
  <1> HIDE DEF s
  <1>5. Ends(s)
    BY <1>2, <1>4, EndChangeIs
  <1>6. QED
    BY <1>1, <1>2, <1>4, <1>5

\* It raises: the file's change pauses the print, the console's ends its command.
LEMMA RaiseIs ==
  ASSUME TypeInv, Raise
  PROVE  /\ feeder' = feeder
         /\ \/ /\ chg.restore = 1 /\ pr' \in Prs /\ pr'.paused /\ pr'.sent
               /\ \E s \in Sds : /\ Ends(s) /\ s.timer = sd.timer
                                 /\ s.must = IF pr.sent THEN sd.must ELSE sd.must \/ sd.timer
                                 /\ s.file = sd.file /\ s.pos = sd.pos
            \/ /\ chg.restore = 0 /\ chg' = NoChange /\ con' = NoOrder
               /\ UNCHANGED <<sd, pr, stats, work, job>>
  <1>1. CASE /\ chg.restore = 1 /\ EndChange(IF pr.sent THEN sd ELSE Stopping(sd))
             /\ pr' = IF pr.paused THEN [pr EXCEPT !.sent = TRUE] ELSE PauseFlags
    <2> DEFINE t == Stopping(sd)
               s == IF pr.sent THEN sd ELSE t
    <2>1. /\ t \in Sds /\ t.must = (sd.must \/ sd.timer) /\ t.timer = sd.timer
          /\ t.file = sd.file /\ t.pos = sd.pos
      BY StoppingIs DEF TypeInv
    <2>2. EndChange(s)
      BY <1>1
    <2> HIDE DEF t
    <2>3. /\ s \in Sds /\ s.timer = sd.timer /\ s.file = sd.file /\ s.pos = sd.pos
          /\ s.must = IF pr.sent THEN sd.must ELSE sd.must \/ sd.timer
      BY <2>1 DEF TypeInv
    <2> HIDE DEF s
    <2>4. Ends(s)
      BY <2>2, <2>3, EndChangeIs
    <2>5. pr' \in Prs /\ pr'.paused /\ pr'.sent
      BY <1>1, PausesAre DEF PauseFlags, TypeInv, Prs
    <2>6. \E x \in Sds : /\ Ends(x) /\ x.timer = sd.timer
                         /\ x.must = IF pr.sent THEN sd.must ELSE sd.must \/ sd.timer
                         /\ x.file = sd.file /\ x.pos = sd.pos
      BY <2>3, <2>4
    <2>7. feeder' = feeder /\ chg.restore = 1
      BY <1>1 DEF Raise
    <2>8. QED
      BY <2>5, <2>6, <2>7
  <1>2. CASE /\ chg.restore = 0 /\ chg' = NoChange /\ con' = NoOrder
             /\ UNCHANGED <<sd, pr, stats, work, job>>
    BY <1>2 DEF Raise
  <1>3. QED
    BY <1>1, <1>2 DEF Raise

\* In between it moves filament and goes on.
LEMMA MiddleIs ==
  ASSUME TypeInv, Compare \/ Remove \/ Feed \/ Record \/ SetCurrent
  PROVE  /\ UNCHANGED <<pr, stats, work, con, job>> /\ SameFlags
         /\ chg' \in Changes /\ chg'.tool = chg.tool /\ chg'.restore = chg.restore
         /\ chg.step \notin {"none", "same", "end"} /\ chg'.step \notin {"none", "begin"}
  <1>1. /\ UNCHANGED <<pr, stats, work, con, job>>
        /\ \E next \in {"same", "remove", "feed", "record", "current", "end"} : Step(next)
        /\ chg.step \notin {"none", "same", "end"}
    BY DEF Compare, Remove, Feed, Record, SetCurrent
  <1>2. /\ chg' \in Changes /\ chg'.tool = chg.tool /\ chg'.restore = chg.restore
        /\ chg'.step \notin {"none", "begin"}
    BY <1>1 DEF Step, TypeInv, Changes
  <1>3. SameFlags
    <2>1. CASE sd' = sd
      BY <2>1 DEF SameFlags, Flags, TypeInv
    <2>2. CASE sd' = [sd EXCEPT !.ffm = FALSE]
      BY <2>2, SwitchedIs DEF SameFlags, Flags, TypeInv
    <2>3. CASE SetCurrent /\ feeder.ifs
      <3> DEFINE c == CurrentTool
                 v == SetChannel(sd, c)
      <3>1. /\ v \in Sds /\ v.timer = sd.timer /\ v.must = sd.must /\ v.file = sd.file
            /\ v.pos = sd.pos
        BY CurrentToolIs, ChannelIs DEF TypeInv
      <3>2. sd' = [v EXCEPT !.ffm = TRUE]
        BY <2>3 DEF SetCurrent
      <3> HIDE DEF v, c
      <3>3. v \in Sds
        BY <3>1
      <3>4. /\ sd' \in Sds /\ sd'.timer = v.timer /\ sd'.must = v.must /\ sd'.file = v.file
            /\ sd'.pos = v.pos
        BY <3>2, <3>3 DEF Sds
      <3>5. QED
        BY <3>1, <3>4 DEF SameFlags, Flags
    <2>4. QED
      BY <2>1, <2>2, <2>3 DEF Compare, Remove, Feed, Record, SetCurrent
  <1>4. QED
    BY <1>1, <1>2, <1>3
----------------------------------------------------------------------------
(* Type correctness of the other steps.                                    *)

\* The work handler.
LEMMA TypeWorker == ASSUME TypeInv, PosInv, Worker \/ LineFails PROVE TypeInv'
  <1>1. CASE WorkStart
    BY <1>1, WorkStartIs DEF TypeInv, At, Flags
  <1>2. CASE WorkExit
    BY <1>2, WorkExitIs DEF TypeInv, At, Flags
  <1>3. CASE DispatchLine \/ DispatchTool
    BY <1>3, DispatchIs DEF TypeInv, At, SameFlags, Flags
  <1>4. CASE SameTool
    BY <1>4, SameToolIs DEF TypeInv, At, Flags
  <1>5. CASE M400Done
    BY <1>5, M400DoneIs DEF TypeInv, At, SameFlags, Flags
  <1>6. CASE BeginChange
    <2>1. work.idx < Len(job.lines)
      BY <1>6 DEF BeginChange, PosInv, InLine
    <2>2. QED
      BY <1>6, <2>1, BeginChangeIs DEF TypeInv, At
  <1>7. CASE EndLine
    BY <1>7, EndLineIs DEF TypeInv, EndsLine, AfterLine
  <1>8. CASE RefuelEnd
    BY <1>8, RefuelEndIs DEF TypeInv, AfterLine
  <1>9. CASE LineFails
    BY <1>9, LineFailsIs, PausesAre DEF TypeInv, At, Flags
  <1>10. QED
    BY <1>1, <1>2, <1>3, <1>4, <1>5, <1>6, <1>7, <1>8, <1>9 DEF Worker

\* The end of a change.
LEMMA TypeEnds ==
  ASSUME TypeInv, NEW s \in Sds, Ends(s)
  PROVE  /\ sd' \in Sds /\ stats' \in Stats /\ work' \in Works /\ con' \in Orders
         /\ chg' \in Changes /\ job' \in Jobs
  <1>1. chg' \in Changes
    BY DEF Ends, NoChange, Changes
  <1>2. QED
    BY <1>1 DEF Ends, AfterLine, TypeInv

\* The change of filament.
LEMMA TypeChange == ASSUME TypeInv, Change \/ ChangeFails PROVE TypeInv'
  <1>a. ASSUME Fails PROVE ghost' \in Ghosts
    BY <1>a DEF Fails, Fault, TypeInv, Ghosts
  <1>b. NoChange \in Changes /\ NoOrder \in Orders
    BY DEF NoChange, NoOrder, Changes, Orders
  <1>1. CASE Ignore
    <2>1. Ends(sd) /\ UNCHANGED <<pr, feeder, ghost>>
      BY <1>1, EndChangeIs DEF Ignore, TypeInv
    <2>2. QED
      BY <2>1, TypeEnds DEF TypeInv
  <1>2. CASE EndMacro
    BY <1>2, EndMacroIs, TypeEnds DEF TypeInv
  <1>3. ASSUME Raise, ghost' \in Ghosts PROVE TypeInv'
    BY <1>b, <1>3, RaiseIs, TypeEnds DEF TypeInv
  <1>4. CASE Compare \/ Remove \/ Feed \/ Record \/ SetCurrent
    <2>1. Wanted \in 1..4
      BY WantedType
    <2> DEFINE wanted == Wanted
    <2>2. feeder' \in {feeder, [feeder EXCEPT !.spool = 0], [feeder EXCEPT !.spool = wanted],
                       [feeder EXCEPT !.chan = wanted]}
      BY <1>4 DEF Compare, Remove, Feed, Record, RecordSlot, SetCurrent
    <2> HIDE DEF wanted
    <2>3. feeder' \in Feeders
      BY <2>1, <2>2 DEF TypeInv, Feeders, wanted
    <2>4. ghost' \in Ghosts
      BY <1>a, <1>4 DEF Compare, Remove, Feed, Record, SetCurrent, TypeInv
    <2>5. QED
      BY <1>4, <2>3, <2>4, MiddleIs DEF SameFlags, Flags, TypeInv
  <1>5. CASE FoundEmpty
    BY <1>3, <1>5 DEF FoundEmpty, TypeInv
  <1>6. CASE ChangeFails
    BY <1>3, <1>6, <1>a DEF ChangeFails
  <1>7. QED
    BY <1>1, <1>2, <1>4, <1>5, <1>6 DEF Change

\* The reader of the feeder, and its callbacks.
LEMMA TypeReader ==
  ASSUME TypeInv, IfsDown \/ IfsUp \/ RunCallback
  PROVE  /\ TypeInv' /\ SameFlags /\ sd'.load = sd.load /\ sd'.print = sd.print
         /\ UNCHANGED <<pr, stats, work, con, chg, job>>
  <1>1. CASE IfsDown
    <2>1. feeder' \in Feeders
      <3> DEFINE q == Append(feeder.calls, FALSE)
      <3>1. feeder.calls \in Seq(BOOLEAN) /\ FALSE \in BOOLEAN
        BY DEF TypeInv, Feeders
      <3>2. q \in Seq(BOOLEAN)
        BY <3>1, AppendProperties
      <3>3. feeder' = [feeder EXCEPT !.ifs = FALSE, !.calls = q]
        BY <1>1 DEF IfsDown
      <3> HIDE DEF q
      <3>4. QED
        BY <3>2, <3>3 DEF TypeInv, Feeders
    <2>2. ghost' \in Ghosts
      BY <1>1 DEF IfsDown, TypeInv, Ghosts
    <2>3. QED
      BY <1>1, <2>1, <2>2 DEF IfsDown, TypeInv, SameFlags, Flags
  <1>2. CASE IfsUp
    <2>1. feeder' \in Feeders
      <3> DEFINE q == Append(feeder.calls, TRUE)
      <3>1. feeder.calls \in Seq(BOOLEAN) /\ TRUE \in BOOLEAN
        BY DEF TypeInv, Feeders
      <3>2. q \in Seq(BOOLEAN)
        BY <3>1, AppendProperties
      <3>3. feeder' = [feeder EXCEPT !.ifs = TRUE, !.calls = q]
        BY <1>2 DEF IfsUp
      <3> HIDE DEF q
      <3>4. QED
        BY <3>2, <3>3 DEF TypeInv, Feeders
    <2>2. QED
      BY <1>2, <2>1 DEF IfsUp, TypeInv, SameFlags, Flags
  <1>3. CASE RunCallback
    <2> DEFINE h == Head(feeder.calls)
               t == Tail(feeder.calls)
    <2>1. h \in BOOLEAN /\ t \in Seq(BOOLEAN)
      BY <1>3, HeadTailProperties DEF RunCallback, TypeInv, Feeders
    <2>2. sd' = [sd EXCEPT !.ffm = h] /\ feeder' = [feeder EXCEPT !.calls = t]
      BY <1>3 DEF RunCallback
    <2> HIDE DEF h, t
    <2>3. feeder' \in Feeders
      BY <2>1, <2>2 DEF TypeInv, Feeders
    <2>4. sd' \in Sds /\ SameFlags /\ sd'.load = sd.load /\ sd'.print = sd.print
      BY <2>1, <2>2, SwitchedIs DEF SameFlags, Flags, TypeInv
    <2>5. QED
      BY <1>3, <2>3, <2>4 DEF RunCallback, TypeInv
  <1>4. QED
    BY <1>1, <1>2, <1>3

\* Every step.
LEMMA TypeStep == ASSUME TypeInv, PosInv, [Next]_vars PROVE TypeInv'
  <1>1. CASE Commands
    BY <1>1, TypeCommand
  <1>2. CASE Waits \/ Setup \/ Launch
    BY <1>2, TypeOrder
  <1>3. CASE Worker \/ LineFails
    BY <1>3, TypeWorker
  <1>4. CASE Change \/ ChangeFails
    BY <1>4, TypeChange
  <1>5. CASE IfsDown \/ IfsUp \/ RunCallback
    BY <1>5, TypeReader
  <1>6. CASE UNCHANGED vars
    BY <1>6 DEF vars, TypeInv
  <1>7. QED
    BY <1>1, <1>2, <1>3, <1>4, <1>5, <1>6 DEF Next

\* The initial states.
LEMMA TypeInit == ASSUME Init PROVE TypeInv
  <1> SUFFICES ASSUME NEW on \in BootIfs, NEW map \in Mappings, NEW spool \in 0..2,
                 sd = [timer |-> FALSE, must |-> FALSE, from |-> FALSE, file |-> FALSE,
                       change |-> FALSE, ffm |-> on, load |-> 0, print |-> 0, pos |-> 0],
                 pr = [paused |-> FALSE, sent |-> FALSE, sd |-> FALSE],
                 stats = [state |-> "standby", started |-> FALSE],
                 work = [pc |-> "off", idx |-> 0, next |-> 0],
                 con = NoOrder, chg = NoChange,
                 feeder = [ifs |-> on, color |-> FALSE, chan |-> IF spool = 0 THEN 1 ELSE spool,
                           spool |-> spool, calls |-> <<>>, map |-> map],
                 job = [lines |-> <<>>, mode |-> "plain", asked |-> 0, runs |-> <<>>],
                 ghost = [ops |-> 0, losses |-> 0, fails |-> 0, busy |-> FALSE]
               PROVE TypeInv
    BY DEF Init
  <1>1. on \in BOOLEAN /\ map \in [1..4 -> 1..4]
    BY SdBounds, SdTables
  <1>2. sd \in Sds
    BY <1>1 DEF Sds
  <1>3. pr \in Prs /\ stats \in Stats /\ work \in Works
    BY DEF Prs, Stats, Works
  <1>4. con \in Orders /\ chg \in Changes
    BY DEF NoOrder, NoChange, Orders, Changes
  <1>5. feeder \in Feeders
    <2> DEFINE chan == IF spool = 0 THEN 1 ELSE spool
    <2>1. chan \in 1..4 /\ spool \in 0..4 /\ <<>> \in Seq(BOOLEAN)
      BY EmptySeq
    <2>2. feeder = [ifs |-> on, color |-> FALSE, chan |-> chan, spool |-> spool,
                    calls |-> <<>>, map |-> map]
      OBVIOUS
    <2> HIDE DEF chan
    <2>3. QED
      BY <1>1, <2>1, <2>2 DEF Feeders
  <1>6. job \in Jobs
    BY EmptySeq DEF Jobs
  <1>7. ghost \in Ghosts
    BY DEF Ghosts
  <1>8. QED
    BY <1>2, <1>3, <1>4, <1>5, <1>6, <1>7 DEF TypeInv
----------------------------------------------------------------------------
(* Who holds the mutex: every step.                                        *)

\* The commands.
LEMMA ControlCommand == ASSUME TypeInv, ControlInv, Commands PROVE ControlInv'
  <1>1. CASE Pause
    BY <1>1, PauseIs DEF ControlInv, SameFlags, Flags, Running
  <1>2. CASE Resume
    BY <1>2, ResumeIs DEF ControlInv, Flags, At, Running
  <1>3. CASE Cancel
    BY <1>3, CancelIs DEF ControlInv, Flags, Running
  <1>4. CASE Reset
    BY <1>4, ResetIs DEF ControlInv, Flags, Running
  <1>5. CASE GetZcolor \/ PrintWithIfs \/ PrintWithoutIfs
    BY <1>5, PrintIs DEF ControlInv, SameFlags, Flags, Running
  <1>6. QED
    BY <1>1, <1>2, <1>3, <1>4, <1>5 DEF Commands

\* What a command that waited does then, and the start of a print.
LEMMA ControlOrder == ASSUME TypeInv, ControlInv, Waits \/ Setup \/ Launch PROVE ControlInv'
  <1>1. CASE Waits
    BY <1>1, WaitsAre DEF ControlInv, SameFlags, Flags, Running
  <1>2. CASE Setup
    BY <1>2, SetupIs DEF ControlInv, SameFlags, Flags, Running
  <1>3. CASE Launch
    BY <1>3, LaunchIs DEF ControlInv, Flags, At, Running
  <1>4. QED
    BY <1>1, <1>2, <1>3

\* The handler that is done with a line goes on, or leaves with its timer.
LEMMA LineTimer ==
  ASSUME NEW s \in Sds, AfterLine(s), s.timer = TRUE
  PROVE  sd'.timer = (work'.pc # "off") /\ work'.pc \in {"off", "loop"}
  <1>1. sd'.timer \in BOOLEAN
    BY DEF AfterLine, Sds
  <1>2. \/ ~sd'.timer /\ work'.pc = "off"
        \/ sd'.timer = TRUE /\ work'.pc = "loop"
    BY DEF AfterLine
  <1>3. QED
    BY <1>1, <1>2

\* The work handler.
LEMMA ControlWorker ==
  ASSUME TypeInv, ControlInv, PosInv, Worker \/ LineFails
  PROVE  ControlInv'
  <1>1. CASE WorkStart
    BY <1>1, WorkStartIs DEF ControlInv, At, Flags, Running
  <1>2. CASE WorkExit
    BY <1>2, WorkExitIs DEF ControlInv, At, Flags, Running
  <1>3. CASE DispatchLine \/ DispatchTool
    BY <1>3, DispatchIs DEF ControlInv, At, SameFlags, Flags, Running
  <1>4. CASE SameTool
    BY <1>4, SameToolIs DEF ControlInv, At, Flags, Running
  <1>5. CASE M400Done
    BY <1>5, M400DoneIs DEF ControlInv, At, SameFlags, Flags, Running
  <1>6. CASE BeginChange
    <2>1. work.idx < Len(job.lines)
      BY <1>6 DEF BeginChange, PosInv, InLine
    <2>2. QED
      BY <1>6, <2>1, BeginChangeIs DEF ControlInv, At, Running
  <1>7. CASE EndLine
    <2>1. PICK s \in Sds : AfterLine(s) /\ s.timer = sd.timer
      BY <1>7, EndLineIs DEF EndsLine
    <2>2. work.pc = "line" /\ UNCHANGED <<con, chg>>
      BY <1>7, EndLineIs
    <2>3. sd.timer = TRUE
      BY <2>2 DEF ControlInv
    <2>4. QED
      BY <2>1, <2>2, <2>3, LineTimer DEF ControlInv, Running
  <1>8. CASE RefuelEnd
    <2>1. /\ AfterLine(Released(sd)) /\ Released(sd) \in Sds /\ Released(sd).timer = sd.timer
          /\ work.pc = "refuel" /\ UNCHANGED <<con, chg>>
      BY <1>8, RefuelEndIs
    <2>2. sd.timer = TRUE
      BY <2>1 DEF ControlInv
    <2>3. QED
      BY <2>1, <2>2, LineTimer DEF ControlInv, Running
  <1>9. CASE LineFails
    BY <1>9, LineFailsIs DEF ControlInv, At, Flags, Running
  <1>10. QED
    BY <1>1, <1>2, <1>3, <1>4, <1>5, <1>6, <1>7, <1>8, <1>9 DEF Worker

\* What is released keeps its timer.
LEMMA ReleasedIs ==
  ASSUME NEW s \in Sds
  PROVE  /\ Released(s) \in Sds /\ Released(s).timer = s.timer /\ Released(s).must = s.must
         /\ Released(s).file = s.file /\ Released(s).pos = s.pos /\ Released(s).ffm = s.ffm
         /\ Released(s).load = s.print /\ Released(s).print = s.print
  BY DEF Released, Sds

\* The end of a change.
LEMMA ControlEnds ==
  ASSUME TypeInv, ControlInv, NEW s \in Sds, Ends(s), s.timer = sd.timer
  PROVE  ControlInv'
  <1>1. Released(s).timer = sd.timer /\ chg'.step = "none"
    BY ReleasedIs DEF Ends, NoChange
  <1>2. CASE work.pc = "change" /\ con' = con /\ AfterLine(Released(s))
    <2>1. sd.timer = TRUE
      BY <1>2 DEF ControlInv
    <2>2. Released(s) \in Sds
      BY ReleasedIs
    <2>3. QED
      BY <1>1, <1>2, <2>1, <2>2, LineTimer DEF ControlInv, Running
  <1>3. CASE /\ work.pc = "change" /\ con' = con /\ sd' = s /\ work'.pc = "refuel"
    BY <1>1, <1>3 DEF ControlInv, Running
  <1>4. CASE /\ con.pc = "changing" /\ con'.pc = "launch" /\ sd'.timer = s.timer /\ work' = work
    BY <1>1, <1>4 DEF ControlInv, Running
  <1>5. QED
    BY <1>2, <1>3, <1>4 DEF Ends

\* The change of filament.
LEMMA ControlChange == ASSUME TypeInv, ControlInv, Change \/ ChangeFails PROVE ControlInv'
  <1>1. CASE Ignore
    BY <1>1, EndChangeIs, ControlEnds DEF Ignore, TypeInv
  <1>2. CASE EndMacro
    BY <1>2, EndMacroIs, ControlEnds
  <1>3. ASSUME Raise, chg.step # "none" PROVE ControlInv'
    <2>1. CASE \E s \in Sds : Ends(s) /\ s.timer = sd.timer
      BY <2>1, ControlEnds
    <2>2. CASE /\ chg.restore = 0 /\ chg' = NoChange /\ con' = NoOrder
               /\ UNCHANGED <<sd, pr, stats, work, job>>
      BY <1>3, <2>2 DEF ControlInv, NoChange, NoOrder, Running
    <2>3. QED
      BY <1>3, <2>1, <2>2, RaiseIs
  <1>4. CASE Compare \/ Remove \/ Feed \/ Record \/ SetCurrent
    BY <1>4, MiddleIs DEF ControlInv, SameFlags, Flags, Running
  <1>5. CASE FoundEmpty \/ ChangeFails
    BY <1>3, <1>5 DEF FoundEmpty, ChangeFails
  <1>6. QED
    BY <1>1, <1>2, <1>4, <1>5 DEF Change

\* Every step.
LEMMA ControlStep == ASSUME TypeInv, ControlInv, PosInv, [Next]_vars PROVE ControlInv'
  <1>1. CASE Commands
    BY <1>1, ControlCommand
  <1>2. CASE Waits \/ Setup \/ Launch
    BY <1>2, ControlOrder
  <1>3. CASE Worker \/ LineFails
    BY <1>3, ControlWorker
  <1>4. CASE Change \/ ChangeFails
    BY <1>4, ControlChange
  <1>5. CASE IfsDown \/ IfsUp \/ RunCallback
    BY <1>5, TypeReader DEF ControlInv, SameFlags, Flags, Running
  <1>6. CASE UNCHANGED vars
    BY <1>6 DEF vars, ControlInv, Running
  <1>7. QED
    BY <1>1, <1>2, <1>3, <1>4, <1>5, <1>6 DEF Next
----------------------------------------------------------------------------
(* Where the print is in its file: every step.                             *)

\* Numbers are numbers.
LEMMA Numbers ==
  ASSUME TypeInv
  PROVE  /\ sd.pos \in Nat /\ work.idx \in Nat /\ work.next \in Nat /\ Len(job.lines) \in Nat
         /\ Len(job.runs) \in Nat /\ \A i \in 1..Len(job.runs) : job.runs[i] \in Nat
         /\ sd.file \in BOOLEAN /\ sd.must \in BOOLEAN /\ sd.timer \in BOOLEAN
         /\ stats.started \in BOOLEAN
  <1>1. job.runs \in Seq(Nat) /\ job.lines \in Seq(Lines)
    BY DEF TypeInv, Jobs
  <1>2. Len(job.lines) \in Nat /\ Len(job.runs) \in Nat /\ \A i \in 1..Len(job.runs) : job.runs[i] \in Nat
    BY <1>1, LenProperties, ElementOfSeq
  <1>3. QED
    BY <1>2 DEF TypeInv, Sds, Works, Stats

\* A step that leaves the file and the place in it alone.
LEMMA FileSame ==
  ASSUME FileInv, sd'.file = sd.file, sd'.pos = sd.pos, stats' = stats,
         job'.lines = job.lines, job'.runs = job.runs,
         work'.idx = work.idx, work'.next = work.next,
         work'.pc = work.pc \/ (work.pc \in InLine /\ work'.pc \in InLine)
  PROVE  FileInv'
  <1>1. \A k : Done(k)' <=> Done(k)
    BY DEF Done
  <1>2. RunsInv'
    BY <1>1 DEF FileInv, RunsInv, InLine
  <1>3. PosInv'
    BY DEF FileInv, PosInv, InLine
  <1>4. StatsInv'
    BY DEF FileInv, StatsInv, InLine, Done
  <1>5. QED
    BY <1>2, <1>3, <1>4 DEF FileInv

\* A step that closes the file.
LEMMA FileDropped ==
  ASSUME TypeInv, FileInv, sd'.file = FALSE, sd'.pos = 0, UNCHANGED <<work, job>>,
         ~stats'.started, stats'.state = "complete" => stats.state = "complete"
  PROVE  FileInv'
  <1>1. \A k : Done(k)' <=> Done(k)
    BY DEF Done
  <1>2. RunsInv'
    BY <1>1 DEF FileInv, RunsInv
  <1>3. PosInv'
    BY Numbers DEF FileInv, PosInv
  <1>4. StatsInv'
    BY DEF FileInv, StatsInv, Done
  <1>5. QED
    BY <1>2, <1>3, <1>4 DEF FileInv

\* A step that starts a handler.
LEMMA FileHandler ==
  ASSUME TypeInv, FileInv, work.pc = "off", sd'.file = sd.file, sd'.pos = sd.pos,
         At("start", 0, 0), UNCHANGED <<job, stats>>
  PROVE  FileInv'
  <1>1. \A k : Done(k)' <=> Done(k)
    BY DEF Done
  <1>2. RunsInv'
    BY <1>1 DEF FileInv, RunsInv, At, InLine
  <1>3. PosInv'
    BY Numbers DEF FileInv, PosInv, At, InLine
  <1>4. StatsInv'
    BY DEF FileInv, StatsInv, At, Done
  <1>5. QED
    BY <1>2, <1>3, <1>4 DEF FileInv

\* A step that begins a print.
LEMMA FileLaunched ==
  ASSUME TypeInv', sd'.pos = 0, At("start", 0, 0), sd'.file = TRUE,
         stats'.state = "standby", ~stats'.started, Len(job'.runs) = Len(job'.lines),
         \A i \in 1..Len(job'.lines) : job'.runs[i] = 0
  PROVE  FileInv'
  <1> DEFINE n == Len(job'.lines)
  <1>1. n \in Nat
    <2>1. job'.lines \in Seq(Lines)
      BY DEF TypeInv, Jobs
    <2>2. QED
      BY <2>1, LenProperties
  <1>2. Done(0)'
    BY <1>1 DEF Done
  <1>3. RunsInv'
    BY <1>1, <1>2 DEF RunsInv, At, InLine
  <1>4. PosInv'
    BY <1>1 DEF PosInv, At, InLine
  <1>5. StatsInv'
    BY DEF StatsInv
  <1>6. QED
    BY <1>3, <1>4, <1>5 DEF FileInv

\* One more line has run.
LEMMA OneMore ==
  ASSUME TypeInv, FileInv, Done(work.idx), work.idx < Len(job.lines),
         job'.lines = job.lines, Len(job'.runs) = Len(job.runs),
         \A i \in 1..Len(job.runs) :
           job'.runs[i] = IF i = work.idx + 1 THEN job.runs[i] + 1 ELSE job.runs[i]
  PROVE  /\ \A i \in 1..Len(job'.lines) : job'.runs[i] = IF i <= work.idx + 1 THEN 1 ELSE 0
         /\ \A i \in 1..Len(job'.lines) : job'.runs[i] <= 1
         /\ Len(job'.runs) = Len(job'.lines)
  <1>1. Len(job.runs) = Len(job.lines)
    BY DEF FileInv, RunsInv
  <1>2. ASSUME NEW i \in 1..Len(job.lines)
        PROVE  job'.runs[i] = IF i <= work.idx + 1 THEN 1 ELSE 0
    <2>1. job.runs[i] = IF i <= work.idx THEN 1 ELSE 0
      BY DEF Done
    <2>2. job'.runs[i] = IF i = work.idx + 1 THEN job.runs[i] + 1 ELSE job.runs[i]
      BY <1>1
    <2>3. i \in Nat /\ work.idx \in Nat
      BY Numbers
    <2>4. QED
      BY <2>1, <2>2, <2>3
  <1>3. QED
    BY <1>1, <1>2

\* A step that ends a line.
LEMMA FileLine ==
  ASSUME TypeInv, FileInv, work.pc \in InLine,
         NEW s \in Sds, AfterLine(s), s.file = sd.file
  PROVE  FileInv'
  <1>1. /\ Done(work.idx) /\ work.idx < Len(job.lines) /\ work.next <= work.idx + 1
        /\ sd.file => work.next = work.idx + 1
    BY DEF FileInv, RunsInv, PosInv
  <1>2. /\ job'.lines = job.lines /\ Len(job'.runs) = Len(job.runs)
        /\ \A i \in 1..Len(job.runs) :
             job'.runs[i] = IF i = work.idx + 1 THEN job.runs[i] + 1 ELSE job.runs[i]
        /\ sd'.file = sd.file /\ sd'.pos = work.next /\ work'.next = work.next
    BY DEF AfterLine
  <1>3. /\ \A i \in 1..Len(job'.lines) : job'.runs[i] = IF i <= work.idx + 1 THEN 1 ELSE 0
        /\ \A i \in 1..Len(job'.lines) : job'.runs[i] <= 1
        /\ Len(job'.runs) = Len(job'.lines)
    BY <1>1, <1>2, OneMore
  <1>4. stats.state # "complete" /\ (stats.state = "cancelled" => ~sd.file)
    BY DEF FileInv, StatsInv, InLine
  <1>5. stats.started => sd.file
    BY DEF FileInv, StatsInv
  <1>6. CASE /\ work'.pc = "off" /\ work'.idx = work.idx
             /\ stats' = IF s.file THEN NotePause ELSE NoteFinish("complete")
    <2>1. RunsInv'
      BY <1>1, <1>2, <1>3, <1>6 DEF RunsInv, InLine, Done
    <2>2. PosInv'
      BY <1>1, <1>2, <1>6, Numbers DEF PosInv, InLine
    <2>3. StatsInv'
      BY <1>2, <1>4, <1>5, <1>6, OutcomeIs DEF StatsInv, TypeInv, FileInv
    <2>4. QED
      BY <2>1, <2>2, <2>3 DEF FileInv
  <1>7. CASE work'.pc = "loop" /\ work'.idx = work.idx + 1 /\ stats' = stats
    <2>1. RunsInv'
      BY <1>1, <1>2, <1>3, <1>7 DEF RunsInv, InLine, Done
    <2>2. PosInv'
      BY <1>1, <1>2, <1>7, Numbers DEF PosInv, InLine
    <2>3. StatsInv'
      BY <1>2, <1>4, <1>5, <1>7 DEF StatsInv, FileInv
    <2>4. QED
      BY <2>1, <2>2, <2>3 DEF FileInv
  <1>8. QED
    BY <1>6, <1>7 DEF AfterLine

\* The commands.
LEMMA FileCommand ==
  ASSUME TypeInv, ControlInv, FileInv, Commands
  PROVE  FileInv'
  <1>a. stats.started => sd.file
    BY DEF FileInv, StatsInv
  <1>b. /\ ~NoteFinish("cancelled").started
        /\ NoteFinish("cancelled").state = "complete" => stats.state = "complete"
    BY OutcomeIs DEF TypeInv
  <1>1. CASE Pause
    BY <1>1, PauseIs, FileSame DEF SameFlags, Flags
  <1>2. CASE Resume
    <2>1. CASE ~sd.timer /\ Flags(TRUE, FALSE, sd.file, sd.pos) /\ At("start", 0, 0)
      BY <1>2, <2>1, ResumeIs, FileHandler DEF Flags, ControlInv
    <2>2. CASE UNCHANGED <<sd, work>>
      BY <1>2, <2>2, ResumeIs, FileSame
    <2>3. QED
      BY <1>2, <2>1, <2>2, ResumeIs
  <1>3. CASE Cancel
    <2>1. CASE Flags(sd.timer, sd.must \/ sd.timer, sd.file, sd.pos) /\ stats' = stats
      BY <1>3, <2>1, CancelIs, FileSame DEF Flags
    <2>2. CASE /\ Flags(sd.timer, sd.must \/ sd.timer, FALSE, 0)
               /\ stats' = NoteFinish("cancelled")
      BY <1>3, <1>b, <2>2, CancelIs, FileDropped DEF Flags
    <2>3. CASE ~sd.file /\ Flags(sd.timer, sd.must, FALSE, 0) /\ stats' = stats
      BY <1>3, <1>a, <2>3, CancelIs, FileDropped DEF Flags
    <2>4. CASE Flags(sd.timer, sd.must, sd.file, sd.pos) /\ stats' = stats
      BY <1>3, <2>4, CancelIs, FileSame DEF Flags
    <2>5. QED
      BY <1>3, <2>1, <2>2, <2>3, <2>4, CancelIs
  <1>4. CASE Reset
    <2>1. CASE Flags(sd.timer, sd.must \/ sd.timer, sd.file, sd.pos) /\ stats' = stats
      BY <1>4, <2>1, ResetIs, FileSame DEF Flags
    <2>2. CASE /\ Flags(sd.timer, sd.must \/ sd.timer, FALSE, 0)
               /\ stats'.state = "standby" /\ ~stats'.started
      BY <1>4, <2>2, ResetIs, FileDropped DEF Flags
    <2>3. QED
      BY <1>4, <2>1, <2>2, ResetIs
  <1>5. CASE GetZcolor \/ PrintWithIfs \/ PrintWithoutIfs
    BY <1>5, PrintIs, FileSame DEF SameFlags, Flags
  <1>6. QED
    BY <1>1, <1>2, <1>3, <1>4, <1>5 DEF Commands

\* What a command that waited does then, and the start of a print.
LEMMA FileOrder ==
  ASSUME TypeInv, TypeInv', ControlInv, FileInv, Waits \/ Setup \/ Launch
  PROVE  FileInv'
  <1>1. CASE Waits
    <2>1. CASE SameFlags /\ stats' = stats
      BY <1>1, <2>1, WaitsAre, FileSame DEF SameFlags, Flags
    <2>2. CASE /\ Flags(sd.timer, sd.must \/ sd.timer, FALSE, 0)
               /\ stats' = NoteFinish("cancelled")
      <3>1. /\ ~NoteFinish("cancelled").started
            /\ NoteFinish("cancelled").state = "complete" => stats.state = "complete"
        BY OutcomeIs DEF TypeInv
      <3>2. QED
        BY <1>1, <2>2, <3>1, WaitsAre, FileDropped DEF Flags
    <2>3. CASE /\ Flags(sd.timer, sd.must \/ sd.timer, FALSE, 0)
               /\ stats'.state = "standby" /\ ~stats'.started
      BY <1>1, <2>3, WaitsAre, FileDropped DEF Flags
    <2>4. QED
      BY <1>1, <2>1, <2>2, <2>3, WaitsAre
  <1>2. CASE Setup
    BY <1>2, SetupIs, FileSame DEF SameFlags, Flags
  <1>3. CASE Launch
    <2>1. CASE UNCHANGED <<sd, stats, work, job>>
      BY <2>1, FileSame
    <2>2. CASE /\ Flags(TRUE, FALSE, TRUE, 0) /\ At("start", 0, 0)
               /\ stats'.state = "standby" /\ ~stats'.started
               /\ Len(job'.runs) = Len(job'.lines)
               /\ \A i \in 1..Len(job'.lines) : job'.runs[i] = 0
      BY <2>2, FileLaunched DEF Flags
    <2>3. QED
      BY <1>3, <2>1, <2>2, LaunchIs
  <1>4. QED
    BY <1>1, <1>2, <1>3

\* The work handler.
LEMMA FileWorker ==
  ASSUME TypeInv, ControlInv, FileInv, Worker \/ LineFails
  PROVE  FileInv'
  <1>a. \A k : job' = job => (Done(k)' <=> Done(k))
    BY DEF Done
  <1>b. RunsInv /\ PosInv /\ StatsInv
    BY DEF FileInv
  <1>1. CASE WorkStart
    <2>1. CASE sd.file /\ stats' = NoteStart /\ sd' = sd /\ At("loop", sd.pos, work.next)
      <3>1. work.pc = "start" /\ job' = job
        BY <1>1, WorkStartIs
      <3>2. RunsInv'
        BY <1>b, <2>1, <3>1 DEF RunsInv, At, InLine, Done
      <3>3. PosInv'
        BY <1>b, <2>1, <3>1, Numbers DEF PosInv, At, InLine
      <3>4. StatsInv'
        BY <2>1 DEF StatsInv, NoteStart
      <3>5. QED
        BY <3>2, <3>3, <3>4 DEF FileInv
    <2>2. CASE stats' = stats /\ Flags(FALSE, sd.must, sd.file, sd.pos) /\ At("off", work.idx, work.next)
      <3>1. work.pc = "start" /\ job' = job
        BY <1>1, WorkStartIs
      <3>2. RunsInv'
        BY <1>b, <2>2, <3>1 DEF RunsInv, At, Flags, InLine, Done
      <3>3. PosInv'
        BY <1>b, <2>2, <3>1 DEF PosInv, At, Flags, InLine
      <3>4. StatsInv'
        BY <1>b, <2>2, <3>1 DEF StatsInv, At, Flags, Done
      <3>5. QED
        BY <3>2, <3>3, <3>4 DEF FileInv
    <2>3. QED
      BY <1>1, <2>1, <2>2, WorkStartIs
  <1>2. CASE WorkExit
    <2>1. /\ work.pc = "loop" /\ job' = job /\ At("off", work.idx, work.next)
          /\ sd'.file = sd.file \/ (sd'.file = FALSE /\ work.idx = Len(job.lines))
          /\ sd'.pos = sd.pos
      BY <1>2, WorkExitIs DEF Flags
    <2>2. RunsInv'
      BY <1>b, <2>1 DEF RunsInv, At, InLine, Done
    <2>3. PosInv'
      BY <1>b, <2>1, Numbers DEF PosInv, At, InLine
    <2>4. stats.state # "complete"
      BY <1>b, <2>1 DEF StatsInv
    <2>5. ASSUME sd'.file = sd.file, stats' = IF sd.file THEN NotePause ELSE NoteFinish("complete")
          PROVE  StatsInv'
      BY <1>b, <2>1, <2>4, <2>5, OutcomeIs DEF StatsInv, TypeInv
    <2>6. ASSUME sd'.file = FALSE, work.idx = Len(job.lines), stats' = NoteFinish("complete")
          PROVE  StatsInv'
      <3>1. Done(Len(job.lines))'
        BY <1>b, <2>1, <2>6 DEF RunsInv, InLine, Done
      <3>2. work'.pc = "off" /\ ~stats'.started
        BY <2>1, <2>6, OutcomeIs DEF At, TypeInv
      <3>3. QED
        BY <2>6, <3>1, <3>2 DEF StatsInv
    <2>7. StatsInv'
      BY <1>2, <2>5, <2>6, WorkExitIs DEF Flags
    <2>8. QED
      BY <2>2, <2>3, <2>7 DEF FileInv
  <1>3. CASE DispatchLine \/ DispatchTool
    <2>1. /\ work.pc = "loop" /\ work.idx < Len(job.lines) /\ stats' = stats
          /\ sd'.file = sd.file /\ sd'.pos = sd.pos
          /\ job'.lines = job.lines /\ job'.runs = job.runs
          /\ work'.pc \in {"line", "m400"} /\ work'.idx = work.idx /\ work'.next = sd.pos + 1
      BY <1>3, DispatchIs DEF SameFlags, Flags, At
    <2>2. RunsInv'
      BY <1>b, <2>1 DEF RunsInv, InLine, Done
    <2>3. PosInv'
      BY <1>b, <2>1, Numbers DEF PosInv, RunsInv, InLine
    <2>4. StatsInv'
      BY <1>b, <2>1 DEF StatsInv
    <2>5. QED
      BY <2>2, <2>3, <2>4 DEF FileInv
  <1>4. CASE SameTool
    <2>1. /\ work.pc = "loop" /\ work.idx < Len(job.lines) /\ stats' = stats
          /\ sd'.file = sd.file /\ sd'.pos = sd.pos + 1
          /\ job'.lines = job.lines /\ Len(job'.runs) = Len(job.runs)
          /\ \A i \in 1..Len(job.runs) :
               job'.runs[i] = IF i = work.idx + 1 THEN job.runs[i] + 1 ELSE job.runs[i]
          /\ work'.pc = "loop" /\ work'.idx = work.idx + 1 /\ work'.next = sd.pos + 1
      BY <1>4, SameToolIs DEF Flags, At
    <2>2. Done(work.idx) /\ (sd.file => sd.pos = work.idx)
      BY <1>b, <2>1 DEF RunsInv
    <2>3. /\ \A i \in 1..Len(job'.lines) : job'.runs[i] = IF i <= work.idx + 1 THEN 1 ELSE 0
          /\ \A i \in 1..Len(job'.lines) : job'.runs[i] <= 1
          /\ Len(job'.runs) = Len(job'.lines)
      BY <2>1, <2>2, OneMore
    <2>4. RunsInv'
      BY <2>1, <2>2, <2>3 DEF RunsInv, InLine, Done
    <2>5. PosInv'
      BY <1>b, <2>1, Numbers DEF PosInv, InLine
    <2>6. StatsInv'
      BY <1>b, <2>1 DEF StatsInv
    <2>7. QED
      BY <2>4, <2>5, <2>6 DEF FileInv
  <1>5. CASE M400Done
    BY <1>5, M400DoneIs, FileSame DEF SameFlags, Flags, At, InLine
  <1>6. CASE BeginChange
    <2>1. work.idx < Len(job.lines)
      BY <1>6, <1>b DEF BeginChange, PosInv, InLine
    <2>2. QED
      BY <1>6, <2>1, BeginChangeIs, FileSame DEF At, InLine
  <1>7. CASE EndLine
    BY <1>7, EndLineIs, FileLine DEF EndsLine, InLine
  <1>8. CASE RefuelEnd
    BY <1>8, RefuelEndIs, FileLine DEF InLine
  <1>9. CASE LineFails
    <2>1. /\ work.pc = "line" /\ At("off", work.idx, work.next) /\ job' = job
          /\ sd'.file = sd.file /\ sd'.pos = sd.pos /\ stats' = NoteFinish("error")
      BY <1>9, LineFailsIs DEF Flags
    <2>2. RunsInv'
      BY <1>b, <2>1 DEF RunsInv, At, InLine, Done
    <2>3. PosInv'
      BY <1>b, <2>1 DEF PosInv, At, InLine
    <2>4. StatsInv'
      BY <1>b, <2>1, OutcomeIs DEF StatsInv, At, TypeInv
    <2>5. QED
      BY <2>2, <2>3, <2>4 DEF FileInv
  <1>10. QED
    BY <1>1, <1>2, <1>3, <1>4, <1>5, <1>6, <1>7, <1>8, <1>9 DEF Worker

\* The end of a change.
LEMMA FileEnds ==
  ASSUME TypeInv, FileInv, NEW s \in Sds, Ends(s), s.file = sd.file, s.pos = sd.pos
  PROVE  FileInv'
  <1>1. CASE work.pc = "change" /\ AfterLine(Released(s))
    BY <1>1, ReleasedIs, FileLine DEF InLine
  <1>2. CASE /\ work.pc = "change" /\ sd' = s /\ work'.pc = "refuel"
             /\ work'.idx = work.idx /\ work'.next = work.next /\ stats' = stats /\ job' = job
    BY <1>2, FileSame DEF InLine
  <1>3. CASE /\ sd'.file = s.file /\ sd'.pos = s.pos /\ work' = work /\ stats' = stats /\ job' = job
    BY <1>3, FileSame
  <1>4. QED
    BY <1>1, <1>2, <1>3 DEF Ends

\* The change of filament.
LEMMA FileChange ==
  ASSUME TypeInv, FileInv, Change \/ ChangeFails
  PROVE  FileInv'
  <1>1. CASE Ignore
    BY <1>1, EndChangeIs, FileEnds DEF Ignore, TypeInv
  <1>2. CASE EndMacro
    BY <1>2, EndMacroIs, FileEnds
  <1>3. ASSUME Raise PROVE FileInv'
    BY <1>3, RaiseIs, FileEnds, FileSame
  <1>4. CASE Compare \/ Remove \/ Feed \/ Record \/ SetCurrent
    BY <1>4, MiddleIs, FileSame DEF SameFlags, Flags
  <1>5. CASE FoundEmpty \/ ChangeFails
    BY <1>3, <1>5 DEF FoundEmpty, ChangeFails
  <1>6. QED
    BY <1>1, <1>2, <1>4, <1>5 DEF Change

\* Every step.
LEMMA FileStep ==
  ASSUME TypeInv, TypeInv', ControlInv, FileInv, [Next]_vars
  PROVE  FileInv'
  <1>1. CASE Commands
    BY <1>1, FileCommand
  <1>2. CASE Waits \/ Setup \/ Launch
    BY <1>2, FileOrder
  <1>3. CASE Worker \/ LineFails
    BY <1>3, FileWorker
  <1>4. CASE Change \/ ChangeFails
    BY <1>4, FileChange
  <1>5. CASE IfsDown \/ IfsUp \/ RunCallback
    BY <1>5, TypeReader, FileSame DEF SameFlags, Flags
  <1>6. CASE UNCHANGED vars
    BY <1>6, FileSame DEF vars
  <1>7. QED
    BY <1>1, <1>2, <1>3, <1>4, <1>5, <1>6 DEF Next
----------------------------------------------------------------------------
(* What is paused stays still.                                             *)

\* A handler at work in a paused print was told to pause, or has not run the start
\* macro; and who waits for the pause has told it.
StillInv ==
  /\ pr.sent <=> pr.paused
  /\ con.pc = "pause" => sd.must \/ ~sd.timer
  /\ pr.paused /\ sd.timer /\ ~sd.must => \/ work.pc = "start" /\ sd.pos = 0
                                          \/ work.pc \in {"loop", "line"} /\ work.idx = 0
  /\ job.lines # <<>> => job.lines[1].kind = "start"

\* The first line of a file is its start macro.
LEMMA FirstLine ==
  ASSUME TypeInv, StillInv, work.idx = 0, work.idx < Len(job.lines)
  PROVE  Line1.kind = "start"
  <1>1. job.lines # <<>> /\ Line1 = job.lines[1]
    BY DEF Line1
  <1>2. QED
    BY <1>1 DEF StillInv

\* The commands.
LEMMA StillCommand == ASSUME TypeInv, ControlInv, StillInv, Commands PROVE StillInv'
  <1>1. CASE Pause
    BY <1>1, PauseIs DEF StillInv, SameFlags, Flags
  <1>2. CASE Resume
    BY <1>2, ResumeIs DEF StillInv, Flags, At
  <1>3. CASE Cancel
    BY <1>3, CancelIs DEF StillInv, Flags
  <1>4. CASE Reset
    BY <1>4, ResetIs DEF StillInv, Flags
  <1>5. CASE GetZcolor \/ PrintWithIfs \/ PrintWithoutIfs
    BY <1>5, PrintIs DEF StillInv, SameFlags, Flags
  <1>6. QED
    BY <1>1, <1>2, <1>3, <1>4, <1>5 DEF Commands

\* What a command that waited does then, and the start of a print.
LEMMA StillOrder == ASSUME TypeInv, ControlInv, StillInv, Waits \/ Setup \/ Launch PROVE StillInv'
  <1>1. CASE Waits
    BY <1>1, WaitsAre DEF StillInv, SameFlags, Flags
  <1>2. CASE Setup
    BY <1>2, SetupIs DEF StillInv, SameFlags, Flags
  <1>3. CASE Launch
    <2>1. con'.pc = "idle" /\ pr' = pr
      BY <1>3, LaunchIs
    <2>2. CASE UNCHANGED <<sd, work, job>>
      BY <2>1, <2>2 DEF StillInv
    <2>3. CASE /\ Flags(TRUE, FALSE, TRUE, 0) /\ At("start", 0, 0)
               /\ job'.lines = File(con.body)
      <3>1. job'.lines[1].kind = "start"
        BY <2>3, BodiesAreFiles, FileIs DEF TypeInv
      <3>2. QED
        BY <2>1, <2>3, <3>1 DEF StillInv, Flags, At
    <2>4. QED
      BY <1>3, <2>2, <2>3, LaunchIs
  <1>4. QED
    BY <1>1, <1>2, <1>3

\* A line ends in a paused print only when it must.
LEMMA StillLine ==
  ASSUME TypeInv, StillInv, NEW s \in Sds, AfterLine(s), con.pc # "pause",
         UNCHANGED con, pr'.sent <=> pr'.paused, pr'.paused => s.must
  PROVE  StillInv'
  <1>1. job'.lines = job.lines /\ (s.must => ~sd'.timer)
    BY DEF AfterLine
  <1>2. QED
    BY <1>1 DEF StillInv

\* The work handler.
LEMMA StillWorker ==
  ASSUME TypeInv, ControlInv, PosInv, StillInv, Worker \/ LineFails
  PROVE  StillInv'
  <1>1. CASE WorkStart
    BY <1>1, WorkStartIs DEF StillInv, At, Flags
  <1>2. CASE WorkExit
    BY <1>2, WorkExitIs DEF StillInv, At, Flags
  <1>3. CASE DispatchLine \/ DispatchTool
    <2>1. /\ work.pc = "loop" /\ ~sd.must /\ work.idx < Len(job.lines)
          /\ UNCHANGED <<pr, con>> /\ SameFlags /\ job'.lines = job.lines
          /\ \/ At("line", work.idx, sd.pos + 1)
             \/ Line1.kind = "T" /\ At("m400", work.idx, sd.pos + 1)
      BY <1>3, DispatchIs
    <2>2. work.idx = 0 => Line1.kind = "start"
      BY <2>1, FirstLine
    <2>3. QED
      BY <2>1, <2>2 DEF StillInv, ControlInv, SameFlags, Flags, At
  <1>4. CASE SameTool
    <2>1. /\ work.pc = "loop" /\ ~sd.must /\ work.idx < Len(job.lines) /\ Line1.kind = "T"
          /\ UNCHANGED <<pr, con>> /\ Flags(sd.timer, sd.must, sd.file, sd.pos + 1)
          /\ job'.lines = job.lines
      BY <1>4, SameToolIs
    <2>2. work.idx # 0
      BY <2>1, FirstLine
    <2>3. sd.timer /\ ~pr.paused
      BY <2>1, <2>2 DEF StillInv, ControlInv
    <2>4. QED
      BY <2>1, <2>3 DEF StillInv, Flags
  <1>5. CASE M400Done
    BY <1>5, M400DoneIs DEF StillInv, SameFlags, Flags, At
  <1>6. CASE BeginChange
    <2>1. work.idx < Len(job.lines)
      BY <1>6 DEF BeginChange, PosInv, InLine
    <2>2. QED
      BY <1>6, <2>1, BeginChangeIs DEF StillInv, At
  <1>7. CASE EndLine
    <2>1. work.pc = "line" /\ con' = con /\ sd.timer /\ con.pc # "pause" /\ work.idx < Len(job.lines)
      BY <1>7, EndLineIs DEF ControlInv, PosInv, InLine, Running
    <2>2. pr.paused /\ ~sd.must => Line1.kind = "start"
      BY <2>1, FirstLine DEF StillInv
    <2>3. pr.sent <=> pr.paused
      BY DEF StillInv
    <2>4. PICK s \in Sds :
            \/ /\ Line1.kind = "start" /\ EndsLine(s, sd.must, sd.ffm)
               /\ ~pr'.paused /\ ~pr'.sent
            \/ Line1.kind = "end" /\ EndsLine(s, sd.must, FALSE) /\ pr' = pr
            \/ Line1.kind \in {"move", "T"} /\ EndsLine(s, sd.must, sd.ffm) /\ pr' = pr
            \/ /\ Line1.kind = "pause" /\ (pr.paused \/ pr.sent)
               /\ EndsLine(s, sd.must, sd.ffm) /\ pr'.paused
               /\ pr' = pr \/ pr'.sent
            \/ /\ Line1.kind = "pause" /\ ~pr.paused /\ ~pr.sent
               /\ EndsLine(s, sd.must \/ sd.timer, sd.ffm) /\ pr'.paused /\ pr'.sent
      BY <1>7, EndLineIs
    <2>5. AfterLine(s) /\ (s.must = sd.must \/ s.must = (sd.must \/ sd.timer))
      BY <2>4 DEF EndsLine
    <2>6. pr'.sent <=> pr'.paused
      BY <2>3, <2>4
    <2>7. pr'.paused => s.must
      BY <2>1, <2>2, <2>3, <2>4 DEF EndsLine
    <2>8. QED
      BY <2>1, <2>5, <2>6, <2>7, StillLine
  <1>8. CASE RefuelEnd
    <2>1. /\ work.pc = "refuel" /\ AfterLine(Released(sd)) /\ Released(sd) \in Sds
          /\ Released(sd).must = sd.must /\ UNCHANGED <<pr, con>>
      BY <1>8, RefuelEndIs
    <2>2. CASE con.pc = "pause"
      <3>1. sd.must
        BY <2>1, <2>2 DEF StillInv, ControlInv
      <3>2. ~sd'.timer /\ job'.lines = job.lines
        BY <2>1, <3>1 DEF AfterLine
      <3>3. QED
        BY <2>1, <3>2 DEF StillInv
    <2>3. CASE con.pc # "pause"
      <3>1. pr.paused => sd.must
        BY <2>1 DEF StillInv, ControlInv
      <3>2. QED
        BY <2>1, <2>3, <3>1, StillLine DEF StillInv
    <2>4. QED
      BY <2>2, <2>3
  <1>9. CASE LineFails
    <2>1. pr'.sent <=> pr'.paused
      BY <1>9, LineFailsIs DEF StillInv, ClearPause, TypeInv, Prs
    <2>2. QED
      BY <1>9, <2>1, LineFailsIs DEF StillInv, At, Flags
  <1>10. QED
    BY <1>1, <1>2, <1>3, <1>4, <1>5, <1>6, <1>7, <1>8, <1>9 DEF Worker

\* The end of a change.
LEMMA StillEnds ==
  ASSUME TypeInv, ControlInv, StillInv, NEW s \in Sds, Ends(s), s.timer = sd.timer,
         s.pos = sd.pos, pr'.sent <=> pr'.paused,
         \/ s.must = sd.must /\ pr' = pr
         \/ work.pc = "change" /\ s.must
  PROVE  StillInv'
  <1>1. CASE work.pc = "change" /\ con' = con
    <2>1. con.pc # "pause" /\ sd.timer
      BY <1>1 DEF ControlInv, Running
    <2>2. pr'.paused => s.must
      BY <1>1, <2>1 DEF StillInv
    <2>3. CASE AfterLine(Released(s))
      BY <1>1, <2>1, <2>2, <2>3, ReleasedIs, StillLine
    <2>4. CASE ~s.must /\ sd' = s /\ job' = job
      BY <1>1, <2>1, <2>2, <2>4 DEF StillInv
    <2>5. QED
      BY <1>1, <2>3, <2>4 DEF Ends, ControlInv, Running
  <1>2. CASE con.pc = "changing"
    <2>1. work.pc # "change"
      BY <1>2 DEF ControlInv, Running
    <2>2. /\ con'.pc = "launch" /\ sd'.timer = sd.timer /\ sd'.must = s.must /\ sd'.pos = sd.pos
          /\ work' = work /\ job' = job
      BY <2>1 DEF Ends
    <2>3. s.must = sd.must /\ pr' = pr
      BY <2>1
    <2>4. QED
      BY <2>2, <2>3 DEF StillInv
  <1>3. QED
    BY <1>1, <1>2 DEF Ends

\* The change of filament.
LEMMA StillChange ==
  ASSUME TypeInv, ControlInv, StillInv, Change \/ ChangeFails
  PROVE  StillInv'
  <1>a. pr.sent <=> pr.paused
    BY DEF StillInv
  <1>1. CASE Ignore
    BY <1>1, <1>a, EndChangeIs, StillEnds DEF Ignore, TypeInv
  <1>2. CASE EndMacro
    BY <1>2, <1>a, EndMacroIs, StillEnds
  <1>3. ASSUME Raise, chg.step # "none" PROVE StillInv'
    <2>1. CASE /\ chg.restore = 1 /\ pr'.paused /\ pr'.sent
               /\ \E s \in Sds : /\ Ends(s) /\ s.timer = sd.timer
                                 /\ s.must = IF pr.sent THEN sd.must ELSE sd.must \/ sd.timer
                                 /\ s.file = sd.file /\ s.pos = sd.pos
      <3>1. work.pc = "change" /\ sd.timer
        <4>1. chg.restore = 1 /\ chg.step # "none"
          BY <1>3, <2>1
        <4>2. work.pc = "change"
          BY <4>1 DEF ControlInv
        <4>3. QED
          BY <4>2 DEF ControlInv
      <3>2. pr.sent => sd.must
        BY <3>1 DEF StillInv
      <3>3. PICK s \in Sds : /\ Ends(s) /\ s.timer = sd.timer
                             /\ s.must = IF pr.sent THEN sd.must ELSE sd.must \/ sd.timer
                             /\ s.file = sd.file /\ s.pos = sd.pos
        BY <2>1
      <3>4. s.must
        BY <3>1, <3>2, <3>3
      <3>5. QED
        BY <2>1, <3>1, <3>3, <3>4, StillEnds
    <2>2. CASE con' = NoOrder /\ UNCHANGED <<sd, pr, stats, work, job>>
      BY <2>2 DEF StillInv, NoOrder
    <2>3. QED
      BY <1>3, <2>1, <2>2, RaiseIs
  <1>4. CASE Compare \/ Remove \/ Feed \/ Record \/ SetCurrent
    BY <1>4, MiddleIs DEF StillInv, SameFlags, Flags
  <1>5. CASE FoundEmpty \/ ChangeFails
    BY <1>3, <1>5 DEF FoundEmpty, ChangeFails
  <1>6. QED
    BY <1>1, <1>2, <1>4, <1>5 DEF Change

\* Every step.
LEMMA StillStep ==
  ASSUME TypeInv, ControlInv, PosInv, StillInv, [Next]_vars
  PROVE  StillInv'
  <1>1. CASE Commands
    BY <1>1, StillCommand
  <1>2. CASE Waits \/ Setup \/ Launch
    BY <1>2, StillOrder
  <1>3. CASE Worker \/ LineFails
    BY <1>3, StillWorker
  <1>4. CASE Change \/ ChangeFails
    BY <1>4, StillChange
  <1>5. CASE IfsDown \/ IfsUp \/ RunCallback
    BY <1>5, TypeReader DEF StillInv, SameFlags, Flags
  <1>6. CASE UNCHANGED vars
    BY <1>6 DEF vars, StillInv
  <1>7. QED
    BY <1>1, <1>2, <1>3, <1>4, <1>5, <1>6 DEF Next
----------------------------------------------------------------------------
(* What follows.                                                           *)

\* The parts of the invariant need each other.
IInv == TypeInv /\ ControlInv /\ FileInv /\ StillInv

\* Nothing is open and nobody reads at first.
LEMMA InvInit == ASSUME Init PROVE IInv
  <1>1. TypeInv
    BY TypeInit
  <1>2. /\ sd.timer = FALSE /\ sd.file = FALSE /\ sd.pos = 0 /\ pr.paused = FALSE /\ pr.sent = FALSE
        /\ stats.state = "standby" /\ stats.started = FALSE
        /\ work.pc = "off" /\ work.idx = 0 /\ work.next = 0
        /\ con.pc = "idle" /\ chg.step = "none" /\ job.lines = <<>> /\ job.runs = <<>>
    BY DEF Init, NoOrder, NoChange
  <1>3. ControlInv
    BY <1>2 DEF ControlInv, Running
  <1>4. FileInv
    BY <1>2 DEF FileInv, RunsInv, PosInv, StatsInv, InLine
  <1>5. StillInv
    BY <1>2 DEF StillInv
  <1>6. QED
    BY <1>1, <1>3, <1>4, <1>5 DEF IInv

\* Every step keeps the invariant.
LEMMA InvStep == ASSUME IInv, [Next]_vars PROVE IInv'
  <1>1. TypeInv'
    BY TypeStep DEF IInv, FileInv
  <1>2. ControlInv'
    BY ControlStep DEF IInv, FileInv
  <1>3. FileInv'
    BY <1>1, FileStep DEF IInv
  <1>4. StillInv'
    BY StillStep DEF IInv, FileInv
  <1>5. QED
    BY <1>1, <1>2, <1>3, <1>4 DEF IInv

\* It says that the types are right, that positions lie inside the file, and that one script
\* at a time holds the mutex.
LEMMA InvTypes == ASSUME IInv PROVE TypeOK
  <1> USE DEF IInv
  <1>1. \A f \in {"timer", "must", "from", "file", "change", "ffm"} : sd[f] \in BOOLEAN
    BY DEF TypeInv, Sds
  <1>2. /\ sd.load \in 0..99 /\ sd.print \in 0..99
        /\ work.pc \in {"off", "start", "loop", "line", "m400", "gap", "change", "refuel"}
        /\ con.pc \in {"idle", "pause", "cancel", "reset", "setup", "changing", "launch"}
        /\ feeder.spool \in 0..4 /\ feeder.chan \in 1..4
    BY DEF TypeInv, Sds, Works, Orders, Feeders
  <1>3. /\ sd.pos \in 0..Len(job.lines) /\ work.idx \in 0..Len(job.lines)
        /\ work.next \in 0..Len(job.lines)
    BY Numbers DEF FileInv, PosInv
  <1>4. Booleans(pr)
    <2>1. DOMAIN pr = {"paused", "sent", "sd"}
      BY DEF TypeInv, Prs
    <2>2. pr.paused \in BOOLEAN /\ pr.sent \in BOOLEAN /\ pr.sd \in BOOLEAN
      BY DEF TypeInv, Prs
    <2>3. QED
      BY <2>1, <2>2 DEF Booleans
  <1>5. /\ stats.started \in BOOLEAN
        /\ stats.state \in {"standby", "printing", "paused", "complete", "cancelled", "error"}
    BY DEF TypeInv, Stats
  <1>6. /\ sd.timer = (work.pc # "off") /\ ~(Running /\ con.pc # "idle")
        /\ (chg.step # "none") = (work.pc = "change" \/ con.pc = "changing")
    BY DEF ControlInv
  <1>7. QED
    BY <1>1, <1>2, <1>3, <1>4, <1>5, <1>6 DEF TypeOK

\* Positions stay inside the file, the handler lives as long as its timer, and the scripts of
\* the file and of the console exclude each other (TypeOK), for all files, tables, commands,
\* losses and failures.
THEOREM TypeCorrect == Spec => []TypeOK
  <1>1. Init => IInv
    BY InvInit
  <1>2. IInv /\ [Next]_vars => IInv'
    BY InvStep
  <1>3. IInv => TypeOK
    BY InvTypes
  <1>4. QED
    BY <1>1, <1>2, <1>3, PTL DEF Spec

\* No line runs twice, and "complete" means that all have run: pausing, cancelling, resetting
\* and printing again in any order never make the handler repeat or skip a line.
THEOREM EachLineOnceHolds == Spec => []EachLineOnce
  <1>1. Init => IInv
    BY InvInit
  <1>2. IInv /\ [Next]_vars => IInv'
    BY InvStep
  <1>3. ASSUME IInv PROVE EachLineOnce
    <2>1. /\ Len(job.runs) = Len(job.lines) /\ \A i \in 1..Len(job.lines) : job.runs[i] <= 1
          /\ stats.state = "complete" => Done(Len(job.lines))
      BY <1>3 DEF IInv, FileInv, RunsInv, StatsInv
    <2>2. DOMAIN job.runs = 1..Len(job.lines) /\ Len(job.lines) \in Nat
      <3>1. job.runs \in Seq(Nat)
        BY <1>3 DEF IInv, TypeInv, Jobs
      <3>2. QED
        BY <1>3, <2>1, <3>1, LenProperties, Numbers DEF IInv
    <2>3. QED
      BY <2>1, <2>2 DEF EachLineOnce, Done
  <1>4. QED
    BY <1>1, <1>2, <1>3, PTL DEF Spec

\* A cancelled print has no file, so a handler that notices late has nothing to report.
LEMMA CancelledStep ==
  ASSUME IInv, [Next]_vars, stats.state = "cancelled"
  PROVE  stats'.state \in {"cancelled", "standby"}
  <1> USE DEF IInv
  <1>1. ~sd.file /\ ~stats.started
    BY DEF FileInv, StatsInv
  <1>2. \A x \in {"complete", "cancelled", "error"} : NoteFinish(x).state = "cancelled"
    BY <1>1, OutcomeIs DEF TypeInv
  <1>3. CASE Commands
    <2>1. CASE Cancel
      BY <1>2, <2>1, CancelIs
    <2>2. CASE Reset
      BY <2>2, ResetIs
    <2>3. CASE Pause \/ Resume \/ GetZcolor \/ PrintWithIfs \/ PrintWithoutIfs
      BY <2>3 DEF Pause, Resume, GetZcolor, PrintWithIfs, PrintWithoutIfs
    <2>4. QED
      BY <1>3, <2>1, <2>2, <2>3 DEF Commands
  <1>4. CASE Waits
    BY <1>2, <1>4, WaitsAre
  <1>5. CASE Setup
    BY <1>5 DEF Setup
  <1>6. CASE Launch
    BY <1>6, LaunchIs
  <1>7. ASSUME NEW s \in Sds, AfterLine(s), s.file = sd.file
        PROVE  stats'.state \in {"cancelled", "standby"}
    BY <1>1, <1>2, <1>7 DEF AfterLine
  <1>8. CASE Worker \/ LineFails
    <2>1. CASE WorkStart
      BY <1>1, <2>1 DEF WorkStart
    <2>2. CASE WorkExit
      BY <1>1, <1>2, <2>2, WorkExitIs
    <2>3. CASE DispatchLine \/ DispatchTool \/ SameTool \/ M400Done \/ BeginChange
      BY <2>3 DEF DispatchLine, DispatchTool, SameTool, M400Done, BeginChange
    <2>4. CASE EndLine
      BY <1>7, <2>4, EndLineIs DEF EndsLine
    <2>5. CASE RefuelEnd
      BY <1>7, <2>5, RefuelEndIs
    <2>6. CASE LineFails
      BY <1>2, <2>6, LineFailsIs
    <2>7. QED
      BY <1>8, <2>1, <2>2, <2>3, <2>4, <2>5, <2>6 DEF Worker
  <1>9. ASSUME NEW s \in Sds, Ends(s), s.file = sd.file
        PROVE  stats'.state \in {"cancelled", "standby"}
    <2>1. Released(s) \in Sds /\ Released(s).file = sd.file
      BY <1>9, ReleasedIs
    <2>2. AfterLine(Released(s)) \/ stats' = stats
      BY <1>9 DEF Ends
    <2>3. QED
      BY <1>7, <2>1, <2>2
  <1>10. CASE Change \/ ChangeFails
    <2>1. CASE Ignore
      BY <1>9, <2>1, EndChangeIs DEF Ignore, TypeInv
    <2>2. CASE EndMacro
      BY <1>9, <2>2, EndMacroIs
    <2>3. CASE Raise
      BY <1>9, <2>3, RaiseIs
    <2>4. CASE Compare \/ Remove \/ Feed \/ Record \/ SetCurrent
      BY <2>4, MiddleIs
    <2>5. QED
      BY <1>10, <2>1, <2>2, <2>3, <2>4 DEF Change, FoundEmpty, ChangeFails
  <1>11. CASE IfsDown \/ IfsUp \/ RunCallback
    BY <1>11, TypeReader
  <1>12. CASE UNCHANGED vars
    BY <1>12 DEF vars
  <1>13. QED
    BY <1>3, <1>4, <1>5, <1>6, <1>8, <1>10, <1>11, <1>12 DEF Next

\* A cancelled print stays cancelled until it is reset or another starts: no handler, change or
\* macro that ends late reports it as complete, paused or failed.
THEOREM CancelStaysHolds == Spec => CancelStays
  <1>1. Init => IInv
    BY InvInit
  <1>2. IInv /\ [Next]_vars => IInv'
    BY InvStep
  <1>3. IInv /\ [Next]_vars
          => [stats.state = "cancelled" => stats'.state \in {"cancelled", "standby"}]_vars
    BY CancelledStep
  <1>4. QED
    BY <1>1, <1>2, <1>3, PTL DEF Spec, CancelStays

\* After its start macro a paused print reads no further line, whatever paused it and whoever
\* waits: the handler that could read was told to pause.
THEOREM NoDispatchWhilePausedHolds == Spec => NoDispatchWhilePaused
  <1>1. Init => IInv
    BY InvInit
  <1>2. IInv /\ [Next]_vars => IInv'
    BY InvStep
  <1>3. ASSUME IInv, Dispatches, work.idx > 0 PROVE ~pr.paused
    <2>1. work.pc = "loop" /\ ~sd.must
      BY <1>3 DEF Dispatches, DispatchLine, DispatchTool, SameTool, Dispatchable
    <2>2. ControlInv /\ StillInv
      BY <1>3 DEF IInv
    <2>3. sd.timer = TRUE
      BY <2>1, <2>2 DEF ControlInv
    <2>4. work.idx # 0
      BY <1>3, Numbers DEF IInv
    <2>5. QED
      BY <2>1, <2>2, <2>3, <2>4 DEF StillInv
  <1>4. IInv /\ [Next]_vars => [Dispatches /\ work.idx > 0 => ~pr.paused]_vars
    BY <1>3
  <1>5. QED
    BY <1>1, <1>2, <1>4, PTL DEF Spec, NoDispatchWhilePaused

----------------------------------------------------------------------------
(* The right spool: the invariant.                                        *)

\* A handler that was not told to stop has its file open; the end macro is the last line.
OpenInv ==
  /\ work.pc \in InLine \cup {"loop"} => sd.must \/ sd.file
  /\ \A i \in 1..Len(job.lines) : job.lines[i].kind = "end" => i = Len(job.lines)

\* A file that nobody reads, or is about to, is paused and to be resumed; and the handler
\* is not told to stop inside a script that holds the mutex.
HeldInv ==
  /\ con.pc \notin {"cancel", "reset", "pause"} /\ sd.file /\ (work.pc = "off" \/ sd.must)
       => pr.paused /\ pr.sd
  /\ con.pc = "pause" => pr.sd
  /\ work.pc \in {"line", "m400"} => ~sd.must

\* As long as the feeder was not lost, who speaks of it has it.
Ordering == con.pc \in {"setup", "changing", "launch"}
FeederInv ==
  /\ \A i \in 1..Len(feeder.calls) : feeder.calls[i]
  /\ feeder.calls # <<>> \/ sd.ffm \/ chg.step # "none" \/ work.pc \in {"m400", "gap"} => feeder.ifs
  /\ job.mode = "ifs" \/ (Ordering /\ con.mode = "ifs") => feeder.ifs /\ feeder.color

\* What a change has done at each of its steps.
ChangeInv ==
  /\ chg.step \in {"none", "begin", "remove"} => feeder.spool = 0 \/ feeder.spool = feeder.chan
  /\ chg.step = "feed" => feeder.spool = 0
  /\ chg.step = "record" => feeder.spool = Wanted
  /\ chg.step \in {"same", "current", "end"} => feeder.spool = Wanted /\ feeder.chan = Wanted
  /\ con.pc = "changing" => chg.tool = FirstTool(con.body)
  /\ work.pc \in {"m400", "gap", "change"} => job.asked = Line1.tool
  /\ work.pc = "change" => chg.tool = job.asked

\* The tool t is loaded, and the handler knows it.
Ready(t) == /\ feeder.spool = feeder.map[t + 1] /\ feeder.chan = feeder.spool
            /\ sd.load = t /\ sd.ffm
\* A print that reads on, or may; and one that is about to change the tool.
Reading == \/ work.pc \in {"off", "start"} /\ sd.file /\ sd.pos < Len(job.lines)
           \/ work.pc = "loop" /\ sd.file /\ work.idx < Len(job.lines)
           \/ work.pc = "line"
Switching == work.pc \in {"m400", "gap", "change"} /\ sd.file
\* A print with the feeder is ready whenever it may move, or read on.
ReadyInv ==
  /\ con.pc = "launch" /\ con.mode = "ifs"
       => Ready(FirstTool(con.body)) /\ sd.print = FirstTool(con.body)
  /\ job.mode = "ifs" /\ con.pc \in {"idle", "pause"} =>
       (Reading => Ready(job.asked)) /\ (Switching => sd.ffm)
  /\ job.mode = "ifs" => work.pc # "refuel"

CalmInv == HeldInv /\ FeederInv /\ ChangeInv /\ ReadyInv
SpoolInv == OpenInv /\ (Untroubled => CalmInv)

----------------------------------------------------------------------------
(* The file stays open, or the handler was told to stop.                   *)

\* A step that keeps the lines, and the file as long as the handler was not told to stop.
LEMMA OpenSame ==
  ASSUME OpenInv, job'.lines = job.lines,
         work'.pc \in InLine \cup {"loop"} => work.pc \in InLine \cup {"loop"},
         work'.pc \in InLine \cup {"loop"} /\ sd.must => sd'.must,
         work'.pc \in InLine \cup {"loop"} /\ sd.file => sd'.file \/ sd'.must
  PROVE  OpenInv'
  <1>1. \A i \in 1..Len(job'.lines) : job'.lines[i].kind = "end" => i = Len(job'.lines)
    BY DEF OpenInv
  <1>2. work'.pc \in InLine \cup {"loop"} => sd'.must \/ sd'.file
    BY DEF OpenInv
  <1>3. QED
    BY <1>1, <1>2 DEF OpenInv, InLine

\* The end of a line keeps it too.
LEMMA OpenLine ==
  ASSUME OpenInv, work.pc \in InLine, NEW s \in Sds, AfterLine(s), s.file = sd.file,
         sd.must => s.must
  PROVE  OpenInv'
  <1>1. /\ job'.lines = job.lines /\ sd'.must = s.must /\ sd'.file = sd.file
        /\ work'.pc = "off" \/ work'.pc = "loop"
    BY DEF AfterLine
  <1>2. QED
    BY <1>1, OpenSame DEF InLine

\* Every step.
LEMMA OpenStep ==
  ASSUME IInv, OpenInv, [Next]_vars
  PROVE  OpenInv'
  <1> USE DEF IInv
  <1>a. work.pc \in InLine \cup {"loop"} => sd.timer = TRUE
    BY DEF ControlInv, InLine
  <1>1. CASE Commands
    <2>1. CASE Pause
      BY <2>1, PauseIs, OpenSame DEF SameFlags, Flags
    <2>2. CASE Resume
      BY <2>2, ResumeIs, OpenSame DEF Flags, At, InLine
    <2>3. CASE Cancel
      <3>1. /\ UNCHANGED <<work, job>>
            /\ \/ sd'.must = (sd.must \/ sd.timer)
               \/ sd'.must = sd.must /\ sd'.file = sd.file
               \/ sd'.must = sd.must /\ ~sd.file
        BY <2>3, CancelIs DEF Flags
      <3>2. QED
        BY <1>a, <3>1, OpenSame
    <2>4. CASE Reset
      BY <1>a, <2>4, ResetIs, OpenSame DEF Flags
    <2>5. CASE GetZcolor \/ PrintWithIfs \/ PrintWithoutIfs
      BY <2>5, PrintIs, OpenSame DEF SameFlags, Flags
    <2>6. QED
      BY <1>1, <2>1, <2>2, <2>3, <2>4, <2>5 DEF Commands
  <1>2. CASE Waits
    BY <1>a, <1>2, WaitsAre, OpenSame DEF SameFlags, Flags
  <1>3. CASE Setup
    BY <1>3, SetupIs, OpenSame DEF SameFlags, Flags
  <1>4. CASE Launch
    <2>1. CASE UNCHANGED <<sd, work, job>>
      BY <2>1, OpenSame
    <2>2. CASE At("start", 0, 0) /\ job'.lines = File(con.body)
      BY <2>2, BodiesAreFiles, FileIs DEF OpenInv, At, InLine, TypeInv
    <2>3. QED
      BY <1>4, <2>1, <2>2, LaunchIs
  <1>5. CASE Worker \/ LineFails
    <2>1. CASE WorkStart
      <3>1. CASE sd.file /\ sd' = sd /\ job' = job
        BY <3>1 DEF OpenInv
      <3>2. CASE At("off", work.idx, work.next) /\ job' = job
        BY <3>2, OpenSame DEF At, InLine
      <3>3. QED
        BY <2>1, <3>1, <3>2, WorkStartIs
    <2>2. CASE WorkExit
      BY <2>2, WorkExitIs, OpenSame DEF At, InLine
    <2>3. CASE DispatchLine \/ DispatchTool
      BY <2>3, DispatchIs, OpenSame DEF SameFlags, Flags, At, InLine
    <2>4. CASE SameTool
      BY <2>4, SameToolIs, OpenSame DEF Flags, At, InLine
    <2>5. CASE M400Done
      BY <2>5, M400DoneIs, OpenSame DEF SameFlags, Flags, At, InLine
    <2>6. CASE BeginChange
      <3>1. work.idx < Len(job.lines)
        BY <2>6 DEF BeginChange, FileInv, PosInv, InLine
      <3>2. QED
        BY <2>6, <3>1, BeginChangeIs, OpenSame DEF At, InLine
    <2>7. CASE EndLine
      <3>1. PICK s \in Sds : AfterLine(s) /\ s.file = sd.file /\ (sd.must => s.must)
        BY <2>7, EndLineIs DEF EndsLine
      <3>2. QED
        BY <2>7, <3>1, EndLineIs, OpenLine DEF InLine
    <2>8. CASE RefuelEnd
      BY <2>8, RefuelEndIs, OpenLine DEF InLine
    <2>9. CASE LineFails
      BY <2>9, LineFailsIs, OpenSame DEF At, InLine
    <2>10. QED
      BY <1>5, <2>1, <2>2, <2>3, <2>4, <2>5, <2>6, <2>7, <2>8, <2>9 DEF Worker
  <1>6. ASSUME NEW s \in Sds, Ends(s), s.file = sd.file, sd.must => s.must PROVE OpenInv'
    <2>1. Released(s) \in Sds /\ Released(s).file = sd.file /\ (sd.must => Released(s).must)
      BY <1>6, ReleasedIs
    <2>2. CASE work.pc = "change" /\ AfterLine(Released(s))
      BY <2>1, <2>2, OpenLine DEF InLine
    <2>3. CASE work.pc = "change" /\ sd' = s /\ work'.pc = "refuel" /\ job' = job
      BY <1>6, <2>3, OpenSame DEF InLine
    <2>4. CASE sd'.file = s.file /\ sd'.must = s.must /\ work' = work /\ job' = job
      BY <1>6, <2>4, OpenSame
    <2>5. QED
      BY <1>6, <2>2, <2>3, <2>4 DEF Ends
  <1>7. CASE Change \/ ChangeFails
    <2>1. CASE Ignore
      BY <1>6, <2>1, EndChangeIs DEF Ignore, TypeInv
    <2>2. CASE EndMacro
      BY <1>6, <2>2, EndMacroIs
    <2>3. CASE Raise
      BY <1>6, <2>3, RaiseIs, OpenSame
    <2>4. CASE Compare \/ Remove \/ Feed \/ Record \/ SetCurrent
      BY <2>4, MiddleIs, OpenSame DEF SameFlags, Flags
    <2>5. QED
      BY <1>7, <2>1, <2>2, <2>3, <2>4 DEF Change, FoundEmpty, ChangeFails
  <1>8. CASE IfsDown \/ IfsUp \/ RunCallback
    BY <1>8, TypeReader, OpenSame DEF SameFlags, Flags
  <1>9. CASE UNCHANGED vars
    BY <1>9, OpenSame DEF vars
  <1>10. QED
    BY <1>1, <1>2, <1>3, <1>4, <1>5, <1>7, <1>8, <1>9 DEF Next
----------------------------------------------------------------------------
(* Nothing goes wrong.                                                     *)

\* A step that fails or loses the feeder counts it.
LEMMA Counts ==
  ASSUME TypeInv, Fault \/ Fails \/ IfsDown
  PROVE  ~Untroubled'
  <1>1. \/ ghost' = [ghost EXCEPT !.fails = @ + 1]
        \/ ghost' = [ghost EXCEPT !.losses = @ + 1]
    BY DEF Fails, Fault, IfsDown
  <1>2. ghost'.fails = ghost.fails + 1 \/ ghost'.losses = ghost.losses + 1
    BY <1>1 DEF TypeInv, Ghosts
  <1>3. ghost.fails \in Nat /\ ghost.losses \in Nat
    BY DEF TypeInv, Ghosts
  <1>4. QED
    BY <1>2, <1>3 DEF Untroubled

\* What went wrong once stays.
LEMMA StaysTroubled ==
  ASSUME TypeInv, [Next]_vars, Untroubled'
  PROVE  Untroubled
  <1>1. CASE ghost' = ghost
    BY <1>1 DEF Untroubled
  <1>2. CASE ghost' = [ghost EXCEPT !.ops = @ + 1]
    BY <1>2 DEF Untroubled, TypeInv, Ghosts
  <1>3. CASE ghost' = [ghost EXCEPT !.busy = TRUE]
    BY <1>3 DEF Untroubled, TypeInv, Ghosts
  <1>4. CASE Commands
    <2>1. Console
      BY <1>4 DEF Commands, Pause, Resume, Cancel, Reset, GetZcolor, PrintWithIfs, PrintWithoutIfs
    <2>2. QED
      BY <1>2, <2>1 DEF Console
  <1>5. CASE Waits \/ Setup \/ Launch
    BY <1>1, <1>3, <1>5 DEF Waits, PauseDone, CancelDone, ResetDone, Setup, Launch
  <1>6. CASE Worker
    BY <1>1, <1>6 DEF Worker, WorkStart, WorkExit, DispatchLine, DispatchTool, SameTool, M400Done,
                      BeginChange, EndLine, RefuelEnd
  <1>7. CASE LineFails \/ ChangeFails \/ IfsDown
    BY <1>7, Counts DEF LineFails, ChangeFails
  <1>8. CASE Change
    BY <1>1, <1>8, Counts DEF Change, Ignore, Compare, Remove, Feed, Record, SetCurrent, EndMacro,
                              FoundEmpty
  <1>9. CASE IfsUp \/ RunCallback
    BY <1>1, <1>9 DEF IfsUp, RunCallback
  <1>10. CASE UNCHANGED vars
    BY <1>1, <1>10 DEF vars
  <1>11. QED
    BY <1>4, <1>5, <1>6, <1>7, <1>8, <1>9, <1>10 DEF Next

\* The steps that are left when nothing goes wrong.
CalmChange == Ignore \/ Compare \/ Remove \/ Feed \/ Record \/ SetCurrent \/ EndMacro
CalmNext == Commands \/ Waits \/ Setup \/ Launch \/ Worker \/ CalmChange \/ IfsUp \/ RunCallback
LEMMA CalmSteps ==
  ASSUME TypeInv, ChangeInv, Untroubled', [Next]_vars
  PROVE  CalmNext \/ UNCHANGED vars
  <1>1. ~LineFails /\ ~ChangeFails /\ ~IfsDown
    BY Counts DEF LineFails, ChangeFails
  <1>2. ~FoundEmpty
    BY WantedType DEF FoundEmpty, ChangeInv
  <1>3. QED
    BY <1>1, <1>2 DEF Next, Change, CalmNext, CalmChange

----------------------------------------------------------------------------
(* A file that nobody reads is paused and to be resumed.                   *)

\* A step that stops nobody, closes no file and takes back no pause.
LEMMA HeldSame ==
  ASSUME HeldInv, con'.pc = con.pc, sd'.file => sd.file, sd'.must => sd.must,
         pr' = pr, work'.pc = "off" => work.pc = "off" \/ sd.must \/ ~sd'.file,
         work'.pc \in {"line", "m400"} => ~sd'.must
  PROVE  HeldInv'
  BY DEF HeldInv

\* The commands.
LEMMA HeldCommand ==
  ASSUME IInv, HeldInv, Commands
  PROVE  HeldInv'
  <1> USE DEF IInv
  <1>a. /\ con.pc = "idle" /\ work.pc \notin {"line", "m400"}
    <2>1. Console
      BY DEF Commands, Pause, Resume, Cancel, Reset, GetZcolor, PrintWithIfs, PrintWithoutIfs
    <2>2. QED
      BY <2>1 DEF Console, Running
  <1>b. sd.timer = (work.pc # "off") /\ (pr.sent <=> pr.paused)
    BY DEF ControlInv, StillInv
  <1>1. CASE Pause
    <2>1. ~pr.paused /\ ~pr.sent
      BY <1>1, <1>b, PauseIs
    <2>2. /\ pr'.sd = sd.timer
          /\ sd'.file = sd.file /\ work' = work
          /\ sd'.must = (sd.must \/ sd.timer)
          /\ \/ sd.timer /\ con'.pc = "pause"
             \/ con' = con /\ pr'.paused
      <3>1. pr'.sd = sd.timer
        <4>1. CASE sd.timer /\ pr' = [pr EXCEPT !.sd = TRUE]
          BY <4>1, <1>b DEF TypeInv, Prs
        <4>2. CASE pr' = PauseFlags
          BY <2>1, <4>2 DEF PauseFlags
        <4>3. QED
          BY <1>1, <4>1, <4>2 DEF Pause, PauseFromFile, MustWait
      <3>2. QED
        BY <1>1, <2>1, <3>1, PauseIs DEF Flags
    <2>3. QED
      BY <1>a, <1>b, <2>1, <2>2 DEF HeldInv
  <1>2. CASE Resume
    <2>1. CASE ~sd.timer /\ Flags(TRUE, FALSE, sd.file, sd.pos) /\ At("start", 0, 0)
      BY <1>2, <1>a, <2>1, ResumeIs DEF HeldInv, Flags, At
    <2>2. CASE pr.paused /\ ~pr.sd /\ UNCHANGED <<sd, work>>
      BY <1>2, <1>a, <2>2, ResumeIs DEF HeldInv
    <2>3. \/ pr.paused /\ ~pr.sd /\ UNCHANGED <<sd, work>>
          \/ ~sd.timer /\ work' = NewHandler
      BY <1>2 DEF Resume
    <2>4. CASE ~sd.timer /\ work' = NewHandler
      <3>1. work'.pc # work.pc
        BY <1>b, <2>4 DEF NewHandler
      <3>2. QED
        BY <1>2, <2>1, <3>1, ResumeIs
    <2>5. QED
      BY <2>2, <2>3, <2>4
  <1>3. CASE Cancel
    <2>1. work' = work
      BY <1>3, CancelIs
    <2>2. CASE con'.pc = "cancel"
      BY <1>a, <2>1, <2>2 DEF HeldInv
    <2>3. CASE ~sd'.file /\ con' = con
      BY <1>a, <2>1, <2>3 DEF HeldInv
    <2>4. CASE ~(sd.timer \/ pr.sd) /\ sd'.file = sd.file /\ con' = con
      BY <1>a, <1>b, <2>1, <2>4 DEF HeldInv
    <2>5. ASSUME sd'.file, con'.pc # "cancel"
          PROVE  con' = con /\ sd'.file = sd.file /\ ~(sd.timer \/ pr.sd)
      <3>1. con' = con /\ sd'.file = sd.file
        BY <1>3, <2>5, CancelIs DEF Flags
      <3>2. sd.timer \/ pr.sd => sd' = DoCancel([sd EXCEPT !.ffm = FALSE]) \/ ~sd.file
                                 \/ con' = [con EXCEPT !.pc = "cancel"]
        BY <1>3 DEF Cancel
      <3>3. ~DoCancel([sd EXCEPT !.ffm = FALSE]).file
        BY SwitchedIs, CancelledIs DEF TypeInv
      <3>4. [con EXCEPT !.pc = "cancel"].pc = "cancel"
        BY DEF TypeInv, Orders
      <3>5. QED
        BY <2>5, <3>1, <3>2, <3>3, <3>4
    <2>6. con' = con \/ con'.pc = "cancel"
      BY <1>3, CancelIs
    <2>7. QED
      BY <2>2, <2>3, <2>4, <2>5, <2>6
  <1>4. CASE Reset
    BY <1>4, <1>a, ResetIs DEF HeldInv, Flags
  <1>5. CASE GetZcolor \/ PrintWithIfs \/ PrintWithoutIfs
    BY <1>5, <1>a, PrintIs DEF HeldInv, SameFlags, Flags
  <1>6. QED
    BY <1>1, <1>2, <1>3, <1>4, <1>5 DEF Commands

\* What a command that waited does then, and the start of a print.
LEMMA HeldOrder ==
  ASSUME IInv, HeldInv, Waits \/ Setup \/ Launch
  PROVE  HeldInv'
  <1> USE DEF IInv
  <1>1. CASE Waits
    <2>1. con'.pc = "idle" /\ work' = work /\ work.pc \notin {"line", "m400"}
      BY <1>1, WaitsAre DEF ControlInv, Running
    <2>2. CASE PauseDone
      BY <2>1, <2>2 DEF PauseDone, HeldInv
    <2>3. CASE ~sd'.file
      BY <2>1, <2>3 DEF HeldInv
    <2>4. QED
      <3>1. CASE CancelDone \/ ResetDone
        BY <2>3, <3>1, WaitsAre DEF Waits, Flags, CancelDone, ResetDone
      <3>2. QED
        BY <1>1, <2>2, <3>1 DEF Waits
  <1>2. CASE Setup
    BY <1>2, SetupIs DEF HeldInv, SameFlags, Flags
  <1>3. CASE Launch
    <2>1. con.pc = "launch" /\ con'.pc = "idle" /\ pr' = pr
      BY <1>3, LaunchIs
    <2>2. CASE UNCHANGED <<sd, work>>
      BY <2>1, <2>2 DEF HeldInv
    <2>3. CASE Flags(TRUE, FALSE, TRUE, 0) /\ At("start", 0, 0)
      BY <2>1, <2>3 DEF HeldInv, Flags, At
    <2>4. QED
      BY <1>3, <2>2, <2>3, LaunchIs
  <1>4. QED
    BY <1>1, <1>2, <1>3

\* A line that ends without a pause.
LEMMA HeldLine ==
  ASSUME HeldInv, NEW s \in Sds, AfterLine(s), s.file = sd.file, s.must = sd.must,
         UNCHANGED <<pr, con>>
  PROVE  HeldInv'
  <1>1. /\ sd'.file = sd.file /\ sd'.must = sd.must
        /\ \/ sd.must /\ work'.pc = "off"
           \/ ~sd.must /\ work'.pc = "loop"
    BY DEF AfterLine
  <1>2. QED
    BY <1>1, HeldSame

\* The work handler.
LEMMA HeldWorker ==
  ASSUME IInv, HeldInv, Worker
  PROVE  HeldInv'
  <1> USE DEF IInv
  <1>1. CASE WorkStart
    BY <1>1, WorkStartIs, HeldSame DEF Flags, At
  <1>2. CASE WorkExit
    <2>1. CASE sd.must /\ Flags(FALSE, sd.must, sd.file, sd.pos)
      BY <1>2, <2>1, WorkExitIs, HeldSame DEF Flags, At
    <2>2. CASE Flags(FALSE, sd.must, FALSE, sd.pos)
      BY <1>2, <2>2, WorkExitIs, HeldSame DEF Flags, At
    <2>3. QED
      BY <1>2, <2>1, <2>2, WorkExitIs
  <1>3. CASE DispatchLine \/ DispatchTool
    BY <1>3, DispatchIs, HeldSame DEF SameFlags, Flags, At
  <1>4. CASE SameTool
    BY <1>4, SameToolIs, HeldSame DEF Flags, At
  <1>5. CASE M400Done
    BY <1>5, M400DoneIs, HeldSame DEF SameFlags, Flags, At
  <1>6. CASE BeginChange
    <2>1. work.idx < Len(job.lines)
      BY <1>6 DEF BeginChange, FileInv, PosInv, InLine
    <2>2. QED
      BY <1>6, <2>1, BeginChangeIs, HeldSame DEF At
  <1>7. CASE EndLine
    <2>1. work.pc = "line" /\ con' = con /\ con.pc = "idle" /\ ~sd.must /\ sd.timer = TRUE
      BY <1>7, EndLineIs DEF HeldInv, ControlInv, Running
    <2>2. PICK s \in Sds :
            \/ AfterLine(s) /\ s.file = sd.file /\ s.must = sd.must
            \/ /\ AfterLine(s) /\ s.file = sd.file /\ Line1.kind = "pause" /\ ~pr.paused /\ ~pr.sent
               /\ pr'.paused
      BY <1>7, EndLineIs DEF EndsLine
    <2>3. CASE AfterLine(s) /\ s.file = sd.file /\ s.must = sd.must
      <3>1. sd'.must = sd.must /\ work'.pc = "loop"
        BY <2>1, <2>3 DEF AfterLine
      <3>2. QED
        BY <2>1, <3>1 DEF HeldInv
    <2>4. CASE /\ AfterLine(s) /\ s.file = sd.file /\ Line1.kind = "pause" /\ ~pr.paused /\ ~pr.sent
               /\ pr'.paused
      <3>1. pr' = PauseFlags
        BY <1>7, <2>4 DEF EndLine
      <3>2. pr'.sd = TRUE
        BY <2>1, <2>4, <3>1 DEF PauseFlags
      <3>3. work'.pc \in {"off", "loop"}
        BY <2>4 DEF AfterLine
      <3>4. QED
        BY <2>1, <2>4, <3>2, <3>3 DEF HeldInv
    <2>5. QED
      BY <2>2, <2>3, <2>4
  <1>8. CASE RefuelEnd
    BY <1>8, RefuelEndIs, HeldLine
  <1>9. QED
    BY <1>1, <1>2, <1>3, <1>4, <1>5, <1>6, <1>7, <1>8 DEF Worker

\* The change of filament.
LEMMA HeldChange ==
  ASSUME IInv, HeldInv, CalmChange
  PROVE  HeldInv'
  <1> USE DEF IInv
  <1>1. ASSUME NEW s \in Sds, Ends(s), s.file = sd.file, s.must = sd.must, pr' = pr
        PROVE  HeldInv'
    <2>1. Released(s) \in Sds /\ Released(s).file = sd.file /\ Released(s).must = sd.must
      BY <1>1, ReleasedIs
    <2>2. CASE con' = con /\ AfterLine(Released(s))
      BY <1>1, <2>1, <2>2, HeldLine
    <2>3. CASE con' = con /\ sd' = s /\ work'.pc = "refuel"
      BY <1>1, <2>3, HeldSame
    <2>4. CASE /\ con.pc = "changing" /\ con'.pc = "launch" /\ work' = work
               /\ sd'.file = sd.file /\ sd'.must = sd.must
      BY <1>1, <2>4 DEF HeldInv
    <2>5. QED
      BY <1>1, <2>2, <2>3, <2>4 DEF Ends
  <1>2. CASE Ignore
    BY <1>1, <1>2, EndChangeIs DEF Ignore, TypeInv
  <1>3. CASE EndMacro
    BY <1>1, <1>3, EndMacroIs
  <1>4. CASE Compare \/ Remove \/ Feed \/ Record \/ SetCurrent
    BY <1>4, MiddleIs DEF HeldInv, SameFlags, Flags
  <1>5. QED
    BY <1>2, <1>3, <1>4 DEF CalmChange

\* Every step.
LEMMA HeldStep ==
  ASSUME IInv, HeldInv, CalmNext
  PROVE  HeldInv'
  <1> USE DEF IInv
  <1>1. CASE Commands
    BY <1>1, HeldCommand
  <1>2. CASE Waits \/ Setup \/ Launch
    BY <1>2, HeldOrder
  <1>3. CASE Worker
    BY <1>3, HeldWorker
  <1>4. CASE CalmChange
    BY <1>4, HeldChange
  <1>5. CASE IfsUp \/ RunCallback
    BY <1>5, TypeReader DEF HeldInv, SameFlags, Flags
  <1>6. QED
    BY <1>1, <1>2, <1>3, <1>4, <1>5 DEF CalmNext

----------------------------------------------------------------------------
(* Who speaks of the feeder has it.                                        *)

\* The steps in the middle of a change, when the feeder answers and none of them fails.
LEMMA MiddleFeeder ==
  ASSUME TypeInv, ControlInv, FeederInv, ChangeInv, Untroubled',
         Compare \/ Remove \/ Feed \/ Record \/ SetCurrent
  PROVE  /\ feeder.ifs /\ feeder'.ifs = feeder.ifs /\ feeder'.calls = feeder.calls
         /\ feeder'.color = feeder.color /\ feeder'.map = feeder.map
         /\ sd.ffm => sd'.ffm
         /\ \/ /\ chg.step = "begin" /\ feeder'.spool = feeder.spool /\ feeder'.chan = feeder.chan
               /\ \/ chg'.step = "same" /\ Wanted = feeder.chan /\ feeder.spool # 0
                  \/ chg'.step = "remove"
            \/ /\ chg.step = "remove" /\ feeder'.spool = 0 /\ chg'.step = "feed"
            \/ /\ chg.step = "feed" /\ feeder'.spool = Wanted /\ chg'.step = "record"
            \/ /\ chg.step = "record" /\ feeder'.spool = feeder.spool /\ feeder'.chan = Wanted
               /\ chg'.step = "current"
            \/ /\ chg.step = "current" /\ feeder'.spool = feeder.spool
               /\ feeder'.chan = feeder.chan /\ chg'.step = "end"
  <1>1. chg.step # "none" /\ feeder.ifs
    BY DEF FeederInv, Compare, Remove, Feed, Record, SetCurrent
  <1>2. chg \in Changes /\ feeder \in Feeders /\ sd \in Sds
    BY DEF TypeInv
  <1>3. CASE Compare
    <2>1. CASE Wanted = feeder.chan /\ feeder.spool # 0
      BY <1>1, <1>2, <1>3, <2>1 DEF Compare, Step, Changes
    <2>2. CASE ~(Wanted = feeder.chan /\ feeder.spool # 0)
      BY <1>1, <1>2, <1>3, <2>2 DEF Compare, Step, Changes
    <2>3. QED
      BY <2>1, <2>2
  <1>4. CASE Remove
    BY <1>1, <1>2, <1>4 DEF Remove, Step, Changes, Feeders
  <1>5. CASE Feed
    <2>1. ~Fails
      BY Counts
    <2>2. feeder.spool = 0
      BY <1>5 DEF Feed, ChangeInv
    <2>3. feeder' = [feeder EXCEPT !.spool = Wanted]
      BY <1>1, <1>5, <2>1, <2>2 DEF Feed
    <2>4. QED
      BY <1>1, <1>2, <1>5, <2>3 DEF Feed, Step, Changes, Feeders
  <1>6. CASE Record
    BY <1>1, <1>2, <1>6 DEF Record, RecordSlot, Step, Changes, Feeders
  <1>7. CASE SetCurrent
    <2>1. sd' = [SetChannel(sd, CurrentTool) EXCEPT !.ffm = TRUE]
      BY <1>1, <1>7 DEF SetCurrent
    <2>2. sd'.ffm
      BY <1>2, <2>1, CurrentToolIs, ChosenIs
    <2>3. QED
      BY <1>1, <1>2, <1>7, <2>2 DEF SetCurrent, Step, Changes
  <1>8. QED
    BY <1>3, <1>4, <1>5, <1>6, <1>7

\* A step that loses no feeder, and speaks of it only where it is there.
LEMMA FeederSame ==
  ASSUME FeederInv, feeder'.ifs = feeder.ifs, feeder'.calls = feeder.calls,
         sd'.ffm => sd.ffm \/ feeder.ifs,
         chg'.step # "none" => chg.step # "none" \/ feeder.ifs,
         work'.pc \in {"m400", "gap"} => work.pc \in {"m400", "gap"} \/ feeder.ifs,
         job'.mode = "ifs" \/ (Ordering' /\ con'.mode = "ifs") => feeder.ifs /\ feeder'.color
  PROVE  FeederInv'
  BY DEF FeederInv

\* Every step.
LEMMA FeederStep ==
  ASSUME IInv, CalmInv, Untroubled', CalmNext
  PROVE  FeederInv'
  <1> USE DEF IInv, CalmInv
  <1>1. CASE Commands
    <2>1. CASE Pause
      BY <2>1, PauseIs, FeederSame DEF Tools, SameTools, FeederInv, Ordering
    <2>2. CASE Resume
      BY <2>2, ResumeIs, FeederSame DEF Tools, SameTools, FeederInv, Ordering, At
    <2>3. CASE Cancel
      BY <2>3, CancelIs, FeederSame DEF FeederInv, Ordering
    <2>4. CASE Reset
      BY <2>4, ResetIs, FeederSame DEF Tools, SameTools, FeederInv, Ordering
    <2>5. CASE GetZcolor \/ PrintWithIfs \/ PrintWithoutIfs
      BY <2>5, PrintIs, FeederSame DEF FeederInv, Ordering
    <2>6. QED
      BY <1>1, <2>1, <2>2, <2>3, <2>4, <2>5 DEF Commands
  <1>2. CASE Waits
    BY <1>2, WaitsAre, FeederSame DEF Tools, SameTools, FeederInv, Ordering
  <1>3. CASE Setup
    BY <1>3, SetupIs, FeederSame DEF Tools, SameTools, FeederInv, Ordering
  <1>4. CASE Launch
    BY <1>4, LaunchIs, FeederSame DEF Tools, SameTools, FeederInv, Ordering, At
  <1>a. ASSUME NEW s \in Sds, AfterLine(s), s.ffm => sd.ffm \/ feeder.ifs,
               feeder' = feeder, con' = con, chg' = chg \/ chg' = NoChange
        PROVE  FeederInv'
    <2>1. NoChange.step = "none"
      BY DEF NoChange
    <2>2. /\ sd'.ffm = s.ffm /\ job'.mode = job.mode
          /\ work'.pc \notin {"m400", "gap"}
      BY <1>a DEF AfterLine
    <2>3. QED
      BY <1>a, <2>1, <2>2, FeederSame DEF FeederInv, Ordering
  <1>5. CASE Worker
    <2>1. CASE WorkStart
      BY <2>1, WorkStartIs, FeederSame DEF Tools, SameTools, FeederInv, Ordering, At
    <2>2. CASE WorkExit
      BY <2>2, WorkExitIs, FeederSame DEF Tools, SameTools, FeederInv, Ordering, At
    <2>3. CASE DispatchLine \/ DispatchTool
      BY <2>3, DispatchIs, FeederSame DEF FeederInv, Ordering, At
    <2>4. CASE SameTool
      BY <2>4, SameToolIs, FeederSame DEF FeederInv, Ordering, At
    <2>5. CASE M400Done
      BY <2>5, M400DoneIs, FeederSame DEF Tools, SameTools, FeederInv, Ordering, At
    <2>6. CASE BeginChange
      <3>1. work.idx < Len(job.lines)
        BY <2>6 DEF BeginChange, FileInv, PosInv, InLine
      <3>2. QED
        BY <2>6, <3>1, BeginChangeIs, FeederSame DEF FeederInv, Ordering, At
    <2>7. CASE EndLine
      <3>1. PICK s \in Sds : AfterLine(s) /\ (s.ffm => sd.ffm)
        BY <2>7, EndLineIs DEF EndsLine
      <3>2. QED
        BY <1>a, <2>7, <3>1, EndLineIs
    <2>8. CASE RefuelEnd
      <3>1. Released(sd) \in Sds /\ Released(sd).ffm = sd.ffm
        BY ReleasedIs DEF TypeInv
      <3>2. QED
        BY <1>a, <2>8, <3>1, RefuelEndIs
    <2>9. QED
      BY <1>5, <2>1, <2>2, <2>3, <2>4, <2>5, <2>6, <2>7, <2>8 DEF Worker
  <1>b. ASSUME NEW s \in Sds, Ends(s), chg.step # "none", feeder' = feeder PROVE FeederInv'
    <2>1. feeder.ifs /\ Released(s) \in Sds
      BY <1>b, ReleasedIs DEF FeederInv
    <2>2. CASE con' = con /\ AfterLine(Released(s))
      BY <1>a, <1>b, <2>1, <2>2 DEF Ends
    <2>3. CASE con' = con /\ work'.pc = "refuel" /\ job' = job
      BY <1>b, <2>1, <2>3, FeederSame DEF FeederInv, Ordering
    <2>4. CASE con.pc = "changing" /\ con'.mode = con.mode /\ work' = work /\ job' = job
      BY <1>b, <2>1, <2>4, FeederSame DEF FeederInv, Ordering
    <2>5. QED
      BY <1>b, <2>2, <2>3, <2>4 DEF Ends
  <1>6. CASE CalmChange
    <2>1. CASE Ignore
      BY <1>b, <2>1, EndChangeIs DEF Ignore, TypeInv
    <2>2. CASE EndMacro
      BY <1>b, <2>2, EndMacroIs
    <2>3. CASE Compare \/ Remove \/ Feed \/ Record \/ SetCurrent
      BY <2>3, MiddleIs, MiddleFeeder, FeederSame DEF FeederInv, Ordering
    <2>4. QED
      BY <1>6, <2>1, <2>2, <2>3 DEF CalmChange
  <1>7. CASE IfsUp
    <2> DEFINE calls == Append(feeder.calls, TRUE)
    <2>1. /\ feeder.calls \in Seq(BOOLEAN) /\ calls \in Seq(BOOLEAN)
          /\ Len(calls) = Len(feeder.calls) + 1 /\ Len(feeder.calls) \in Nat
          /\ \A i \in 1..Len(feeder.calls) : calls[i] = feeder.calls[i]
          /\ calls[Len(feeder.calls) + 1] = TRUE
      BY AppendProperties, LenProperties DEF TypeInv, Feeders
    <2>2. feeder' = [feeder EXCEPT !.ifs = TRUE, !.calls = calls]
      BY <1>7 DEF IfsUp
    <2> HIDE DEF calls
    <2>3. feeder'.ifs /\ feeder'.calls = calls /\ feeder'.color = feeder.color
      BY <2>2 DEF TypeInv, Feeders
    <2>4. \A i \in 1..Len(calls) : calls[i]
      BY <2>1 DEF FeederInv
    <2>5. UNCHANGED <<con, job>> /\ ~feeder.ifs
      BY <1>7 DEF IfsUp
    <2>6. QED
      BY <2>3, <2>4, <2>5 DEF FeederInv, Ordering
  <1>8. CASE RunCallback
    <2> DEFINE calls == Tail(feeder.calls)
    <2>1. /\ feeder.calls \in Seq(BOOLEAN) /\ feeder.calls # <<>> /\ calls \in Seq(BOOLEAN)
          /\ Len(calls) = Len(feeder.calls) - 1 /\ Len(feeder.calls) \in Nat
          /\ \A i \in 1..Len(calls) : calls[i] = feeder.calls[i + 1]
      BY <1>8, HeadTailProperties, LenProperties DEF TypeInv, Feeders, RunCallback
    <2>2. feeder' = [feeder EXCEPT !.calls = calls]
      BY <1>8 DEF RunCallback
    <2> HIDE DEF calls
    <2>3. feeder'.ifs = feeder.ifs /\ feeder'.calls = calls /\ feeder'.color = feeder.color
      BY <2>2 DEF TypeInv, Feeders
    <2>4. feeder.ifs /\ \A i \in 1..Len(calls) : calls[i]
      BY <2>1 DEF FeederInv
    <2>5. UNCHANGED <<con, job>>
      BY <1>8 DEF RunCallback
    <2>6. QED
      BY <2>3, <2>4, <2>5 DEF FeederInv, Ordering
  <1>9. QED
    BY <1>1, <1>2, <1>3, <1>4, <1>5, <1>6, <1>7, <1>8 DEF CalmNext
----------------------------------------------------------------------------
(* What a change has done.                                                 *)

\* A step that leaves the feeder, the change and the line it is for alone.
LEMMA ChangeSame ==
  ASSUME ChangeInv, chg' = chg,
         UNCHANGED <<feeder.spool, feeder.chan>>, feeder'.map = feeder.map \/ chg.step = "none",
         con'.pc = "changing" => con.pc = "changing" /\ con'.body = con.body,
         work'.pc \in {"m400", "gap", "change"} =>
           /\ work.pc \in {"m400", "gap", "change"} /\ (work'.pc = "change" => work.pc = "change")
           /\ work'.idx = work.idx /\ UNCHANGED <<job.asked, job.lines>>
  PROVE  ChangeInv'
  <1>1. work'.pc \in {"m400", "gap", "change"} => Line1' = Line1
    BY DEF Line1
  <1>2. chg.step = "none" \/ Wanted' = Wanted
    BY DEF Wanted
  <1>3. QED
    BY <1>1, <1>2 DEF ChangeInv

\* The end of a change.
LEMMA ChangeEnds ==
  ASSUME IInv, ChangeInv, NEW s \in Sds, Ends(s), feeder' = feeder,
         chg.step \in {"begin", "same", "end"}
  PROVE  ChangeInv'
  <1> USE DEF IInv
  <1>1. chg'.step = "none"
    BY DEF Ends, NoChange
  <1>2. feeder.spool = 0 \/ feeder.spool = feeder.chan
    BY DEF ChangeInv
  <1>3. /\ con'.pc # "changing" /\ work'.pc # "change"
        /\ work'.pc \in {"m400", "gap"} => work' = work /\ job' = job
    BY DEF Ends, AfterLine, ControlInv, Running
  <1>4. work'.pc \in {"m400", "gap"} => job'.asked = Line1'.tool
    BY <1>3 DEF ChangeInv, Line1
  <1>5. QED
    BY <1>1, <1>2, <1>3, <1>4 DEF ChangeInv

\* Every step.
LEMMA ChangeStep ==
  ASSUME IInv, CalmInv, Untroubled', CalmNext
  PROVE  ChangeInv'
  <1> USE DEF IInv, CalmInv
  <1>1. CASE Commands
    <2>1. CASE Pause
      BY <2>1, PauseIs, ChangeSame
    <2>2. CASE Resume
      BY <2>2, ResumeIs, ChangeSame DEF At
    <2>3. CASE Cancel
      BY <2>3, CancelIs, ChangeSame
    <2>4. CASE Reset
      BY <2>4, ResetIs, ChangeSame
    <2>5. CASE GetZcolor \/ PrintWithIfs \/ PrintWithoutIfs
      <3>1. chg.step = "none"
        BY <2>5, PrintIs DEF ControlInv, Running
      <3>2. QED
        BY <2>5, <3>1, PrintIs, ChangeSame
    <2>6. QED
      BY <1>1, <2>1, <2>2, <2>3, <2>4, <2>5 DEF Commands
  <1>2. CASE Waits
    BY <1>2, WaitsAre, ChangeSame
  <1>3. CASE Setup
    <2>1. CASE chg' = chg /\ con'.pc = "launch"
      BY <1>3, <2>1, SetupIs, ChangeSame
    <2>2. CASE /\ chg'.step = "begin" /\ chg'.tool = FirstTool(con.body)
               /\ con'.pc = "changing" /\ con'.body = con.body
      <3>1. chg.step = "none" /\ work.pc # "change"
        BY <1>3, SetupIs DEF ControlInv, Running
      <3>2. UNCHANGED <<work, job, feeder>>
        BY <1>3, SetupIs
      <3>3. Line1' = Line1
        BY <3>2 DEF Line1
      <3>4. QED
        BY <2>2, <3>1, <3>2, <3>3 DEF ChangeInv
    <2>3. QED
      BY <1>3, <2>1, <2>2, SetupIs
  <1>4. CASE Launch
    <2>1. con'.pc = "idle" /\ chg' = chg /\ feeder' = feeder
      BY <1>4, LaunchIs
    <2>2. CASE UNCHANGED <<work, job>>
      BY <2>1, <2>2, ChangeSame
    <2>3. CASE work'.pc = "start"
      BY <2>1, <2>3, ChangeSame
    <2>4. QED
      BY <1>4, <2>2, <2>3, LaunchIs DEF At
  <1>5. CASE Worker
    <2>1. CASE WorkStart
      BY <2>1, WorkStartIs, ChangeSame DEF At
    <2>2. CASE WorkExit
      BY <2>2, WorkExitIs, ChangeSame DEF At
    <2>3. CASE DispatchLine \/ DispatchTool
      <3>1. chg.step = "none" /\ work'.idx = work.idx /\ job'.lines = job.lines
        BY <2>3, DispatchIs DEF ControlInv, At
      <3>2. Line1' = Line1
        BY <3>1 DEF Line1
      <3>3. UNCHANGED <<chg, con, feeder>> /\ con.pc = "idle"
        BY <2>3, DispatchIs
      <3>4. CASE work'.pc = "line"
        BY <3>3, <3>4, ChangeSame
      <3>5. CASE work'.pc = "m400" /\ job'.asked = Line1.tool
        BY <3>1, <3>2, <3>3, <3>5 DEF ChangeInv
      <3>6. QED
        BY <2>3, <3>4, <3>5, DispatchIs DEF At
    <2>4. CASE SameTool
      BY <2>4, SameToolIs, ChangeSame DEF At
    <2>5. CASE M400Done
      BY <2>5, M400DoneIs, ChangeSame DEF At
    <2>6. CASE BeginChange
      <3>1. work.idx < Len(job.lines)
        BY <2>6 DEF BeginChange, FileInv, PosInv, InLine
      <3>2. /\ work.pc = "gap" /\ con.pc = "idle" /\ UNCHANGED <<con, feeder, job>>
            /\ work'.pc = "change" /\ work'.idx = work.idx
            /\ chg'.step = "begin" /\ chg'.tool = Line1.tool
        BY <2>6, <3>1, BeginChangeIs DEF At
      <3>3. Line1' = Line1 /\ chg.step = "none"
        BY <3>2 DEF Line1, ControlInv
      <3>4. QED
        BY <3>2, <3>3 DEF ChangeInv
    <2>7. CASE EndLine
      <3>1. work'.pc \in {"off", "loop"}
        BY <2>7, EndLineIs DEF EndsLine, AfterLine
      <3>2. QED
        BY <2>7, <3>1, EndLineIs, ChangeSame
    <2>8. CASE RefuelEnd
      <3>1. work'.pc \in {"off", "loop"}
        BY <2>8, RefuelEndIs DEF AfterLine
      <3>2. QED
        BY <2>8, <3>1, RefuelEndIs, ChangeSame
    <2>9. QED
      BY <1>5, <2>1, <2>2, <2>3, <2>4, <2>5, <2>6, <2>7, <2>8 DEF Worker
  <1>6. CASE CalmChange
    <2>1. CASE Ignore
      BY <2>1, EndChangeIs, ChangeEnds DEF Ignore, TypeInv
    <2>2. CASE EndMacro
      BY <2>2, EndMacroIs, ChangeEnds
    <2>3. CASE Compare \/ Remove \/ Feed \/ Record \/ SetCurrent
      <3>1. UNCHANGED <<work, con, job>> /\ chg'.tool = chg.tool /\ feeder'.map = feeder.map
        BY <2>3, MiddleIs, MiddleFeeder
      <3>2. Line1' = Line1 /\ Wanted' = Wanted
        BY <3>1 DEF Line1, Wanted
      <3>3. Wanted \in 1..4
        BY WantedType
      <3>4. /\ chg'.step \in {"none", "begin", "remove"}
                => feeder'.spool = 0 \/ feeder'.spool = feeder'.chan
            /\ chg'.step = "feed" => feeder'.spool = 0
            /\ chg'.step = "record" => feeder'.spool = Wanted
            /\ chg'.step \in {"same", "current", "end"}
                => feeder'.spool = Wanted /\ feeder'.chan = Wanted
        BY <2>3, MiddleFeeder DEF ChangeInv
      <3>5. QED
        BY <3>1, <3>2, <3>4 DEF ChangeInv
    <2>4. QED
      BY <1>6, <2>1, <2>2, <2>3 DEF CalmChange
  <1>7. CASE IfsUp
    <2>1. UNCHANGED <<con, chg, work, job, feeder.spool, feeder.chan, feeder.map>>
      BY <1>7 DEF IfsUp, TypeInv, Feeders
    <2>2. QED
      BY <2>1, ChangeSame
  <1>8. CASE RunCallback
    <2> DEFINE calls == Tail(feeder.calls)
    <2>1. feeder' = [feeder EXCEPT !.calls = calls] /\ UNCHANGED <<con, chg, work, job>>
      BY <1>8 DEF RunCallback
    <2> HIDE DEF calls
    <2>2. UNCHANGED <<feeder.spool, feeder.chan, feeder.map>>
      BY <2>1 DEF TypeInv, Feeders
    <2>3. QED
      BY <2>1, <2>2, ChangeSame
  <1>9. QED
    BY <1>1, <1>2, <1>3, <1>4, <1>5, <1>6, <1>7, <1>8 DEF CalmNext
----------------------------------------------------------------------------
(* A print with the feeder is ready.                                       *)

\* A step that reads on only where it could, and keeps what is loaded.
LEMMA ReadySame ==
  ASSUME ReadyInv, UNCHANGED <<feeder.spool, feeder.chan, feeder.map>>,
         UNCHANGED <<sd.load, sd.print>>, sd.ffm => sd'.ffm,
         job'.mode = job.mode, job'.asked = job.asked,
         con'.pc = "launch" => con' = con \/ con'.mode # "ifs",
         con'.pc \in {"idle", "pause"} /\ job.mode = "ifs" =>
           /\ con.pc \in {"idle", "pause"}
           /\ (Reading' => Reading) /\ (Switching' => Reading \/ Switching),
         work'.pc = "refuel" => work.pc = "refuel"
  PROVE  ReadyInv'
  <1>1. ASSUME con'.pc = "launch", con'.mode = "ifs"
        PROVE  Ready(FirstTool(con.body))' /\ sd'.print = FirstTool(con.body)'
    <2>1. con' = con /\ FirstTool(con.body)' = FirstTool(con.body)
      BY <1>1
    <2>2. Ready(FirstTool(con.body)) /\ sd.print = FirstTool(con.body)
      BY <1>1, <2>1 DEF ReadyInv
    <2>3. QED
      BY <2>1, <2>2 DEF Ready
  <1>2. ASSUME job'.mode = "ifs", con'.pc \in {"idle", "pause"}
        PROVE  (Reading' => Ready(job.asked)') /\ (Switching' => sd'.ffm)
    BY <1>2 DEF ReadyInv, Ready
  <1>3. QED
    BY <1>1, <1>2 DEF ReadyInv

\* The commands.
LEMMA ReadyCommand ==
  ASSUME IInv, CalmInv, Commands
  PROVE  ReadyInv'
  <1> USE DEF IInv, CalmInv
  <1>a. work.pc # "line"
    <2>1. Console
      BY DEF Commands, Pause, Resume, Cancel, Reset, GetZcolor, PrintWithIfs, PrintWithoutIfs
    <2>2. QED
      BY <2>1 DEF Console, Running
  <1>1. CASE Pause
    BY <1>1, PauseIs, ReadySame
       DEF Tools, SameTools, Flags, SameFlags, Reading, Switching
  <1>2. CASE Resume
    <2>1. work'.pc = "start" => (Reading' => Reading) \/ sd.timer
      BY <1>2, ResumeIs DEF ControlInv, Flags, At, Reading
    <2>2. CASE ~sd.timer /\ Flags(TRUE, FALSE, sd.file, sd.pos) /\ At("start", 0, 0)
      BY <1>2, <2>1, <2>2, ResumeIs, ReadySame DEF Tools, SameTools, Switching, At
    <2>3. CASE UNCHANGED <<sd, work>>
      BY <1>2, <2>3, ResumeIs, ReadySame DEF Switching, Reading
    <2>4. QED
      BY <1>2, <2>2, <2>3, ResumeIs
  <1>b. ASSUME con'.pc \in {"cancel", "reset"} \/ (con'.pc = "idle" /\ ~sd'.file),
               work' = work, job' = job
        PROVE  ReadyInv'
    <2>1. ~sd'.file => ~Reading' /\ ~Switching'
      BY <1>a, <1>b DEF Reading, Switching
    <2>2. QED
      BY <1>b, <2>1 DEF ReadyInv
  <1>3. CASE Cancel
    <2>1. /\ UNCHANGED <<work, job>>
          /\ \/ con'.pc = "cancel"
             \/ con'.pc = "idle" /\ (sd'.file => sd.file)
      BY <1>3, CancelIs DEF Flags
    <2>2. CASE con'.pc = "cancel"
      BY <1>b, <2>1, <2>2
    <2>3. CASE con'.pc = "idle" /\ sd'.file
      <3>1. sd.file /\ ~(sd.timer \/ pr.sd) /\ con.pc = "idle"
        <4>1. con'.pc # "cancel" /\ sd.file /\ con.pc = "idle"
          BY <1>3, <2>1, <2>3, CancelIs
        <4>2. sd.timer \/ pr.sd => sd' = DoCancel([sd EXCEPT !.ffm = FALSE])
                                   \/ con' = [con EXCEPT !.pc = "cancel"]
          BY <1>3, <4>1 DEF Cancel
        <4>3. ~DoCancel([sd EXCEPT !.ffm = FALSE]).file
          BY SwitchedIs, CancelledIs DEF TypeInv
        <4>4. [con EXCEPT !.pc = "cancel"].pc = "cancel"
          BY DEF TypeInv, Orders
        <4>5. QED
          BY <2>3, <4>1, <4>2, <4>3, <4>4
      <3>2. QED
        BY <3>1 DEF HeldInv, ControlInv
    <2>4. QED
      BY <1>b, <2>1, <2>2, <2>3
  <1>4. CASE Reset
    BY <1>4, <1>b, ResetIs DEF Flags
  <1>5. CASE GetZcolor \/ PrintWithIfs \/ PrintWithoutIfs
    <2>1. CASE con' = con /\ sd' = sd /\ feeder'.map = feeder.map
      BY <1>5, <2>1, PrintIs, ReadySame DEF Reading, Switching
    <2>2. CASE con'.pc = "setup" \/ (con'.pc = "launch" /\ con'.mode = "plain")
      BY <1>5, <2>2, PrintIs DEF ReadyInv
    <2>3. QED
      BY <1>5, <2>1, <2>2, PrintIs
  <1>6. QED
    BY <1>1, <1>2, <1>3, <1>4, <1>5 DEF Commands

\* What a command that waited does then, and the start of a print.
LEMMA ReadyOrder ==
  ASSUME IInv, CalmInv, Untroubled', Waits \/ Setup \/ Launch
  PROVE  ReadyInv'
  <1> USE DEF IInv, CalmInv
  <1>1. CASE Waits
    <2>1. /\ con'.pc = "idle" /\ UNCHANGED <<work, feeder, job>> /\ work.pc # "line"
          /\ con.pc = "pause" \/ ~sd'.file
      BY <1>1, WaitsAre DEF ControlInv, Running, Flags
    <2>2. CASE con.pc = "pause"
      BY <1>1, <2>1, <2>2, WaitsAre, ReadySame
         DEF Tools, SameTools, Flags, SameFlags, Reading, Switching
    <2>3. CASE ~sd'.file
      <3>1. ~Reading' /\ ~Switching'
        BY <2>1, <2>3 DEF Reading, Switching
      <3>2. QED
        BY <2>1, <3>1 DEF ReadyInv
    <2>4. QED
      BY <2>1, <2>2, <2>3
  <1>2. CASE Setup
    <2>1. /\ con.pc = "setup" /\ con'.body = con.body /\ con'.mode = con.mode
          /\ UNCHANGED <<work, feeder, job>> /\ con'.pc \in {"launch", "changing"}
      BY <1>2, SetupIs
    <2>2. ASSUME con'.pc = "launch", con'.mode = "ifs"
          PROVE  Ready(FirstTool(con.body))' /\ sd'.print = FirstTool(con.body)'
      <3> DEFINE first == FirstTool(con.body)
      <3>1. first' = first
        BY <2>1
      <3>2. CurrentTool = first /\ sd'.ffm /\ sd'.load = first /\ sd'.print = first
        BY <1>2, <2>1, <2>2, SetupIs DEF FeederInv, Ordering, Tools
      <3>3. first \in 0..3
        <4>1. con.body \in Files
          BY BodiesAreFiles DEF TypeInv
        <4>2. QED
          BY <4>1, FirstToolType
      <3>4. feeder.spool # 0 /\ feeder.map[first + 1] = feeder.chan
        BY <3>2, <3>3, CurrentToolIs DEF TypeInv
      <3>5. chg.step = "none"
        BY <2>1 DEF ControlInv, Running
      <3>6. feeder.spool = feeder.chan
        BY <3>4, <3>5 DEF ChangeInv
      <3> HIDE DEF first
      <3>7. Ready(first)' /\ sd'.print = first'
        BY <2>1, <3>1, <3>2, <3>4, <3>6 DEF Ready
      <3>8. QED
        BY <3>7 DEF first
    <2>3. QED
      BY <2>1, <2>2 DEF ReadyInv
  <1>3. CASE Launch
    <2>1. ~ghost'.busy
      BY DEF Untroubled
    <2>2. /\ con.pc = "launch" /\ con'.pc = "idle" /\ feeder' = feeder /\ work'.pc = "start"
          /\ sd'.load = sd.load /\ sd'.ffm = sd.ffm
          /\ job'.mode = con.mode /\ job'.asked = FirstTool(con.body)
      BY <1>3, <2>1, LaunchIs DEF At, Tools, SameTools
    <2>3. job'.mode = "ifs" => Ready(job.asked)'
      BY <2>2 DEF ReadyInv, Ready
    <2>4. QED
      BY <2>2, <2>3 DEF ReadyInv, Switching
  <1>4. QED
    BY <1>1, <1>2, <1>3

\* The work handler.
LEMMA ReadyWorker ==
  ASSUME IInv, OpenInv, CalmInv, Worker
  PROVE  ReadyInv'
  <1> USE DEF IInv, CalmInv
  <1>1. CASE WorkStart
    BY <1>1, WorkStartIs, ReadySame DEF Tools, SameTools, Flags, At, Reading, Switching
  <1>2. CASE WorkExit
    <2>1. sd.file => sd.pos = work.idx
      BY <1>2, WorkExitIs DEF FileInv, RunsInv
    <2>2. QED
      BY <1>2, <2>1, WorkExitIs, ReadySame DEF Tools, SameTools, Flags, At, Reading, Switching
  <1>3. CASE DispatchLine \/ DispatchTool
    <2>1. /\ work.pc = "loop" /\ con.pc = "idle" /\ work.idx < Len(job.lines) /\ sd.file
          /\ UNCHANGED <<con, feeder>> /\ sd'.load = sd.load /\ sd'.ffm = sd.ffm
          /\ job'.mode = job.mode /\ work'.pc \in {"line", "m400"}
      BY <1>3, DispatchIs DEF OpenInv, At
    <2>2. ASSUME job.mode = "ifs"
          PROVE  (Reading' => Ready(job.asked)') /\ (Switching' => sd'.ffm)
      <3>1. Ready(job.asked)
        BY <2>1, <2>2 DEF ReadyInv, Reading
      <3>2. work'.pc = "line" => job'.asked = job.asked
        BY <1>3, <3>1, DispatchIs DEF Ready, At
      <3>3. QED
        BY <2>1, <3>1, <3>2 DEF Ready, Reading
    <2>3. QED
      BY <2>1, <2>2 DEF ReadyInv
  <1>4. CASE SameTool
    <2>1. /\ work.pc = "loop" /\ con.pc = "idle" /\ work.idx < Len(job.lines)
          /\ UNCHANGED <<con, feeder>> /\ sd'.load = sd.load /\ sd'.ffm = sd.ffm
          /\ sd'.file = sd.file /\ job'.mode = job.mode /\ work'.pc = "loop"
          /\ job'.asked = sd.load
      BY <1>4, SameToolIs DEF At, Flags
    <2>2. ASSUME job.mode = "ifs", sd.file PROVE Ready(job.asked)'
      BY <2>1, <2>2 DEF ReadyInv, Reading, Ready
    <2>3. QED
      BY <2>1, <2>2 DEF ReadyInv, Reading, Switching
  <1>5. CASE M400Done
    BY <1>5, M400DoneIs, ReadySame DEF Tools, SameTools, Flags, SameFlags, At, Reading, Switching
  <1>6. CASE BeginChange
    <2>1. work.idx < Len(job.lines)
      BY <1>6 DEF BeginChange, FileInv, PosInv, InLine
    <2>2. QED
      BY <1>6, <2>1, BeginChangeIs, ReadySame DEF At, Reading, Switching
  <1>7. CASE EndLine
    <2>1. work.pc = "line" /\ UNCHANGED <<con, feeder>> /\ con.pc = "idle"
      BY <1>7, EndLineIs DEF ControlInv, Running
    <2>2. PICK s \in Sds :
            /\ AfterLine(s) /\ s.file = sd.file /\ s.load = sd.load /\ s.print = sd.print
            /\ \/ s.ffm = sd.ffm
               \/ Line1.kind = "end" /\ s.must = sd.must
      BY <1>7, EndLineIs DEF EndsLine
    <2>3. /\ UNCHANGED <<sd.load, sd.print>> /\ work'.pc \in {"off", "loop"}
          /\ job'.mode = job.mode /\ job'.asked = job.asked /\ job'.lines = job.lines
      BY <2>2 DEF AfterLine
    <2>4. CASE s.ffm = sd.ffm
      <3>1. sd'.ffm = sd.ffm
        BY <2>2, <2>4 DEF AfterLine
      <3>2. ~Switching' /\ Reading
        BY <2>1, <2>3 DEF Switching, Reading
      <3>3. QED
        BY <2>1, <2>3, <3>1, <3>2, ReadySame
    <2>5. CASE Line1.kind = "end" /\ s.must = sd.must
      <3>1. work.idx + 1 = Len(job.lines)
        <4>1. work.idx + 1 \in 1..Len(job.lines)
          BY <2>1, LineIs DEF FileInv, PosInv, InLine
        <4>2. QED
          BY <2>5, <4>1 DEF OpenInv, Line1
      <3>2. work'.pc = "loop" /\ work'.idx = work.idx + 1
        BY <2>1, <2>2, <2>5 DEF AfterLine, HeldInv
      <3>3. ~Switching' /\ ~Reading'
        BY <2>3, <3>1, <3>2, Numbers DEF Switching, Reading
      <3>4. QED
        BY <2>1, <2>3, <3>3 DEF ReadyInv
    <2>6. QED
      BY <2>2, <2>4, <2>5
  <1>8. CASE RefuelEnd
    <2>1. /\ work.pc = "refuel" /\ UNCHANGED <<con, feeder>> /\ job.mode # "ifs"
      BY <1>8, RefuelEndIs DEF ReadyInv
    <2>2. /\ Released(sd).load = sd.print /\ Released(sd).print = sd.print
          /\ Released(sd).ffm = sd.ffm /\ AfterLine(Released(sd))
      BY <1>8, RefuelEndIs, ReleasedIs DEF TypeInv
    <2>3. /\ sd'.load = sd.print /\ sd'.print = sd.print /\ sd'.ffm = sd.ffm
          /\ job'.mode = job.mode
      BY <2>2 DEF AfterLine
    <2>4. con.pc = "launch" /\ con.mode = "ifs" => UNCHANGED <<sd.load, sd.print>>
      BY <2>3 DEF ReadyInv, Ready
    <2>5. FirstTool(con.body)' = FirstTool(con.body)
      BY <2>1
    <2>6. con.pc = "launch" /\ con.mode = "ifs"
            => Ready(FirstTool(con.body))' /\ sd'.print = FirstTool(con.body)'
      BY <2>1, <2>3, <2>4, <2>5 DEF ReadyInv, Ready
    <2>7. QED
      BY <2>1, <2>3, <2>6 DEF ReadyInv
  <1>9. QED
    BY <1>1, <1>2, <1>3, <1>4, <1>5, <1>6, <1>7, <1>8 DEF Worker

\* The change of filament.
LEMMA ReadyChange ==
  ASSUME IInv, CalmInv, Untroubled', CalmChange
  PROVE  ReadyInv'
  <1> USE DEF IInv, CalmInv
  <1>1. /\ chg.step # "none"
        /\ (work.pc = "change" /\ con.pc = "idle") \/ con.pc = "changing"
    BY DEF CalmChange, Ignore, Compare, Remove, Feed, Record, SetCurrent, EndMacro,
           ControlInv, Running
  <1>2. CASE Ignore
    <2>1. ~feeder.color /\ feeder' = feeder /\ Ends(sd)
      BY <1>2, EndChangeIs DEF Ignore, TypeInv
    <2>2. job.mode # "ifs" /\ (con.pc = "changing" => con.mode # "ifs")
      BY <2>1 DEF FeederInv, Ordering
    <2>3. job'.mode = job.mode /\ (con'.pc = "launch" => con'.mode # "ifs")
      BY <1>1, <2>1, <2>2 DEF Ends, AfterLine
    <2>4. QED
      BY <2>2, <2>3 DEF ReadyInv
  <1>3. CASE EndMacro
    <2>1. chg.step \in {"same", "end"} /\ feeder' = feeder
      BY <1>3, EndMacroIs
    <2>2. PICK s \in Sds : /\ Ends(s) /\ s.file = sd.file /\ s.ffm = sd.ffm /\ ~s.change
                           /\ s.load = chg.tool /\ s.print = chg.tool
      BY <1>3, EndMacroIs
    <2>3. feeder.spool = feeder.map[chg.tool + 1] /\ feeder.chan = feeder.spool
      BY <2>1 DEF ChangeInv, Wanted
    <2>4. CASE /\ work.pc = "change" /\ con' = con /\ AfterLine(Released(s))
      <3>1. /\ Released(s).load = chg.tool /\ Released(s).ffm = sd.ffm
            /\ Released(s).file = sd.file
        BY <2>2, ReleasedIs
      <3>2. /\ sd'.load = chg.tool /\ sd'.ffm = sd.ffm /\ sd'.file = sd.file
            /\ work'.pc \in {"off", "loop"} /\ job'.mode = job.mode /\ job'.asked = job.asked
        BY <2>4, <3>1 DEF AfterLine
      <3>3. con.pc = "idle" /\ con'.pc = "idle" /\ chg.tool = job.asked
        BY <1>1, <2>4 DEF ControlInv, Running, ChangeInv
      <3>4. job.mode = "ifs" /\ sd.file => sd.ffm
        BY <2>4, <3>3 DEF ReadyInv, Switching
      <3>5. job.mode = "ifs" /\ sd.file => Ready(job.asked)'
        BY <2>1, <2>3, <3>2, <3>3, <3>4 DEF Ready
      <3>6. QED
        BY <3>2, <3>3, <3>5 DEF ReadyInv, Reading, Switching
    <2>5. CASE /\ con.pc = "changing" /\ con'.pc = "launch"
               /\ con'.body = con.body /\ con'.mode = con.mode
               /\ sd'.ffm /\ sd'.load = s.load /\ sd'.print = s.print
               /\ work' = work /\ job' = job
      <3>1. FirstTool(con.body)' = FirstTool(con.body) /\ chg.tool = FirstTool(con.body)
        BY <2>5 DEF ChangeInv
      <3>2. Ready(FirstTool(con.body))' /\ sd'.print = FirstTool(con.body)'
        BY <2>1, <2>2, <2>3, <2>5, <3>1 DEF Ready
      <3>3. QED
        BY <2>5, <3>2 DEF ReadyInv
    <2>6. QED
      BY <2>2, <2>4, <2>5 DEF Ends
  <1>4. CASE Compare \/ Remove \/ Feed \/ Record \/ SetCurrent
    <2>1. UNCHANGED <<work, con, job>> /\ sd'.file = sd.file /\ (sd.ffm => sd'.ffm)
      BY <1>4, MiddleIs, MiddleFeeder DEF SameFlags, Flags
    <2>2. CASE con.pc = "changing"
      BY <2>1, <2>2 DEF ReadyInv
    <2>3. CASE work.pc = "change" /\ con.pc = "idle"
      BY <2>1, <2>3 DEF ReadyInv, Reading, Switching
    <2>4. QED
      BY <1>1, <2>2, <2>3
  <1>5. QED
    BY <1>2, <1>3, <1>4 DEF CalmChange

\* Every step.
LEMMA ReadyStep ==
  ASSUME IInv, OpenInv, CalmInv, Untroubled', CalmNext
  PROVE  ReadyInv'
  <1> USE DEF IInv, CalmInv
  <1>1. CASE Commands
    BY <1>1, ReadyCommand
  <1>2. CASE Waits \/ Setup \/ Launch
    BY <1>2, ReadyOrder
  <1>3. CASE Worker
    BY <1>3, ReadyWorker
  <1>4. CASE CalmChange
    BY <1>4, ReadyChange
  <1>5. CASE IfsUp \/ RunCallback
    <2>1. UNCHANGED <<con, work, job>> /\ SameFlags /\ UNCHANGED <<sd.load, sd.print>>
      BY <1>5, TypeReader
    <2>2. sd.ffm => sd'.ffm
      <3>1. CASE IfsUp
        BY <3>1 DEF IfsUp
      <3>2. CASE RunCallback
        <4> DEFINE head == Head(feeder.calls)
        <4>1. head = feeder.calls[1] /\ 1 \in 1..Len(feeder.calls)
          BY <3>2, HeadTailProperties, LenProperties DEF RunCallback, TypeInv, Feeders
        <4>2. head = TRUE
          BY <3>2, <4>1, HeadTailProperties DEF FeederInv, RunCallback, TypeInv, Feeders
        <4>3. sd' = [sd EXCEPT !.ffm = head]
          BY <3>2 DEF RunCallback
        <4> HIDE DEF head
        <4>4. QED
          BY <4>2, <4>3 DEF TypeInv, Sds
      <3>3. QED
        BY <1>5, <3>1, <3>2
    <2>3. UNCHANGED <<feeder.spool, feeder.chan, feeder.map>>
      BY <1>5 DEF IfsUp, RunCallback, TypeInv, Feeders
    <2>4. QED
      BY <2>1, <2>2, <2>3, ReadySame DEF SameFlags, Flags, Reading, Switching
  <1>6. QED
    BY <1>1, <1>2, <1>3, <1>4, <1>5 DEF CalmNext

----------------------------------------------------------------------------
(* What follows.                                                           *)

\* At first nothing is printed, and what is in the extruder is what is recorded.
LEMMA SpoolInit == ASSUME Init PROVE SpoolInv
  <1>1. PICK on \in BootIfs, map \in Mappings, spool \in 0..2 :
           /\ sd.ffm = on /\ sd.file = FALSE /\ sd.must = FALSE /\ feeder.ifs = on
           /\ feeder.chan = (IF spool = 0 THEN 1 ELSE spool) /\ feeder.spool = spool
           /\ feeder.calls = <<>>
    BY DEF Init
  <1>2. /\ work.pc = "off" /\ con.pc = "idle" /\ chg.step = "none"
        /\ job.lines = <<>> /\ job.mode = "plain"
    BY DEF Init, NoOrder, NoChange
  <1>3. OpenInv
    BY <1>2 DEF OpenInv, InLine
  <1>4. HeldInv
    BY <1>1, <1>2 DEF HeldInv
  <1>5. FeederInv
    BY <1>1, <1>2 DEF FeederInv, Ordering
  <1>6. ChangeInv
    BY <1>1, <1>2 DEF ChangeInv
  <1>7. ReadyInv
    BY <1>2 DEF ReadyInv
  <1>8. QED
    BY <1>3, <1>4, <1>5, <1>6, <1>7 DEF SpoolInv, CalmInv

\* Every step keeps the invariant: what went wrong once stays, and nothing else breaks it.
LEMMA SpoolStep == ASSUME IInv, SpoolInv, [Next]_vars PROVE SpoolInv'
  <1> USE DEF SpoolInv
  <1>1. OpenInv'
    BY OpenStep
  <1>2. ASSUME Untroubled' PROVE CalmInv'
    <2>1. CalmInv
      BY <1>2, StaysTroubled DEF IInv
    <2>2. CASE UNCHANGED vars
      BY <2>1, <2>2 DEF vars, CalmInv, HeldInv, FeederInv, Ordering, ChangeInv, Wanted, Line1,
                        ReadyInv, Reading, Switching, Ready
    <2>3. CASE CalmNext
      BY <1>2, <2>1, <2>3, HeldStep, FeederStep, ChangeStep, ReadyStep DEF CalmInv
    <2>4. QED
      BY <1>2, <2>1, <2>2, <2>3, CalmSteps DEF CalmInv, IInv
  <1>3. QED
    BY <1>1, <1>2

\* A move of a print with the feeder extrudes from the spool the user mapped to the tool the
\* file asked for last, through every pause, resume, cancel and print again, as long as the
\* feeder answers, no change fails and nobody asks for a print during a print.
THEOREM RightSpoolHolds == Spec => []RightSpool
  <1>1. Init => IInv /\ SpoolInv
    BY InvInit, SpoolInit
  <1>2. (IInv /\ SpoolInv) /\ [Next]_vars => (IInv /\ SpoolInv)'
    BY InvStep, SpoolStep
  <1>3. ASSUME IInv, SpoolInv PROVE RightSpool
    <2>1. work.pc = "line" => con.pc = "idle"
      BY <1>3 DEF IInv, ControlInv, Running
    <2>2. QED
      BY <1>3, <2>1 DEF SpoolInv, CalmInv, ReadyInv, Reading, Ready, RightSpool
  <1>4. QED
    BY <1>1, <1>2, <1>3, PTL DEF Spec

----------------------------------------------------------------------------
(* The print is a PrintJob.                                               *)

AtWork == work.pc \in InLine \cup {"loop"}

\* A print has a start time as long as it is reported as printing or paused; it is reported
\* as printing exactly while a handler reads its open file; and a script of the file runs
\* only while it is open.
ReportInv ==
  /\ stats.started <=> (stats.state \in {"printing", "paused"})
  /\ AtWork /\ sd.file => stats.state = "printing"
  /\ stats.state = "printing" => AtWork
  /\ work.pc = "line" => sd.file

JobInv == IInv /\ OpenInv /\ ReportInv

\* A step after which the handler still reads, or still does not, and that touches neither
\* the file nor the report.
LEMMA ReportSame ==
  ASSUME ReportInv, stats' = stats, sd'.file = sd.file, (AtWork' <=> AtWork),
         work'.pc = "line" => work.pc = "line" \/ sd.file
  PROVE  ReportInv'
  BY DEF ReportInv, AtWork, InLine

\* The end of a line: a print that has a file goes on or is paused, one that lost it has
\* nothing to report.
LEMMA ReportLine ==
  ASSUME TypeInv, FileInv, ReportInv, work.pc \in InLine, NEW s \in Sds, AfterLine(s),
         s.file = sd.file
  PROVE  /\ ReportInv'
         /\ sd'.file = sd.file
         /\ stats'.state \in IF sd.file /\ stats.state = "printing"
                             THEN {"printing", "paused"} ELSE {stats.state}
  <1>1. AtWork /\ sd.file \in BOOLEAN /\ sd'.file = sd.file
    BY Numbers DEF AtWork, AfterLine
  <1>2. /\ sd.file => stats.state = "printing" /\ stats.started
        /\ stats.started <=> (stats.state \in {"printing", "paused"})
        /\ stats.state = "printing" => AtWork
    BY <1>1 DEF ReportInv
  <1>3. work'.pc \in {"off", "loop"}
    BY DEF AfterLine
  <1>4. CASE stats' = stats /\ work'.pc = "loop"
    <2>1. AtWork'
      BY <1>4 DEF AtWork
    <2>2. QED
      BY <1>1, <1>2, <1>4, <2>1 DEF ReportInv
  <1>5. CASE /\ work'.pc = "off"
             /\ stats' = IF s.file THEN NotePause ELSE NoteFinish("complete")
    <2>1. ~AtWork'
      BY <1>5 DEF AtWork, InLine
    <2>2. CASE sd.file
      <3>1. stats'.state = "paused" /\ stats'.started = stats.started
        BY <1>2, <1>5, <2>2 DEF NotePause, TypeInv, Stats
      <3>2. QED
        BY <1>1, <1>2, <1>5, <2>1, <2>2, <3>1 DEF ReportInv
    <2>3. CASE ~sd.file
      <3>1. ~stats.started
        BY <2>3 DEF FileInv, StatsInv
      <3>2. stats' = stats
        BY <1>5, <2>3, <3>1 DEF NoteFinish
      <3>3. QED
        BY <1>1, <1>2, <1>5, <2>1, <2>3, <3>1, <3>2 DEF ReportInv
    <2>4. QED
      BY <1>1, <2>2, <2>3
  <1>6. QED
    BY <1>4, <1>5 DEF AfterLine

\* The file is closed and the report ends, whether or not a handler still reads.
LEMMA ReportClosed ==
  ASSUME ReportInv, work.pc # "line", ~sd'.file, UNCHANGED work,
         stats'.state # "printing",
         stats'.started <=> (stats'.state \in {"printing", "paused"})
  PROVE  ReportInv'
  BY DEF ReportInv

\* What CANCEL_PRINT reports.
LEMMA CancelReports ==
  ASSUME TypeInv, ReportInv, stats' = NoteFinish("cancelled")
  PROVE  /\ stats'.state = IF stats.state \in {"printing", "paused"} THEN "cancelled"
                           ELSE stats.state
         /\ ~stats'.started
  BY DEF ReportInv, NoteFinish, TypeInv, Stats

\* Whoever waits or gives a command does so outside the scripts of the file.
LEMMA OutsideLine ==
  ASSUME ControlInv, con.pc # "idle" \/ ~Running
  PROVE  work.pc # "line"
  BY DEF ControlInv, Running

\* Every step keeps the report true.
LEMMA ReportStep ==
  ASSUME JobInv, [Next]_vars
  PROVE  ReportInv'
  <1> USE DEF JobInv, IInv
  <1>1. CASE Commands
    <2>1. CASE Pause
      BY <2>1, PauseIs, ReportSame DEF SameFlags, Flags, AtWork
    <2>2. CASE Resume
      <3>1. CASE ~sd.timer /\ Flags(TRUE, FALSE, sd.file, sd.pos) /\ At("start", 0, 0)
        <4>1. ~AtWork /\ ~AtWork'
          BY <3>1 DEF ControlInv, AtWork, InLine, At
        <4>2. QED
          BY <2>2, <3>1, <4>1, ResumeIs, ReportSame DEF Flags, At
      <3>2. CASE UNCHANGED <<sd, work>>
        BY <2>2, <3>2, ResumeIs, ReportSame DEF AtWork
      <3>3. QED
        BY <2>2, <3>1, <3>2, ResumeIs
    <2>3. CASE Cancel
      <3>1. work' = work /\ work.pc # "line"
        BY <2>3, CancelIs, OutsideLine
      <3>2. CASE sd'.file = sd.file /\ stats' = stats
        BY <3>1, <3>2, ReportSame DEF AtWork
      <3>3. CASE ~sd'.file /\ stats' = NoteFinish("cancelled")
        BY <3>1, <3>3, CancelReports, ReportClosed
      <3>4. CASE ~sd.file /\ ~sd'.file /\ stats' = stats
        BY <3>1, <3>4 DEF ReportInv, AtWork
      <3>5. QED
        BY <2>3, <3>2, <3>3, <3>4, CancelIs DEF Flags
    <2>4. CASE Reset
      <3>1. work' = work /\ work.pc # "line"
        BY <2>4, ResetIs, OutsideLine
      <3>2. CASE sd'.file = sd.file /\ stats' = stats
        BY <3>1, <3>2, ReportSame DEF AtWork
      <3>3. CASE ~sd'.file /\ stats'.state = "standby" /\ ~stats'.started
        BY <3>1, <3>3, ReportClosed
      <3>4. QED
        BY <2>4, <3>2, <3>3, ResetIs DEF Flags
    <2>5. CASE GetZcolor \/ PrintWithIfs \/ PrintWithoutIfs
      BY <2>5, PrintIs, ReportSame DEF SameFlags, Flags, AtWork
    <2>6. QED
      BY <1>1, <2>1, <2>2, <2>3, <2>4, <2>5 DEF Commands
  <1>2. CASE Waits
    <2>1. work' = work /\ work.pc # "line"
      BY <1>2, WaitsAre, OutsideLine
    <2>2. CASE sd'.file = sd.file /\ stats' = stats
      BY <2>1, <2>2, ReportSame DEF AtWork
    <2>3. CASE ~sd'.file /\ stats' = NoteFinish("cancelled")
      BY <2>1, <2>3, CancelReports, ReportClosed
    <2>4. CASE ~sd'.file /\ stats'.state = "standby" /\ ~stats'.started
      BY <2>1, <2>4, ReportClosed
    <2>5. QED
      BY <1>2, <2>2, <2>3, <2>4, WaitsAre DEF SameFlags, Flags
  <1>3. CASE Setup
    BY <1>3, SetupIs, ReportSame DEF SameFlags, Flags, AtWork
  <1>4. CASE Launch
    <2>1. CASE UNCHANGED <<sd, stats, work>>
      BY <2>1, ReportSame DEF AtWork
    <2>2. CASE At("start", 0, 0) /\ stats'.state = "standby" /\ ~stats'.started
      <3>1. ~AtWork' /\ work'.pc # "line"
        BY <2>2 DEF AtWork, InLine, At
      <3>2. QED
        BY <2>2, <3>1 DEF ReportInv
    <2>3. QED
      BY <1>4, <2>1, <2>2, LaunchIs
  <1>5. CASE Worker \/ LineFails
    <2>1. CASE WorkStart
      <3>1. CASE sd.file /\ stats' = NoteStart /\ sd' = sd /\ At("loop", sd.pos, work.next)
        <4>1. AtWork' /\ work'.pc # "line" /\ stats'.state = "printing" /\ stats'.started
          BY <3>1 DEF AtWork, At, NoteStart
        <4>2. QED
          BY <4>1 DEF ReportInv
      <3>2. CASE ~sd.file /\ stats' = stats /\ At("off", work.idx, work.next) /\ sd'.file = sd.file
        <4>1. ~AtWork /\ ~AtWork' /\ work'.pc # "line"
          BY <2>1, <3>2, WorkStartIs DEF AtWork, InLine, At
        <4>2. QED
          BY <3>2, <4>1, ReportSame
      <3>3. QED
        BY <2>1, <3>1, <3>2, WorkStartIs DEF Flags
    <2>2. CASE WorkExit
      <3>1. work.pc = "loop" /\ AtWork /\ ~AtWork' /\ work'.pc # "line"
        BY <2>2, WorkExitIs DEF AtWork, InLine, At
      <3>2. /\ sd.file => stats.state = "printing" /\ stats.started
            /\ ~sd.file => ~stats.started /\ stats.state # "printing"
            /\ stats.started <=> (stats.state \in {"printing", "paused"})
        BY <3>1 DEF ReportInv, FileInv, StatsInv
      <3>3. (stats' = NotePause /\ sd.file) \/ stats' = NoteFinish("complete")
        BY <2>2, WorkExitIs
      <3>4. /\ stats'.started <=> (stats'.state \in {"printing", "paused"})
            /\ stats'.state # "printing"
        <4>1. CASE stats' = NotePause /\ sd.file
          BY <3>2, <4>1 DEF NotePause, TypeInv, Stats
        <4>2. CASE stats' = NoteFinish("complete")
          BY <3>2, <4>2, Numbers DEF NoteFinish
        <4>3. QED
          BY <3>3, <4>1, <4>2
      <3>5. QED
        BY <3>1, <3>4 DEF ReportInv
    <2>3. CASE DispatchLine \/ DispatchTool
      <3>1. AtWork /\ AtWork' /\ stats' = stats /\ sd'.file = sd.file
        BY <2>3, DispatchIs DEF AtWork, InLine, At, SameFlags, Flags
      <3>2. sd.file
        BY <2>3, DispatchIs DEF OpenInv, InLine
      <3>3. QED
        BY <3>1, <3>2, ReportSame
    <2>4. CASE SameTool
      <3>1. AtWork /\ AtWork' /\ work'.pc # "line"
        BY <2>4, SameToolIs DEF AtWork, At
      <3>2. QED
        BY <2>4, <3>1, SameToolIs, ReportSame DEF Flags
    <2>5. CASE M400Done
      <3>1. AtWork /\ AtWork' /\ work'.pc # "line"
        BY <2>5, M400DoneIs DEF AtWork, InLine, At
      <3>2. QED
        BY <2>5, <3>1, M400DoneIs, ReportSame DEF SameFlags, Flags
    <2>6. CASE BeginChange
      <3>1. work.idx < Len(job.lines)
        BY <2>6 DEF BeginChange, FileInv, PosInv, InLine
      <3>2. AtWork /\ AtWork' /\ work'.pc # "line" /\ UNCHANGED <<sd, stats>>
        BY <2>6, <3>1, BeginChangeIs DEF AtWork, InLine, At
      <3>3. QED
        BY <3>2, ReportSame
    <2>7. CASE EndLine
      <3>1. PICK s \in Sds : AfterLine(s) /\ s.file = sd.file
        BY <2>7, EndLineIs DEF EndsLine
      <3>2. QED
        BY <2>7, <3>1, EndLineIs, ReportLine DEF InLine
    <2>8. CASE RefuelEnd
      BY <2>8, RefuelEndIs, ReportLine DEF InLine
    <2>9. CASE LineFails
      <3>1. ~AtWork' /\ work'.pc # "line" /\ stats' = NoteFinish("error") /\ work.pc = "line"
        BY <2>9, LineFailsIs DEF AtWork, InLine, At
      <3>2. stats.started
        BY <3>1 DEF ReportInv, AtWork, InLine
      <3>3. QED
        BY <3>1, <3>2 DEF ReportInv, NoteFinish
    <2>10. QED
      BY <1>5, <2>1, <2>2, <2>3, <2>4, <2>5, <2>6, <2>7, <2>8, <2>9 DEF Worker
  <1>6. ASSUME NEW s \in Sds, Ends(s), s.file = sd.file PROVE ReportInv'
    <2>1. Released(s) \in Sds /\ Released(s).file = sd.file
      BY <1>6, ReleasedIs
    <2>2. CASE work.pc = "change" /\ AfterLine(Released(s))
      BY <2>1, <2>2, ReportLine DEF InLine
    <2>3. CASE work.pc = "change" /\ sd' = s /\ work'.pc = "refuel" /\ stats' = stats
      BY <1>6, <2>3, ReportSame DEF AtWork, InLine
    <2>4. CASE sd'.file = s.file /\ work' = work /\ stats' = stats
      BY <1>6, <2>4, ReportSame DEF AtWork
    <2>5. QED
      BY <1>6, <2>2, <2>3, <2>4 DEF Ends
  <1>7. CASE Change \/ ChangeFails
    <2>1. CASE Ignore
      BY <1>6, <2>1, EndChangeIs DEF Ignore, TypeInv
    <2>2. CASE EndMacro
      BY <1>6, <2>2, EndMacroIs
    <2>3. CASE Raise
      BY <1>6, <2>3, RaiseIs, ReportSame DEF AtWork
    <2>4. CASE Compare \/ Remove \/ Feed \/ Record \/ SetCurrent
      BY <2>4, MiddleIs, ReportSame DEF SameFlags, Flags, AtWork
    <2>5. QED
      BY <1>7, <2>1, <2>2, <2>3, <2>4 DEF Change, FoundEmpty, ChangeFails
  <1>8. CASE IfsDown \/ IfsUp \/ RunCallback
    BY <1>8, TypeReader, ReportSame DEF SameFlags, Flags, AtWork
  <1>9. CASE UNCHANGED vars
    BY <1>9, ReportSame DEF vars, AtWork
  <1>10. QED
    BY <1>1, <1>2, <1>3, <1>4, <1>5, <1>7, <1>8, <1>9 DEF Next

\* A step that neither begins nor ends a line and leaves file, report and count alone.
LEMMA JobSame ==
  ASSUME stats' = stats, sd'.file = sd.file, job'.runs = job.runs,
         (work'.pc \in InLine) <=> (work.pc \in InLine)
  PROVE  UNCHANGED Job!vars
  BY DEF Job!vars, InLine

\* The line that is counted is the first that was not carried out.
LEMMA JobCount ==
  ASSUME TypeInv, FileInv, work.pc \in InLine \cup {"loop"}, work.idx < Len(job.lines),
         job' \in Jobs, Len(job'.runs) = Len(job.runs),
         \A i \in 1..Len(job.runs) :
           job'.runs[i] = IF i = work.idx + 1 THEN job.runs[i] + 1 ELSE job.runs[i]
  PROVE  Job!CountFirst /\ Job!Left # {}
  <1> DEFINE r == job.runs
             q == job'.runs
             n == Len(job.lines)
             k == work.idx + 1
  <1>1. /\ n \in Nat /\ work.idx \in Nat /\ k \in 1..n /\ Len(r) = n /\ Len(q) = n
        /\ \A i \in 1..n : r[i] = IF i <= work.idx THEN 1 ELSE 0
        /\ \A i \in 1..n : q[i] = IF i = k THEN r[i] + 1 ELSE r[i]
    BY Numbers DEF FileInv, RunsInv, Done
  <1>2. r \in Seq(Nat) /\ q \in Seq(Nat)
    BY DEF TypeInv, Jobs
  <1> HIDE DEF r, q, n
  <1>3. /\ DOMAIN r = 1..n /\ DOMAIN q = 1..n
        /\ r = [i \in 1..n |-> r[i]] /\ q = [i \in 1..n |-> q[i]]
    BY <1>1, <1>2, LenProperties
  <1>4. \A i \in 1..n : q[i] = [r EXCEPT ![k] = 1][i]
    BY <1>1, <1>3
  <1>5. q = [r EXCEPT ![k] = 1]
    BY <1>3, <1>4
  <1>6. k \in {i \in DOMAIN r : r[i] = 0} /\ \A j \in DOMAIN r : j < k => r[j] = 1
    BY <1>1, <1>3
  <1> HIDE DEF k
  <1>7. QED
    BY <1>5, <1>6 DEF Job!CountFirst, Job!First, Job!Left, r, q

\* A script of the file ends: the line is finished.
LEMMA JobLine ==
  ASSUME JobInv, work.pc \in InLine, NEW s \in Sds, AfterLine(s), s.file = sd.file
  PROVE  Job!Finish
  <1> USE DEF JobInv, IInv
  <1>1. work.idx < Len(job.lines)
    BY DEF FileInv, PosInv
  <1>2. Job!CountFirst
    BY <1>1, JobCount DEF AfterLine
  <1>3. work'.pc \notin InLine
    BY DEF AfterLine, InLine
  <1>4. QED
    BY <1>2, <1>3, ReportLine DEF Job!Finish, InLine

\* The file is closed by whoever cancels.
LEMMA JobCancel ==
  ASSUME TypeInv, ReportInv, ~sd'.file, sd'.file \in BOOLEAN, UNCHANGED <<work, job>>,
         stats' = NoteFinish("cancelled")
  PROVE  Job!Cancel
  BY CancelReports DEF Job!Cancel

\* Or by whoever resets.
LEMMA JobReset ==
  ASSUME ~sd'.file, sd'.file \in BOOLEAN, UNCHANGED <<work, job>>, stats'.state = "standby"
  PROVE  Job!Reset
  BY DEF Job!Reset

\* Every step is one of PrintJob, or nothing to it.
LEMMA JobStep ==
  ASSUME JobInv, [Next]_vars
  PROVE  [Job!Next]_(Job!vars)
  <1> USE DEF JobInv, IInv
  <1>1. CASE Commands
    <2>1. CASE Pause
      BY <2>1, PauseIs, JobSame DEF SameFlags, Flags
    <2>2. CASE Resume
      <3>1. CASE ~sd.timer /\ Flags(TRUE, FALSE, sd.file, sd.pos) /\ At("start", 0, 0)
        <4>1. work.pc \notin InLine /\ work'.pc \notin InLine
          BY <3>1 DEF ControlInv, InLine, At
        <4>2. QED
          BY <2>2, <3>1, <4>1, ResumeIs, JobSame DEF Flags
      <3>2. CASE UNCHANGED <<sd, work>>
        BY <2>2, <3>2, ResumeIs, JobSame
      <3>3. QED
        BY <2>2, <3>1, <3>2, ResumeIs
    <2>3. CASE Cancel
      <3>1. UNCHANGED <<work, job>> /\ sd'.file \in BOOLEAN
        BY <2>3, CancelIs DEF Flags, Sds
      <3>2. CASE sd'.file = sd.file /\ stats' = stats
        BY <3>1, <3>2, JobSame
      <3>3. CASE ~sd'.file /\ stats' = NoteFinish("cancelled")
        BY <3>1, <3>3, JobCancel DEF Job!Next
      <3>4. CASE ~sd.file /\ ~sd'.file /\ stats' = stats
        BY <3>1, <3>2, <3>4, Numbers
      <3>5. QED
        BY <2>3, <3>2, <3>3, <3>4, CancelIs DEF Flags
    <2>4. CASE Reset
      <3>1. UNCHANGED <<work, job>> /\ sd'.file \in BOOLEAN
        BY <2>4, ResetIs DEF Flags, Sds
      <3>2. CASE sd'.file = sd.file /\ stats' = stats
        BY <3>1, <3>2, JobSame
      <3>3. CASE ~sd'.file /\ stats'.state = "standby"
        BY <3>1, <3>3, JobReset DEF Job!Next
      <3>4. QED
        BY <2>4, <3>2, <3>3, ResetIs DEF Flags
    <2>5. CASE GetZcolor \/ PrintWithIfs \/ PrintWithoutIfs
      BY <2>5, PrintIs, JobSame DEF SameFlags, Flags
    <2>6. QED
      BY <1>1, <2>1, <2>2, <2>3, <2>4, <2>5 DEF Commands
  <1>2. CASE Waits
    <2>1. UNCHANGED <<work, job>> /\ sd'.file \in BOOLEAN
      BY <1>2, WaitsAre DEF SameFlags, Flags, Sds
    <2>2. CASE sd'.file = sd.file /\ stats' = stats
      BY <2>1, <2>2, JobSame
    <2>3. CASE ~sd'.file /\ stats' = NoteFinish("cancelled")
      BY <2>1, <2>3, JobCancel DEF Job!Next
    <2>4. CASE ~sd'.file /\ stats'.state = "standby"
      BY <2>1, <2>4, JobReset DEF Job!Next
    <2>5. QED
      BY <1>2, <2>2, <2>3, <2>4, WaitsAre DEF SameFlags, Flags
  <1>3. CASE Setup
    BY <1>3, SetupIs, JobSame DEF SameFlags, Flags
  <1>4. CASE Launch
    <2>1. CASE UNCHANGED <<sd, stats, work, job>>
      BY <2>1, JobSame
    <2>2. CASE /\ ~sd.timer /\ Flags(TRUE, FALSE, TRUE, 0) /\ At("start", 0, 0)
               /\ stats'.state = "standby" /\ Len(job'.runs) = Len(job'.lines)
               /\ \A i \in 1..Len(job'.lines) : job'.runs[i] = 0
      <3>1. work.pc = "off" /\ work.pc \notin InLine /\ work'.pc \notin InLine
        BY <2>2 DEF ControlInv, InLine, At
      <3>2. stats.state # "printing"
        BY <3>1 DEF ReportInv, AtWork, InLine
      <3>3. job'.runs \in Seq({0})
        <4>1. job'.runs \in Seq(Nat)
          BY InvStep DEF TypeInv, Jobs
        <4>2. Len(job'.runs) \in Nat /\ job'.runs \in [1..Len(job'.runs) -> {0}]
          BY <2>2, <4>1, LenProperties
        <4>3. ASSUME NEW n \in Nat, NEW q \in [1..n -> {0}] PROVE q \in Seq({0})
          OBVIOUS
        <4>4. QED
          BY <4>2, <4>3
      <3>4. Job!Load
        BY <2>2, <3>1, <3>2, <3>3 DEF Job!Load, Flags, InLine
      <3>5. QED
        BY <3>4 DEF Job!Next
    <2>3. QED
      BY <1>4, <2>1, <2>2, LaunchIs
  <1>5. CASE Worker \/ LineFails
    <2>1. CASE WorkStart
      <3>1. work.pc = "start" /\ job' = job /\ work.pc \notin InLine /\ work'.pc \notin InLine
        BY <2>1, WorkStartIs DEF InLine, At
      <3>2. CASE sd.file /\ stats' = NoteStart /\ sd' = sd
        <4>1. stats.state \in {"standby", "paused", "error"}
          BY <3>1, <3>2 DEF ReportInv, AtWork, InLine, FileInv, StatsInv, TypeInv, Stats
        <4>2. stats'.state = "printing" /\ sd'.file = sd.file /\ job'.runs = job.runs
          BY <3>1, <3>2 DEF NoteStart
        <4>3. (work'.pc \in InLine) = (work.pc \in InLine)
          BY <3>1
        <4>4. Job!Begin
          BY <3>1, <3>2, <4>1, <4>2, <4>3 DEF Job!Begin, InLine
        <4>5. QED
          BY <4>4 DEF Job!Next
      <3>3. CASE stats' = stats /\ sd'.file = sd.file
        BY <3>1, <3>3, JobSame
      <3>4. QED
        BY <2>1, <3>2, <3>3, WorkStartIs DEF Flags
    <2>2. CASE WorkExit
      <3>1. /\ work.pc = "loop" /\ job' = job /\ work.pc \notin InLine /\ work'.pc \notin InLine
            /\ AtWork
        BY <2>2, WorkExitIs DEF InLine, At, AtWork
      <3>2. CASE sd.file /\ sd'.file = sd.file /\ stats' = NotePause
        <4>1. stats.state = "printing" /\ stats'.state = "paused"
          BY <3>1, <3>2 DEF ReportInv, NotePause, TypeInv, Stats
        <4>2. Job!Pause
          BY <3>1, <3>2, <4>1 DEF Job!Pause, InLine
        <4>3. QED
          BY <4>2 DEF Job!Next
      <3>3. CASE ~sd.file /\ sd'.file = sd.file /\ stats' = NoteFinish("complete")
        <4>1. stats' = stats
          BY <3>3 DEF NoteFinish, FileInv, StatsInv
        <4>2. QED
          BY <3>1, <3>3, <4>1, JobSame
      <3>4. CASE /\ ~sd.must /\ work.idx = Len(job.lines) /\ sd'.file = FALSE
                 /\ stats' = NoteFinish("complete")
        <4>1. sd.file /\ stats.state = "printing" /\ stats.started
          BY <3>1, <3>4 DEF OpenInv, ReportInv
        <4>2. stats'.state = "complete"
          BY <3>4, <4>1 DEF NoteFinish
        <4>3. \A i \in 1..Len(job.lines) : job.runs[i] = 1
          BY <3>1, <3>4, Numbers DEF FileInv, RunsInv, Done
        <4>4. DOMAIN job.runs = 1..Len(job.lines)
          BY LenProperties DEF TypeInv, Jobs, FileInv, RunsInv
        <4>5. Job!Left = {}
          BY <4>3, <4>4 DEF Job!Left
        <4>6. Job!Complete
          BY <3>1, <3>4, <4>1, <4>2, <4>5 DEF Job!Complete, InLine
        <4>7. QED
          BY <4>6 DEF Job!Next
      <3>5. QED
        BY <2>2, <3>2, <3>3, <3>4, WorkExitIs DEF Flags
    <2>3. CASE DispatchLine \/ DispatchTool
      <3>1. /\ work.pc = "loop" /\ ~sd.must /\ work.idx < Len(job.lines) /\ AtWork
            /\ work.pc \notin InLine /\ work'.pc \in InLine
            /\ sd'.file = sd.file /\ stats' = stats /\ job'.runs = job.runs
        BY <2>3, DispatchIs DEF InLine, At, SameFlags, Flags, AtWork
      <3>2. sd.file /\ stats.state = "printing"
        BY <3>1 DEF OpenInv, ReportInv
      <3>3. Job!Left # {}
        <4>1. work.idx + 1 \in 1..Len(job.lines) /\ ~(work.idx + 1 <= work.idx)
          BY <3>1, Numbers
        <4>2. job.runs[work.idx + 1] = 0
          BY <3>1, <4>1 DEF FileInv, RunsInv, Done
        <4>3. DOMAIN job.runs = 1..Len(job.lines)
          BY LenProperties DEF TypeInv, Jobs, FileInv, RunsInv
        <4>4. QED
          BY <4>1, <4>2, <4>3 DEF Job!Left
      <3>4. Job!Take
        BY <3>1, <3>2, <3>3 DEF Job!Take, Job!Reads, InLine
      <3>5. QED
        BY <3>4 DEF Job!Next
    <2>4. CASE SameTool
      <3>1. /\ work.pc = "loop" /\ ~sd.must /\ work.idx < Len(job.lines) /\ AtWork
            /\ work.pc \notin InLine /\ work'.pc \notin InLine
            /\ sd'.file = sd.file /\ stats' = stats
        BY <2>4, SameToolIs DEF InLine, At, Flags, AtWork
      <3>2. sd.file /\ stats.state = "printing"
        BY <3>1 DEF OpenInv, ReportInv
      <3>3. Job!CountFirst /\ Job!Left # {}
        BY <2>4, <3>1, SameToolIs, JobCount
      <3>4. Job!Pass
        BY <3>1, <3>2, <3>3 DEF Job!Pass, Job!Reads, InLine
      <3>5. QED
        BY <3>4 DEF Job!Next
    <2>5. CASE M400Done
      BY <2>5, M400DoneIs, JobSame DEF SameFlags, Flags, At, InLine
    <2>6. CASE BeginChange
      <3>1. work.idx < Len(job.lines)
        BY <2>6 DEF BeginChange, FileInv, PosInv, InLine
      <3>2. QED
        BY <2>6, <3>1, BeginChangeIs, JobSame DEF At, InLine
    <2>7. CASE EndLine
      <3>1. PICK s \in Sds : AfterLine(s) /\ s.file = sd.file
        BY <2>7, EndLineIs DEF EndsLine
      <3>2. QED
        BY <2>7, <3>1, EndLineIs, JobLine DEF InLine, Job!Next
    <2>8. CASE RefuelEnd
      BY <2>8, RefuelEndIs, JobLine DEF InLine, Job!Next
    <2>9. CASE LineFails
      <3>1. /\ work.pc = "line" /\ work.pc \in InLine /\ work'.pc \notin InLine /\ AtWork
            /\ sd'.file = sd.file /\ job' = job /\ stats' = NoteFinish("error")
        BY <2>9, LineFailsIs DEF InLine, At, Flags, AtWork
      <3>2. sd.file /\ stats.state = "printing" /\ stats.started
        BY <3>1 DEF ReportInv
      <3>3. Job!Fail
        BY <3>1, <3>2 DEF Job!Fail, NoteFinish, InLine
      <3>4. QED
        BY <3>3 DEF Job!Next
    <2>10. QED
      BY <1>5, <2>1, <2>2, <2>3, <2>4, <2>5, <2>6, <2>7, <2>8, <2>9 DEF Worker
  <1>6. ASSUME NEW s \in Sds, Ends(s), s.file = sd.file PROVE [Job!Next]_(Job!vars)
    <2>1. Released(s) \in Sds /\ Released(s).file = sd.file
      BY <1>6, ReleasedIs
    <2>2. CASE work.pc = "change" /\ AfterLine(Released(s))
      BY <2>1, <2>2, JobLine DEF InLine, Job!Next
    <2>3. CASE work.pc = "change" /\ sd' = s /\ work'.pc = "refuel" /\ UNCHANGED <<stats, job>>
      BY <1>6, <2>3, JobSame DEF InLine
    <2>4. CASE sd'.file = s.file /\ UNCHANGED <<work, stats, job>>
      BY <1>6, <2>4, JobSame
    <2>5. QED
      BY <1>6, <2>2, <2>3, <2>4 DEF Ends
  <1>7. CASE Change \/ ChangeFails
    <2>1. CASE Ignore
      BY <1>6, <2>1, EndChangeIs DEF Ignore, TypeInv
    <2>2. CASE EndMacro
      BY <1>6, <2>2, EndMacroIs
    <2>3. CASE Raise
      BY <1>6, <2>3, RaiseIs, JobSame
    <2>4. CASE Compare \/ Remove \/ Feed \/ Record \/ SetCurrent
      BY <2>4, MiddleIs, JobSame DEF SameFlags, Flags
    <2>5. QED
      BY <1>7, <2>1, <2>2, <2>3, <2>4 DEF Change, FoundEmpty, ChangeFails
  <1>8. CASE IfsDown \/ IfsUp \/ RunCallback
    BY <1>8, TypeReader, JobSame DEF SameFlags, Flags
  <1>9. CASE UNCHANGED vars
    BY <1>9, JobSame DEF vars
  <1>10. QED
    BY <1>1, <1>2, <1>3, <1>4, <1>5, <1>7, <1>8, <1>9 DEF Next

\* Handler, flags, console, mutex and tool changes together are a PrintJob: lines are carried out
\* in order and once, only of an open file that is reported as printing, and what is reported as
\* paused, complete, failed or cancelled is so (ImplementsJob).
THEOREM JobImplemented == Spec => ImplementsJob
  <1>1. Init => JobInv /\ Job!Init
    <2>1. ASSUME Init PROVE JobInv
      <3>1. ReportInv
        BY <2>1 DEF Init, ReportInv, AtWork, InLine
      <3>2. OpenInv
        BY <2>1 DEF Init, OpenInv, InLine
      <3>3. QED
        BY <2>1, <3>1, <3>2, InvInit DEF JobInv
    <2>2. ASSUME Init PROVE Job!Init
      BY <2>2 DEF Init, Job!Init
    <2>3. QED
      BY <2>1, <2>2
  <1>2. JobInv /\ [Next]_vars => JobInv' /\ [Job!Next]_(Job!vars)
    BY InvStep, OpenStep, ReportStep, JobStep DEF JobInv
  <1>3. QED
    BY <1>1, <1>2, PTL DEF Spec, ImplementsJob, Job!Spec
=============================================================================
