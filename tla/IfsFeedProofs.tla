---------------------------- MODULE IfsFeedProofs ----------------------------
(* Theorems about the feed commands, for any set of greenlets and of ports,  *)
(* any number of attempts, commands, rods and failures.                      *)
EXTENDS IfsFeed, SequenceTheorems, WellFoundedInduction, TLAPS

----------------------------------------------------------------------------
(* The types of the fields.                                                *)

\* Only a port can be held.
Ops == {op \in OpsOf(Ports) : op.cmd = "F24" => op.port \in Ports}
States == {"ready", "busy", "error"} \cup Moves
Devs == [st : States, port : Ports \cup {0}, by : SUBSET Tasks, marks : SUBSET Ports,
         held : SUBSET Ports]
Datas == [st : {"ready", "busy", "error", "none", "zero"} \cup Moves, port : Ports \cup {0},
          ins : Ports \cup {0}, need : BOOLEAN]
Greenlets == [todo : Seq(Ops), pc : {"idle", "next", "ask", "judge"}, att : 1..Retries,
              watch : {"none", "on", "off"}, got : Answer]

\* A greenlet is idle when it has nothing to do, and only then.
Busy(t) == (task[t].pc = "idle") <=> (task[t].todo = <<>>)

\* A rod that is announced is there, and the rods marked have a highest one.
TypeInv ==
  /\ dev \in Devs /\ \E n \in Nat : \A p \in dev.marks : p <= n
  /\ ext \in BOOLEAN /\ ifs \in BOOLEAN /\ reader \in {"round", "look"}
  /\ data \in Datas /\ (data.need => data.ins # 0)
  /\ task \in [Tasks -> Greenlets] /\ \A t \in Tasks : Busy(t)
  /\ pending \in Seq(Ports) /\ rods \in [announced : SUBSET Ports, noted : SUBSET Ports]
  /\ faults \in [Faults -> Nat]

\* A set of numbers has a least one.
LEMMA Least ==
  ASSUME NEW S, S \subseteq Nat, S # {}
  PROVE  \E i \in S : \A j \in S : i <= j
  <1>1. \E i \in S : \A j \in S : ~(<<j, i>> \in OpToRel(<, Nat))
    BY NatLessThanWellFounded, WFMin
  <1>2. ASSUME NEW i \in S, NEW j \in S, ~(<<j, i>> \in OpToRel(<, Nat)) PROVE i <= j
    BY <1>2 DEF OpToRel
  <1>3. QED
    BY <1>1, <1>2

\* The highest of some ports with a bound is one of them, or zero when there is none.
LEMMA MaxIs ==
  ASSUME NEW S, S \subseteq Nat, NEW n \in Nat, \A p \in S : p <= n
  PROVE  Max(S \cup {0}) \in S \cup {0}
  <1> DEFINE All == S \cup {0}
             Above == {k \in Nat : \A p \in All : p <= k}
  <1>1. n \in Above
    OBVIOUS
  <1>2. PICK k \in Above : \A j \in Above : k <= j
    BY <1>1, Least
  <1>3. k \in All
    <2>1. SUFFICES ASSUME k \notin All PROVE FALSE
      OBVIOUS
    <2>2. k > 0 /\ \A p \in All : p < k
      BY <2>1
    <2>3. k - 1 \in Above
      BY <2>2
    <2>4. QED
      BY <1>2, <2>3
  <1>4. \A p \in All : k >= p
    OBVIOUS
  <1>5. QED
    BY <1>3, <1>4 DEF Max

\* What the reader is told.
LEMMA StatusIs ==
  ASSUME TypeInv
  PROVE  /\ Status \in Answer /\ Status.st = dev.st /\ Status # NoAnswer
         /\ NoAnswer \in Answer /\ NoAnswer.st = "none" /\ Garbage \in Answer
  <1>1. dev \in Devs /\ dev.marks \subseteq Nat
    BY PortsAssumption DEF TypeInv, Devs
  <1>2. Max(dev.marks \cup {0}) \in Ports \cup {0}
    BY <1>1, MaxIs DEF TypeInv, Devs
  <1>3. Status \in Answer /\ Status.st = dev.st
    BY <1>1, <1>2 DEF Status, Answer, Devs, States
  <1>4. NoAnswer \in Answer /\ NoAnswer.st = "none" /\ Garbage \in Answer
    BY DEF NoAnswer, Garbage, Answer
  <1>5. QED
    BY <1>1, <1>3, <1>4 DEF Devs, States, Moves

\* What is stored.
LEMMA StoredIs ==
  ASSUME TypeInv, NEW s \in Answer
  PROVE  /\ Stored(s) \in Datas /\ (Stored(s).need => Stored(s).ins # 0)
         /\ s # NoAnswer => Stored(s).st = s.st /\ Stored(s).port = s.port
         /\ s = NoAnswer => Stored(s) = data
  <1>1. CASE s = NoAnswer
    BY <1>1 DEF Stored, TypeInv
  <1>2. CASE s # NoAnswer
    BY <1>2 DEF Stored, Answer, Datas
  <1>3. QED
    BY <1>1, <1>2

\* A command moves, stops or does something else; it marks no rod.
LEMMA ExecutedIs ==
  ASSUME TypeInv, NEW t \in Tasks, NEW op \in Ops, op.cmd # "wait"
  PROVE  /\ Executed(t, op) \in Devs /\ Executed(t, op).marks \subseteq dev.marks
         /\ Executed(t, op).by \subseteq dev.by \/ op.cmd \in {"F10", "F11"}
         /\ Executed(t, op).by \subseteq dev.by \cup {t}
         /\ (dev.by # {} => dev.st \in Moves)
              => (Executed(t, op).by # {} => Executed(t, op).st \in Moves)
         /\ op.cmd = "F112" /\ (dev.by # {} => dev.st \in Moves) => Executed(t, op).by = {}
         /\ op.cmd = "F18" => Executed(t, op).held = {}
         /\ op.cmd = "F24" => Executed(t, op).held = dev.held \cup {op.port}
         /\ op.cmd = "F39" => Executed(t, op).held = dev.held \ {op.port}
         /\ op.cmd \notin {"F18", "F24", "F39"} => Executed(t, op).held = dev.held
  <1> DEFINE busy == IF dev.st = "ready" THEN "busy" ELSE dev.st
  <1>1. dev \in Devs /\ op.port \in Ports \cup {0} /\ busy \in States
    BY DEF TypeInv, Devs, Ops, OpsOf, States
  <1>2. op.cmd \in {"F10", "F11", "F112", "F15", "F18", "F23", "F24", "F39"}
    BY DEF Ops, OpsOf
  <1>3. CASE op.cmd \in {"F10", "F11"}
    BY <1>1, <1>3 DEF Executed, Devs, States, Moves
  <1>4. CASE op.cmd = "F112"
    BY <1>1, <1>4 DEF Executed, Devs, States, Moves, Still
  <1>5. CASE op.cmd = "F15"
    BY <1>1, <1>5 DEF Executed, Devs, States, Moves
  <1> DEFINE b == [dev EXCEPT !.st = busy]
  <1>a. /\ b \in Devs /\ b.st = busy /\ b.by = dev.by /\ b.marks = dev.marks /\ b.held = dev.held
        /\ b.port = dev.port
    BY <1>1 DEF Devs
  <1>b. dev.st \in Moves => busy \in Moves
    BY DEF Moves
  <1>c. b = [dev EXCEPT !.st = IF @ = "ready" THEN "busy" ELSE @]
    BY <1>1 DEF Devs
  <1>d. /\ op.cmd = "F18" => Executed(t, op) = [b EXCEPT !.held = {}]
        /\ op.cmd = "F23" => Executed(t, op) = [b EXCEPT !.marks = @ \ {op.port}]
        /\ op.cmd = "F24" => Executed(t, op) = [b EXCEPT !.held = @ \cup {op.port}]
        /\ op.cmd = "F39" => Executed(t, op) = [b EXCEPT !.held = @ \ {op.port}]
    BY <1>c DEF Executed
  <1> HIDE DEF b, busy
  <1>6. CASE op.cmd = "F18"
    BY <1>a, <1>b, <1>d, <1>6 DEF Devs
  <1>7. CASE op.cmd = "F23"
    <2> DEFINE m == dev.marks \ {op.port}
    <2>1. Executed(t, op) = [b EXCEPT !.marks = m] /\ m \in SUBSET Ports /\ m \subseteq dev.marks
      BY <1>1, <1>a, <1>d, <1>7 DEF Devs
    <2> HIDE DEF m
    <2>2. QED
      BY <1>a, <1>b, <1>7, <2>1 DEF Devs
  <1>8. CASE op.cmd = "F24"
    <2> DEFINE h == dev.held \cup {op.port}
    <2>1. Executed(t, op) = [b EXCEPT !.held = h] /\ h \in SUBSET Ports
      BY <1>1, <1>a, <1>d, <1>8 DEF Devs, Ops
    <2>2. h = dev.held \cup {op.port}
      OBVIOUS
    <2> HIDE DEF h
    <2>3. QED
      BY <1>a, <1>b, <1>8, <2>1, <2>2 DEF Devs
  <1>9. CASE op.cmd = "F39"
    <2> DEFINE h == dev.held \ {op.port}
    <2>1. Executed(t, op) = [b EXCEPT !.held = h] /\ h \in SUBSET Ports
      BY <1>1, <1>a, <1>d, <1>9 DEF Devs, Ops
    <2>2. h = dev.held \ {op.port}
      OBVIOUS
    <2> HIDE DEF h
    <2>3. QED
      BY <1>a, <1>b, <1>9, <2>1, <2>2 DEF Devs
  <1>10. QED
    BY <1>2, <1>3, <1>4, <1>5, <1>6, <1>7, <1>8, <1>9
----------------------------------------------------------------------------
(* What a greenlet has still to do.                                        *)

\* This operation gives the rod of this port free, this list does, and whatever this list
\* holds it gives free again later on.
Frees(op, p) == op.cmd = "F18" \/ (op.cmd = "F39" /\ op.port = p)
Gives(s, p) == \E i \in 1..Len(s) : Frees(s[i], p)
Gated(s) == \A i \in 1..Len(s) :
              s[i].cmd = "F24" => \E j \in (i + 1)..Len(s) : Frees(s[j], s[i].port)

\* The head of a list and the rest.
LEMMA RestIs ==
  ASSUME NEW s \in Seq(Ops), s # <<>>
  PROVE  /\ Head(s) \in Ops /\ Tail(s) \in Seq(Ops)
         /\ Gated(s) => Gated(Tail(s))
         /\ Gated(s) /\ Head(s).cmd = "F24" => Gives(Tail(s), Head(s).port)
         /\ \A p : Gives(s, p) => Frees(Head(s), p) \/ Gives(Tail(s), p)
  <1>1. /\ Head(s) = s[1] /\ Len(s) \in Nat \ {0} /\ Head(s) \in Ops
        /\ Tail(s) \in Seq(Ops) /\ Len(Tail(s)) = Len(s) - 1
        /\ \A i \in 1..(Len(s) - 1) : Tail(s)[i] = s[i + 1]
    BY HeadTailProperties, EmptySeq, LenProperties
  <1>2. ASSUME Gated(s) PROVE Gated(Tail(s))
    <2>1. SUFFICES ASSUME NEW i \in 1..(Len(s) - 1), Tail(s)[i].cmd = "F24"
                   PROVE  \E j \in (i + 1)..(Len(s) - 1) : Frees(Tail(s)[j], Tail(s)[i].port)
      BY <1>1 DEF Gated
    <2>2. i + 1 \in 1..Len(s) /\ s[i + 1].cmd = "F24"
      BY <1>1, <2>1
    <2>3. PICK j \in (i + 2)..Len(s) : Frees(s[j], s[i + 1].port)
      BY <1>1, <1>2, <2>2 DEF Gated
    <2>4. j - 1 \in (i + 1)..(Len(s) - 1) /\ Tail(s)[j - 1] = s[j]
      BY <1>1, <2>3
    <2>5. QED
      BY <1>1, <2>3, <2>4
  <1>3. ASSUME Gated(s), Head(s).cmd = "F24" PROVE Gives(Tail(s), Head(s).port)
    <2>1. PICK j \in 2..Len(s) : Frees(s[j], s[1].port)
      BY <1>1, <1>3 DEF Gated
    <2>2. j - 1 \in 1..(Len(s) - 1) /\ Tail(s)[j - 1] = s[j]
      BY <1>1, <2>1
    <2>3. QED
      BY <1>1, <2>1, <2>2 DEF Gives
  <1>4. ASSUME NEW p, Gives(s, p) PROVE Frees(Head(s), p) \/ Gives(Tail(s), p)
    <2>1. PICK i \in 1..Len(s) : Frees(s[i], p)
      BY <1>4 DEF Gives
    <2>2. ASSUME i # 1 PROVE Gives(Tail(s), p)
      <3>1. i - 1 \in 1..Len(Tail(s)) /\ Tail(s)[i - 1] = s[i]
        BY <1>1, <2>1, <2>2
      <3>2. QED
        BY <2>1, <3>1 DEF Gives
    <2>3. QED
      BY <1>1, <2>1, <2>2
  <1>5. QED
    BY <1>1, <1>2, <1>3, <1>4

\* Two operations before a list.
LEMMA TwoIs ==
  ASSUME NEW x \in Ops, NEW y \in Ops, NEW s \in Seq(Ops)
  PROVE  <<x, y>> \o s = <<x>> \o (<<y>> \o s)
  <1> DEFINE p == <<x>>
             q == <<y>>
             d == <<x, y>>
  <1>1. /\ p \in Seq(Ops) /\ Len(p) = 1 /\ p[1] = x
        /\ q \in Seq(Ops) /\ Len(q) = 1 /\ q[1] = y
        /\ d \in Seq(Ops) /\ Len(d) = 2 /\ d[1] = x /\ d[2] = y
    OBVIOUS
  <1> HIDE DEF p, q, d
  <1>2. /\ p \o q \in Seq(Ops) /\ Len(p \o q) = 2
        /\ (p \o q)[1] = x /\ (p \o q)[2] = y
    <2>1. /\ p \o q \in Seq(Ops) /\ Len(p \o q) = Len(p) + Len(q)
          /\ \A i \in 1..(Len(p) + Len(q)) :
               (p \o q)[i] = IF i <= Len(p) THEN p[i] ELSE q[i - Len(p)]
      BY <1>1, ConcatProperties
    <2>2. QED
      BY <1>1, <2>1
  <1>3. p \o q = d
    <2>1. \A i \in 1..Len(p \o q) : (p \o q)[i] = d[i]
      BY <1>1, <1>2
    <2>2. QED
      BY <1>1, <1>2, <2>1, SeqEqual
  <1>4. (p \o q) \o s = p \o (q \o s)
    BY <1>1, ConcatAssociative
  <1>5. QED
    BY <1>3, <1>4 DEF p, q, d

\* One operation before a list.
LEMMA FirstIs ==
  ASSUME NEW x \in Ops, NEW s \in Seq(Ops)
  PROVE  /\ <<x>> \o s \in Seq(Ops) /\ <<x>> \o s # <<>> /\ Head(<<x>> \o s) = x
         /\ Gated(s) /\ (x.cmd = "F24" => Gives(s, x.port)) => Gated(<<x>> \o s)
         /\ \A p : Frees(x, p) \/ Gives(s, p) => Gives(<<x>> \o s, p)
  <1> DEFINE r == <<x>> \o s
  <1>1. /\ r \in Seq(Ops) /\ Len(s) \in Nat /\ Len(r) = Len(s) + 1 /\ r[1] = x
        /\ \A i \in 1..Len(s) : r[i + 1] = s[i]
    BY ConcatProperties, LenProperties
  <1>2. r # <<>> /\ Head(r) = x
    BY <1>1
  <1> HIDE DEF r
  <1>3. ASSUME Gated(s), x.cmd = "F24" => Gives(s, x.port) PROVE Gated(r)
    <2>1. SUFFICES ASSUME NEW i \in 1..Len(r), r[i].cmd = "F24"
                   PROVE  \E j \in (i + 1)..Len(r) : Frees(r[j], r[i].port)
      BY DEF Gated
    <2>2. CASE i = 1
      <3>1. PICK j \in 1..Len(s) : Frees(s[j], x.port)
        BY <1>1, <1>3, <2>1, <2>2 DEF Gives
      <3>2. j + 1 \in (i + 1)..Len(r) /\ r[j + 1] = s[j]
        BY <1>1, <2>2, <3>1
      <3>3. QED
        BY <1>1, <2>2, <3>1, <3>2
    <2>3. CASE i # 1
      <3>1. i - 1 \in 1..Len(s) /\ r[i] = s[i - 1]
        <4>1. i - 1 \in 1..Len(s) /\ (i - 1) + 1 = i
          BY <1>1, <2>1, <2>3
        <4>2. QED
          BY <1>1, <4>1
      <3>2. PICK j \in ((i - 1) + 1)..Len(s) : Frees(s[j], s[i - 1].port)
        BY <1>3, <2>1, <3>1 DEF Gated
      <3>3. j \in 1..Len(s) /\ j + 1 \in (i + 1)..Len(r)
        BY <1>1, <2>1, <3>1, <3>2
      <3>4. QED
        BY <1>1, <3>1, <3>2, <3>3
    <2>4. QED
      BY <2>2, <2>3
  <1>4. ASSUME NEW p, Frees(x, p) \/ Gives(s, p) PROVE Gives(r, p)
    <2>1. CASE Frees(x, p)
      BY <1>1, <2>1 DEF Gives
    <2>2. CASE Gives(s, p)
      <3>1. PICK i \in 1..Len(s) : Frees(s[i], p)
        BY <2>2 DEF Gives
      <3>2. i + 1 \in 1..Len(r) /\ r[i + 1] = s[i]
        BY <1>1, <3>1
      <3>3. QED
        BY <3>1, <3>2 DEF Gives
    <2>3. QED
      BY <1>4, <2>1, <2>2
  <1>5. QED
    BY <1>1, <1>2, <1>3, <1>4 DEF r


\* The operations named in the model are operations of a greenlet.
LEMMA NamedIs ==
  /\ {Stop, ReleaseAll, Reset} \subseteq Ops
  /\ Stop.cmd = "F112" /\ ReleaseAll.cmd = "F18" /\ Reset.cmd = "F15"
  BY DEF Stop, ReleaseAll, Reset, Op, Ops, OpsOf

\* The recovery stops the feeder before anything else and releases every rod.
LEMMA RecoveryIs ==
  /\ Recovery \in Seq(Ops) /\ Recovery # <<>> /\ Head(Recovery) = Stop
  /\ Gated(Recovery) /\ \A p : Gives(Recovery, p)
  <1>1. Recovery \in Seq(Ops) /\ Recovery # <<>> /\ Head(Recovery) = Stop
    BY NamedIs DEF Recovery
  <1>2. Gated(Recovery)
    BY NamedIs DEF Recovery, Gated
  <1>3. ASSUME NEW p PROVE Gives(Recovery, p)
    <2>1. 2 \in 1..Len(Recovery) /\ Recovery[2].cmd = "F18"
      BY NamedIs DEF Recovery
    <2>2. QED
      BY <2>1 DEF Gives, Frees
  <1>4. QED
    BY <1>1, <1>2, <1>3

\* IFS_AUTOINSERT ends with the command that gives its rod free.
LEMMA AutoInsertIs ==
  ASSUME NEW p \in Ports
  PROVE  AutoInsert(p) \in Seq(Ops) /\ AutoInsert(p) # <<>> /\ Gated(AutoInsert(p))
  <1> DEFINE w == Op("wait", "plain", 0)
             hold == Op("F24", "plain", p)
             feed == Op("F10", "auto", p)
             mark == Op("F23", "plain", p)
             free == Op("F39", "plain", p)
  <1>1. {w, hold, feed, mark, free} \subseteq Ops
    BY DEF Op, Ops, OpsOf
  <1>2. /\ w.cmd = "wait" /\ hold.cmd = "F24" /\ hold.port = p /\ feed.cmd = "F10"
        /\ mark.cmd = "F23" /\ free.cmd = "F39" /\ free.port = p
    BY DEF Op
  <1>3. AutoInsert(p) = <<w, hold, feed, mark, free>>
    BY DEF AutoInsert
  <1> HIDE DEF w, hold, feed, mark, free
  <1>4. Gated(<<w, hold, feed, mark, free>>)
    BY <1>2 DEF Gated, Frees
  <1>5. QED
    BY <1>1, <1>3, <1>4

\* What a G-code command does is a list of operations that holds no rod.
LEMMA CallIs ==
  ASSUME NEW prog \in Calls
  PROVE  prog \in Seq(Ops) /\ prog # <<>> /\ Gated(prog)
  <1>1. PICK p \in Ports : prog \in {<<Op("F10", "check", p)>>, <<Op("F11", "check", p)>>,
                             <<Op("F11", "plain", p)>>, <<Stop>>, <<ReleaseAll>>, Recovery}
    BY DEF Calls
  <1>2. CASE prog = Recovery
    BY <1>2, RecoveryIs
  <1>3. CASE prog # Recovery
    <2>1. PICK op \in Ops : prog = <<op>> /\ op.cmd # "F24"
      BY <1>1, <1>3, NamedIs DEF Op, Ops, OpsOf
    <2>2. QED
      BY <2>1 DEF Gated
  <1>4. QED
    BY <1>2, <1>3

----------------------------------------------------------------------------
(* Where a greenlet goes.                                                  *)

\* Only greenlet t moves: this is what it has to do, and where it is.
Becomes(t, todo, pc) ==
  /\ task' \in [Tasks -> Greenlets] /\ \A u \in Tasks \ {t} : task'[u] = task[u]
  /\ task'[t].todo = todo /\ task'[t].pc = pc

\* A greenlet that begins a list, and one with nothing to do.
LEMMA StartingIs ==
  ASSUME NEW todo \in Seq(Ops)
  PROVE  /\ Idle \in Greenlets /\ Idle.todo = <<>> /\ Idle.pc = "idle"
         /\ Starting(todo) \in Greenlets
         /\ Starting(todo).todo = todo /\ Starting(todo).pc = "next"
  <1>1. 1 \in 1..Retries /\ NoAnswer \in Answer
    BY RetriesAssumption DEF NoAnswer, Answer
  <1>2. Idle \in Greenlets /\ Idle.todo = <<>> /\ Idle.pc = "idle"
    <2>1. <<>> \in Seq(Ops)
      OBVIOUS
    <2>2. QED
      BY <1>1, <2>1 DEF Idle, Greenlets
  <1>3. QED
    BY <1>2 DEF Starting, Greenlets

LEMMA BeginIs ==
  ASSUME TypeInv, NEW t \in Tasks, NEW todo \in Seq(Ops), Begin(t, todo)
  PROVE  Becomes(t, todo, "next")
  BY StartingIs DEF TypeInv, Begin, Becomes

LEMMA RecoverIs ==
  ASSUME TypeInv, NEW t \in Tasks, Recover(t)
  PROVE  Becomes(t, Recovery, "next")
  BY StartingIs, RecoveryIs DEF TypeInv, Recover, Becomes

LEMMA RaiseIs ==
  ASSUME TypeInv, NEW t \in Tasks, Raise(t)
  PROVE  Becomes(t, <<>>, "idle")
  <1>1. <<>> \in Seq(Ops)
    OBVIOUS
  <1>2. QED
    BY <1>1, StartingIs DEF TypeInv, Raise, Becomes

LEMMA GotoIs ==
  ASSUME TypeInv, NEW t \in Tasks, NEW todo \in Seq(Ops), NEW n \in 1..Retries, Goto(t, todo, n)
  PROVE  Becomes(t, todo, IF todo = <<>> THEN "idle" ELSE "next")
  <1> DEFINE watch == IF n > 1 THEN task[t].watch ELSE "none"
             gone == [Starting(todo) EXCEPT !.att = n, !.watch = watch]
  <1>1. task \in [Tasks -> Greenlets] /\ watch \in {"none", "on", "off"}
    BY DEF TypeInv, Greenlets
  <1>2. /\ Idle \in Greenlets /\ Idle.todo = <<>> /\ Idle.pc = "idle"
        /\ Starting(todo) \in Greenlets
        /\ Starting(todo).todo = todo /\ Starting(todo).pc = "next"
    BY StartingIs
  <1>3. gone \in Greenlets /\ gone.todo = todo /\ gone.pc = "next"
    <2> HIDE DEF watch
    <2>1. QED
      BY <1>1, <1>2 DEF Greenlets
  <1>4. task' = [task EXCEPT ![t] = IF todo = <<>> THEN Idle ELSE gone]
    BY DEF Goto
  <1> HIDE DEF gone
  <1>5. QED
    BY <1>1, <1>2, <1>3, <1>4 DEF Becomes

LEMMA EnterIs ==
  ASSUME TypeInv, NEW t \in Tasks, NEW pc \in {"next", "ask", "judge"},
         NEW watch \in {"none", "on", "off"}, Enter(t, pc, watch)
  PROVE  Becomes(t, task[t].todo, pc)
  <1> DEFINE after == [task[t] EXCEPT !.pc = pc, !.watch = watch]
  <1>1. task \in [Tasks -> Greenlets]
    BY DEF TypeInv
  <1>2. after \in Greenlets /\ after.todo = task[t].todo /\ after.pc = pc
    BY <1>1 DEF Greenlets
  <1>3. task' = [task EXCEPT ![t] = after]
    BY <1>1 DEF Enter, Greenlets
  <1> HIDE DEF after
  <1>4. QED
    BY <1>1, <1>2, <1>3 DEF Becomes

\* A failure that is counted.
LEMMA FaultIs ==
  ASSUME TypeInv, NEW k, Fault(k)
  PROVE  /\ k \in Faults /\ faults' \in [Faults -> Nat] /\ faults'[k] > 0
         /\ \A j \in Faults : faults[j] > 0 => faults'[j] > 0
  <1>1. k \in Faults /\ faults \in [Faults -> Nat] /\ faults' = [faults EXCEPT ![k] = @ + 1]
    BY KindsAssumption DEF TypeInv, Fault
  <1>2. QED
    BY <1>1

----------------------------------------------------------------------------
(* What the steps of a greenlet come to.                                   *)

\* The rest of the list, and a list that gives free all that the rest does.
Rest(t) == Tail(task[t].todo)
Done(t) == Becomes(t, Rest(t), IF Rest(t) = <<>> THEN "idle" ELSE "next")
Keeps(t, todo) == /\ Gated(task[t].todo) => Gated(todo)
                  /\ \A p : Gives(Rest(t), p) => Gives(todo, p)

LEMMA HeadIs ==
  ASSUME TypeInv, NEW t \in Tasks, task[t].pc # "idle"
  PROVE  /\ task[t] \in Greenlets /\ task[t].todo \in Seq(Ops) /\ task[t].todo # <<>>
         /\ Head(task[t].todo) \in Ops /\ Rest(t) \in Seq(Ops)
         /\ task[t].att \in 1..Retries /\ task[t].watch \in {"none", "on", "off"}
  <1>1. /\ task[t] \in Greenlets /\ task[t].todo \in Seq(Ops) /\ task[t].todo # <<>>
        /\ task[t].att \in 1..Retries /\ task[t].watch \in {"none", "on", "off"}
    BY DEF TypeInv, Busy, Greenlets
  <1>2. QED
    BY <1>1, RestIs DEF Rest

\* A command is given, or its handler finds the feeder off, or it fails.
LEMMA CommandIs ==
  ASSUME TypeInv, NEW t \in Tasks, Command(t)
  PROVE  /\ task[t].pc = "next"
         /\ \/ /\ Fine
               /\ \/ ~ifs /\ dev' = dev
                  \/ ifs /\ Head(task[t].todo).cmd = "wait" /\ dev' = dev
                  \/ /\ ifs /\ Head(task[t].todo).cmd # "wait"
                     /\ dev' = Executed(t, Head(task[t].todo))
               /\ \/ Head(task[t].todo).cmd \in Unwaited /\ Done(t)
                  \/ Head(task[t].todo).cmd \notin Unwaited /\ Becomes(t, task[t].todo, "ask")
                  \/ ~ifs /\ (Done(t) \/ Becomes(t, Recovery, "next"))
            \/ /\ ifs /\ Head(task[t].todo).cmd # "wait"
               /\ dev' \in {dev, Executed(t, Head(task[t].todo))}
               /\ \/ Fault("late") /\ Becomes(t, Recovery, "next")
                  \/ Fault("garbled") /\ Becomes(t, <<>>, "idle")
  <1> DEFINE op == Head(task[t].todo)
             first == op.cmd = "F15" \/ (task[t].att = 1 /\ op.how # "auto")
             next == IF op.cmd \in Unwaited THEN Goto(t, Tail(task[t].todo), task[t].att)
                                            ELSE Enter(t, "ask", WatchOf(t, op))
  <1>1. /\ task[t].pc = "next"
        /\ \/ op.cmd = "wait" /\ next /\ UNCHANGED dev /\ Fine
           \/ /\ op.cmd # "wait" /\ ~ifs /\ first
              /\ Goto(t, Tail(task[t].todo), task[t].att) /\ UNCHANGED dev /\ Fine
           \/ op.cmd \in {"F10", "F11"} /\ ~ifs /\ ~first /\ next /\ UNCHANGED dev /\ Fine
           \/ /\ op.cmd \notin {"wait", "F10", "F11"} /\ ~ifs /\ ~first /\ Recover(t)
              /\ UNCHANGED dev /\ Fine
           \/ /\ op.cmd # "wait" /\ ifs
              /\ \/ dev' = Executed(t, op) /\ next /\ Fine
                 \/ dev' \in {dev, Executed(t, op)} /\ Fault("late") /\ Recover(t)
                 \/ dev' \in {dev, Executed(t, op)} /\ Fault("garbled") /\ Raise(t)
    BY DEF Command
  <1>2. /\ Rest(t) \in Seq(Ops) /\ task[t].att \in 1..Retries
        /\ task[t].watch \in {"none", "on", "off"}
    BY <1>1, HeadIs
  <1>3. WatchOf(t, op) \in {"none", "on", "off"}
    BY <1>2 DEF WatchOf
  <1>4. Goto(t, Tail(task[t].todo), task[t].att) => Done(t)
    BY <1>2, GotoIs DEF Rest, Done
  <1>5. next => \/ op.cmd \in Unwaited /\ Done(t)
                \/ op.cmd \notin Unwaited /\ Becomes(t, task[t].todo, "ask")
    BY <1>3, <1>4, EnterIs
  <1>6. /\ Recover(t) => Becomes(t, Recovery, "next")
        /\ Raise(t) => Becomes(t, <<>>, "idle")
    BY RecoverIs, RaiseIs
  <1> HIDE DEF next, first
  <1>7. CASE op.cmd = "wait" /\ next /\ UNCHANGED dev /\ Fine
    BY <1>1, <1>5, <1>7
  <1>8. CASE ~ifs /\ (next \/ Done(t) \/ Recover(t)) /\ UNCHANGED dev /\ Fine
    BY <1>1, <1>5, <1>6, <1>8
  <1>9. CASE /\ op.cmd # "wait" /\ ifs
             /\ \/ dev' = Executed(t, op) /\ next /\ Fine
                \/ dev' \in {dev, Executed(t, op)} /\ Fault("late") /\ Recover(t)
                \/ dev' \in {dev, Executed(t, op)} /\ Fault("garbled") /\ Raise(t)
    BY <1>1, <1>5, <1>6, <1>9
  <1>10. QED
    BY <1>1, <1>4, <1>7, <1>8, <1>9

\* A poll is answered, or the switch trips, or it fails.
LEMMA AskIs ==
  ASSUME TypeInv, NEW t \in Tasks, Ask(t)
  PROVE  /\ task[t].pc = "ask" /\ (Fine \/ \E k \in Faults : Fault(k))
         /\ \/ Becomes(t, Recovery, "next")
            \/ /\ Becomes(t, task[t].todo, "judge") /\ task'[t].watch = task[t].watch
               /\ \/ task'[t].got = NoAnswer /\ Tripped(task[t].watch)
                  \/ task'[t].got = Status
                  \/ Fault("garbled")
  <1> DEFINE answer(s) == task' = [task EXCEPT ![t].pc = "judge", ![t].got = s]
  <1>1. task[t].pc = "ask" /\ (Fine \/ \E k \in Faults : Fault(k))
    BY FaultIs DEF Ask
  <1>2. ASSUME NEW s \in Answer, answer(s)
        PROVE  /\ Becomes(t, task[t].todo, "judge") /\ task'[t].watch = task[t].watch
               /\ task'[t].got = s
    <2> DEFINE after == [task[t] EXCEPT !.pc = "judge", !.got = s]
    <2>1. task \in [Tasks -> Greenlets]
      BY DEF TypeInv
    <2>2. /\ after \in Greenlets /\ after.todo = task[t].todo /\ after.pc = "judge"
          /\ after.watch = task[t].watch /\ after.got = s
      BY <2>1 DEF Greenlets
    <2>3. task' = [task EXCEPT ![t] = after]
      BY <1>2, <2>1 DEF Greenlets
    <2> HIDE DEF after
    <2>4. QED
      BY <2>1, <2>2, <2>3 DEF Becomes
  <1>3. NoAnswer \in Answer /\ Garbage \in Answer /\ Status \in Answer
    BY StatusIs
  <1>4. \/ Tripped(task[t].watch) /\ answer(NoAnswer)
        \/ answer(Status)
        \/ answer(Garbage) /\ Fault("garbled")
        \/ Recover(t)
    BY DEF Ask
  <1> HIDE DEF answer
  <1>5. QED
    BY <1>1, <1>2, <1>3, <1>4, RecoverIs

\* What follows a verdict keeps what is still to be given free, and it begins with a stop,
\* unless the feeder was found to have stopped.
LEMMA FollowIs ==
  ASSUME TypeInv, NEW t \in Tasks, task[t].pc # "idle"
  PROVE  /\ Keeps(t, Rest(t))
         /\ \A x \in Ops : x.cmd # "F24" =>
              /\ <<x>> \o Rest(t) \in Seq(Ops) /\ Keeps(t, <<x>> \o Rest(t))
              /\ <<x>> \o Rest(t) # <<>> /\ Head(<<x>> \o Rest(t)) = x
         /\ \A x, y \in Ops : x.cmd # "F24" /\ (y.cmd # "F24" \/ y = Head(task[t].todo)) =>
              /\ <<x, y>> \o Rest(t) \in Seq(Ops) /\ Keeps(t, <<x, y>> \o Rest(t))
              /\ <<x, y>> \o Rest(t) # <<>> /\ Head(<<x, y>> \o Rest(t)) = x
  <1> DEFINE r == Rest(t)
  <1>1. /\ r \in Seq(Ops) /\ (Gated(task[t].todo) => Gated(r))
        /\ Gated(task[t].todo) /\ Head(task[t].todo).cmd = "F24"
             => Gives(r, Head(task[t].todo).port)
    BY HeadIs, RestIs DEF Rest
  <1>2. ASSUME NEW x \in Ops, x.cmd # "F24"
        PROVE  /\ <<x>> \o r \in Seq(Ops) /\ Keeps(t, <<x>> \o r)
               /\ <<x>> \o r # <<>> /\ Head(<<x>> \o r) = x
    BY <1>1, <1>2, FirstIs DEF Keeps
  <1>3. ASSUME NEW x \in Ops, NEW y \in Ops, x.cmd # "F24",
               y.cmd # "F24" \/ y = Head(task[t].todo)
        PROVE  /\ <<x, y>> \o r \in Seq(Ops) /\ Keeps(t, <<x, y>> \o r)
               /\ <<x, y>> \o r # <<>> /\ Head(<<x, y>> \o r) = x
    <2>1. /\ <<y>> \o r \in Seq(Ops) /\ (Gated(task[t].todo) => Gated(<<y>> \o r))
          /\ \A p : Gives(r, p) => Gives(<<y>> \o r, p)
      BY <1>1, <1>3, FirstIs
    <2>2. <<x, y>> \o r = <<x>> \o (<<y>> \o r)
      BY <1>1, <1>3, TwoIs
    <2> DEFINE s == <<y>> \o r
    <2> HIDE DEF s
    <2>3. /\ <<x>> \o s \in Seq(Ops) /\ (Gated(task[t].todo) => Gated(<<x>> \o s))
          /\ <<x>> \o s # <<>> /\ Head(<<x>> \o s) = x
          /\ \A p : Gives(r, p) => Gives(<<x>> \o s, p)
      BY <1>3, <2>1, FirstIs DEF s
    <2>4. QED
      BY <2>2, <2>3 DEF Keeps, s
  <1>4. Keeps(t, r)
    BY <1>1 DEF Keeps
  <1>5. QED
    BY <1>2, <1>3, <1>4

\* Where a verdict leads: the list that follows keeps what is to be given free, and it
\* begins with a stop unless the feeder has stopped.
Follows(t, todo) ==
  /\ todo \in Seq(Ops) /\ Becomes(t, todo, IF todo = <<>> THEN "idle" ELSE "next")
  /\ Keeps(t, todo)
  /\ \/ todo # <<>> /\ Head(todo) = Stop
     \/ ~Tripped(task[t].watch) /\ data'.st \in {"ready", "error"}

LEMMA AfterExtruderIs ==
  ASSUME TypeInv, NEW t \in Tasks, task[t].pc # "idle",
         Goto(t, AfterExtruder(Head(task[t].todo)) \o Rest(t), 1)
  PROVE  \E todo : Follows(t, todo)
  <1> DEFINE back == Op("F11", "plain", Head(task[t].todo).port)
             todo == AfterExtruder(Head(task[t].todo)) \o Rest(t)
  <1>1. Stop \in Ops /\ Stop.cmd = "F112" /\ back \in Ops /\ back.cmd = "F11"
    <2> DEFINE p == Head(task[t].todo).port
    <2>1. p \in Ports \cup {0}
      <3>1. Head(task[t].todo) \in Ops
        BY HeadIs
      <3>2. QED
        BY <3>1 DEF Ops, OpsOf
    <2> HIDE DEF p
    <2>2. Op("F11", "plain", p) \in Ops /\ Op("F11", "plain", p).cmd = "F11"
      BY <2>1 DEF Op, Ops, OpsOf
    <2>3. QED
      BY <2>2, NamedIs DEF p
  <1>2. todo = <<Stop>> \o Rest(t) \/ todo = <<Stop, back>> \o Rest(t)
    BY DEF AfterExtruder
  <1> HIDE DEF back, todo
  <1>3. todo \in Seq(Ops) /\ Keeps(t, todo) /\ todo # <<>> /\ Head(todo) = Stop
    <2>1. CASE todo = <<Stop>> \o Rest(t)
      BY <1>1, <2>1, FollowIs
    <2>2. CASE todo = <<Stop, back>> \o Rest(t)
      <3>1. Stop.cmd # "F24" /\ back.cmd # "F24"
        BY <1>1
      <3>2. QED
        BY <1>1, <2>2, <3>1, FollowIs
    <2>3. QED
      BY <1>2, <2>1, <2>2
  <1>4. 1 \in 1..Retries
    BY RetriesAssumption
  <1>5. Becomes(t, todo, IF todo = <<>> THEN "idle" ELSE "next")
    BY <1>3, <1>4, GotoIs DEF todo
  <1>6. QED
    BY <1>3, <1>5 DEF Follows

\* Ready, with or without a stop that was promised.
LEMMA AfterReadyIs ==
  ASSUME TypeInv, NEW t \in Tasks, task[t].pc # "idle",
         ~Tripped(task[t].watch), data'.st = "ready", NEW stop \in BOOLEAN,
         Goto(t, (IF stop THEN <<Stop>> ELSE <<>>) \o Rest(t), 1)
  PROVE  \E todo : Follows(t, todo)
  <1> DEFINE todo == (IF stop THEN <<Stop>> ELSE <<>>) \o Rest(t)
  <1>1. Stop \in Ops /\ Stop.cmd = "F112" /\ 1 \in 1..Retries
    BY NamedIs, RetriesAssumption
  <1>2. Rest(t) \in Seq(Ops)
    BY HeadIs
  <1>3. todo \in {<<Stop>> \o Rest(t), Rest(t)}
    BY <1>2, ConcatEmptySeq
  <1>4. todo \in Seq(Ops) /\ Keeps(t, todo)
    BY <1>1, <1>2, <1>3, FollowIs
  <1> HIDE DEF todo
  <1>5. Becomes(t, todo, IF todo = <<>> THEN "idle" ELSE "next")
    BY <1>1, <1>4, GotoIs DEF todo
  <1>6. QED
    BY <1>4, <1>5 DEF Follows

LEMMA AfterLackIs ==
  ASSUME TypeInv, NEW t \in Tasks, task[t].pc # "idle",
         AfterLack(t, Head(task[t].todo), Rest(t))
  PROVE  Becomes(t, Recovery, "next") \/ \E todo : Follows(t, todo)
  <1> DEFINE todo == <<Stop>> \o Rest(t)
  <1>1. Recover(t) \/ Goto(t, todo, 1)
    BY DEF AfterLack
  <1>2. CASE Recover(t)
    BY <1>2, RecoverIs
  <1>3. CASE Goto(t, todo, 1)
    <2>1. Stop \in Ops /\ Stop.cmd = "F112" /\ 1 \in 1..Retries
      BY NamedIs, RetriesAssumption
    <2>2. todo \in Seq(Ops) /\ Keeps(t, todo) /\ todo # <<>> /\ Head(todo) = Stop
      BY <2>1, FollowIs
    <2> HIDE DEF todo
    <2>3. Becomes(t, todo, IF todo = <<>> THEN "idle" ELSE "next")
      BY <1>3, <2>1, <2>2, GotoIs DEF todo
    <2>4. QED
      BY <2>2, <2>3 DEF Follows
  <1>4. QED
    BY <1>1, <1>2, <1>3

\* The driver is reset and the command given again, as often as it is to be tried.
LEMMA AfterErrorIs ==
  ASSUME TypeInv, NEW t \in Tasks, task[t].pc # "idle",
         ~Tripped(task[t].watch), data'.st = "error",
         AfterError(t, Head(task[t].todo), Rest(t))
  PROVE  \E todo : Follows(t, todo)
  <1> DEFINE op == Head(task[t].todo)
             last == <<Reset>> \o (IF op.how = "auto" THEN <<Stop>> ELSE <<>>) \o Rest(t)
  <1>1. /\ Reset \in Ops /\ Reset.cmd = "F15" /\ Stop \in Ops /\ Stop.cmd = "F112"
        /\ op \in Ops /\ Rest(t) \in Seq(Ops) /\ task[t].att \in 1..Retries
        /\ Retries \in Nat \ {0}
    BY NamedIs, HeadIs, RetriesAssumption
  <1>2. \/ task[t].att < Retries /\ Goto(t, <<Reset, op>> \o Rest(t), task[t].att + 1)
        \/ Goto(t, last, 1)
    BY DEF AfterError
  <1>3. last \in {<<Reset, Stop>> \o Rest(t), <<Reset>> \o Rest(t)}
    <2>1. <<Reset>> \in Seq(Ops) /\ <<Stop>> \in Seq(Ops)
      BY <1>1
    <2>2. <<Reset>> \o <<>> = <<Reset>>
      BY <2>1, ConcatEmptySeq
    <2>3. (<<Reset>> \o <<Stop>>) \o Rest(t) = <<Reset, Stop>> \o Rest(t)
      BY <1>1, <2>1, ConcatAssociative, TwoIs
    <2>4. QED
      BY <2>2, <2>3
  <1>4. ASSUME NEW todo \in Seq(Ops), NEW n \in 1..Retries, Goto(t, todo, n), Keeps(t, todo)
        PROVE  Follows(t, todo)
    BY <1>4, GotoIs DEF Follows
  <1>5. CASE task[t].att < Retries /\ Goto(t, <<Reset, op>> \o Rest(t), task[t].att + 1)
    <2> DEFINE todo == <<Reset, op>> \o Rest(t)
    <2>1. todo \in Seq(Ops) /\ Keeps(t, todo)
      BY <1>1, FollowIs
    <2>2. task[t].att + 1 \in 1..Retries
      BY <1>1, <1>5
    <2> HIDE DEF todo, op
    <2>3. QED
      BY <1>4, <1>5, <2>1, <2>2 DEF todo
  <1>6. CASE Goto(t, last, 1)
    <2>1. last \in Seq(Ops) /\ Keeps(t, last)
      BY <1>1, <1>3, FollowIs
    <2>2. 1 \in 1..Retries
      BY <1>1
    <2> HIDE DEF last
    <2>3. QED
      BY <1>4, <1>6, <2>1, <2>2
  <1>7. QED
    BY <1>2, <1>5, <1>6

\* A verdict is drawn, or the state waited for is not there yet, or it comes too late.
LEMMA JudgeIs ==
  ASSUME TypeInv, NEW t \in Tasks, Judge(t)
  PROVE  /\ task[t].pc = "judge" /\ data' = Stored(task[t].got)
         /\ Fine \/ \E k \in Faults : Fault(k)
         /\ \/ Becomes(t, Recovery, "next")
            \/ Becomes(t, task[t].todo, "ask")
            \/ \E todo : Follows(t, todo)
  <1> DEFINE op == Head(task[t].todo)
             stop == op.cmd = "F11" /\ op.how = "check"
  <1>1. task[t].pc = "judge" /\ JudgeOn(t, task[t].got)
    BY DEF Judge
  <1>2. /\ data' = Stored(task[t].got)
        /\ \/ Goto(t, AfterExtruder(op) \o Rest(t), 1) /\ Fine
           \/ /\ ~Tripped(task[t].watch)
              /\ \/ /\ data'.st = "ready" /\ Fine
                    /\ Goto(t, (IF stop THEN <<Stop>> ELSE <<>>) \o Rest(t), 1)
                 \/ data'.st = "error" /\ AfterError(t, op, Rest(t)) /\ Fine
                 \/ AfterLack(t, op, Rest(t)) /\ Fine
                 \/ Fault("late") /\ Recover(t)
                 \/ Enter(t, "ask", task[t].watch) /\ Fine
    BY <1>1 DEF JudgeOn, Rest
  <1>3. Fine \/ \E k \in Faults : Fault(k)
    BY <1>2, FaultIs
  <1>4. CASE Goto(t, AfterExtruder(op) \o Rest(t), 1)
    BY <1>1, <1>2, <1>3, <1>4, AfterExtruderIs
  <1>5. CASE /\ ~Tripped(task[t].watch) /\ data'.st = "ready"
             /\ Goto(t, (IF stop THEN <<Stop>> ELSE <<>>) \o Rest(t), 1)
    <2>1. stop \in BOOLEAN
      OBVIOUS
    <2> HIDE DEF stop
    <2>2. \E todo : Follows(t, todo)
      BY <1>1, <1>5, <2>1, AfterReadyIs
    <2>3. QED
      BY <1>1, <1>2, <1>3, <2>2
  <1>6. CASE ~Tripped(task[t].watch) /\ data'.st = "error" /\ AfterError(t, op, Rest(t))
    BY <1>1, <1>2, <1>3, <1>6, AfterErrorIs
  <1>7. CASE AfterLack(t, op, Rest(t))
    BY <1>1, <1>2, <1>3, <1>7, AfterLackIs
  <1>8. CASE Recover(t) \/ Enter(t, "ask", task[t].watch)
    <2>1. task[t].watch \in {"none", "on", "off"}
      BY <1>1, HeadIs
    <2>2. QED
      BY <1>1, <1>2, <1>3, <1>8, <2>1, RecoverIs, EnterIs
  <1>9. QED
    BY <1>2, <1>4, <1>5, <1>6, <1>7, <1>8

----------------------------------------------------------------------------
(* Type correctness.                                                       *)

\* A greenlet that moves to a list it has something to do of, or to none, stays of its type.
LEMMA BecomesIs ==
  ASSUME TypeInv, NEW t \in Tasks, NEW todo, NEW pc, Becomes(t, todo, pc),
         (pc = "idle") <=> (todo = <<>>)
  PROVE  task' \in [Tasks -> Greenlets] /\ \A u \in Tasks : Busy(u)'
  BY DEF TypeInv, Becomes, Busy

\* The feeder's side of the type invariant after a command.
LEMMA DevIs ==
  ASSUME TypeInv, dev' \in Devs, dev'.marks \subseteq dev.marks
  PROVE  \E n \in Nat : \A p \in dev'.marks : p <= n
  BY DEF TypeInv

LEMMA NotedIs ==
  ASSUME TypeInv, NEW p \in Ports \cup {0}, NEW so \in BOOLEAN
  PROVE  Noted(p, so) \in [announced : SUBSET Ports, noted : SUBSET Ports]
  <1> DEFINE n == rods.noted \cup ({p} \ {0})
  <1>1. rods \in [announced : SUBSET Ports, noted : SUBSET Ports]
    BY DEF TypeInv
  <1>2. n \in SUBSET Ports
    BY <1>1
  <1>3. Noted(p, so) = IF so THEN [rods EXCEPT !.noted = n] ELSE rods
    BY <1>1 DEF Noted
  <1> HIDE DEF n
  <1>4. QED
    BY <1>1, <1>2, <1>3

LEMMA TypeInit == Init => TypeInv
  <1> SUFFICES ASSUME Init PROVE TypeInv
    OBVIOUS
  <1>1. dev \in Devs /\ dev.marks = {}
    BY DEF Init, Devs, States
  <1>2. \E n \in Nat : \A p \in dev.marks : p <= n
    BY <1>1
  <1>3. data \in Datas /\ ~data.need
    BY DEF Init, Datas
  <1>4. task \in [Tasks -> Greenlets] /\ \A t \in Tasks : Busy(t)
    <2>1. <<>> \in Seq(Ops)
      OBVIOUS
    <2>2. Idle \in Greenlets /\ Idle.todo = <<>> /\ Idle.pc = "idle"
      BY <2>1, StartingIs
    <2>3. QED
      BY <2>2 DEF Init, Busy
  <1>5. faults \in [Faults -> Nat] /\ pending \in Seq(Ports)
    BY DEF Init
  <1>6. rods \in [announced : SUBSET Ports, noted : SUBSET Ports]
    BY DEF Init
  <1>7. QED
    BY <1>1, <1>2, <1>3, <1>4, <1>5, <1>6 DEF Init, TypeInv

\* The steps of the feeder, the switch and the line.
LEMMA FeederType ==
  ASSUME TypeInv
  PROVE  /\ Settle \/ Break => TypeInv'
         /\ Switch \/ Gone \/ Back => TypeInv'
         /\ \A p \in Ports : PutIn(p) \/ PullOut(p) => TypeInv'
  <1>1. ASSUME Settle \/ Break PROVE TypeInv'
    <2>1. dev' = Still("ready") \/ dev' = Still("error")
      BY <1>1 DEF Settle, Break
    <2>2. dev' \in Devs /\ dev'.marks = dev.marks
      BY <2>1 DEF TypeInv, Still, Devs, States
    <2>3. \E n \in Nat : \A p \in dev'.marks : p <= n
      BY <2>2 DEF TypeInv
    <2>4. UNCHANGED <<ext, ifs, data, task, reader, pending, rods, count, faults>>
      BY <1>1 DEF Settle, Break
    <2>5. QED
      BY <2>2, <2>3, <2>4 DEF TypeInv, Busy
  <1>2. ASSUME Switch \/ Gone \/ Back PROVE TypeInv'
    <2>1. /\ ext' \in BOOLEAN /\ ifs' \in BOOLEAN
          /\ UNCHANGED <<dev, data, task, reader, pending, rods>>
          /\ Fine \/ \E k \in {"bounce", "gone"} : Fault(k)
      BY <1>2 DEF Switch, Gone, Back, Fine, TypeInv
    <2>2. faults' \in [Faults -> Nat]
      BY <2>1, FaultIs DEF Fine, TypeInv
    <2>3. QED
      BY <2>1, <2>2 DEF TypeInv, Busy
  <1>3. ASSUME NEW p \in Ports, PutIn(p) PROVE TypeInv'
    <2> DEFINE m == dev.marks \cup {p}
               a == rods.announced \ {p}
               o == IF data.ins = p THEN rods.noted \cup {p} ELSE rods.noted \ {p}
    <2>1. /\ dev' = [dev EXCEPT !.marks = m] /\ rods' = [announced |-> a, noted |-> o]
          /\ UNCHANGED <<ext, ifs, data, task, reader, pending, faults>>
      BY <1>3 DEF PutIn, TypeInv, Devs
    <2>2. m \in SUBSET Ports /\ a \in SUBSET Ports /\ o \in SUBSET Ports
      BY DEF TypeInv, Devs
    <2>3. \E n \in Nat : \A q \in m : q <= n
      <3>1. PICK n \in Nat : \A q \in dev.marks : q <= n
        BY DEF TypeInv
      <3>2. p \in Nat /\ dev.marks \subseteq Nat
        BY PortsAssumption DEF TypeInv, Devs
      <3>3. n + p \in Nat /\ \A q \in m : q <= n + p
        BY <3>1, <3>2
      <3>4. QED
        BY <3>3
    <2> HIDE DEF m, a, o
    <2>4. dev' \in Devs /\ dev'.marks = m
      BY <2>1, <2>2 DEF TypeInv, Devs
    <2>5. rods' \in [announced : SUBSET Ports, noted : SUBSET Ports]
      BY <2>1, <2>2
    <2>6. QED
      BY <2>1, <2>3, <2>4, <2>5 DEF TypeInv, Busy
  <1>4. ASSUME NEW p \in Ports, PullOut(p) PROVE TypeInv'
    <2> DEFINE m == dev.marks \ {p}
    <2>1. /\ dev' = [dev EXCEPT !.marks = m]
          /\ UNCHANGED <<ext, ifs, data, task, reader, pending, rods, count, faults>>
      BY <1>4 DEF PullOut, TypeInv, Devs
    <2>2. m \in SUBSET Ports /\ m \subseteq dev.marks
      BY DEF TypeInv, Devs
    <2> HIDE DEF m
    <2>3. dev' \in Devs /\ dev'.marks \subseteq dev.marks
      BY <2>1, <2>2 DEF TypeInv, Devs
    <2>4. QED
      BY <2>1, <2>3, DevIs DEF TypeInv, Busy
  <1>5. QED
    BY <1>1, <1>2, <1>3, <1>4

\* The steps of the reader.
LEMMA ReaderType ==
  ASSUME TypeInv
  PROVE  Poll \/ Look => TypeInv'
  <1>1. ASSUME Poll PROVE TypeInv'
    <2>1. /\ data' \in Datas /\ (data'.need => data'.ins # 0)
          /\ Fine \/ Fault("garbled")
      BY <1>1, StatusIs, StoredIs DEF Poll
    <2>2. faults' \in [Faults -> Nat]
      BY <2>1, FaultIs DEF Fine, TypeInv
    <2>3. rods' \in [announced : SUBSET Ports, noted : SUBSET Ports]
      <3>1. rods' = Noted(data'.ins, data'.ins # data.ins /\ data'.st # "ready")
        BY <1>1 DEF Poll
      <3>2. data'.ins \in Ports \cup {0}
        BY <2>1 DEF Datas
      <3>3. QED
        BY <3>1, <3>2, NotedIs
    <2>4. reader' = "look" /\ UNCHANGED <<dev, ext, ifs, task, pending, count>>
      BY <1>1 DEF Poll
    <2>5. QED
      BY <2>1, <2>2, <2>3, <2>4 DEF TypeInv, Busy
  <1>2. ASSUME Look PROVE TypeInv'
    <2>1. reader' = "round" /\ UNCHANGED <<dev, ext, ifs, data, task, count, faults>>
      BY <1>2 DEF Look
    <2>2. /\ pending' \in Seq(Ports)
          /\ rods' \in [announced : SUBSET Ports, noted : SUBSET Ports]
      <3>1. CASE data.need
        <4> DEFINE a == rods.announced \cup {data.ins}
        <4>1. data.ins \in Ports
          BY <3>1 DEF TypeInv, Datas
        <4>2. a \in SUBSET Ports
          BY <4>1 DEF TypeInv
        <4>3. pending' = Append(pending, data.ins) /\ rods' = [rods EXCEPT !.announced = a]
          BY <1>2, <3>1 DEF Look, TypeInv
        <4> HIDE DEF a
        <4>4. QED
          BY <4>1, <4>2, <4>3 DEF TypeInv
      <3>2. CASE ~data.need
        BY <1>2, <3>2 DEF Look, TypeInv
      <3>3. QED
        BY <3>1, <3>2
    <2>3. QED
      BY <2>1, <2>2 DEF TypeInv, Busy
  <1>3. QED
    BY <1>1, <1>2

\* The steps of a greenlet.
LEMMA GreenletType ==
  ASSUME TypeInv, NEW t \in Tasks
  PROVE  Give(t) \/ RunAuto(t) \/ Command(t) \/ Ask(t) \/ Judge(t) => TypeInv'
  <1>1. ASSUME Give(t) PROVE TypeInv'
    <2>1. PICK prog \in Calls : Begin(t, prog)
      BY <1>1 DEF Give
    <2>2. Becomes(t, prog, "next") /\ prog # <<>>
      BY <2>1, CallIs, BeginIs
    <2>3. task' \in [Tasks -> Greenlets] /\ \A u \in Tasks : Busy(u)'
      BY <2>2, BecomesIs
    <2>4. QED
      BY <1>1, <2>3 DEF Give, TypeInv
  <1>2. ASSUME RunAuto(t) PROVE TypeInv'
    <2>1. /\ pending # <<>> /\ Begin(t, AutoInsert(Head(pending)))
          /\ pending' = Tail(pending) /\ pending \in Seq(Ports)
          /\ UNCHANGED <<dev, ext, ifs, data, reader, rods, count, faults>>
      BY <1>2 DEF RunAuto, TypeInv
    <2>2. Head(pending) \in Ports /\ Tail(pending) \in Seq(Ports)
      BY <2>1
    <2>3. Becomes(t, AutoInsert(Head(pending)), "next") /\ AutoInsert(Head(pending)) # <<>>
      BY <2>1, <2>2, AutoInsertIs, BeginIs
    <2>4. task' \in [Tasks -> Greenlets] /\ \A u \in Tasks : Busy(u)'
      BY <2>3, BecomesIs
    <2>5. QED
      BY <2>1, <2>2, <2>4 DEF TypeInv
  <1>3. ASSUME Command(t) PROVE TypeInv'
    <2> DEFINE op == Head(task[t].todo)
    <2>1. task[t].pc = "next" /\ task[t].todo # <<>> /\ op \in Ops /\ Rest(t) \in Seq(Ops)
      BY <1>3, CommandIs, HeadIs
    <2>2. dev' = dev \/ (op.cmd # "wait" /\ dev' = Executed(t, op))
      BY <1>3, CommandIs
    <2>3. dev' \in Devs /\ dev'.marks \subseteq dev.marks
      BY <2>1, <2>2, ExecutedIs DEF TypeInv
    <2>4. Fine \/ \E k \in Faults : Fault(k)
      BY <1>3, CommandIs, FaultIs
    <2>5. \/ Done(t) \/ Becomes(t, task[t].todo, "ask")
          \/ Becomes(t, Recovery, "next") \/ Becomes(t, <<>>, "idle")
      BY <1>3, CommandIs
    <2>6. task' \in [Tasks -> Greenlets] /\ \A u \in Tasks : Busy(u)'
      BY <2>1, <2>5, BecomesIs, RecoveryIs DEF Done
    <2>7. faults' \in [Faults -> Nat]
      BY <2>4, FaultIs DEF Fine, TypeInv
    <2>8. UNCHANGED <<ext, ifs, data, reader, pending, rods, count>>
      BY <1>3 DEF Command
    <2>9. QED
      BY <2>3, <2>6, <2>7, <2>8, DevIs DEF TypeInv
  <1>4. ASSUME Ask(t) PROVE TypeInv'
    <2>1. task[t].pc = "ask" /\ task[t].todo # <<>>
      BY <1>4, AskIs, HeadIs
    <2>2. Becomes(t, Recovery, "next") \/ Becomes(t, task[t].todo, "judge")
      BY <1>4, AskIs
    <2>3. task' \in [Tasks -> Greenlets] /\ \A u \in Tasks : Busy(u)'
      BY <2>1, <2>2, BecomesIs, RecoveryIs
    <2>4. faults' \in [Faults -> Nat]
      BY <1>4, AskIs, FaultIs DEF Fine, TypeInv
    <2>5. UNCHANGED <<dev, ext, ifs, data, reader, pending, rods, count>>
      BY <1>4 DEF Ask
    <2>6. QED
      BY <2>3, <2>4, <2>5 DEF TypeInv
  <1>5. ASSUME Judge(t) PROVE TypeInv'
    <2>1. /\ task[t].pc = "judge" /\ task[t].todo # <<>> /\ task[t].got \in Answer
          /\ data' = Stored(task[t].got)
      BY <1>5, JudgeIs, HeadIs DEF Greenlets
    <2>2. data' \in Datas /\ (data'.need => data'.ins # 0)
      BY <2>1, StoredIs
    <2>3. \/ Becomes(t, Recovery, "next") \/ Becomes(t, task[t].todo, "ask")
          \/ \E todo : Follows(t, todo)
      BY <1>5, JudgeIs
    <2>4. task' \in [Tasks -> Greenlets] /\ \A u \in Tasks : Busy(u)'
      BY <2>1, <2>3, BecomesIs, RecoveryIs DEF Follows
    <2>5. faults' \in [Faults -> Nat]
      BY <1>5, JudgeIs, FaultIs DEF Fine, TypeInv
    <2>6. rods' \in [announced : SUBSET Ports, noted : SUBSET Ports]
      <3>1. rods' = Noted(data'.ins, data'.ins # data.ins \/ (data.need /\ reader = "look"))
        BY <1>5 DEF Judge
      <3>2. data'.ins \in Ports \cup {0} /\ data.need \in BOOLEAN
        BY <2>2 DEF Datas, TypeInv
      <3>3. QED
        BY <3>1, <3>2, NotedIs
    <2>7. UNCHANGED <<dev, ext, ifs, reader, pending, count>>
      BY <1>5 DEF Judge
    <2>8. QED
      BY <2>2, <2>4, <2>5, <2>6, <2>7 DEF TypeInv
  <1>6. QED
    BY <1>1, <1>2, <1>3, <1>4, <1>5

LEMMA TypeStep == TypeInv /\ [Next]_vars => TypeInv'
  <1> SUFFICES ASSUME TypeInv, [Next]_vars PROVE TypeInv'
    OBVIOUS
  <1>1. CASE UNCHANGED vars
    BY <1>1 DEF vars, TypeInv, Busy
  <1>2. CASE Next
    BY <1>2, FeederType, ReaderType, GreenletType DEF Next, Run
  <1>3. QED
    BY <1>1, <1>2

\* The invariant holds in every reachable state.
LEMMA TypeReached == Spec => []TypeInv
  BY TypeInit, TypeStep, PTL DEF Spec

\* Whatever the greenlets, the reader and the feeder do, and whatever goes wrong, the state
\* of the handlers, of IfsData and of the feeder stays of its shape: in particular every
\* list of operations is one the handlers can build, no attempt exceeds retry_count, and
\* a rod is announced with a port of the feeder, never with zero.
THEOREM TypeCorrect == Spec => []TypeOK
  <1>1. ASSUME TypeInv PROVE TypeOK
    <2>1. /\ dev \in [st : {"ready", "busy", "error"} \cup Moves, port : Ports \cup {0},
                      by : SUBSET Tasks, marks : SUBSET Ports, held : SUBSET Ports]
          /\ {ext, ifs} \subseteq BOOLEAN /\ reader \in {"round", "look"}
          /\ pending \in Seq(Ports)
      BY <1>1 DEF TypeInv, Devs, States
    <2>2. \E a \in Answer, b \in BOOLEAN :
            data = [st |-> a.st, port |-> a.port, ins |-> a.ins, need |-> b]
      <3> DEFINE a == [st |-> data.st, port |-> data.port, ins |-> data.ins]
      <3>1. /\ a \in Answer /\ data.need \in BOOLEAN
            /\ data = [st |-> a.st, port |-> a.port, ins |-> a.ins, need |-> data.need]
        BY <1>1 DEF TypeInv, Datas, Answer
      <3>2. QED
        BY <3>1
    <2>3. ASSUME NEW t \in Tasks
          PROVE  /\ task[t].todo \in Seq(OpsOf(Ports))
                 /\ task[t].pc \in {"idle", "next", "ask", "judge"}
                 /\ task[t].att \in 1..Retries /\ task[t].watch \in {"none", "on", "off"}
                 /\ task[t].got \in Answer
      <3>1. task[t] \in Greenlets
        BY <1>1 DEF TypeInv
      <3>2. task[t].todo \in Seq(Ops) /\ Ops \subseteq OpsOf(Ports)
        BY <3>1 DEF Greenlets, Ops
      <3>3. task[t].todo \in Seq(OpsOf(Ports))
        BY <3>2
      <3>4. QED
        BY <3>1, <3>3 DEF Greenlets
    <2>4. rods \in [{"announced", "noted"} -> SUBSET Ports]
      BY <1>1 DEF TypeInv
    <2>5. QED
      BY <2>1, <2>2, <2>3, <2>4 DEF TypeOK
  <1>2. QED
    BY <1>1, TypeReached, PTL

----------------------------------------------------------------------------
(* What went wrong so far.                                                 *)

\* Every step either goes well or is counted.
LEMMA StepIs ==
  ASSUME TypeInv, [Next]_vars
  PROVE  Fine \/ \E k \in Faults : Fault(k)
  <1>1. CASE UNCHANGED vars
    BY <1>1 DEF vars, Fine
  <1>2. ASSUME NEW t \in Tasks, Give(t) \/ RunAuto(t) PROVE Fine
    BY <1>2 DEF Give, RunAuto, Fine
  <1>3. ASSUME NEW t \in Tasks, Run(t) PROVE Fine \/ \E k \in Faults : Fault(k)
    BY <1>3, CommandIs, AskIs, JudgeIs, FaultIs DEF Run
  <1>4. CASE Settle \/ Break \/ Back \/ Look \/ \E p \in Ports : PutIn(p) \/ PullOut(p)
    BY <1>4 DEF Settle, Break, Back, Look, PutIn, PullOut, Fine
  <1>5. CASE Switch \/ Gone \/ Poll
    BY <1>5, FaultIs DEF Switch, Gone, Poll
  <1>6. QED
    BY <1>1, <1>2, <1>3, <1>4, <1>5 DEF Next

\* What has not happened after a step had not happened before it, nor in it.
LEMMA QuietIs ==
  ASSUME TypeInv, [Next]_vars, NEW K \in SUBSET Faults, ~Happened(K)'
  PROVE  ~Happened(K) /\ \A k \in K : ~Fault(k)
  <1>1. ASSUME NEW k \in K PROVE ~(faults'[k] > 0)
    BY DEF Happened
  <1>2. ASSUME NEW k \in K, Fault(k) PROVE FALSE
    BY <1>1, <1>2, FaultIs
  <1>3. ASSUME NEW k \in K, faults[k] > 0 PROVE faults'[k] > 0
    <2>1. k \in Faults
      OBVIOUS
    <2>2. CASE Fine
      BY <1>3, <2>2 DEF Fine
    <2>3. CASE \E j \in Faults : Fault(j)
      BY <1>3, <2>1, <2>3, FaultIs
    <2>4. QED
      BY <2>2, <2>3, StepIs
  <1>4. QED
    BY <1>1, <1>2, <1>3 DEF Happened

----------------------------------------------------------------------------
(* No command leaves its movement behind.                                  *)

\* The failures the code leaves open.
Unowned == {"garbled", "gone", "bounce"}

\* A greenlet whose movement goes on is about to stop it, or it waits for a state and will
\* find the feeder neither ready nor in error.
OwnAt(t) ==
  \/ task[t].pc = "next" /\ Head(task[t].todo) = Stop
  \/ task[t].pc = "ask"
  \/ task[t].pc = "judge" /\ task[t].got.st \notin {"ready", "error"}

\* A poll ends without an answer only when the switch trips, and the greenlet sees it so.
Tripping(t) == task[t].pc = "judge" /\ task[t].got = NoAnswer => Tripped(task[t].watch)

OwnInv ==
  ~Happened(Unowned) =>
    /\ ifs /\ (dev.by # {} => dev.st \in Moves)
    /\ \A t \in dev.by : OwnAt(t)
    /\ \A t \in Tasks : Tripping(t)

\* One greenlet moves, the others stay as they are.
LEMMA OwnOthers ==
  ASSUME TypeInv, NEW t \in Tasks, NEW todo, NEW pc, Becomes(t, todo, pc),
         ~Happened(Unowned), OwnInv,
         dev'.by \subseteq dev.by \cup {t}, dev'.by # {} => dev'.st \in Moves,
         ifs' = ifs, ext' = ext, t \in dev'.by => OwnAt(t)', Tripping(t)'
  PROVE  OwnInv'
  <1>1. ASSUME NEW u \in Tasks \ {t} PROVE task'[u] = task[u]
    BY DEF Becomes
  <1>2. dev.by \subseteq Tasks
    BY DEF TypeInv, Devs
  <1>3. ASSUME NEW u \in dev'.by PROVE OwnAt(u)'
    <2>1. CASE u = t
      BY <1>3, <2>1
    <2>2. CASE u # t
      <3>1. u \in dev.by /\ u \in Tasks \ {t}
        BY <1>2, <1>3, <2>2
      <3>2. OwnAt(u) /\ task'[u] = task[u]
        BY <1>1, <3>1 DEF OwnInv
      <3>3. QED
        BY <3>2 DEF OwnAt
    <2>3. QED
      BY <2>1, <2>2
  <1>4. ASSUME NEW u \in Tasks PROVE Tripping(u)'
    <2>1. CASE u = t
      BY <2>1
    <2>2. CASE u # t
      <3>1. Tripping(u) /\ task'[u] = task[u]
        BY <1>1, <2>2 DEF OwnInv
      <3>2. QED
        BY <3>1 DEF Tripping, Tripped
    <2>3. QED
      BY <2>1, <2>2
  <1>5. QED
    BY <1>3, <1>4 DEF OwnInv

\* A command: only F10 and F11 start a movement, and then the greenlet waits.
LEMMA OwnCommand ==
  ASSUME TypeInv, NEW t \in Tasks, Command(t), OwnInv, ~Happened(Unowned),
         \A k \in Unowned : ~Fault(k)
  PROVE  OwnInv'
  <1> DEFINE op == Head(task[t].todo)
  <1>1. /\ task[t].pc = "next" /\ task[t].todo # <<>> /\ op \in Ops
        /\ ifs /\ (dev.by # {} => dev.st \in Moves) /\ (t \in dev.by => OwnAt(t))
    BY CommandIs, HeadIs DEF OwnInv
  <1>2. t \in dev.by => op = Stop /\ op.cmd = "F112"
    BY <1>1, NamedIs DEF OwnAt
  <1>3. ext' = ext /\ ifs' = ifs
    BY DEF Command
  <1>4. ASSUME op.cmd # "wait", dev' = Executed(t, op)
        PROVE  /\ dev'.by \subseteq dev.by \cup {t} /\ (dev'.by # {} => dev'.st \in Moves)
               /\ t \in dev'.by => op.cmd \in {"F10", "F11"}
    <2>1. /\ Executed(t, op).by \subseteq dev.by \cup {t}
          /\ Executed(t, op).by # {} => Executed(t, op).st \in Moves
          /\ op.cmd = "F112" => Executed(t, op).by = {}
          /\ Executed(t, op).by \subseteq dev.by \/ op.cmd \in {"F10", "F11"}
      BY <1>1, <1>4, ExecutedIs
    <2>2. QED
      BY <1>2, <1>4, <2>1
  <1>5. CASE /\ op.cmd = "wait" /\ dev' = dev
             /\ \/ op.cmd \in Unwaited /\ Done(t)
                \/ op.cmd \notin Unwaited /\ Becomes(t, task[t].todo, "ask")
    <2>1. Becomes(t, task[t].todo, "ask")
      BY <1>5 DEF Unwaited
    <2>2. Tripping(t)' /\ OwnAt(t)'
      BY <2>1 DEF Becomes, Tripping, OwnAt
    <2>3. QED
      BY <1>1, <1>3, <1>5, <2>1, <2>2, OwnOthers
  <1>6. CASE op.cmd # "wait" /\ dev' = Executed(t, op) /\ op.cmd \in Unwaited /\ Done(t)
    <2> DEFINE pc == IF Rest(t) = <<>> THEN "idle" ELSE "next"
    <2>1. t \notin dev'.by
      BY <1>4, <1>6 DEF Unwaited
    <2>2. Becomes(t, Rest(t), pc) /\ pc # "judge"
      BY <1>6 DEF Done
    <2> HIDE DEF pc
    <2>3. Tripping(t)'
      BY <2>2 DEF Becomes, Tripping
    <2>4. QED
      BY <1>3, <1>4, <1>6, <2>1, <2>2, <2>3, OwnOthers
  <1>7. CASE /\ op.cmd # "wait" /\ dev' = Executed(t, op)
             /\ op.cmd \notin Unwaited /\ Becomes(t, task[t].todo, "ask")
    <2>1. Tripping(t)' /\ OwnAt(t)'
      BY <1>7 DEF Becomes, Tripping, OwnAt
    <2>2. QED
      BY <1>3, <1>4, <1>7, <2>1, OwnOthers
  <1>8. CASE /\ op.cmd # "wait" /\ dev' \in {dev, Executed(t, op)}
             /\ Becomes(t, Recovery, "next")
    <2>1. Tripping(t)' /\ OwnAt(t)'
      BY <1>8, RecoveryIs DEF Becomes, Tripping, OwnAt
    <2>2. CASE dev' = dev
      BY <1>1, <1>3, <1>8, <2>1, <2>2, OwnOthers
    <2>3. CASE dev' = Executed(t, op)
      BY <1>3, <1>4, <1>8, <2>1, <2>3, OwnOthers
    <2>4. QED
      BY <1>8, <2>2, <2>3
  <1>9. QED
    <2>1. ~Fault("garbled")
      BY DEF Unowned
    <2>2. QED
      BY <1>1, <1>5, <1>6, <1>7, <1>8, <2>1, CommandIs

\* A status request, and the verdict drawn from its answer.
LEMMA OwnWait ==
  ASSUME TypeInv, NEW t \in Tasks, Ask(t) \/ Judge(t), OwnInv, ~Happened(Unowned),
         \A k \in Unowned : ~Fault(k)
  PROVE  OwnInv'
  <1>1. dev.by # {} => dev.st \in Moves
    BY DEF OwnInv
  <1>2. dev' = dev /\ ext' = ext /\ ifs' = ifs
    BY DEF Ask, Judge
  <1>3. CASE Becomes(t, Recovery, "next")
    <2>1. Tripping(t)' /\ OwnAt(t)'
      BY <1>3, RecoveryIs DEF Becomes, Tripping, OwnAt
    <2>2. QED
      BY <1>1, <1>2, <1>3, <2>1, OwnOthers
  <1>4. CASE Becomes(t, task[t].todo, "ask")
    <2>1. Tripping(t)' /\ OwnAt(t)'
      BY <1>4 DEF Becomes, Tripping, OwnAt
    <2>2. QED
      BY <1>1, <1>2, <1>4, <2>1, OwnOthers
  <1>5. CASE /\ Becomes(t, task[t].todo, "judge") /\ task'[t].watch = task[t].watch
             /\ \/ task'[t].got = NoAnswer /\ Tripped(task[t].watch)
                \/ task'[t].got = Status
    <2>1. Tripping(t)'
      <3>1. task'[t].got = NoAnswer => Tripped(task[t].watch)
        BY <1>5, StatusIs
      <3>2. Tripped(task[t].watch) => Tripped(task[t].watch)'
        BY <1>2, <1>5 DEF Tripped
      <3>3. QED
        BY <3>1, <3>2 DEF Tripping
    <2>2. t \in dev.by => task'[t].got.st \notin {"ready", "error"}
      <3>1. CASE task'[t].got = NoAnswer
        BY <3>1, StatusIs
      <3>2. CASE task'[t].got = Status
        BY <1>1, <3>2, StatusIs DEF Moves
      <3>3. QED
        BY <1>5, <3>1, <3>2
    <2>3. t \in dev'.by => OwnAt(t)'
      BY <1>2, <1>5, <2>2 DEF Becomes, OwnAt
    <2>4. QED
      BY <1>1, <1>2, <1>5, <2>1, <2>3, OwnOthers
  <1>6. CASE Judge(t) /\ \E todo : Follows(t, todo)
    <2>1. PICK todo : Follows(t, todo)
      BY <1>6
    <2> DEFINE pc == IF todo = <<>> THEN "idle" ELSE "next"
    <2>2. Becomes(t, todo, pc) /\ pc # "judge"
      BY <2>1 DEF Follows
    <2>3. task[t].pc = "judge" /\ data' = Stored(task[t].got) /\ task[t].got \in Answer
      BY <1>6, JudgeIs, HeadIs DEF Greenlets
    <2>4. ASSUME t \in dev.by PROVE todo # <<>> /\ Head(todo) = Stop
      <3>1. task[t].got.st \notin {"ready", "error"}
        BY <2>3, <2>4 DEF OwnInv, OwnAt
      <3>2. Tripped(task[t].watch) \/ task[t].got # NoAnswer
        BY <2>3 DEF OwnInv, Tripping
      <3>3. task[t].got # NoAnswer => data'.st = task[t].got.st
        BY <2>3, StoredIs
      <3>4. QED
        BY <2>1, <3>1, <3>2, <3>3 DEF Follows
    <2>5. t \in dev'.by => OwnAt(t)'
      BY <1>2, <2>2, <2>4 DEF Becomes, OwnAt
    <2> HIDE DEF pc
    <2>6. Tripping(t)'
      BY <2>2 DEF Becomes, Tripping
    <2>7. QED
      BY <1>1, <1>2, <2>2, <2>5, <2>6, OwnOthers
  <1>7. QED
    <2>1. ~Fault("garbled")
      BY DEF Unowned
    <2>2. QED
      BY <1>3, <1>4, <1>5, <1>6, <2>1, AskIs, JudgeIs

\* Everything else leaves the movements alone, or ends them.
LEMMA OwnRest ==
  ASSUME TypeInv, OwnInv, ~Happened(Unowned), \A k \in Unowned : ~Fault(k)
  PROVE  /\ Settle \/ Break \/ Switch \/ Gone \/ Back \/ Poll \/ Look => OwnInv'
         /\ \A p \in Ports : PutIn(p) \/ PullOut(p) => OwnInv'
         /\ \A t \in Tasks : Give(t) \/ RunAuto(t) => OwnInv'
  <1>1. /\ ifs /\ (dev.by # {} => dev.st \in Moves)
        /\ (\A t \in dev.by : OwnAt(t)) /\ (\A t \in Tasks : Tripping(t))
        /\ dev \in Devs
    BY DEF OwnInv, TypeInv
  <1>2. ASSUME UNCHANGED <<ifs, ext, task>>, dev'.by \subseteq dev.by,
               dev'.by = {} \/ dev'.st = dev.st
        PROVE  OwnInv'
    BY <1>1, <1>2 DEF OwnInv, OwnAt, Tripping, Tripped
  <1>3. ASSUME Settle \/ Break PROVE OwnInv'
    <2>1. dev'.by = {} /\ UNCHANGED <<ifs, ext, task>>
      BY <1>1, <1>3 DEF Settle, Break, Still, Devs
    <2>2. QED
      BY <1>2, <2>1
  <1>4. ASSUME Switch PROVE OwnInv'
    <2>1. ~Fault("bounce")
      BY DEF Unowned
    <2>2. UNCHANGED <<dev, ifs, task>> /\ \A t \in Tasks : ~Polled(t)
      BY <1>4, <2>1 DEF Switch
    <2>3. QED
      BY <1>1, <2>2 DEF OwnInv, OwnAt, Tripping, Polled
  <1>5. ASSUME Gone \/ Back PROVE FALSE
    <2>1. ~Fault("gone")
      BY DEF Unowned
    <2>2. QED
      BY <1>1, <1>5, <2>1 DEF Gone, Back
  <1>6. ASSUME Poll \/ Look PROVE OwnInv'
    <2>1. UNCHANGED <<dev, ifs, ext, task>>
      BY <1>6 DEF Poll, Look
    <2>2. QED
      BY <1>2, <2>1
  <1>7. ASSUME NEW p \in Ports, PutIn(p) \/ PullOut(p) PROVE OwnInv'
    <2>1. dev'.by = dev.by /\ dev'.st = dev.st /\ UNCHANGED <<ifs, ext, task>>
      BY <1>1, <1>7 DEF PutIn, PullOut, Devs
    <2>2. QED
      BY <1>2, <2>1
  <1>8. ASSUME NEW t \in Tasks, Give(t) \/ RunAuto(t) PROVE OwnInv'
    <2>1. PICK todo \in Seq(Ops) : Becomes(t, todo, "next")
      <3>1. ASSUME Give(t) PROVE \E todo \in Seq(Ops) : Becomes(t, todo, "next")
        <4>1. PICK prog \in Calls : Begin(t, prog)
          BY <3>1 DEF Give
        <4>2. QED
          BY <4>1, CallIs, BeginIs
      <3>2. ASSUME RunAuto(t) PROVE \E todo \in Seq(Ops) : Becomes(t, todo, "next")
        <4>1. pending # <<>> /\ Begin(t, AutoInsert(Head(pending))) /\ pending \in Seq(Ports)
          BY <3>2 DEF RunAuto, TypeInv
        <4>2. Head(pending) \in Ports
          BY <4>1
        <4>3. QED
          BY <4>1, <4>2, AutoInsertIs, BeginIs
      <3>3. QED
        BY <1>8, <3>1, <3>2
    <2>2. task[t].pc = "idle" /\ UNCHANGED <<dev, ext, ifs>>
      BY <1>8 DEF Give, RunAuto
    <2>3. t \notin dev.by
      BY <1>1, <2>2 DEF OwnAt
    <2>4. Tripping(t)'
      BY <2>1 DEF Becomes, Tripping
    <2>5. QED
      BY <1>1, <2>1, <2>2, <2>3, <2>4, OwnOthers
  <1>9. QED
    BY <1>3, <1>4, <1>5, <1>6, <1>7, <1>8

LEMMA OwnStep == TypeInv /\ OwnInv /\ [Next]_vars => OwnInv'
  <1> SUFFICES ASSUME TypeInv, OwnInv, [Next]_vars, ~Happened(Unowned)' PROVE OwnInv'
    BY DEF OwnInv
  <1>1. ~Happened(Unowned) /\ \A k \in Unowned : ~Fault(k)
    <2>1. Unowned \in SUBSET Faults
      BY DEF Unowned, Faults
    <2>2. QED
      BY <2>1, QuietIs
  <1>2. CASE UNCHANGED vars
    BY <1>2 DEF vars, OwnInv, OwnAt, Tripping, Tripped, Happened
  <1>3. CASE Next
    BY <1>1, <1>3, OwnCommand, OwnWait, OwnRest DEF Next, Run
  <1>4. QED
    BY <1>2, <1>3

\* A feed command that is over has left no movement of its own behind, however often its
\* answers and states came late or the driver failed, and whatever the other greenlets
\* did to the feeder meanwhile; only a refused command, a feeder gone during the
\* recovery and a switch that changes between the two looks of one poll break it.
THEOREM OwnMoveOverHolds == Spec => []OwnMoveOver
  <1>1. ASSUME Init PROVE OwnInv
    <2>1. ifs /\ dev.by = {}
      BY <1>1 DEF Init
    <2>2. ASSUME NEW t \in Tasks PROVE task[t].pc = "idle"
      BY <1>1 DEF Init, Idle
    <2>3. QED
      BY <2>1, <2>2 DEF OwnInv, Tripping
  <1>2. ASSUME TypeInv, OwnInv PROVE OwnMoveOver
    BY <1>2 DEF OwnMoveOver, OwnInv, OwnAt, Unowned
  <1>3. QED
    BY <1>1, <1>2, TypeReached, OwnStep, PTL DEF Spec

----------------------------------------------------------------------------
(* No rod stays held.                                                      *)

\* A refused command, and a feeder that is gone, leave the rods to the next recovery.
Unheld == {"garbled", "gone"}

\* What a greenlet has still to give: the command it waits for has been given.
Left(t) == IF task[t].pc \in {"idle", "next"} THEN task[t].todo ELSE Rest(t)
Owes(t, p) == Gives(Left(t), p)

HeldInv ==
  ~Happened(Unheld) =>
    /\ ifs /\ \A t \in Tasks : Gated(task[t].todo)
    /\ \A p \in dev.held : \E t \in Tasks : Owes(t, p)

\* One greenlet moves: what the others owe they still owe.
LEMMA HeldOthers ==
  ASSUME TypeInv, NEW t \in Tasks, NEW todo, NEW pc, Becomes(t, todo, pc),
         ~Happened(Unheld), HeldInv, ifs' = ifs, Gated(todo),
         \A p \in dev'.held : (p \in dev.held /\ ~Owes(t, p)) \/ Owes(t, p)'
  PROVE  HeldInv'
  <1>1. \A u \in Tasks \ {t} : task'[u] = task[u]
    BY DEF Becomes
  <1>2. ifs' /\ \A u \in Tasks : Gated(task'[u].todo)
    BY <1>1 DEF HeldInv, Becomes
  <1>3. ASSUME NEW p \in dev'.held PROVE \E u \in Tasks : Owes(u, p)'
    <2>1. CASE Owes(t, p)'
      BY <2>1
    <2>2. CASE p \in dev.held /\ ~Owes(t, p)
      <3>1. PICK u \in Tasks : Owes(u, p)
        BY <2>2 DEF HeldInv
      <3>2. task'[u] = task[u]
        BY <1>1, <2>2, <3>1
      <3>3. Owes(u, p)'
        BY <3>1, <3>2 DEF Owes, Left, Rest
      <3>4. QED
        BY <3>3
    <2>3. QED
      BY <2>1, <2>2
  <1>4. QED
    BY <1>2, <1>3 DEF HeldInv

\* What a greenlet owes, by where it is and where it goes.
LEMMA OwesIs ==
  ASSUME TypeInv, NEW t \in Tasks, NEW p
  PROVE  /\ task[t].pc = "idle" => ~Owes(t, p)
         /\ task[t].pc = "next" => (Owes(t, p) <=> Gives(task[t].todo, p))
         /\ task[t].pc \in {"ask", "judge"} => (Owes(t, p) <=> Gives(Rest(t), p))
         /\ \A todo : Becomes(t, todo, "next") \/ Becomes(t, todo, "idle")
              => (Owes(t, p)' <=> Gives(todo, p))
         /\ \A pc \in {"ask", "judge"} : Becomes(t, task[t].todo, pc)
              => (Owes(t, p)' <=> Gives(Rest(t), p))
  <1>1. ASSUME task[t].pc = "idle" PROVE ~Owes(t, p)
    <2>1. task[t].todo = <<>>
      BY <1>1 DEF TypeInv, Busy
    <2>2. ~Gives(<<>>, p)
      BY DEF Gives
    <2>3. QED
      BY <1>1, <2>1, <2>2 DEF Owes, Left
  <1>2. ASSUME NEW todo, Becomes(t, todo, "next") \/ Becomes(t, todo, "idle")
        PROVE  Owes(t, p)' <=> Gives(todo, p)
    BY <1>2 DEF Becomes, Owes, Left
  <1>3. ASSUME NEW pc \in {"ask", "judge"}, Becomes(t, task[t].todo, pc)
        PROVE  Owes(t, p)' <=> Gives(Rest(t), p)
    BY <1>3 DEF Becomes, Owes, Left, Rest
  <1>4. QED
    BY <1>1, <1>2, <1>3 DEF Owes, Left

\* F24 holds the rod of a list that still gives it free; F39 and F18 give it free when they
\* are given, not before.
LEMMA HeldCommand ==
  ASSUME TypeInv, NEW t \in Tasks, Command(t), HeldInv, ~Happened(Unheld),
         \A k \in Unheld : ~Fault(k)
  PROVE  HeldInv'
  <1> DEFINE op == Head(task[t].todo)
  <1>1. /\ task[t].pc = "next" /\ task[t].todo # <<>> /\ task[t].todo \in Seq(Ops)
        /\ op \in Ops /\ ifs /\ Gated(task[t].todo)
    BY CommandIs, HeadIs DEF HeldInv
  <1>2. /\ Gated(Rest(t)) /\ (op.cmd = "F24" => Gives(Rest(t), op.port))
        /\ \A p : Gives(task[t].todo, p) => Frees(op, p) \/ Gives(Rest(t), p)
    BY <1>1, RestIs DEF Rest
  <1>3. ifs' = ifs /\ ~Fault("garbled")
    BY DEF Command, Unheld
  <1>4. CASE Becomes(t, Recovery, "next")
    <2>1. \A p \in dev'.held : Owes(t, p)'
      BY <1>4, OwesIs, RecoveryIs
    <2>2. QED
      BY <1>3, <1>4, <2>1, RecoveryIs, HeldOthers
  <1>5. CASE \/ op.cmd = "wait" /\ dev' = dev
             \/ op.cmd # "wait" /\ dev' = Executed(t, op)
    <2>1. ASSUME NEW p \in dev'.held
          PROVE  (p \in dev.held /\ ~Owes(t, p)) \/ Gives(Rest(t), p)
      <3>1. CASE op.cmd = "F18"
        BY <1>1, <1>5, <2>1, <3>1, ExecutedIs
      <3>2. CASE op.cmd = "F39"
        <4>1. p \in dev.held /\ p # op.port
          BY <1>1, <1>5, <2>1, <3>2, ExecutedIs
        <4>2. ~Frees(op, p)
          BY <3>2, <4>1 DEF Frees
        <4>3. QED
          BY <1>1, <1>2, <4>1, <4>2, OwesIs
      <3>3. CASE op.cmd = "F24"
        <4>1. p \in dev.held \/ p = op.port
          BY <1>1, <1>5, <2>1, <3>3, ExecutedIs
        <4>2. ~Frees(op, p)
          BY <3>3 DEF Frees
        <4>3. QED
          BY <1>1, <1>2, <3>3, <4>1, <4>2, OwesIs
      <3>4. CASE op.cmd \notin {"F18", "F24", "F39"}
        <4>1. p \in dev.held
          BY <1>1, <1>5, <2>1, <3>4, ExecutedIs
        <4>2. ~Frees(op, p)
          BY <3>4 DEF Frees
        <4>3. QED
          BY <1>1, <1>2, <4>1, <4>2, OwesIs
      <3>5. QED
        BY <3>1, <3>2, <3>3, <3>4
    <2>2. CASE Done(t)
      <3> DEFINE pc == IF Rest(t) = <<>> THEN "idle" ELSE "next"
      <3>1. Becomes(t, Rest(t), pc) /\ pc \in {"idle", "next"}
        BY <2>2 DEF Done
      <3> HIDE DEF pc
      <3>2. \A p \in dev'.held : Gives(Rest(t), p) => Owes(t, p)'
        BY <3>1, OwesIs
      <3>3. \A p \in dev'.held : (p \in dev.held /\ ~Owes(t, p)) \/ Owes(t, p)'
        BY <2>1, <3>2
      <3>4. QED
        BY <1>2, <1>3, <3>1, <3>3, HeldOthers
    <2>3. CASE Becomes(t, task[t].todo, "ask")
      <3>1. \A p \in dev'.held : Gives(Rest(t), p) => Owes(t, p)'
        BY <2>3, OwesIs
      <3>2. \A p \in dev'.held : (p \in dev.held /\ ~Owes(t, p)) \/ Owes(t, p)'
        BY <2>1, <3>1
      <3>3. QED
        BY <1>1, <1>3, <2>3, <3>2, HeldOthers
    <2>4. CASE Becomes(t, Recovery, "next")
      BY <1>4, <2>4
    <2>5. QED
      BY <1>1, <1>3, <2>2, <2>3, <2>4, CommandIs
  <1>6. QED
    BY <1>1, <1>3, <1>4, <1>5, CommandIs

\* A status request, and the verdict drawn from its answer, hold no rod and forget none.
LEMMA HeldWait ==
  ASSUME TypeInv, NEW t \in Tasks, Ask(t) \/ Judge(t), HeldInv, ~Happened(Unheld)
  PROVE  HeldInv'
  <1>1. /\ task[t].pc \in {"ask", "judge"} /\ Gated(task[t].todo)
        /\ dev' = dev /\ ifs' = ifs
    BY DEF HeldInv, Ask, Judge
  <1>2. ASSUME NEW todo, NEW pc, Becomes(t, todo, pc), Gated(todo),
               \A p : Gives(Rest(t), p) => Owes(t, p)'
        PROVE  HeldInv'
    <2>1. \A p \in dev'.held : (p \in dev.held /\ ~Owes(t, p)) \/ Owes(t, p)'
      BY <1>1, <1>2, OwesIs
    <2>2. QED
      BY <1>1, <1>2, <2>1, HeldOthers
  <1>3. CASE Becomes(t, Recovery, "next")
    <2>1. \A p : Owes(t, p)'
      BY <1>3, OwesIs, RecoveryIs
    <2>2. QED
      BY <1>2, <1>3, <2>1, RecoveryIs
  <1>4. CASE \E pc \in {"ask", "judge"} : Becomes(t, task[t].todo, pc)
    <2>1. PICK pc \in {"ask", "judge"} : Becomes(t, task[t].todo, pc)
      BY <1>4
    <2>2. \A p : Gives(Rest(t), p) => Owes(t, p)'
      BY <2>1, OwesIs
    <2>3. QED
      BY <1>1, <1>2, <2>1, <2>2
  <1>5. CASE \E todo : Follows(t, todo)
    <2>1. PICK todo : Follows(t, todo)
      BY <1>5
    <2> DEFINE pc == IF todo = <<>> THEN "idle" ELSE "next"
    <2>2. /\ Becomes(t, todo, pc) /\ pc \in {"idle", "next"}
          /\ Gated(todo) /\ \A p : Gives(Rest(t), p) => Gives(todo, p)
      BY <1>1, <2>1 DEF Follows, Keeps
    <2> HIDE DEF pc
    <2>3. \A p : Gives(Rest(t), p) => Owes(t, p)'
      BY <2>2, OwesIs
    <2>4. QED
      BY <1>2, <2>2, <2>3
  <1>6. QED
    BY <1>3, <1>4, <1>5, AskIs, JudgeIs

\* A list that begins gives free what it holds, and nothing else touches the rods.
LEMMA HeldRest ==
  ASSUME TypeInv, HeldInv, ~Happened(Unheld), \A k \in Unheld : ~Fault(k)
  PROVE  /\ Settle \/ Break \/ Switch \/ Gone \/ Back \/ Poll \/ Look => HeldInv'
         /\ \A p \in Ports : PutIn(p) \/ PullOut(p) => HeldInv'
         /\ \A t \in Tasks : Give(t) \/ RunAuto(t) => HeldInv'
  <1>1. /\ ifs /\ (\A t \in Tasks : Gated(task[t].todo))
        /\ (\A p \in dev.held : \E t \in Tasks : Owes(t, p)) /\ dev \in Devs
    BY DEF HeldInv, TypeInv
  <1>2. ASSUME UNCHANGED <<ifs, task>>, dev'.held = dev.held PROVE HeldInv'
    BY <1>1, <1>2 DEF HeldInv, Owes, Left, Rest
  <1>3. ASSUME Settle \/ Break PROVE HeldInv'
    <2>1. dev'.held = dev.held /\ UNCHANGED <<ifs, task>>
      BY <1>1, <1>3 DEF Settle, Break, Still, Devs
    <2>2. QED
      BY <1>2, <2>1
  <1>4. ASSUME Gone \/ Back PROVE FALSE
    <2>1. ~Fault("gone")
      BY DEF Unheld
    <2>2. QED
      BY <1>1, <1>4, <2>1 DEF Gone, Back
  <1>5. ASSUME Switch \/ Poll \/ Look PROVE HeldInv'
    <2>1. UNCHANGED <<dev, ifs, task>>
      BY <1>5 DEF Switch, Poll, Look
    <2>2. QED
      BY <1>2, <2>1
  <1>6. ASSUME NEW p \in Ports, PutIn(p) \/ PullOut(p) PROVE HeldInv'
    <2>1. dev'.held = dev.held /\ UNCHANGED <<ifs, task>>
      BY <1>1, <1>6 DEF PutIn, PullOut, Devs
    <2>2. QED
      BY <1>2, <2>1
  <1>7. ASSUME NEW t \in Tasks, Give(t) \/ RunAuto(t) PROVE HeldInv'
    <2>1. PICK todo \in Seq(Ops) : Becomes(t, todo, "next") /\ Gated(todo)
      <3>1. ASSUME Give(t)
            PROVE  \E todo \in Seq(Ops) : Becomes(t, todo, "next") /\ Gated(todo)
        <4>1. PICK prog \in Calls : Begin(t, prog)
          BY <3>1 DEF Give
        <4>2. QED
          BY <4>1, CallIs, BeginIs
      <3>2. ASSUME RunAuto(t)
            PROVE  \E todo \in Seq(Ops) : Becomes(t, todo, "next") /\ Gated(todo)
        <4>1. pending # <<>> /\ Begin(t, AutoInsert(Head(pending))) /\ pending \in Seq(Ports)
          BY <3>2 DEF RunAuto, TypeInv
        <4>2. Head(pending) \in Ports
          BY <4>1
        <4>3. QED
          BY <4>1, <4>2, AutoInsertIs, BeginIs
      <3>3. QED
        BY <1>7, <3>1, <3>2
    <2>2. task[t].pc = "idle" /\ dev' = dev /\ ifs' = ifs
      BY <1>7 DEF Give, RunAuto
    <2>3. \A p \in dev'.held : p \in dev.held /\ ~Owes(t, p)
      BY <2>2, OwesIs
    <2>4. QED
      BY <2>1, <2>2, <2>3, HeldOthers
  <1>8. QED
    BY <1>3, <1>4, <1>5, <1>6, <1>7

LEMMA HeldStep == TypeInv /\ HeldInv /\ [Next]_vars => HeldInv'
  <1> SUFFICES ASSUME TypeInv, HeldInv, [Next]_vars, ~Happened(Unheld)' PROVE HeldInv'
    BY DEF HeldInv
  <1>1. ~Happened(Unheld) /\ \A k \in Unheld : ~Fault(k)
    <2>1. Unheld \in SUBSET Faults
      BY DEF Unheld, Faults
    <2>2. QED
      BY <2>1, QuietIs
  <1>2. CASE UNCHANGED vars
    BY <1>2 DEF vars, HeldInv, Owes, Left, Rest, Happened
  <1>3. CASE Next
    BY <1>1, <1>3, HeldCommand, HeldWait, HeldRest DEF Next, Run
  <1>4. QED
    BY <1>2, <1>3

\* When no handler runs, no rod is held: IFS_AUTOINSERT gives the rod it holds free on every
\* way out, after late answers, late states and driver errors too, though other handlers run
\* in between; only a refused command and a feeder that is gone break it.
THEOREM RodReleasedHolds == Spec => []RodReleased
  <1>1. ASSUME Init PROVE HeldInv
    <2>1. ifs /\ dev.held = {}
      BY <1>1 DEF Init
    <2>2. Gated(<<>>)
      BY DEF Gated
    <2>3. ASSUME NEW t \in Tasks PROVE Gated(task[t].todo)
      BY <1>1, <2>2 DEF Init, Idle
    <2>4. QED
      BY <2>1, <2>3 DEF HeldInv
  <1>2. ASSUME TypeInv, HeldInv PROVE RodReleased
    <2>1. SUFFICES ASSUME ~Happened(Unheld), \A t \in Tasks : task[t].pc = "idle",
                          NEW p \in dev.held
                   PROVE  FALSE
      BY DEF RodReleased, Unheld
    <2>2. PICK t \in Tasks : Owes(t, p)
      BY <1>2, <2>1 DEF HeldInv
    <2>3. QED
      BY <1>2, <2>1, <2>2, OwesIs
  <1>3. QED
    BY <1>1, <1>2, TypeReached, HeldStep, PTL DEF Spec
=============================================================================
