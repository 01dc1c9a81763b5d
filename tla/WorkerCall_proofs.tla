-------------------------- MODULE WorkerCall_proofs --------------------------
(***************************************************************************)
(* What the steps of one call of a worker (run_worker, app/dev_extraction/ *)
(* process.py) preserve: where a line comes from, what ended the worker,   *)
(* and what the consumer may conclude when it decides.  The theorems about *)
(* a run are in DocumentRun_proofs.                                        *)
(***************************************************************************)
EXTENDS WorkerCall, SequenceTheorems, TLAPS

IsCall(c) ==
  c = [worker |-> c.worker, sent |-> c.sent, fault |-> c.fault, death |-> c.death,
       pipe |-> c.pipe, queue |-> c.queue, reader |-> c.reader, hand |-> c.hand,
       timer |-> c.timer, closed |-> c.closed, consumer |-> c.consumer,
       got |-> c.got, error |-> c.error, raised |-> c.raised]

LEMMA KillEnds ==
  ASSUME NEW c, IsCall(c), NEW by
  PROVE  /\ IsCall(Killed(c, by)) /\ Killed(c, by).worker = "exited"
         /\ Killed(c, by).timer = c.timer /\ Killed(c, by).closed = c.closed
         /\ Killed(c, by).consumer = c.consumer /\ Killed(c, by).reader = c.reader
         /\ Killed(c, by).pipe = c.pipe /\ Killed(c, by).queue = c.queue
         /\ Killed(c, by).hand = c.hand /\ Killed(c, by).sent = c.sent
         /\ Killed(c, by).fault = c.fault /\ Killed(c, by).got = c.got
         /\ Killed(c, by).error = c.error /\ Killed(c, by).raised = c.raised
         /\ Killed(c, by).death =
              IF c.worker = "exited" \/ c.death # "none" THEN c.death ELSE by
PROOF
<1>1. CASE c.worker = "exited"
  BY <1>1 DEF Killed
<1>2. CASE c.worker # "exited"
  BY <1>2 DEF Killed, IsCall
<1> QED BY <1>1, <1>2
-----------------------------------------------------------------------------
Carried(s) == {s[i] : i \in 1..Len(s)}

LEMMA LineAppended ==
  ASSUME NEW s \in Seq(WorkerLine), NEW line \in WorkerLine
  PROVE  /\ Append(s, line) \in Seq(WorkerLine)
         /\ Carried(Append(s, line)) = Carried(s) \cup {line}
         /\ Len(s) \in Nat /\ Len(Append(s, line)) = Len(s) + 1
         /\ Append(s, line)[Len(s) + 1] = line
         /\ \A i \in 1..Len(s) : Append(s, line)[i] = s[i]
PROOF
<1> DEFINE t == Append(s, line)
<1>1. /\ t \in Seq(WorkerLine) /\ Len(s) \in Nat /\ Len(t) = Len(s) + 1
      /\ t[Len(s) + 1] = line /\ \A i \in 1..Len(s) : t[i] = s[i]
  OBVIOUS
<1>2. Carried(t) = Carried(s) \cup {line}
  BY <1>1 DEF Carried
<1> QED BY <1>1, <1>2

LEMMA LineAdded ==
  ASSUME NEW s \in Seq(WorkerLine), NEW line \in WorkerLine
  PROVE  s \o <<line>> = Append(s, line) /\ s \o <<>> = s
PROOF OBVIOUS

LEMMA LineTaken ==
  ASSUME NEW s \in Seq(WorkerLine), s # <<>>, NEW t, t = Tail(s)
  PROVE  /\ t \in Seq(WorkerLine) /\ Head(s) \in WorkerLine /\ Head(s) = s[1]
         /\ Carried(s) = {Head(s)} \cup Carried(t)
         /\ Len(s) \in Nat \ {0} /\ Len(t) = Len(s) - 1
         /\ \A i \in 1..Len(t) : t[i] = s[i + 1]
PROOF
<1>1. /\ t \in Seq(WorkerLine) /\ Head(s) \in WorkerLine /\ Head(s) = s[1]
      /\ Len(s) \in Nat \ {0} /\ Len(t) = Len(s) - 1
      /\ \A i \in 1..Len(t) : t[i] = s[i + 1]
  OBVIOUS
<1>2. \A i \in 1..Len(s) : i = 1 \/ (i - 1 \in 1..Len(t) /\ s[i] = t[i - 1])
  BY <1>1
<1>3. /\ 1 \in 1..Len(s)
      /\ \A i \in 1..Len(t) : i + 1 \in 1..Len(s) /\ t[i] = s[i + 1]
  BY <1>1
<1>4. \A line : line \in Carried(s) => line = Head(s) \/ line \in Carried(t)
  <2> SUFFICES ASSUME NEW i \in 1..Len(s) PROVE s[i] = Head(s) \/ s[i] \in Carried(t)
    BY DEF Carried
  <2> QED BY <1>1, <1>2 DEF Carried
<1>5. Head(s) \in Carried(s) /\ \A line : line \in Carried(t) => line \in Carried(s)
  BY <1>1, <1>3 DEF Carried
<1> QED BY <1>1, <1>4, <1>5

LEMMA NothingCarried == Carried(<<>>) = {} /\ <<>> \in Seq(WorkerLine) /\ Len(<<>>) = 0
PROOF BY DEF Carried
-----------------------------------------------------------------------------
\* What a worker has to say: at least its result, which is its last line.
IsScript(script) ==
  /\ Len(script) \in Nat \ {0}
  /\ \A i \in 1..Len(script) :
       /\ script[i] \in WorkerLine /\ script[i].at = i
       /\ script[i].type = IF i = Len(script) THEN "result" ELSE "event"

Shape(c) ==
  /\ IsCall(c)
  /\ c.pipe \in Seq(WorkerLine) /\ c.queue \in Seq(WorkerLine) /\ c.hand \in WorkerLine
  /\ c.sent \in Nat /\ c.fault \in BOOLEAN /\ c.closed \in BOOLEAN

UnderWay(c) ==
  Carried(c.pipe) \cup Carried(c.queue) \cup (IF c.reader = "putting" THEN {c.hand} ELSE {})

\* Where a line comes from.
LinesInv(c) ==
  \A line \in UnderWay(c) :
    /\ line.type = "error" => c.fault
    /\ line.type = "torn" => c.fault \/ c.timer = "fired"
    /\ line.type = "result" => line.at # 0

\* What ended the worker.
DeathInv(c, n) ==
  /\ c.fault <=> c.death = "failed"
  /\ c.death = "timer" => c.timer = "fired"
  /\ c.death = "closer" => c.closed
  /\ c.death \in {"none", "ok", "failed", "timer", "closer"}
  /\ c.worker = "exited" => c.death # "none"
  /\ c.worker = "running" => c.death = "none"
  /\ c.worker = "stuck" => c.death = "failed"
  /\ c.worker # "running" /\ c.death \in {"none", "ok"} => c.sent = n

\* A result that was sent is under way until the consumer has it.
ResultInv(c, n) ==
  /\ c.sent <= n
  /\ c.sent = n /\ ~c.closed => c.got # 0 \/ \E line \in UnderWay(c) : line.type = "result"

\* The reader says that a worker has ended after everything else it said.
EndInv(c) ==
  /\ \A line \in Carried(c.pipe) : line.type # "end"
  /\ c.reader = "putting" => c.hand.type # "end"
  /\ \A i \in 1..Len(c.queue) :
       c.queue[i].type = "end" => i = Len(c.queue) /\ c.reader = "done"
  /\ c.reader \in {"ending", "done"} /\ ~c.closed => c.pipe = <<>> /\ c.worker # "running"

\* What the consumer may conclude.
Emptied(c) == c.reader = "done" /\ c.queue = <<>>
ConsumerInv(c) ==
  /\ c.closed <=> c.consumer \in {"joining", "returned"}
  /\ c.error = "WORKER_FAILED" => c.fault
  /\ c.error = "INVALID_WORKER_OUTPUT" =>
       c.fault \/ (c.consumer = "deciding" /\ c.timer = "fired")
  /\ c.consumer = "waiting" => c.error = "" /\ Emptied(c)
  /\ c.consumer = "deciding" /\ c.error = "" =>
       c.timer \in {"set", "fired"} \/ (c.worker = "exited" /\ Emptied(c))
  /\ c.consumer \in {"closing", "joining", "returned"} /\ ~c.raised /\ c.error = "" =>
       c.worker = "exited" /\ (c.fault \/ (c.death = "ok" /\ c.got # 0))

OutcomeInv(c, n) ==
  /\ Shape(c) /\ LinesInv(c) /\ DeathInv(c, n)
  /\ ResultInv(c, n) /\ EndInv(c) /\ ConsumerInv(c)

\* What run_worker returns then follows from what became of the worker.
LEMMA OutcomeFollows ==
  ASSUME NEW c, NEW n, OutcomeInv(c, n), c.consumer = "returned", ~c.raised
  PROVE  /\ CallError(c) = "" => ~c.fault /\ c.death = "ok" /\ c.worker = "exited"
         /\ CallError(c) \in {"WORKER_FAILED", "INVALID_WORKER_OUTPUT"} => c.fault
PROOF
<1>1. /\ c.fault <=> c.death = "failed"
      /\ c.error = "WORKER_FAILED" => c.fault
      /\ c.error = "INVALID_WORKER_OUTPUT" => c.fault
      /\ c.error = "" => c.worker = "exited" /\ (c.fault \/ (c.death = "ok" /\ c.got # 0))
  BY DEF OutcomeInv, DeathInv, ConsumerInv
<1> QED BY <1>1 DEF CallError

LEMMA OutcomeStart == ASSUME NEW n \in Nat \ {0} PROVE OutcomeInv(NewCall, n)
PROOF
<1>1. Note("end") \in WorkerLine
  BY DEF Note, WorkerLine, LineType
<1>2. Shape(NewCall) /\ UnderWay(NewCall) = {}
  BY <1>1, NothingCarried DEF Shape, NewCall, IsCall, UnderWay
<1>3. EndInv(NewCall)
  BY NothingCarried DEF EndInv, NewCall
<1>4. LinesInv(NewCall)
  BY <1>2 DEF LinesInv
<1>5. DeathInv(NewCall, n)
  BY DEF DeathInv, NewCall
<1>6. ResultInv(NewCall, n)
  <2>1. NewCall.sent = 0 /\ 0 <= n /\ n # 0
    BY DEF NewCall
  <2> QED BY <2>1 DEF ResultInv
<1>7. ConsumerInv(NewCall)
  BY DEF ConsumerInv, NewCall
<1> QED BY <1>2, <1>3, <1>4, <1>5, <1>6, <1>7 DEF OutcomeInv
-----------------------------------------------------------------------------
LEMMA NotesAreLines ==
  /\ Note("error") \in WorkerLine /\ Note("torn") \in WorkerLine /\ Note("end") \in WorkerLine
  /\ Note("error").type = "error" /\ Note("torn").type = "torn" /\ Note("end").type = "end"
PROOF BY DEF Note, WorkerLine, LineType

\* The worker writes what it has to say, ends, or fails.
LEMMA WorkerWritesKeeps ==
  ASSUME NEW script, IsScript(script), OutcomeInv(call, Len(script)), WorkerWrites(script)
  PROVE  OutcomeInv(call', Len(script))
PROOF
<1> DEFINE line == script[call.sent + 1]
           pipe == Append(call.pipe, line)
<1>1. /\ Shape(call) /\ call.worker = "running" /\ call.sent < Len(script)
      /\ call' = [call EXCEPT !.sent = @ + 1, !.pipe = pipe]
  BY DEF WorkerWrites, OutcomeInv
<1>2. call.sent + 1 \in 1..Len(script)
  BY <1>1 DEF Shape, IsScript
<1>3. /\ line \in WorkerLine /\ line.at # 0 /\ line.type \in {"event", "result"}
      /\ call.sent + 1 = Len(script) => line.type = "result"
  BY <1>2 DEF IsScript
<1>4. pipe \in Seq(WorkerLine) /\ Carried(pipe) = Carried(call.pipe) \cup {line}
  <2>1. call.pipe \in Seq(WorkerLine) /\ line \in WorkerLine /\ pipe = Append(call.pipe, line)
    BY <1>1, <1>3 DEF Shape
  <2> HIDE DEF line, pipe
  <2> QED BY <2>1, LineAppended
<1> HIDE DEF line, pipe
<1>5. /\ IsCall(call') /\ call'.sent = call.sent + 1 /\ call'.pipe = pipe
      /\ call'.worker = call.worker /\ call'.fault = call.fault /\ call'.death = call.death
      /\ call'.queue = call.queue /\ call'.reader = call.reader /\ call'.hand = call.hand
      /\ call'.timer = call.timer /\ call'.closed = call.closed
      /\ call'.consumer = call.consumer /\ call'.got = call.got /\ call'.error = call.error
      /\ call'.raised = call.raised
  BY <1>1 DEF Shape, IsCall
<1>6. UnderWay(call') = UnderWay(call) \cup {line}
  BY <1>4, <1>5 DEF UnderWay
<1>7. Shape(call')
  BY <1>1, <1>4, <1>5 DEF Shape
<1>8. LinesInv(call') /\ DeathInv(call', Len(script))
  BY <1>1, <1>3, <1>5, <1>6 DEF OutcomeInv, LinesInv, DeathInv
<1>9. ResultInv(call', Len(script))
  BY <1>1, <1>2, <1>3, <1>5, <1>6 DEF ResultInv
<1>10. EndInv(call')
  BY <1>1, <1>3, <1>4, <1>5 DEF OutcomeInv, EndInv
<1>11. ConsumerInv(call')
  BY <1>5 DEF OutcomeInv, ConsumerInv, Emptied
<1> QED BY <1>7, <1>8, <1>9, <1>10, <1>11 DEF OutcomeInv

LEMMA WorkerEndsKeeps ==
  ASSUME NEW script, OutcomeInv(call, Len(script)), WorkerCloses(script) \/ WorkerExits
  PROVE  OutcomeInv(call', Len(script))
PROOF
<1>1. Shape(call)
  BY DEF OutcomeInv
<1>2. /\ IsCall(call') /\ call'.sent = call.sent /\ call'.pipe = call.pipe
      /\ call'.fault = call.fault /\ call'.queue = call.queue /\ call'.reader = call.reader
      /\ call'.hand = call.hand /\ call'.timer = call.timer /\ call'.closed = call.closed
      /\ call'.consumer = call.consumer /\ call'.got = call.got /\ call'.error = call.error
      /\ call'.raised = call.raised
      /\ \/ /\ call.worker = "running" /\ call'.worker = "closed" /\ call.sent = Len(script)
            /\ call'.death = call.death
         \/ /\ call.worker = "closed" /\ call'.worker = "exited"
            /\ call'.death = IF call.death = "none" THEN "ok" ELSE call.death
  <2>1. CASE WorkerCloses(script)
    BY <1>1, <2>1 DEF WorkerCloses, Shape, IsCall
  <2>2. CASE WorkerExits
    BY <1>1, <2>2 DEF WorkerExits, Shape, IsCall
  <2> QED BY <2>1, <2>2
<1>3. UnderWay(call') = UnderWay(call) /\ Shape(call')
  BY <1>1, <1>2 DEF UnderWay, Shape
<1>4. LinesInv(call') /\ ResultInv(call', Len(script)) /\ EndInv(call')
  BY <1>2, <1>3 DEF OutcomeInv, LinesInv, ResultInv, EndInv
<1>5. DeathInv(call', Len(script))
  BY <1>2 DEF OutcomeInv, DeathInv
<1>6. ConsumerInv(call')
  BY <1>2 DEF OutcomeInv, ConsumerInv, Emptied
<1> QED BY <1>3, <1>4, <1>5, <1>6 DEF OutcomeInv

LEMMA WorkerFailsKeeps ==
  ASSUME NEW script, OutcomeInv(call, Len(script)), WorkerFaults(script)
  PROVE  OutcomeInv(call', Len(script))
PROOF
<1>1. Shape(call)
  BY DEF OutcomeInv
<1>2. /\ call.worker = "running" /\ call'.worker \in {"closed", "stuck", "exited"}
      /\ IsCall(call') /\ call'.sent = call.sent /\ call'.queue = call.queue
      /\ call'.fault = TRUE /\ call'.death = "failed"
      /\ call'.reader = call.reader /\ call'.hand = call.hand
      /\ call'.timer = call.timer /\ call'.closed = call.closed
      /\ call'.consumer = call.consumer /\ call'.got = call.got /\ call'.error = call.error
      /\ call'.raised = call.raised
  <2>1. CASE WorkerRaises(script)
    BY <1>1, <2>1 DEF WorkerRaises, Shape, IsCall
  <2>2. CASE WorkerDies
    <3>1. PICK rest : call' = [call EXCEPT !.worker = "exited", !.death = "failed", !.fault = TRUE,
                                           !.pipe = @ \o rest]
      BY <2>2 DEF WorkerDies
    <3>2. PICK pipe : pipe = call.pipe \o rest
      OBVIOUS
    <3>3. call' = [call EXCEPT !.worker = "exited", !.death = "failed", !.fault = TRUE, !.pipe = pipe]
      BY <3>1, <3>2
    <3>4. call.worker = "running"
      BY <2>2 DEF WorkerDies
    <3> QED BY <1>1, <3>3, <3>4 DEF Shape, IsCall
  <2>3. CASE WorkerOverflows(script)
    BY <1>1, <2>3 DEF WorkerOverflows, Shape, IsCall
  <2> QED BY <2>1, <2>2, <2>3 DEF WorkerFaults
<1>3. \/ call'.pipe = call.pipe
      \/ \E line \in {Note("error"), Note("torn")} :
           call'.pipe = Append(call.pipe, line)
  <2>1. CASE WorkerRaises(script)
    BY <1>1, <2>1 DEF WorkerRaises, Shape, IsCall
  <2>2. CASE WorkerDies
    <3>1. PICK rest \in {<<>>, <<Note("torn")>>} : call'.pipe = call.pipe \o rest
      BY <1>1, <2>2 DEF WorkerDies, Shape, IsCall
    <3> QED BY <1>1, <3>1, LineAdded, NotesAreLines DEF Shape
  <2>3. CASE WorkerOverflows(script)
    BY <1>1, <2>3 DEF WorkerOverflows, Shape, IsCall
  <2> QED BY <2>1, <2>2, <2>3 DEF WorkerFaults
<1>4. \/ call'.pipe = call.pipe
      \/ /\ call'.pipe \in Seq(WorkerLine)
         /\ \E line \in {Note("error"), Note("torn")} :
              Carried(call'.pipe) = Carried(call.pipe) \cup {line}
  <2> SUFFICES ASSUME NEW line \in {Note("error"), Note("torn")},
                      call'.pipe = Append(call.pipe, line)
               PROVE  /\ call'.pipe \in Seq(WorkerLine)
                      /\ Carried(call'.pipe) = Carried(call.pipe) \cup {line}
    BY <1>3
  <2>1. call.pipe \in Seq(WorkerLine) /\ line \in WorkerLine
    BY <1>1, NotesAreLines DEF Shape
  <2> QED BY <2>1, LineAppended
<1>5. Shape(call')
  BY <1>1, <1>2, <1>4 DEF Shape
<1>6. \/ UnderWay(call') = UnderWay(call)
      \/ UnderWay(call') = UnderWay(call) \cup {Note("error")}
      \/ UnderWay(call') = UnderWay(call) \cup {Note("torn")}
  BY <1>2, <1>4 DEF UnderWay
<1>7. LinesInv(call')
  BY <1>2, <1>6, NotesAreLines DEF OutcomeInv, LinesInv
<1>8. DeathInv(call', Len(script)) /\ ResultInv(call', Len(script))
  BY <1>2, <1>6 DEF OutcomeInv, DeathInv, ResultInv
<1>9. EndInv(call') /\ ConsumerInv(call')
  <2>1. EndInv(call')
    BY <1>2, <1>4, NotesAreLines, SMTT(20) DEF OutcomeInv, EndInv
  <2>2. ConsumerInv(call')
    BY <1>2, <1>4, NotesAreLines DEF OutcomeInv, ConsumerInv, Emptied
  <2> QED BY <2>1, <2>2
<1> QED BY <1>5, <1>7, <1>8, <1>9 DEF OutcomeInv

\* The timer expires, and kills.
LEMMA TimerKeeps ==
  ASSUME NEW n, OutcomeInv(call, n), TimerSteps
  PROVE  OutcomeInv(call', n)
PROOF
<1>1. Shape(call)
  BY DEF OutcomeInv
<1>2. CASE TimerExpires
  <2>1. /\ IsCall(call') /\ call'.timer = "set" /\ call.timer = "armed"
        /\ call'.sent = call.sent /\ call'.pipe = call.pipe /\ call'.worker = call.worker
        /\ call'.fault = call.fault /\ call'.death = call.death /\ call'.queue = call.queue
        /\ call'.reader = call.reader /\ call'.hand = call.hand /\ call'.closed = call.closed
        /\ call'.consumer = call.consumer /\ call'.got = call.got /\ call'.error = call.error
        /\ call'.raised = call.raised
    BY <1>1, <1>2 DEF TimerExpires, Shape, IsCall
  <2>2. UnderWay(call') = UnderWay(call) /\ Shape(call')
    BY <1>1, <2>1 DEF UnderWay, Shape
  <2>3. LinesInv(call') /\ DeathInv(call', n)
    BY <2>1, <2>2 DEF OutcomeInv, LinesInv, DeathInv
  <2>4. ResultInv(call', n) /\ EndInv(call') /\ ConsumerInv(call')
    <3>1. ResultInv(call', n)
      BY <2>1, <2>2 DEF OutcomeInv, ResultInv
    <3>2. EndInv(call')
      BY <2>1, <2>2 DEF OutcomeInv, EndInv
    <3>3. ConsumerInv(call')
      BY <2>1, <2>2 DEF OutcomeInv, ConsumerInv, Emptied
    <3> QED BY <3>1, <3>2, <3>3
  <2> QED BY <2>2, <2>3, <2>4 DEF OutcomeInv
<1>3. CASE TimerKills
  <2>1. PICK rest \in {<<>>, <<Note("torn")>>} :
          /\ rest # <<>> => call.worker = "running"
          /\ call' = [Killed(call, "timer") EXCEPT !.timer = "fired", !.pipe = @ \o rest]
    BY <1>3 DEF TimerKills
  <2> DEFINE c == Killed(call, "timer")
  <2>2. /\ IsCall(c) /\ c.worker = "exited" /\ c.closed = call.closed
        /\ c.consumer = call.consumer /\ c.reader = call.reader /\ c.pipe = call.pipe
        /\ c.queue = call.queue /\ c.hand = call.hand /\ c.sent = call.sent
        /\ c.fault = call.fault /\ c.got = call.got /\ c.error = call.error
        /\ c.raised = call.raised
        /\ c.death = IF call.worker = "exited" \/ call.death # "none" THEN call.death
                      ELSE "timer"
    BY <1>1, KillEnds DEF Shape
  <2>3. call' = [c EXCEPT !.timer = "fired", !.pipe = c.pipe \o rest]
    BY <2>1
  <2> HIDE DEF c
  <2>4. /\ IsCall(call') /\ call'.timer = "fired" /\ call'.pipe = call.pipe \o rest
        /\ call'.worker = "exited" /\ call'.sent = call.sent /\ call'.fault = call.fault
        /\ call'.queue = call.queue /\ call'.reader = call.reader /\ call'.hand = call.hand
        /\ call'.closed = call.closed /\ call'.consumer = call.consumer
        /\ call'.got = call.got /\ call'.error = call.error /\ call'.raised = call.raised
        /\ call'.death = IF call.worker = "exited" \/ call.death # "none" THEN call.death
                          ELSE "timer"
    BY <2>2, <2>3 DEF IsCall
  <2>5. \/ call'.pipe = call.pipe
        \/ call.worker = "running" /\ call'.pipe = Append(call.pipe, Note("torn"))
    BY <1>1, <2>1, <2>4, LineAdded, NotesAreLines DEF Shape
  <2>6. \/ call'.pipe = call.pipe
        \/ /\ call.worker = "running" /\ call'.pipe \in Seq(WorkerLine)
           /\ Carried(call'.pipe) = Carried(call.pipe) \cup {Note("torn")}
    <3>1. call.pipe \in Seq(WorkerLine) /\ Note("torn") \in WorkerLine
      BY <1>1, NotesAreLines DEF Shape
    <3>2. CASE call'.pipe = Append(call.pipe, Note("torn"))
      <4>1. /\ call'.pipe \in Seq(WorkerLine)
            /\ Carried(call'.pipe) = Carried(call.pipe) \cup {Note("torn")}
        BY <3>1, <3>2, LineAppended
      <4> QED BY <2>5, <4>1
    <3> QED BY <2>5, <3>2
  <2>7. Shape(call')
    BY <1>1, <2>4, <2>6 DEF Shape
  <2>8. UnderWay(call') = UnderWay(call) \/ UnderWay(call') = UnderWay(call) \cup {Note("torn")}
    BY <2>4, <2>6 DEF UnderWay
  <2>9. LinesInv(call')
    BY <2>4, <2>8, NotesAreLines DEF OutcomeInv, LinesInv
  <2>10. DeathInv(call', n)
    BY <2>4 DEF OutcomeInv, DeathInv
  <2>13. ResultInv(call', n)
    BY <2>4, <2>8 DEF OutcomeInv, ResultInv
  <2>11. EndInv(call')
    BY <2>4, <2>6, NotesAreLines DEF OutcomeInv, EndInv
  <2>12. ConsumerInv(call')
    BY <2>4 DEF OutcomeInv, ConsumerInv, Emptied
  <2> QED BY <2>7, <2>9, <2>10, <2>11, <2>12, <2>13 DEF OutcomeInv
<1> QED BY <1>2, <1>3 DEF TimerSteps

\* The reader kills a worker that is stuck.
LEMMA KillLeaves ==
  ASSUME NEW n, OutcomeInv(call, n), ReaderKills
  PROVE  /\ IsCall(call') /\ call'.worker = "exited" /\ call'.reader = "ending"
         /\ call'.sent = call.sent /\ call'.fault = call.fault /\ call'.death = call.death
         /\ call'.timer = call.timer /\ call'.closed = call.closed
         /\ call'.consumer = call.consumer /\ call'.got = call.got
         /\ call'.error = call.error /\ call'.raised = call.raised
         /\ call'.pipe = call.pipe /\ call'.queue = call.queue /\ call'.hand = call.hand
         /\ call.death = "failed"
PROOF
<1> DEFINE c == Killed(call, "failed")
<1>1. /\ IsCall(c) /\ c.worker = "exited" /\ c.timer = call.timer /\ c.closed = call.closed
      /\ c.consumer = call.consumer /\ c.pipe = call.pipe /\ c.queue = call.queue
      /\ c.hand = call.hand /\ c.sent = call.sent /\ c.fault = call.fault
      /\ c.got = call.got /\ c.error = call.error /\ c.raised = call.raised
      /\ c.death = IF call.worker = "exited" \/ call.death # "none" THEN call.death
                   ELSE "failed"
  BY KillEnds DEF OutcomeInv, Shape
<1>2. call' = [c EXCEPT !.reader = "ending"] /\ call.death = "failed"
  BY DEF ReaderKills, OutcomeInv, DeathInv
<1> HIDE DEF c
<1> QED BY <1>1, <1>2 DEF IsCall

\* The reader takes a line from the pipe, and gives it or the end to the consumer.
LEMMA ReaderKeeps ==
  ASSUME NEW n, OutcomeInv(call, n), ReaderSteps
  PROVE  OutcomeInv(call', n)
PROOF
<1>1. Shape(call)
  BY DEF OutcomeInv
<1>2. /\ IsCall(call') /\ call'.sent = call.sent
      /\ call'.worker = IF ReaderKills THEN "exited" ELSE call.worker
      /\ call'.fault = call.fault /\ call'.death = call.death /\ call'.timer = call.timer
      /\ call'.closed = call.closed /\ call'.consumer = call.consumer
      /\ call'.got = call.got /\ call'.error = call.error /\ call'.raised = call.raised
      /\ call.reader # "done"
  <2>1. CASE ReaderReads
    BY <1>1, <2>1 DEF ReaderReads, ReaderKills, Shape, IsCall
  <2>2. CASE ReaderPuts
    BY <1>1, <2>2 DEF ReaderPuts, ReaderKills, Shape, IsCall
  <2>3. CASE ReaderEnds
    BY <1>1, <2>3 DEF ReaderEnds, ReaderKills, Shape, IsCall
  <2>4. CASE ReaderKills
    BY <2>4, KillLeaves DEF ReaderKills
  <2> QED BY <2>1, <2>2, <2>3, <2>4 DEF ReaderSteps
<1>3. DeathInv(call', n)
  BY <1>2, KillLeaves DEF OutcomeInv, DeathInv
<1>4. ConsumerInv(call')
  BY <1>2 DEF OutcomeInv, ConsumerInv, Emptied
<1>5. ASSUME UnderWay(call') = UnderWay(call) PROVE LinesInv(call') /\ ResultInv(call', n)
  BY <1>2, <1>5 DEF OutcomeInv, LinesInv, ResultInv
<1>6. \A i \in 1..Len(call.queue) : call.queue[i].type # "end"
  BY <1>2 DEF OutcomeInv, EndInv
<1>7. CASE ReaderReads
  <2>1. CASE call'.reader = "ending"
    <3>1. /\ call.reader = "reading" /\ call'.pipe = call.pipe /\ call'.queue = call.queue
          /\ call'.hand = call.hand /\ (~call.closed => call.pipe = <<>> /\ call.worker # "running")
      BY <1>1, <1>7, <2>1 DEF ReaderReads, Shape, IsCall
    <3>2. Shape(call') /\ UnderWay(call') = UnderWay(call)
      BY <1>1, <1>2, <2>1, <3>1 DEF Shape, UnderWay
    <3>3. EndInv(call')
      BY <1>2, <1>6, <2>1, <3>1 DEF OutcomeInv, EndInv
    <3> QED BY <1>3, <1>4, <1>5, <3>2, <3>3 DEF OutcomeInv
  <2>2. CASE call'.reader # "ending"
    <3>1. /\ call.reader = "reading" /\ call.pipe # <<>> /\ call'.pipe = Tail(call.pipe)
          /\ call'.reader = "putting" /\ call'.queue = call.queue
          /\ call'.hand = Head(call.pipe)
      BY <1>1, <1>7, <2>2 DEF ReaderReads, Shape, IsCall
    <3>2. /\ call'.pipe \in Seq(WorkerLine) /\ call'.hand \in WorkerLine
          /\ Carried(call.pipe) = {call'.hand} \cup Carried(call'.pipe)
      BY <1>1, <3>1, LineTaken DEF Shape
    <3>3. Shape(call') /\ UnderWay(call') = UnderWay(call)
      BY <1>1, <1>2, <3>1, <3>2 DEF Shape, UnderWay
    <3>4. EndInv(call')
      BY <1>6, <3>1, <3>2 DEF OutcomeInv, EndInv
    <3> QED BY <1>3, <1>4, <1>5, <3>3, <3>4 DEF OutcomeInv
  <2> QED BY <2>1, <2>2
<1>8. CASE ReaderPuts
  <2>1. /\ call.reader = "putting" /\ call'.reader = "reading" /\ call'.pipe = call.pipe
        /\ call'.hand = Note("end")
        /\ call'.queue = IF call.closed THEN call.queue ELSE Append(call.queue, call.hand)
    BY <1>1, <1>8 DEF ReaderPuts, Shape, IsCall
  <2>2. CASE call.closed
    <3>1. Shape(call') /\ UnderWay(call') \subseteq UnderWay(call)
      BY <1>1, <1>2, <2>1, <2>2, NotesAreLines DEF Shape, UnderWay
    <3>2. LinesInv(call') /\ ResultInv(call', n)
      BY <1>2, <2>2, <3>1 DEF OutcomeInv, LinesInv, ResultInv
    <3>3. EndInv(call')
      BY <1>6, <2>1, <2>2 DEF OutcomeInv, EndInv
    <3> QED BY <1>3, <1>4, <3>1, <3>2, <3>3 DEF OutcomeInv
  <2>3. CASE ~call.closed
    <3>1. /\ call.queue \in Seq(WorkerLine) /\ call.hand \in WorkerLine
          /\ call'.queue = Append(call.queue, call.hand)
      BY <1>1, <2>1, <2>3 DEF Shape
    <3>2. /\ call'.queue \in Seq(WorkerLine) /\ Len(call.queue) \in Nat
          /\ Carried(call'.queue) = Carried(call.queue) \cup {call.hand}
          /\ Len(call'.queue) = Len(call.queue) + 1 /\ call'.queue[Len(call.queue) + 1] = call.hand
          /\ \A i \in 1..Len(call.queue) : call'.queue[i] = call.queue[i]
      BY <3>1, LineAppended
    <3>3. Shape(call') /\ UnderWay(call') = UnderWay(call)
      BY <1>1, <1>2, <2>1, <3>2, NotesAreLines DEF Shape, UnderWay
    <3>4. \A i \in 1..Len(call'.queue) : call'.queue[i].type # "end"
      BY <1>6, <2>1, <3>2 DEF OutcomeInv, EndInv
    <3>5. EndInv(call')
      BY <2>1, <3>4 DEF OutcomeInv, EndInv
    <3> QED BY <1>3, <1>4, <1>5, <3>3, <3>5 DEF OutcomeInv
  <2> QED BY <2>2, <2>3
<1>9. CASE ReaderEnds
  <2>1. /\ call.reader = "ending" /\ call'.reader = "done" /\ call'.pipe = call.pipe
        /\ call'.hand = call.hand
        /\ call'.queue = IF call.closed THEN call.queue ELSE Append(call.queue, Note("end"))
    BY <1>1, <1>9 DEF ReaderEnds, Shape, IsCall
  <2>2. CASE call.closed
    <3>1. Shape(call') /\ UnderWay(call') = UnderWay(call)
      BY <1>1, <1>2, <2>1, <2>2 DEF Shape, UnderWay
    <3>2. EndInv(call')
      BY <1>2, <1>6, <2>1, <2>2 DEF OutcomeInv, EndInv
    <3> QED BY <1>3, <1>4, <1>5, <3>1, <3>2 DEF OutcomeInv
  <2>3. CASE ~call.closed
    <3>1. /\ call.queue \in Seq(WorkerLine) /\ Note("end") \in WorkerLine
          /\ call'.queue = Append(call.queue, Note("end"))
      BY <1>1, <2>1, <2>3, NotesAreLines DEF Shape
    <3>2. /\ call'.queue \in Seq(WorkerLine) /\ Len(call.queue) \in Nat
          /\ Carried(call'.queue) = Carried(call.queue) \cup {Note("end")}
          /\ Len(call'.queue) = Len(call.queue) + 1
          /\ \A i \in 1..Len(call.queue) : call'.queue[i] = call.queue[i]
      BY <3>1, LineAppended
    <3>3. Shape(call') /\ UnderWay(call') = UnderWay(call) \cup {Note("end")}
      BY <1>1, <1>2, <2>1, <3>2 DEF Shape, UnderWay
    <3>4. LinesInv(call') /\ ResultInv(call', n)
      BY <1>2, <3>3, NotesAreLines DEF OutcomeInv, LinesInv, ResultInv
    <3>5. \A i \in 1..Len(call'.queue) : call'.queue[i].type = "end" => i = Len(call'.queue)
      BY <1>6, <3>2
    <3>6. EndInv(call')
      BY <1>2, <2>1, <3>5 DEF OutcomeInv, EndInv
    <3> QED BY <1>3, <1>4, <3>3, <3>4, <3>6 DEF OutcomeInv
  <2> QED BY <2>2, <2>3
<1>10. CASE ReaderKills
  <2>1. /\ call.reader = "reading" /\ call'.reader = "ending" /\ call.pipe = <<>>
        /\ call'.pipe = call.pipe /\ call'.queue = call.queue /\ call'.hand = call.hand
    BY <1>10, KillLeaves DEF ReaderKills
  <2>2. Shape(call') /\ UnderWay(call') = UnderWay(call)
    BY <1>1, <1>2, <2>1 DEF Shape, UnderWay
  <2>3. EndInv(call')
    BY <1>2, <1>6, <1>10, <2>1 DEF OutcomeInv, EndInv
  <2> QED BY <1>3, <1>4, <1>5, <2>2, <2>3 DEF OutcomeInv
<1> QED BY <1>7, <1>8, <1>9, <1>10 DEF ReaderSteps

\* The consumer changes nothing of the worker, its reader and its timer, until it
\* closes the call.
Untouched(c, d) ==
  /\ IsCall(d) /\ d.worker = c.worker /\ d.sent = c.sent /\ d.fault = c.fault
  /\ d.death = c.death /\ d.pipe = c.pipe /\ d.reader = c.reader /\ d.hand = c.hand
  /\ d.timer = c.timer /\ d.closed = c.closed

\* It takes a line from its queue.
LEMMA TakenKeeps ==
  ASSUME NEW n, OutcomeInv(call, n), NEW d, Untouched(call, d),
         call.queue # <<>>, d.queue = Tail(call.queue), ~call.closed,
         d.got = call.got \/ d.got # 0,
         Head(call.queue).type = "result" => d.got # 0
  PROVE  /\ Shape(d) /\ LinesInv(d) /\ DeathInv(d, n) /\ ResultInv(d, n) /\ EndInv(d)
         /\ Head(call.queue) \in UnderWay(call)
         /\ Head(call.queue).type = "end" => Emptied(d)
PROOF
<1>1. /\ Shape(call) /\ call.queue \in Seq(WorkerLine)
      /\ \A i \in 1..Len(call.queue) :
           call.queue[i].type = "end" => i = Len(call.queue) /\ call.reader = "done"
  BY DEF OutcomeInv, Shape, EndInv
<1>2. /\ d.queue \in Seq(WorkerLine) /\ Head(call.queue) = call.queue[1]
      /\ Carried(call.queue) = {Head(call.queue)} \cup Carried(d.queue)
      /\ Len(call.queue) \in Nat \ {0} /\ Len(d.queue) = Len(call.queue) - 1
      /\ \A i \in 1..Len(d.queue) : d.queue[i] = call.queue[i + 1]
  BY <1>1, LineTaken
<1>3. UnderWay(call) = {Head(call.queue)} \cup UnderWay(d)
  BY <1>2 DEF UnderWay, Untouched
<1>4. Shape(d)
  BY <1>1, <1>2 DEF Shape, Untouched
<1>5. LinesInv(d) /\ DeathInv(d, n)
  BY <1>3 DEF OutcomeInv, LinesInv, DeathInv, Untouched
<1>6. ResultInv(d, n)
  BY <1>3 DEF OutcomeInv, ResultInv, Untouched
<1>7. \A i \in 1..Len(d.queue) :
        d.queue[i].type = "end" => i = Len(d.queue) /\ d.reader = "done"
  <2> SUFFICES ASSUME NEW i \in 1..Len(d.queue), d.queue[i].type = "end"
               PROVE  i = Len(d.queue) /\ d.reader = "done"
    OBVIOUS
  <2>1. i + 1 \in 1..Len(call.queue) /\ call.queue[i + 1].type = "end"
    BY <1>2
  <2>2. i + 1 = Len(call.queue) /\ call.reader = "done"
    BY <1>1, <2>1
  <2> QED BY <1>2, <2>2 DEF Untouched
<1>8. EndInv(d)
  BY <1>7 DEF OutcomeInv, EndInv, Untouched
<1>9. Head(call.queue).type = "end" => Emptied(d)
  <2> SUFFICES ASSUME call.queue[1].type = "end" PROVE Emptied(d)
    BY <1>2
  <2>1. 1 \in 1..Len(call.queue)
    BY <1>2
  <2>2. Len(call.queue) = 1 /\ call.reader = "done"
    BY <1>1, <2>1
  <2>3. d.queue = <<>>
    <3>1. d.queue \in Seq(WorkerLine) /\ Len(d.queue) = 0
      BY <1>2, <2>2
    <3> QED BY <3>1, EmptySeq
  <2> QED BY <2>2, <2>3 DEF Emptied, Untouched
<1> QED BY <1>3, <1>4, <1>5, <1>6, <1>8, <1>9

\* It does something else.
LEMMA UntouchedKeeps ==
  ASSUME NEW n, OutcomeInv(call, n), NEW d, Untouched(call, d),
         d.queue = call.queue, d.got = call.got
  PROVE  Shape(d) /\ LinesInv(d) /\ DeathInv(d, n) /\ ResultInv(d, n) /\ EndInv(d)
PROOF
<1>1. UnderWay(d) = UnderWay(call)
  BY DEF UnderWay, Untouched
<1>2. Shape(d) /\ LinesInv(d)
  BY <1>1 DEF OutcomeInv, Shape, LinesInv, Untouched
<1>3. DeathInv(d, n) /\ ResultInv(d, n)
  BY <1>1 DEF OutcomeInv, DeathInv, ResultInv, Untouched
<1>4. EndInv(d)
  BY DEF OutcomeInv, EndInv, Untouched
<1> QED BY <1>2, <1>3, <1>4

LEMMA ConsumerTakesKeeps ==
  ASSUME NEW n, OutcomeInv(call, n), ConsumerTakes \/ \E ok \in BOOLEAN : ConsumerObserves(ok)
  PROVE  OutcomeInv(call', n)
PROOF
<1>1. /\ IsCall(call) /\ call.consumer = "listening" /\ call.queue # <<>> /\ ~call.closed
      /\ call.error = "WORKER_FAILED" => call.fault
      /\ call.error = "INVALID_WORKER_OUTPUT" => call.fault
  BY DEF OutcomeInv, Shape, ConsumerInv, ConsumerTakes, ConsumerObserves, Taking
<1>2. CASE \E ok \in BOOLEAN : ConsumerObserves(ok)
  <2>1. /\ Untouched(call, call') /\ call'.queue = Tail(call.queue) /\ call'.got = call.got
        /\ Head(call.queue).type = "event" /\ call'.error = call.error
        /\ \/ call'.consumer = "listening"
           \/ call'.consumer = "closing" /\ call'.raised
    BY <1>1, <1>2 DEF ConsumerObserves, Taking, IsCall, Untouched
  <2>2. ConsumerInv(call')
    BY <1>1, <2>1 DEF ConsumerInv, Untouched
  <2> QED BY <1>1, <2>1, <2>2, TakenKeeps DEF OutcomeInv
<1>3. CASE Taking("result") /\ call' = [call EXCEPT !.queue = Tail(@), !.got = Head(call.queue).at]
  <2>1. /\ Untouched(call, call') /\ call'.queue = Tail(call.queue)
        /\ call'.got = Head(call.queue).at /\ Head(call.queue).type = "result"
        /\ call'.error = call.error /\ call'.consumer = "listening"
    BY <1>1, <1>3 DEF Taking, IsCall, Untouched
  <2>2. Head(call.queue) \in UnderWay(call)
    <3>1. call.queue \in Seq(WorkerLine)
      BY DEF OutcomeInv, Shape
    <3>2. Carried(call.queue) = {Head(call.queue)} \cup Carried(Tail(call.queue))
      BY <1>1, <3>1, LineTaken
    <3> QED BY <3>2 DEF UnderWay
  <2>3. call'.got # 0
    BY <2>1, <2>2 DEF OutcomeInv, LinesInv
  <2>4. ConsumerInv(call')
    BY <1>1, <2>1 DEF ConsumerInv, Untouched
  <2> QED BY <1>1, <2>1, <2>3, <2>4, TakenKeeps DEF OutcomeInv
<1>4. CASE Taking("error") /\ call' = [call EXCEPT !.queue = Tail(@), !.error = "WORKER_FAILED"]
  <2>1. /\ Untouched(call, call') /\ call'.queue = Tail(call.queue) /\ call'.got = call.got
        /\ Head(call.queue).type = "error" /\ call'.consumer = "listening"
        /\ call'.error = "WORKER_FAILED"
    BY <1>1, <1>4 DEF Taking, IsCall, Untouched
  <2>2. /\ Shape(call') /\ LinesInv(call') /\ DeathInv(call', n) /\ ResultInv(call', n)
        /\ EndInv(call') /\ Head(call.queue) \in UnderWay(call)
    BY <1>1, <2>1, TakenKeeps
  <2>3. call.fault
    BY <2>1, <2>2 DEF OutcomeInv, LinesInv
  <2>4. ConsumerInv(call')
    BY <1>1, <2>1, <2>3 DEF ConsumerInv, Untouched
  <2> QED BY <2>2, <2>4 DEF OutcomeInv
<1>5. CASE /\ Taking("torn")
           /\ call' = [call EXCEPT !.queue = Tail(@), !.error = "INVALID_WORKER_OUTPUT",
                                   !.consumer = "deciding"]
  <2>1. /\ Untouched(call, call') /\ call'.queue = Tail(call.queue) /\ call'.got = call.got
        /\ Head(call.queue).type = "torn" /\ call'.consumer = "deciding"
        /\ call'.error = "INVALID_WORKER_OUTPUT"
    BY <1>1, <1>5 DEF Taking, IsCall, Untouched
  <2>2. /\ Shape(call') /\ LinesInv(call') /\ DeathInv(call', n) /\ ResultInv(call', n)
        /\ EndInv(call') /\ Head(call.queue) \in UnderWay(call)
    BY <1>1, <2>1, TakenKeeps
  <2>3. call.fault \/ call.timer = "fired"
    BY <2>1, <2>2 DEF OutcomeInv, LinesInv
  <2>4. ConsumerInv(call')
    BY <1>1, <2>1, <2>3 DEF ConsumerInv, Untouched
  <2> QED BY <2>2, <2>4 DEF OutcomeInv
<1>6. CASE /\ Taking("end")
           /\ call' = [call EXCEPT !.queue = Tail(@),
                          !.consumer = IF call.error = "" THEN "waiting" ELSE "deciding"]
  <2>1. /\ Untouched(call, call') /\ call'.queue = Tail(call.queue) /\ call'.got = call.got
        /\ Head(call.queue).type = "end" /\ call'.error = call.error
        /\ call'.consumer = IF call.error = "" THEN "waiting" ELSE "deciding"
    BY <1>1, <1>6 DEF Taking, IsCall, Untouched
  <2>2. /\ Shape(call') /\ LinesInv(call') /\ DeathInv(call', n) /\ ResultInv(call', n)
        /\ EndInv(call') /\ Emptied(call')
    BY <1>1, <2>1, TakenKeeps
  <2>3. ConsumerInv(call')
    BY <1>1, <2>1, <2>2 DEF ConsumerInv, Untouched
  <2> QED BY <2>2, <2>3 DEF OutcomeInv
<1> QED BY <1>2, <1>3, <1>4, <1>5, <1>6 DEF ConsumerTakes

LEMMA ConsumerActsKeeps ==
  ASSUME NEW n, OutcomeInv(call, n),
         ConsumerStops \/ (\E stopping : ConsumerWaits(stopping)) \/ ConsumerJoins
  PROVE  OutcomeInv(call', n)
PROOF
<1>1. IsCall(call) /\ ConsumerInv(call)
  BY DEF OutcomeInv, Shape
<1>2. /\ Untouched(call, call') /\ call'.queue = call.queue /\ call'.got = call.got
      /\ call'.raised = call.raised
      /\ \/ call.consumer = "listening" /\ call'.consumer = "deciding" /\ call'.error = "RUN_INTERRUPTED"
         \/ call.consumer = "waiting" /\ call'.consumer = "deciding" /\ call'.error = "RUN_INTERRUPTED"
         \/ /\ call.consumer = "waiting" /\ call'.consumer = "deciding" /\ call'.error = call.error
            /\ call.worker = "exited" \/ call.timer \in {"set", "fired"}
         \/ call.consumer = "joining" /\ call'.consumer = "returned" /\ call'.error = call.error
  <2>1. ASSUME NEW to, NEW error, call' = [call EXCEPT !.consumer = to, !.error = error]
        PROVE  /\ Untouched(call, call') /\ call'.queue = call.queue /\ call'.got = call.got
               /\ call'.raised = call.raised /\ call'.consumer = to /\ call'.error = error
    BY <1>1, <2>1 DEF IsCall, Untouched
  <2>2. ASSUME NEW to, call' = [call EXCEPT !.consumer = to]
        PROVE  /\ Untouched(call, call') /\ call'.queue = call.queue /\ call'.got = call.got
               /\ call'.raised = call.raised /\ call'.consumer = to /\ call'.error = call.error
    BY <1>1, <2>2 DEF IsCall, Untouched
  <2> HIDE DEF Untouched
  <2>3. CASE ConsumerStops
    BY <2>1, <2>3 DEF ConsumerStops
  <2>4. CASE \E stopping : ConsumerWaits(stopping)
    <3>1. CASE /\ call.consumer = "waiting"
               /\ call.worker = "exited" \/ call.timer \in {"set", "fired"}
               /\ call' = [call EXCEPT !.consumer = "deciding"]
      BY <2>2, <3>1
    <3>2. CASE /\ call.consumer = "waiting"
               /\ call' = [call EXCEPT !.consumer = "deciding", !.error = "RUN_INTERRUPTED"]
      BY <2>1, <3>2
    <3> QED BY <2>4, <3>1, <3>2 DEF ConsumerWaits, Expired
  <2>5. CASE ConsumerJoins
    BY <2>2, <2>5 DEF ConsumerJoins
  <2> QED BY <2>3, <2>4, <2>5
<1>3. ConsumerInv(call')
  <2>1. CASE call.consumer = "listening" /\ call'.consumer = "deciding"
    BY <1>1, <1>2, <2>1 DEF ConsumerInv, Untouched
  <2>2. CASE call.consumer = "waiting" /\ call'.consumer = "deciding"
    BY <1>1, <1>2, <2>2 DEF ConsumerInv, Emptied, Untouched
  <2>3. CASE call.consumer = "joining" /\ call'.consumer = "returned"
    BY <1>1, <1>2, <2>3 DEF ConsumerInv, Untouched
  <2> QED BY <1>2, <2>1, <2>2, <2>3
<1> QED BY <1>2, <1>3, UntouchedKeeps DEF OutcomeInv

\* It decides: a worker that ended in time by itself has given its result, or is at fault.
LEMMA ConsumerDecidesKeeps ==
  ASSUME NEW n, OutcomeInv(call, n), ConsumerDecides
  PROVE  OutcomeInv(call', n)
PROOF
<1>1. IsCall(call) /\ call.consumer = "deciding" /\ ~call.closed
  BY DEF OutcomeInv, Shape, ConsumerInv, ConsumerDecides
<1>2. /\ Untouched(call, call') /\ call'.queue = call.queue /\ call'.got = call.got
      /\ call'.raised = call.raised /\ call'.consumer = "closing"
      /\ call'.error = IF call.timer \in {"set", "fired"} THEN "EXTRACTION_TIMEOUT" ELSE call.error
  BY <1>1 DEF ConsumerDecides, Expired, IsCall, Untouched
<1>3. ASSUME call.timer \notin {"set", "fired"}, call.error = ""
      PROVE  call.worker = "exited" /\ (call.fault \/ (call.death = "ok" /\ call.got # 0))
  <2>1. call.worker = "exited" /\ call.reader = "done" /\ call.queue = <<>>
    BY <1>1, <1>3 DEF OutcomeInv, ConsumerInv, Emptied
  <2>2. call.fault \/ (call.death = "ok" /\ call.sent = n)
    BY <1>1, <1>3, <2>1 DEF OutcomeInv, DeathInv
  <2>3. call.pipe = <<>>
    BY <1>1, <2>1 DEF OutcomeInv, EndInv
  <2>4. UnderWay(call) = {}
    BY <2>1, <2>3, NothingCarried DEF UnderWay
  <2>5. call.sent = n => call.got # 0
    BY <1>1, <2>4 DEF OutcomeInv, ResultInv
  <2> QED BY <2>1, <2>2, <2>5
<1>4. ConsumerInv(call')
  BY <1>1, <1>2, <1>3 DEF OutcomeInv, ConsumerInv, Untouched
<1> QED BY <1>2, <1>4, UntouchedKeeps DEF OutcomeInv

LEMMA ConsumerClosesKeeps ==
  ASSUME NEW n, OutcomeInv(call, n), ConsumerCloses
  PROVE  OutcomeInv(call', n)
PROOF
<1>1. Shape(call) /\ call.consumer = "closing"
  BY DEF OutcomeInv, ConsumerCloses
<1> DEFINE c == Killed(call, "closer")
<1>2. /\ IsCall(c) /\ c.worker = "exited" /\ c.timer = call.timer
      /\ c.reader = call.reader /\ c.pipe = call.pipe
      /\ c.queue = call.queue /\ c.hand = call.hand /\ c.sent = call.sent
      /\ c.fault = call.fault /\ c.got = call.got /\ c.error = call.error
      /\ c.raised = call.raised
      /\ c.death = IF call.worker = "exited" \/ call.death # "none" THEN call.death ELSE "closer"
  BY <1>1, KillEnds DEF Shape
<1>3. call' = [c EXCEPT !.consumer = "joining", !.closed = TRUE,
                        !.timer = IF c.timer = "armed" THEN "cancelled" ELSE c.timer]
  BY DEF ConsumerCloses
<1> HIDE DEF c
<1>4. /\ IsCall(call') /\ call'.worker = "exited" /\ call'.closed = TRUE
      /\ call'.consumer = "joining" /\ call'.reader = call.reader /\ call'.pipe = call.pipe
      /\ call'.queue = call.queue /\ call'.hand = call.hand /\ call'.sent = call.sent
      /\ call'.fault = call.fault /\ call'.got = call.got /\ call'.error = call.error
      /\ call'.raised = call.raised
      /\ call'.timer = IF call.timer = "armed" THEN "cancelled" ELSE call.timer
      /\ call'.death = IF call.worker = "exited" \/ call.death # "none" THEN call.death
                        ELSE "closer"
  BY <1>2, <1>3 DEF IsCall
<1>5. UnderWay(call') = UnderWay(call) /\ Shape(call')
  BY <1>1, <1>4 DEF UnderWay, Shape
<1>6. LinesInv(call') /\ ResultInv(call', n) /\ EndInv(call')
  BY <1>4, <1>5 DEF OutcomeInv, LinesInv, ResultInv, EndInv
<1>7. DeathInv(call', n)
  BY <1>4 DEF OutcomeInv, DeathInv
<1>8. ConsumerInv(call')
  BY <1>1, <1>4 DEF OutcomeInv, ConsumerInv
<1> QED BY <1>5, <1>6, <1>7, <1>8 DEF OutcomeInv
-----------------------------------------------------------------------------
(***************************************************************************)
(* No line is lost on its way.  As long as the consumer listens, what is   *)
(* in the queue, in the reader's hand and in the pipe are the lines the    *)
(* worker wrote behind those that were taken, in their order, and after    *)
(* them only what says that it ended.                                      *)
(***************************************************************************)
NumberAt(c, p) == IF p <= c.sent THEN p ELSE 0
InHand(c) == IF c.reader = "putting" THEN 1 ELSE 0

Numbered(line, script) ==
  IF line.at = 0 THEN line.type \notin {"event", "result"}
  ELSE line.at \in 1..Len(script) /\ line = script[line.at]

\* base lines were taken.
Flow(c, base, script) ==
  /\ base \in Nat /\ base <= c.sent /\ c.sent <= Len(script)
  /\ \A j \in 1..Len(c.queue) : c.queue[j].at = NumberAt(c, base + j)
  /\ c.reader = "putting" => c.hand.at = NumberAt(c, base + Len(c.queue) + 1)
  /\ \A j \in 1..Len(c.pipe) : c.pipe[j].at = NumberAt(c, base + Len(c.queue) + InHand(c) + j)
  /\ c.sent <= base + Len(c.queue) + InHand(c) + Len(c.pipe)
  /\ c.worker = "running" => c.sent = base + Len(c.queue) + InHand(c) + Len(c.pipe)
  /\ \A line \in UnderWay(c) : Numbered(line, script)

\* seen events were given to the observer; with the result every one was.
Base(c, seen) == IF c.got = 0 THEN seen ELSE seen + 1
FlowInv(c, seen, script) ==
  /\ seen \in Nat /\ seen < Len(script)
  /\ c.got # 0 => seen + 1 = Len(script)
  /\ c.consumer = "listening" => Flow(c, Base(c, seen), script)

LEMMA FlowStart ==
  ASSUME NEW script, IsScript(script)
  PROVE  FlowInv(NewCall, 0, script)
PROOF
<1>1. /\ NewCall.sent = 0 /\ NewCall.queue = <<>> /\ NewCall.pipe = <<>>
      /\ NewCall.reader = "reading" /\ NewCall.got = 0
  BY DEF NewCall
<1>2. UnderWay(NewCall) = {}
  BY <1>1, NothingCarried DEF UnderWay
<1>3. Len(script) \in Nat /\ 0 < Len(script)
  BY DEF IsScript
<1>4. Flow(NewCall, 0, script)
  BY <1>1, <1>2, <1>3, NothingCarried DEF Flow, InHand
<1> QED BY <1>1, <1>3, <1>4 DEF FlowInv, Base

LEMMA FlowExtends ==
  ASSUME NEW script, NEW base, NEW c, Shape(c), Flow(c, base, script), c.worker = "running",
         NEW line \in WorkerLine, Numbered(line, script),
         NEW d, d.pipe = Append(c.pipe, line), d.queue = c.queue, d.reader = c.reader,
         d.hand = c.hand, d.sent <= Len(script),
         \/ d.sent = c.sent + 1 /\ line.at = d.sent
         \/ d.sent = c.sent /\ line.at = 0 /\ d.worker # "running"
  PROVE  Flow(d, base, script)
PROOF
<1> DEFINE q == Len(c.queue)
           p == Len(c.pipe)
           h == InHand(c)
<1>1. q \in Nat /\ p \in Nat /\ h \in {0, 1} /\ base \in Nat /\ c.sent \in Nat
  BY DEF Shape, Flow, InHand
<1>2. /\ d.pipe \in Seq(WorkerLine) /\ Carried(d.pipe) = Carried(c.pipe) \cup {line}
      /\ Len(d.pipe) = p + 1 /\ d.pipe[p + 1] = line
      /\ \A j \in 1..p : d.pipe[j] = c.pipe[j]
  BY LineAppended DEF Shape
<1>3. c.sent = base + q + h + p /\ InHand(d) = h /\ Len(d.queue) = q
  BY DEF Flow, InHand
<1> HIDE DEF q, p, h
<1>4. \A x \in Nat : x <= c.sent => NumberAt(d, x) = x /\ NumberAt(c, x) = x
  BY <1>1 DEF NumberAt
<1>5. \A j \in 1..q : d.queue[j].at = NumberAt(d, base + j)
  <2> SUFFICES ASSUME NEW j \in 1..q PROVE d.queue[j].at = NumberAt(d, base + j)
    OBVIOUS
  <2>1. base + j \in Nat /\ base + j <= c.sent
    BY <1>1, <1>3
  <2>2. c.queue[j].at = NumberAt(c, base + j)
    BY DEF Flow, q
  <2> QED BY <1>4, <2>1, <2>2
<1>6. d.reader = "putting" => d.hand.at = NumberAt(d, base + q + 1)
  <2> SUFFICES ASSUME c.reader = "putting" PROVE c.hand.at = NumberAt(d, base + q + 1)
    OBVIOUS
  <2>1. h = 1
    BY DEF h, InHand
  <2>2. base + q + 1 \in Nat /\ base + q + 1 <= c.sent
    BY <1>1, <1>3, <2>1
  <2>3. c.hand.at = NumberAt(c, base + q + 1)
    BY DEF Flow, q
  <2> QED BY <1>4, <2>2, <2>3
<1>7. \A j \in 1..(p + 1) : d.pipe[j].at = NumberAt(d, base + q + h + j)
  <2> SUFFICES ASSUME NEW j \in 1..(p + 1) PROVE d.pipe[j].at = NumberAt(d, base + q + h + j)
    OBVIOUS
  <2>1. CASE j # p + 1
    <3>1. j \in 1..p /\ base + q + h + j \in Nat /\ base + q + h + j <= c.sent
      BY <1>1, <1>3, <2>1
    <3>2. c.pipe[j].at = NumberAt(c, base + q + h + j)
      BY <3>1 DEF Flow, q, h, p
    <3> QED BY <1>2, <1>4, <3>1, <3>2
  <2>2. CASE j = p + 1
    <3>1. base + q + h + j = c.sent + 1
      BY <1>1, <1>3, <2>2
    <3>2. NumberAt(d, c.sent + 1) = line.at
      BY <1>1 DEF NumberAt
    <3> QED BY <1>2, <2>2, <3>1, <3>2
  <2> QED BY <2>1, <2>2
<1>8. /\ d.sent <= base + q + h + (p + 1) /\ base <= d.sent
      /\ d.worker = "running" => d.sent = base + q + h + (p + 1)
  BY <1>1, <1>3 DEF Flow
<1>9. \A x \in UnderWay(d) : Numbered(x, script)
  <2>1. UnderWay(d) = UnderWay(c) \cup {line}
    BY <1>2 DEF UnderWay
  <2> QED BY <2>1 DEF Flow
<1> QED BY <1>1, <1>2, <1>3, <1>5, <1>6, <1>7, <1>8, <1>9 DEF Flow, q

\* Nothing moves; the worker or the reader may end.
LEMMA FlowRests ==
  ASSUME NEW script, NEW base, NEW c, Flow(c, base, script),
         NEW d, d.pipe = c.pipe, d.queue = c.queue, d.hand = c.hand, d.sent = c.sent,
         d.reader = c.reader \/ "putting" \notin {c.reader, d.reader},
         d.worker = "running" => c.worker = "running"
  PROVE  Flow(d, base, script)
PROOF
<1>1. InHand(d) = InHand(c) /\ \A x : NumberAt(d, x) = NumberAt(c, x)
  BY DEF InHand, NumberAt
<1>2. UnderWay(d) = UnderWay(c)
  BY DEF UnderWay
<1> QED BY <1>1, <1>2 DEF Flow

LEMMA FlowReads ==
  ASSUME NEW script, NEW base, NEW c, Shape(c), Flow(c, base, script), c.pipe # <<>>,
         c.reader = "reading",
         NEW d, d.pipe = Tail(c.pipe), d.hand = Head(c.pipe), d.reader = "putting",
         d.queue = c.queue, d.sent = c.sent, d.worker = c.worker
  PROVE  Flow(d, base, script)
PROOF
<1> DEFINE q == Len(c.queue)
           p == Len(c.pipe)
<1>1. q \in Nat /\ base \in Nat /\ c.sent \in Nat
  BY DEF Shape, Flow
<1>2. /\ d.pipe \in Seq(WorkerLine) /\ d.hand = c.pipe[1]
      /\ Carried(c.pipe) = {d.hand} \cup Carried(d.pipe)
      /\ p \in Nat \ {0} /\ Len(d.pipe) = p - 1
      /\ \A j \in 1..Len(d.pipe) : d.pipe[j] = c.pipe[j + 1]
  BY LineTaken DEF Shape
<1>3. InHand(d) = 1 /\ InHand(c) = 0 /\ \A x : NumberAt(d, x) = NumberAt(c, x)
  BY DEF InHand, NumberAt
<1>4. \A j \in 1..p : c.pipe[j].at = NumberAt(c, base + q + j)
  <2>1. \A j \in 1..p : base + q + 0 + j = base + q + j
    BY <1>1
  <2> QED BY <1>3, <2>1 DEF Flow
<1> HIDE DEF q, p
<1>5. d.hand.at = NumberAt(d, base + q + 1)
  <2>1. 1 \in 1..p
    BY <1>2
  <2> QED BY <1>2, <1>3, <1>4, <2>1
<1>6. \A j \in 1..Len(d.pipe) : d.pipe[j].at = NumberAt(d, base + q + 1 + j)
  <2> SUFFICES ASSUME NEW j \in 1..Len(d.pipe) PROVE d.pipe[j].at = NumberAt(d, base + q + 1 + j)
    OBVIOUS
  <2>1. j + 1 \in 1..p /\ base + q + (j + 1) = base + q + 1 + j
    BY <1>1, <1>2
  <2>2. c.pipe[j + 1].at = NumberAt(c, base + q + (j + 1))
    BY <1>4, <2>1
  <2> QED BY <1>2, <1>3, <2>1, <2>2
<1>7. UnderWay(d) = UnderWay(c)
  BY <1>2 DEF UnderWay
<1>8. base + q + 1 + (p - 1) = base + q + 0 + p
  BY <1>1, <1>2
<1>9. \A j \in 1..q : d.queue[j].at = NumberAt(d, base + j)
  BY <1>3 DEF Flow, q
<1>10. /\ d.sent <= base + q + 1 + (p - 1)
       /\ d.worker = "running" => d.sent = base + q + 1 + (p - 1)
  BY <1>3, <1>8 DEF Flow, q, p
<1>11. base \in Nat /\ base <= d.sent /\ d.sent <= Len(script)
  BY DEF Flow
<1>12. \A line \in UnderWay(d) : Numbered(line, script)
  BY <1>7 DEF Flow
<1> QED BY <1>2, <1>3, <1>5, <1>6, <1>9, <1>10, <1>11, <1>12 DEF Flow, q

LEMMA FlowQueues ==
  ASSUME NEW script, NEW base, NEW c, Shape(c), Flow(c, base, script),
         NEW line \in WorkerLine, NEW d, d.queue = Append(c.queue, line),
         d.pipe = c.pipe, d.sent = c.sent, d.worker = c.worker, d.reader # "putting",
         \/ c.reader = "putting" /\ line = c.hand
         \/ /\ c.reader # "putting" /\ c.pipe = <<>> /\ c.worker # "running"
            /\ line.at = 0 /\ Numbered(line, script)
  PROVE  Flow(d, base, script)
PROOF
<1> DEFINE q == Len(c.queue)
           p == Len(c.pipe)
           h == InHand(c)
<1>1. q \in Nat /\ p \in Nat /\ h \in {0, 1} /\ base \in Nat /\ c.sent \in Nat
  BY DEF Shape, Flow, InHand
<1>2. /\ Carried(d.queue) = Carried(c.queue) \cup {line}
      /\ Len(d.queue) = q + 1 /\ d.queue[q + 1] = line
      /\ \A j \in 1..q : d.queue[j] = c.queue[j]
  BY LineAppended DEF Shape
<1>3. InHand(d) = 0 /\ \A x : NumberAt(d, x) = NumberAt(c, x)
  BY DEF InHand, NumberAt
<1>4. c.pipe = <<>> => p = 0
  BY NothingCarried
<1>5. /\ c.reader = "putting" => c.hand.at = NumberAt(c, base + q + 1)
      /\ c.sent <= base + q + h + p /\ (c.worker = "running" => c.sent = base + q + h + p)
      /\ \A j \in 1..q : c.queue[j].at = NumberAt(c, base + j)
      /\ \A j \in 1..p : c.pipe[j].at = NumberAt(c, base + q + h + j)
  BY DEF Flow
<1>6. c.reader = "putting" => h = 1
  BY DEF InHand
<1>7. c.reader # "putting" => h = 0
  BY DEF InHand
<1> HIDE DEF q, p, h
<1>8. line.at = NumberAt(c, base + q + 1)
  <2>1. CASE c.reader = "putting"
    BY <1>5, <2>1
  <2>2. CASE c.reader # "putting"
    BY <1>1, <1>4, <1>5, <1>7, <2>2 DEF NumberAt
  <2> QED BY <2>1, <2>2
<1>9. \A j \in 1..(q + 1) : d.queue[j].at = NumberAt(d, base + j)
  <2> SUFFICES ASSUME NEW j \in 1..(q + 1) PROVE d.queue[j].at = NumberAt(d, base + j)
    OBVIOUS
  <2>1. CASE j = q + 1
    <3>1. base + j = base + q + 1
      BY <1>1, <2>1
    <3> QED BY <1>2, <1>3, <1>8, <2>1, <3>1
  <2>2. CASE j # q + 1
    BY <1>1, <1>2, <1>3, <1>5, <2>2
  <2> QED BY <2>1, <2>2
<1>10. \A j \in 1..p : d.pipe[j].at = NumberAt(d, base + (q + 1) + 0 + j)
  <2> SUFFICES ASSUME NEW j \in 1..p
               PROVE  d.pipe[j].at = NumberAt(d, base + (q + 1) + 0 + j)
    OBVIOUS
  <2>1. h = 1
    BY <1>4, <1>6, <1>7
  <2>2. base + (q + 1) + 0 + j = base + q + h + j
    BY <1>1, <2>1
  <2> QED BY <1>3, <1>5, <2>2
<1>11. /\ d.sent <= base + (q + 1) + 0 + p
       /\ d.worker = "running" => d.sent = base + (q + 1) + 0 + p
  BY <1>1, <1>5, <1>6, <1>7
<1>12. \A x \in UnderWay(d) : Numbered(x, script)
  <2>1. UnderWay(d) \subseteq UnderWay(c) \cup {line} /\ (c.reader = "putting" => line \in UnderWay(c))
    BY <1>2 DEF UnderWay
  <2> QED BY <2>1 DEF Flow
<1>13. base \in Nat /\ base <= d.sent /\ d.sent <= Len(script)
  BY DEF Flow
<1> QED BY <1>2, <1>3, <1>9, <1>10, <1>11, <1>12, <1>13 DEF Flow, p

\* The first line of the queue is taken: the next one of the worker, or one that says
\* that it ended, after which there is nothing of the worker any more.
LEMMA FlowTakes ==
  ASSUME NEW script, NEW base, NEW c, Shape(c), Flow(c, base, script), c.queue # <<>>,
         NEW d, Untouched(c, d), d.queue = Tail(c.queue)
  PROVE  /\ Head(c.queue).at = 0 => Flow(d, base, script)
         /\ Head(c.queue).at # 0 => Head(c.queue).at = base + 1 /\ Flow(d, base + 1, script)
         /\ Numbered(Head(c.queue), script)
PROOF
<1> DEFINE q == Len(c.queue)
           p == Len(c.pipe)
           h == InHand(c)
           first == Head(c.queue)
<1>1. p \in Nat /\ h \in {0, 1} /\ base \in Nat /\ c.sent \in Nat
  BY DEF Shape, Flow, InHand
<1>2. /\ first = c.queue[1] /\ Carried(c.queue) = {first} \cup Carried(d.queue)
      /\ q \in Nat \ {0} /\ Len(d.queue) = q - 1
      /\ \A j \in 1..Len(d.queue) : d.queue[j] = c.queue[j + 1]
  BY LineTaken DEF Shape
<1>3. /\ InHand(d) = h /\ \A x : NumberAt(d, x) = NumberAt(c, x)
      /\ d.pipe = c.pipe /\ d.hand = c.hand /\ d.reader = c.reader /\ d.sent = c.sent
      /\ d.worker = c.worker
  BY DEF InHand, NumberAt, Untouched
<1>4. UnderWay(c) = {first} \cup UnderWay(d)
  BY <1>2, <1>3 DEF UnderWay
<1>5. Numbered(first, script) /\ \A line \in UnderWay(d) : Numbered(line, script)
  BY <1>4 DEF Flow
<1>6. /\ c.reader = "putting" => c.hand.at = NumberAt(c, base + q + 1)
      /\ c.sent <= base + q + h + p /\ (c.worker = "running" => c.sent = base + q + h + p)
      /\ \A j \in 1..q : c.queue[j].at = NumberAt(c, base + j)
      /\ \A j \in 1..p : c.pipe[j].at = NumberAt(c, base + q + h + j)
      /\ base <= c.sent /\ c.sent <= Len(script)
  BY DEF Flow
<1> HIDE DEF q, p, h, first
<1>7. first.at = NumberAt(c, base + 1)
  <2>1. 1 \in 1..q
    BY <1>2
  <2> QED BY <1>2, <1>6, <2>1
<1>8. ASSUME NEW next \in Nat, next \in {base, base + 1}, next <= c.sent,
             next = base => base = c.sent
      PROVE  Flow(d, next, script)
  <2>1. \A x \in Nat : NumberAt(c, next + x) = NumberAt(c, base + x + 1)
                       \/ (next = base /\ x = 0)
    BY <1>1, <1>8 DEF NumberAt
  <2>2. \A j \in 1..(q - 1) : d.queue[j].at = NumberAt(d, next + j)
    <3> SUFFICES ASSUME NEW j \in 1..(q - 1) PROVE d.queue[j].at = NumberAt(d, next + j)
      OBVIOUS
    <3>1. j + 1 \in 1..q /\ base + (j + 1) = base + j + 1 /\ j \in Nat /\ j # 0
      BY <1>1, <1>2
    <3>2. d.queue[j].at = NumberAt(c, base + j + 1)
      BY <1>2, <1>6, <3>1
    <3> QED BY <1>3, <2>1, <3>1, <3>2
  <2>3. d.reader = "putting" => d.hand.at = NumberAt(d, next + (q - 1) + 1)
    <3> SUFFICES ASSUME c.reader = "putting" PROVE c.hand.at = NumberAt(c, next + (q - 1) + 1)
      BY <1>3
    <3>1. q \in Nat /\ q # 0 /\ next + (q - 1) + 1 = next + q
      BY <1>2, <1>8
    <3> QED BY <1>6, <2>1, <3>1
  <2>4. \A j \in 1..p : d.pipe[j].at = NumberAt(d, next + (q - 1) + h + j)
    <3> SUFFICES ASSUME NEW j \in 1..p PROVE d.pipe[j].at = NumberAt(d, next + (q - 1) + h + j)
      OBVIOUS
    <3>1. /\ (q - 1) + h + j \in Nat /\ (q - 1) + h + j # 0
          /\ next + (q - 1) + h + j = next + ((q - 1) + h + j)
          /\ base + ((q - 1) + h + j) + 1 = base + q + h + j
      BY <1>1, <1>2, <1>8
    <3> QED BY <1>3, <1>6, <2>1, <3>1
  <2>5. /\ d.sent <= next + (q - 1) + h + p
        /\ d.worker = "running" => d.sent = next + (q - 1) + h + p
    <3>1. PICK s \in Nat : s = c.sent
      BY <1>1
    <3>2. CASE next = base
      <4>1. s = base /\ (c.worker = "running" => s = base + q + h + p)
        BY <1>6, <1>8, <3>1, <3>2
      <4>2. s # base + q + h + p /\ s <= base + (q - 1) + h + p
        BY <1>1, <1>2, <4>1
      <4> QED BY <1>3, <3>1, <3>2, <4>1, <4>2
    <3>3. CASE next = base + 1
      <4>1. next + (q - 1) + h + p = base + q + h + p
        BY <1>1, <1>2, <3>3
      <4> QED BY <1>3, <1>6, <4>1
    <3> QED BY <1>8, <3>2, <3>3
  <2> QED BY <1>2, <1>3, <1>5, <1>6, <1>8, <2>2, <2>3, <2>4, <2>5 DEF Flow, p, h
<1>9. CASE base + 1 <= c.sent
  <2>1. first.at = base + 1 /\ base + 1 # 0 /\ base + 1 \in Nat
    BY <1>1, <1>7, <1>9 DEF NumberAt
  <2>2. Flow(d, base + 1, script)
    BY <1>1, <1>8, <1>9, <2>1
  <2> QED BY <1>5, <2>1, <2>2 DEF first
<1>10. CASE ~(base + 1 <= c.sent)
  <2>1. first.at = 0 /\ base = c.sent
    BY <1>1, <1>6, <1>7, <1>10 DEF NumberAt
  <2>2. Flow(d, base, script)
    BY <1>1, <1>8, <2>1
  <2> QED BY <1>5, <2>1, <2>2 DEF first
<1> QED BY <1>9, <1>10

-----------------------------------------------------------------------------
\* The worker, the timer and the reader.
LEMMA WorkerFlows ==
  ASSUME NEW script, IsScript(script), OutcomeInv(call, Len(script)), NEW seen,
         FlowInv(call, seen, script), WorkerSteps(script) \/ WorkerFaults(script) \/ TimerSteps
  PROVE  FlowInv(call', seen, script)
PROOF
<1>1. Shape(call) /\ call.sent \in Nat /\ Len(script) \in Nat
  BY DEF OutcomeInv, Shape, IsScript
<1>2. /\ call'.queue = call.queue /\ call'.reader = call.reader /\ call'.hand = call.hand
      /\ call'.consumer = call.consumer /\ call'.got = call.got
      /\ call'.worker = "running" => call.worker = "running"
      /\ \/ call'.pipe = call.pipe /\ call'.sent = call.sent
         \/ /\ WorkerWrites(script) /\ call.worker = "running"
            /\ call'.sent = call.sent + 1 /\ call.sent < Len(script)
            /\ call'.pipe = Append(call.pipe, script[call.sent + 1])
         \/ /\ call.worker = "running" /\ call'.worker # "running" /\ call'.sent = call.sent
            /\ \E line \in {Note("error"), Note("torn")} : call'.pipe = Append(call.pipe, line)
  <2>1. CASE WorkerWrites(script)
    <3>1. PICK line : line = script[call.sent + 1]
      OBVIOUS
    <3>2. /\ call' = [call EXCEPT !.sent = @ + 1, !.pipe = Append(@, line)]
          /\ call.worker = "running" /\ call.sent < Len(script)
      BY <2>1, <3>1 DEF WorkerWrites
    <3> QED BY <1>1, <2>1, <3>1, <3>2 DEF Shape, IsCall
  <2>2. CASE WorkerCloses(script)
    BY <1>1, <2>2 DEF WorkerCloses, Shape, IsCall
  <2>3. CASE WorkerExits
    BY <1>1, <2>3 DEF WorkerExits, Shape, IsCall
  <2>4. CASE WorkerRaises(script)
    BY <1>1, <2>4 DEF WorkerRaises, Shape, IsCall
  <2>5. CASE WorkerDies
    <3>1. PICK rest \in {<<>>, <<Note("torn")>>} :
            call' = [call EXCEPT !.worker = "exited", !.death = "failed", !.fault = TRUE,
                                 !.pipe = @ \o rest]
      BY <2>5 DEF WorkerDies
    <3>2. PICK pipe : pipe = call.pipe \o rest
      OBVIOUS
    <3>3. call' = [call EXCEPT !.worker = "exited", !.death = "failed", !.fault = TRUE, !.pipe = pipe]
      BY <3>1, <3>2
    <3>4. call.worker = "running"
      BY <2>5 DEF WorkerDies
    <3>5. pipe = call.pipe \/ pipe = Append(call.pipe, Note("torn"))
      BY <1>1, <3>1, <3>2, LineAdded, NotesAreLines DEF Shape
    <3> QED BY <1>1, <3>3, <3>4, <3>5 DEF Shape, IsCall
  <2>6. CASE TimerExpires
    BY <1>1, <2>6 DEF TimerExpires, Shape, IsCall
  <2>7. CASE TimerKills
    <3>1. PICK rest \in {<<>>, <<Note("torn")>>} :
            /\ rest # <<>> => call.worker = "running"
            /\ call' = [Killed(call, "timer") EXCEPT !.timer = "fired", !.pipe = @ \o rest]
      BY <2>7 DEF TimerKills
    <3>2. PICK killed : killed = Killed(call, "timer")
      OBVIOUS
    <3>3. /\ IsCall(killed) /\ killed.worker = "exited" /\ killed.pipe = call.pipe
          /\ killed.queue = call.queue /\ killed.reader = call.reader /\ killed.hand = call.hand
          /\ killed.consumer = call.consumer /\ killed.got = call.got /\ killed.sent = call.sent
      BY <1>1, <3>2, KillEnds DEF Shape
    <3>4. PICK pipe : pipe = killed.pipe \o rest
      OBVIOUS
    <3>5. call' = [killed EXCEPT !.timer = "fired", !.pipe = pipe]
      BY <3>1, <3>2, <3>4
    <3>6. \/ pipe = call.pipe
          \/ pipe = Append(call.pipe, Note("torn")) /\ rest # <<>>
      BY <1>1, <3>1, <3>3, <3>4, LineAdded, NotesAreLines DEF Shape
    <3> QED BY <3>1, <3>3, <3>5, <3>6 DEF IsCall
  <2>8. CASE WorkerOverflows(script)
    BY <1>1, <2>8 DEF WorkerOverflows, Shape, IsCall
  <2> QED BY <2>1, <2>2, <2>3, <2>4, <2>5, <2>6, <2>7, <2>8
      DEF WorkerSteps, WorkerFaults, TimerSteps
<1>3. Base(call', seen) = Base(call, seen)
  BY <1>2 DEF Base
<1>4. ASSUME NEW base, Flow(call, base, script) PROVE Flow(call', base, script)
  <2>1. CASE call'.pipe = call.pipe /\ call'.sent = call.sent
    BY <1>2, <1>4, <2>1, FlowRests
  <2>2. CASE /\ call.worker = "running" /\ call'.sent = call.sent + 1 /\ call.sent < Len(script)
             /\ call'.pipe = Append(call.pipe, script[call.sent + 1])
    <3>1. call.sent + 1 \in 1..Len(script)
      BY <1>1, <2>2
    <3>2. PICK line : line = script[call.sent + 1]
      OBVIOUS
    <3>3. line \in WorkerLine /\ line.at = call.sent + 1
      BY <3>1, <3>2 DEF IsScript
    <3>4. Numbered(line, script)
      BY <1>1, <3>1, <3>2, <3>3 DEF Numbered
    <3> QED BY <1>1, <1>2, <1>4, <2>2, <3>1, <3>2, <3>3, <3>4, FlowExtends
  <2>3. ASSUME call.worker = "running", call'.worker # "running", call'.sent = call.sent,
               NEW line \in {Note("error"), Note("torn")}, call'.pipe = Append(call.pipe, line)
        PROVE  Flow(call', base, script)
    <3>1. line \in WorkerLine /\ line.at = 0 /\ Numbered(line, script)
      BY <2>3 DEF Note, WorkerLine, LineType, Numbered
    <3>2. call'.sent <= Len(script)
      BY <1>4, <2>3 DEF Flow
    <3> QED BY <1>1, <1>2, <1>4, <2>3, <3>1, <3>2, FlowExtends
  <2> QED BY <1>2, <2>1, <2>2, <2>3
<1> QED BY <1>2, <1>3, <1>4 DEF FlowInv

LEMMA ReaderFlows ==
  ASSUME NEW script, OutcomeInv(call, Len(script)), NEW seen,
         FlowInv(call, seen, script), ReaderSteps
  PROVE  FlowInv(call', seen, script)
PROOF
<1>1. Shape(call) /\ IsCall(call)
  BY DEF OutcomeInv, Shape
<1>2. call.consumer = "listening" => ~call.closed
  BY DEF OutcomeInv, ConsumerInv
<1>3. /\ call'.consumer = call.consumer /\ call'.got = call.got
      /\ call'.sent = call.sent /\ (call'.worker = "running" <=> call.worker = "running")
  <2>1. CASE ReaderReads \/ ReaderPuts \/ ReaderEnds
    BY <1>1, <2>1 DEF ReaderReads, ReaderPuts, ReaderEnds, IsCall
  <2>2. CASE ReaderKills
    BY <2>2, KillLeaves DEF ReaderKills
  <2> QED BY <2>1, <2>2 DEF ReaderSteps
<1>4. ASSUME NEW base, Flow(call, base, script), ~call.closed PROVE Flow(call', base, script)
  <2>1. CASE ReaderReads
    <3>1. CASE call' = [call EXCEPT !.reader = "ending"]
      <4>1. /\ call'.pipe = call.pipe /\ call'.queue = call.queue /\ call'.hand = call.hand
            /\ call.reader = "reading" /\ call'.reader = "ending"
        BY <1>1, <2>1, <3>1 DEF ReaderReads, IsCall
      <4> QED BY <1>3, <1>4, <4>1, FlowRests
    <3>2. CASE /\ call.pipe # <<>>
               /\ call' = [call EXCEPT !.reader = "putting", !.hand = Head(call.pipe), !.pipe = Tail(@)]
      <4>1. /\ call.reader = "reading" /\ call'.reader = "putting" /\ call'.hand = Head(call.pipe)
            /\ call'.pipe = Tail(call.pipe) /\ call'.queue = call.queue
            /\ call'.worker = call.worker
        BY <1>1, <2>1, <3>2 DEF ReaderReads, IsCall
      <4> QED BY <1>1, <1>3, <1>4, <3>2, <4>1, FlowReads
    <3> QED BY <2>1, <3>1, <3>2 DEF ReaderReads
  <2>2. CASE ReaderPuts
    <3>1. /\ call.reader = "putting" /\ call'.reader = "reading" /\ call'.pipe = call.pipe
          /\ call'.queue = Append(call.queue, call.hand) /\ call.hand \in WorkerLine
          /\ call'.worker = call.worker
      BY <1>1, <1>4, <2>2 DEF ReaderPuts, IsCall, Shape
    <3> QED BY <1>1, <1>3, <1>4, <3>1, FlowQueues
  <2>3. CASE ReaderEnds
    <3>1. /\ call.reader = "ending" /\ call'.reader = "done" /\ call'.pipe = call.pipe
          /\ call'.queue = Append(call.queue, Note("end")) /\ call'.worker = call.worker
      BY <1>1, <1>4, <2>3 DEF ReaderEnds, IsCall
    <3>2. call.pipe = <<>> /\ call.worker # "running"
      BY <1>4, <3>1 DEF OutcomeInv, EndInv
    <3>3. /\ Note("end") \in WorkerLine /\ Note("end").at = 0
          /\ Numbered(Note("end"), script)
      BY DEF Note, WorkerLine, LineType, Numbered
    <3> QED BY <1>1, <1>3, <1>4, <3>1, <3>2, <3>3, FlowQueues
  <2>4. CASE ReaderKills
    <3>1. /\ call'.pipe = call.pipe /\ call'.queue = call.queue /\ call'.hand = call.hand
          /\ call.reader = "reading" /\ call'.reader = "ending"
      BY <2>4, KillLeaves DEF ReaderKills
    <3> QED BY <1>3, <1>4, <3>1, FlowRests
  <2> QED BY <2>1, <2>2, <2>3, <2>4 DEF ReaderSteps
<1> QED BY <1>2, <1>3, <1>4 DEF FlowInv, Base

\* The consumer takes what is not an event, or stops to listen.
LEMMA ConsumerFlows ==
  ASSUME NEW script, IsScript(script), OutcomeInv(call, Len(script)), NEW seen,
         FlowInv(call, seen, script),
         \/ ConsumerTakes \/ ConsumerStops \/ (\E stopping : ConsumerWaits(stopping))
         \/ ConsumerDecides \/ ConsumerCloses \/ ConsumerJoins \/ ConsumerObserves(FALSE)
  PROVE  FlowInv(call', seen, script)
PROOF
<1>1. Shape(call) /\ IsCall(call)
  BY DEF OutcomeInv, Shape
<1>2. ASSUME call'.got = call.got, call'.consumer # "listening" PROVE FlowInv(call', seen, script)
  BY <1>2 DEF FlowInv
<1>3. CASE ConsumerStops \/ (\E stopping : ConsumerWaits(stopping)) \/ ConsumerDecides
           \/ ConsumerJoins \/ ConsumerObserves(FALSE)
  <2>1. call'.got = call.got /\ call'.consumer # "listening"
    BY <1>1, <1>3 DEF ConsumerStops, ConsumerWaits, ConsumerDecides, ConsumerJoins,
       ConsumerObserves, IsCall
  <2> QED BY <1>2, <2>1
<1>4. CASE ConsumerCloses
  <2>1. PICK killed : killed = Killed(call, "closer")
    OBVIOUS
  <2>2. IsCall(killed) /\ killed.got = call.got
    BY <1>1, <2>1, KillEnds
  <2>3. call' = [killed EXCEPT !.consumer = "joining", !.closed = TRUE,
                  !.timer = IF @ = "armed" THEN "cancelled" ELSE @]
    BY <1>4, <2>1 DEF ConsumerCloses
  <2>4. call'.got = call.got /\ call'.consumer # "listening"
    BY <2>2, <2>3 DEF IsCall
  <2> QED BY <1>2, <2>4
<1>5. CASE ConsumerTakes
  <2>1. /\ call.queue # <<>> /\ call.consumer = "listening" /\ Flow(call, Base(call, seen), script)
    BY <1>5 DEF ConsumerTakes, Taking, FlowInv
  <2>2. CASE Taking("torn") \/ Taking("end")
    <3>1. call'.got = call.got /\ call'.consumer # "listening"
      BY <1>1, <1>5, <2>2 DEF ConsumerTakes, Taking, IsCall
    <3> QED BY <1>2, <3>1
  <2>3. CASE Taking("error")
    <3>1. /\ Untouched(call, call') /\ call'.queue = Tail(call.queue) /\ call'.got = call.got
          /\ Head(call.queue).type = "error"
      BY <1>1, <1>5, <2>3 DEF ConsumerTakes, Taking, IsCall, Untouched
    <3>2. Numbered(Head(call.queue), script)
      BY <1>1, <2>1, <3>1, FlowTakes
    <3>3. Head(call.queue).at = 0
      BY <3>1, <3>2 DEF Numbered, IsScript
    <3>4. Flow(call', Base(call, seen), script)
      BY <1>1, <2>1, <3>1, <3>3, FlowTakes
    <3> QED BY <3>1, <3>4 DEF FlowInv, Base
  <2>4. CASE Taking("result")
    <3>1. /\ Untouched(call, call') /\ call'.queue = Tail(call.queue)
          /\ call'.got = Head(call.queue).at /\ Head(call.queue).type = "result"
      BY <1>1, <1>5, <2>4 DEF ConsumerTakes, Taking, IsCall, Untouched
    <3>2. Numbered(Head(call.queue), script)
      BY <1>1, <2>1, <3>1, FlowTakes
    <3>3. Head(call.queue).at # 0 /\ Head(call.queue).at = Len(script)
      BY <3>1, <3>2 DEF Numbered, IsScript
    <3>4. /\ Head(call.queue).at = Base(call, seen) + 1
          /\ Flow(call', Base(call, seen) + 1, script)
      BY <1>1, <2>1, <3>1, <3>3, FlowTakes
    <3>5. seen \in Nat /\ Len(script) \in Nat /\ (call.got # 0 => seen + 1 = Len(script))
      BY DEF FlowInv, IsScript
    <3>6. call.got = 0 /\ seen + 1 = Len(script)
      BY <3>3, <3>4, <3>5 DEF Base
    <3>7. Base(call', seen) = Base(call, seen) + 1
      BY <3>1, <3>3, <3>6 DEF Base
    <3> QED BY <3>4, <3>6, <3>7 DEF FlowInv
  <2> QED BY <1>5, <2>2, <2>3, <2>4 DEF ConsumerTakes
<1> QED BY <1>3, <1>4, <1>5

\* The event the consumer observes is the next one of the worker.
LEMMA ObservedFlows ==
  ASSUME NEW script, IsScript(script), OutcomeInv(call, Len(script)), NEW seen,
         FlowInv(call, seen, script), ConsumerObserves(TRUE)
  PROVE  /\ Head(call.queue).at = seen + 1 /\ seen + 1 < Len(script)
         /\ FlowInv(call', seen + 1, script)
PROOF
<1>1. Shape(call) /\ IsCall(call)
  BY DEF OutcomeInv, Shape
<1>2. /\ Untouched(call, call') /\ call'.queue = Tail(call.queue) /\ call'.got = call.got
      /\ Head(call.queue).type = "event" /\ call.queue # <<>> /\ call.consumer = "listening"
  BY <1>1 DEF ConsumerObserves, Taking, IsCall, Untouched
<1>3. Flow(call, Base(call, seen), script)
  BY <1>2 DEF FlowInv
<1>4. Numbered(Head(call.queue), script)
  BY <1>1, <1>2, <1>3, FlowTakes
<1>5. Head(call.queue).at # 0 /\ Head(call.queue).at \in 1..Len(script)
  BY <1>2, <1>4 DEF Numbered
<1>6. Head(call.queue).at # Len(script)
  BY <1>2, <1>4, <1>5 DEF Numbered, IsScript
<1>7. Head(call.queue).at = Base(call, seen) + 1 /\ Flow(call', Base(call, seen) + 1, script)
  BY <1>1, <1>2, <1>3, <1>5, FlowTakes
<1>8. seen \in Nat /\ Len(script) \in Nat /\ (call.got # 0 => seen + 1 = Len(script))
  BY DEF FlowInv, IsScript
<1>9. call.got = 0
  BY <1>5, <1>6, <1>7, <1>8 DEF Base
<1>10. Head(call.queue).at = seen + 1 /\ seen + 1 < Len(script)
  BY <1>5, <1>6, <1>7, <1>8, <1>9 DEF Base
<1>11. Base(call, seen) + 1 = Base(call', seen + 1)
  BY <1>2, <1>9 DEF Base
<1> QED BY <1>2, <1>7, <1>8, <1>9, <1>10, <1>11 DEF FlowInv
-----------------------------------------------------------------------------
(***************************************************************************)
(* The type of a call.                                                     *)
(***************************************************************************)
Reports == CallErrors \cup {""}

LEMMA ErrorsAreReports == CallErrors \subseteq Reports
PROOF BY Zenon DEF Reports

\* What Shape and DeathInv do not say of the parts of a call.
CallTyped(c) ==
  /\ c.worker \in {"running", "closed", "stuck", "exited"}
  /\ c.reader \in {"reading", "putting", "ending", "done"}
  /\ c.timer \in {"armed", "set", "fired", "cancelled"}
  /\ c.consumer \in {"listening", "waiting", "deciding", "closing", "joining", "returned"}
  /\ c.got \in Nat /\ c.error \in Reports /\ c.raised \in BOOLEAN

LEMMA CallIsTyped ==
  ASSUME NEW c, NEW n, OutcomeInv(c, n), CallTyped(c)
  PROVE  c \in Call
PROOF
<1>1. Call =
        [worker : {"running", "closed", "stuck", "exited"}, sent : Nat, fault : BOOLEAN,
         death : {"none", "ok", "failed", "timer", "closer"},
         pipe : Seq(WorkerLine), queue : Seq(WorkerLine),
         reader : {"reading", "putting", "ending", "done"}, hand : WorkerLine,
         timer : {"armed", "set", "fired", "cancelled"}, closed : BOOLEAN,
         consumer : {"listening", "waiting", "deciding", "closing", "joining", "returned"},
         got : Nat, error : Reports, raised : BOOLEAN]
  BY Zenon DEF Call, Reports
<1>2. Shape(c) /\ DeathInv(c, n)
  BY DEF OutcomeInv
<1> QED BY <1>1, <1>2 DEF Shape, IsCall, DeathInv, CallTyped

LEMMA NewCallTyped == CallTyped(NewCall)
PROOF
<1>1. PICK none : none = "" /\ none \in Reports
  BY Zenon DEF Reports
<1>2. NewCall =
        [worker |-> "running", sent |-> 0, fault |-> FALSE, death |-> "none",
         pipe |-> <<>>, queue |-> <<>>, reader |-> "reading", hand |-> Note("end"),
         timer |-> "armed", closed |-> FALSE, consumer |-> "listening",
         got |-> 0, error |-> none, raised |-> FALSE]
  BY <1>1, Zenon DEF NewCall
<1> QED BY ONLY <1>1, <1>2 DEF CallTyped

LEMMA WorkerTyped ==
  ASSUME Shape(call), CallTyped(call), NEW script,
         WorkerSteps(script) \/ WorkerFaults(script)
  PROVE  CallTyped(call')
PROOF
<1>1. CASE WorkerWrites(script) \/ WorkerCloses(script) \/ WorkerRaises(script)
  BY <1>1 DEF WorkerWrites, WorkerCloses, WorkerRaises, Shape, IsCall, CallTyped
<1>2. CASE WorkerExits
  BY <1>2 DEF WorkerExits, Shape, IsCall, CallTyped
<1>3. CASE WorkerDies
  BY <1>3 DEF WorkerDies, Shape, IsCall, CallTyped
<1>4. CASE WorkerOverflows(script)
  BY <1>4 DEF WorkerOverflows, Shape, IsCall, CallTyped
<1> QED BY <1>1, <1>2, <1>3, <1>4 DEF WorkerSteps, WorkerFaults

LEMMA ReaderTyped ==
  ASSUME Shape(call), CallTyped(call), ReaderSteps
  PROVE  CallTyped(call')
PROOF
<1>1. CASE ReaderReads
  BY <1>1 DEF ReaderReads, Shape, IsCall, CallTyped
<1>2. CASE ReaderPuts
  BY <1>2 DEF ReaderPuts, Shape, IsCall, CallTyped
<1>3. CASE ReaderEnds
  BY <1>3 DEF ReaderEnds, Shape, IsCall, CallTyped
<1>4. CASE ReaderKills
  <2> DEFINE c == Killed(call, "failed")
  <2>1. /\ IsCall(c) /\ c.worker = "exited" /\ c.timer = call.timer
        /\ c.consumer = call.consumer /\ c.got = call.got /\ c.error = call.error
        /\ c.raised = call.raised
    BY KillEnds DEF Shape
  <2>2. call' = [c EXCEPT !.reader = "ending"]
    BY <1>4 DEF ReaderKills
  <2> HIDE DEF c
  <2> QED BY <2>1, <2>2 DEF IsCall, CallTyped
<1> QED BY <1>1, <1>2, <1>3, <1>4 DEF ReaderSteps

LEMMA TimerTyped ==
  ASSUME Shape(call), CallTyped(call), TimerSteps
  PROVE  CallTyped(call')
PROOF
<1>1. CASE TimerExpires
  BY <1>1 DEF TimerExpires, Shape, IsCall, CallTyped
<1>2. CASE TimerKills
  <2> DEFINE c == Killed(call, "timer")
  <2>1. /\ IsCall(c) /\ c.worker = "exited" /\ c.reader = call.reader
        /\ c.consumer = call.consumer /\ c.got = call.got /\ c.error = call.error
        /\ c.raised = call.raised
    BY KillEnds DEF Shape
  <2>2. \E pipe : call' = [c EXCEPT !.timer = "fired", !.pipe = pipe]
    BY <1>2 DEF TimerKills
  <2> HIDE DEF c
  <2> QED BY <2>1, <2>2 DEF IsCall, CallTyped
<1> QED BY <1>1, <1>2 DEF TimerSteps

LEMMA ConsumerTyped ==
  ASSUME Shape(call), CallTyped(call),
         \/ ConsumerStops \/ ConsumerTakes \/ (\E stopping : ConsumerWaits(stopping))
         \/ ConsumerDecides \/ ConsumerCloses \/ ConsumerJoins
         \/ \E ok \in BOOLEAN : ConsumerObserves(ok)
  PROVE  CallTyped(call')
PROOF
<1>0. {"RUN_INTERRUPTED", "WORKER_FAILED", "INVALID_WORKER_OUTPUT", "EXTRACTION_TIMEOUT"}
        \subseteq Reports
  BY ErrorsAreReports DEF CallErrors
<1>1. CASE ConsumerStops \/ ConsumerJoins
  BY ONLY <1>0, <1>1, Shape(call), CallTyped(call)
     DEF ConsumerStops, ConsumerJoins, Shape, IsCall, CallTyped
<1>2. CASE ConsumerTakes
  <2>1. call.queue # <<>>
    BY <1>2 DEF ConsumerTakes, Taking
  <2>2. Head(call.queue) \in WorkerLine
    BY <2>1, LineTaken DEF Shape
  <2>3. Head(call.queue).at \in Nat
    BY <2>2 DEF WorkerLine
  <2>4. CASE /\ Taking("result")
             /\ call' = [call EXCEPT !.queue = Tail(@), !.got = Head(call.queue).at]
    BY ONLY <2>3, <2>4, Shape(call), CallTyped(call) DEF Shape, IsCall, CallTyped
  <2>5. CASE \E consumer \in {"waiting", "deciding"} :
          call' = [call EXCEPT !.queue = Tail(@), !.consumer = consumer]
    BY ONLY <2>5, Shape(call), CallTyped(call) DEF Shape, IsCall, CallTyped
  <2>6. CASE Taking("error") /\ call' = [call EXCEPT !.queue = Tail(@), !.error = "WORKER_FAILED"]
    BY ONLY <1>0, <2>6, Shape(call), CallTyped(call) DEF Shape, IsCall, CallTyped
  <2>7. CASE call' = [call EXCEPT !.queue = Tail(@), !.error = "INVALID_WORKER_OUTPUT",
                                  !.consumer = "deciding"]
    BY ONLY <1>0, <2>7, Shape(call), CallTyped(call) DEF Shape, IsCall, CallTyped
  <2>8. CASE call' = [call EXCEPT !.queue = Tail(@),
                                  !.consumer = IF call.error = "" THEN "waiting" ELSE "deciding"]
    BY <2>5, <2>8, Zenon
  <2> QED BY <1>2, <2>4, <2>6, <2>7, <2>8, Zenon DEF ConsumerTakes
<1>3. CASE \E stopping : ConsumerWaits(stopping)
  BY ONLY <1>0, <1>3, Shape(call), CallTyped(call)
     DEF ConsumerWaits, Shape, IsCall, CallTyped
<1>4. CASE ConsumerDecides
  BY ONLY <1>0, <1>4, Shape(call), CallTyped(call)
     DEF ConsumerDecides, Shape, IsCall, CallTyped
<1>5. CASE ConsumerCloses
  <2> DEFINE c == Killed(call, "closer")
  <2>1. /\ IsCall(c) /\ c.worker = "exited" /\ c.reader = call.reader
        /\ c.timer = call.timer /\ c.got = call.got /\ c.error = call.error
        /\ c.raised = call.raised
    BY KillEnds DEF Shape
  <2>2. call' = [c EXCEPT !.consumer = "joining", !.closed = TRUE,
                          !.timer = IF @ = "armed" THEN "cancelled" ELSE @]
    BY <1>5 DEF ConsumerCloses
  <2> HIDE DEF c
  <2> QED BY ONLY <2>1, <2>2, CallTyped(call) DEF IsCall, CallTyped
<1>6. CASE \E ok \in BOOLEAN : ConsumerObserves(ok)
  BY ONLY <1>6, Shape(call), CallTyped(call) DEF ConsumerObserves, Taking, Shape, IsCall, CallTyped
<1> QED BY <1>1, <1>2, <1>3, <1>4, <1>5, <1>6
=============================================================================
