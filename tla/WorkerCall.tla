----------------------------- MODULE WorkerCall -----------------------------
(***************************************************************************)
(* One call of run_worker (app/dev_extraction/process.py): the worker      *)
(* process of app/dev_extraction/worker.py that writes a line for each     *)
(* event of an extraction and one for its result, the thread that reads    *)
(* its pipe into a bounded queue, the timer, and the thread of the run     *)
(* that takes the lines, decides what became of the call and closes it.    *)
(*                                                                         *)
(* script is the sequence of the lines the worker would write.  The worker *)
(* may raise, die or hang at any line, or write one that is longer than    *)
(* the reader takes.  The thread that writes the request to the worker is  *)
(* left out: it always ends, with the process if not before.               *)
(*                                                                         *)
(* Operators named Slip... are not part of the model, see MailboxRuns.     *)
(***************************************************************************)
EXTENDS Naturals, Sequences

CONSTANTS PipeSize, QueueSize   \* lines the pipe and the queue have room for

ASSUME RoomAssumption == {PipeSize, QueueSize} \subseteq Nat \ {0}

VARIABLE call

LineType == {"event", "result", "error", "torn", "end"}
\* The number of the script's line, 0 for the others.
WorkerLine == [type : LineType, at : Nat]
Note(type) == [type |-> type, at |-> 0]

(***************************************************************************)
(* worker: closed when its output is, stuck in a line that is too long,    *)
(* exited when it can be waited for.  death says what ended it, fault that *)
(* it raised, died by itself or got stuck, which counts as failed.         *)
(* reader: the thread read; hand is the line it is putting.  timer: set    *)
(* when expired is set, fired after the kill.  consumer: the thread of the *)
(* run; got is the number of the result's line.                            *)
(***************************************************************************)
CallErrors ==
  {"RUN_INTERRUPTED", "WORKER_FAILED", "INVALID_WORKER_OUTPUT", "EXTRACTION_TIMEOUT"}
Call ==
  [worker : {"running", "closed", "stuck", "exited"}, sent : Nat, fault : BOOLEAN,
   death : {"none", "ok", "failed", "timer", "closer"},
   pipe : Seq(WorkerLine), queue : Seq(WorkerLine),
   reader : {"reading", "putting", "ending", "done"}, hand : WorkerLine,
   timer : {"armed", "set", "fired", "cancelled"}, closed : BOOLEAN,
   consumer : {"listening", "waiting", "deciding", "closing", "joining", "returned"},
   got : Nat, error : CallErrors \cup {""}, raised : BOOLEAN]
NoCall == [none |-> TRUE]

NewCall ==
  [worker |-> "running", sent |-> 0, fault |-> FALSE, death |-> "none",
   pipe |-> <<>>, queue |-> <<>>, reader |-> "reading", hand |-> Note("end"),
   timer |-> "armed", closed |-> FALSE, consumer |-> "listening",
   got |-> 0, error |-> "", raised |-> FALSE]

Calling == call # NoCall

\* kill: a process that has not exited does, with whatever it was writing.
Killed(c, by) ==
  IF c.worker = "exited" THEN c
  ELSE [c EXCEPT !.worker = "exited", !.death = IF @ = "none" THEN by ELSE @]
-----------------------------------------------------------------------------
WorkerWrites(script) ==
  /\ Calling /\ call.worker = "running" /\ call.sent < Len(script)
  /\ Len(call.pipe) < PipeSize
  /\ call' = [call EXCEPT !.sent = @ + 1, !.pipe = Append(@, script[call.sent + 1])]

\* main: an exception becomes an error line, and 1 the exit code.
WorkerRaises(script) ==
  /\ Calling /\ call.worker = "running" /\ call.sent < Len(script)
  /\ Len(call.pipe) < PipeSize
  /\ call' = [call EXCEPT !.pipe = Append(@, Note("error")), !.fault = TRUE,
                          !.worker = "closed", !.death = "failed"]

WorkerCloses(script) ==
  /\ Calling /\ call.worker = "running" /\ call.sent = Len(script)
  /\ call' = [call EXCEPT !.worker = "closed"]

WorkerExits ==
  /\ Calling /\ call.worker = "closed"
  /\ call' = [call EXCEPT !.worker = "exited", !.death = IF @ = "none" THEN "ok" ELSE @]

\* It is out of memory, or killed from outside, maybe in the middle of a line.
WorkerDies ==
  /\ Calling /\ call.worker = "running"
  /\ \E rest \in {<<>>, <<Note("torn")>>} :
       /\ Len(call.pipe \o rest) <= PipeSize
       /\ call' = [call EXCEPT !.worker = "exited", !.death = "failed", !.fault = TRUE,
                               !.pipe = @ \o rest]

\* It writes a line of which the reader takes 32 MB; nothing after it is read.
WorkerOverflows(script) ==
  /\ Calling /\ call.worker = "running" /\ call.sent < Len(script)
  /\ Len(call.pipe) < PipeSize
  /\ call' = [call EXCEPT !.pipe = Append(@, Note("torn")), !.fault = TRUE,
                          !.worker = "stuck", !.death = "failed"]
-----------------------------------------------------------------------------
\* read, up to put
ReaderReads ==
  /\ Calling /\ call.reader = "reading"
  /\ \/ /\ call.closed \/ (call.pipe = <<>> /\ call.worker \in {"closed", "exited"})
        /\ call' = [call EXCEPT !.reader = "ending"]
     \/ /\ ~call.closed /\ call.pipe # <<>>
        /\ call' = [call EXCEPT !.reader = "putting", !.hand = Head(call.pipe), !.pipe = Tail(@)]

\* read, after it has put the part of a line that is too long
ReaderKills ==
  /\ Calling /\ call.reader = "reading" /\ ~call.closed
  /\ call.pipe = <<>> /\ call.worker = "stuck"
  /\ call' = [Killed(call, "failed") EXCEPT !.reader = "ending"]

Room == Len(call.queue) < QueueSize

SlipReaderPuts ==
  /\ Calling /\ call.reader = "putting"
  /\ call' = [call EXCEPT !.reader = "reading",
                          !.queue = IF call.closed \/ ~Room THEN @ ELSE Append(@, call.hand),
                          !.hand = Note("end")]

SlipReaderPutsBlocking ==
  /\ Calling /\ call.reader = "putting" /\ Room
  /\ call' = [call EXCEPT !.reader = "reading", !.queue = Append(@, call.hand),
                          !.hand = Note("end")]

\* put: it tries again until there is room or the call is closed.
ReaderPuts ==
  /\ Calling /\ call.reader = "putting" /\ (call.closed \/ Room)
  /\ call' = [call EXCEPT !.reader = "reading",
                          !.queue = IF call.closed THEN @ ELSE Append(@, call.hand),
                          !.hand = Note("end")]

\* put(None)
ReaderEnds ==
  /\ Calling /\ call.reader = "ending" /\ (call.closed \/ Room)
  /\ call' = [call EXCEPT !.reader = "done",
                          !.queue = IF call.closed THEN @ ELSE Append(@, Note("end"))]
-----------------------------------------------------------------------------
\* expire, first half
TimerExpires ==
  /\ Calling /\ call.timer = "armed"
  /\ call' = [call EXCEPT !.timer = "set"]

\* expire, second half: a line may be cut off.
TimerKills ==
  /\ Calling /\ call.timer = "set"
  /\ \E rest \in {<<>>, <<Note("torn")>>} :
       /\ rest # <<>> => call.worker = "running" /\ Len(call.pipe) < PipeSize
       /\ call' = [Killed(call, "timer") EXCEPT !.timer = "fired", !.pipe = @ \o rest]

Expired == call.timer \in {"set", "fired"}
-----------------------------------------------------------------------------
\* The loop sees that the backend stops.
ConsumerStops ==
  /\ Calling /\ call.consumer = "listening"
  /\ call' = [call EXCEPT !.consumer = "deciding", !.error = "RUN_INTERRUPTED"]

Taking(type) ==
  /\ Calling /\ call.consumer = "listening"
  /\ call.queue # <<>> /\ Head(call.queue).type = type

\* An event goes to the observer; ok is FALSE when that raises.
ConsumerObserves(ok) ==
  /\ Taking("event")
  /\ call' = [call EXCEPT !.queue = Tail(@), !.raised = ~ok,
                          !.consumer = IF ok THEN @ ELSE "closing"]

ConsumerTakes ==
  \/ /\ Taking("result")
     /\ call' = [call EXCEPT !.queue = Tail(@), !.got = Head(call.queue).at]
  \/ /\ Taking("error")
     /\ call' = [call EXCEPT !.queue = Tail(@), !.error = "WORKER_FAILED"]
  \/ /\ Taking("torn")
     /\ call' = [call EXCEPT !.queue = Tail(@), !.error = "INVALID_WORKER_OUTPUT",
                             !.consumer = "deciding"]
  \/ /\ Taking("end")
     /\ call' = [call EXCEPT !.queue = Tail(@),
                             !.consumer = IF call.error = "" THEN "waiting" ELSE "deciding"]

\* A worker that closed its output may still be alive.
ConsumerWaits(stopping) ==
  /\ Calling /\ call.consumer = "waiting"
  /\ \/ /\ call.worker = "exited" \/ Expired
        /\ call' = [call EXCEPT !.consumer = "deciding"]
     \/ /\ stopping /\ call.worker # "exited" /\ ~Expired
        /\ call' = [call EXCEPT !.consumer = "deciding", !.error = "RUN_INTERRUPTED"]

SlipConsumerDecides ==
  /\ Calling /\ call.consumer = "deciding"
  /\ call' = [call EXCEPT !.consumer = "closing",
                          !.error = IF Expired /\ @ = "" THEN "EXTRACTION_TIMEOUT" ELSE @]

ConsumerDecides ==
  /\ Calling /\ call.consumer = "deciding"
  /\ call' = [call EXCEPT !.consumer = "closing",
                          !.error = IF Expired THEN "EXTRACTION_TIMEOUT" ELSE @]

\* finally: cancel, closed, kill and wait
ConsumerCloses ==
  /\ Calling /\ call.consumer = "closing"
  /\ call' = [Killed(call, "closer") EXCEPT !.consumer = "joining", !.closed = TRUE,
                !.timer = IF @ = "armed" THEN "cancelled" ELSE @]

SlipConsumerJoins ==
  /\ Calling /\ call.consumer = "joining"
  /\ call' = [call EXCEPT !.consumer = "returned"]

ConsumerJoins ==
  /\ Calling /\ call.consumer = "joining" /\ call.reader = "done"
  /\ call' = [call EXCEPT !.consumer = "returned"]

\* What run_worker returns, "" with a result.
CallError(c) ==
  IF c.error # "" THEN c.error
  ELSE IF c.death # "ok" \/ c.got = 0 THEN "WORKER_FAILED" ELSE ""
-----------------------------------------------------------------------------
ReaderSteps == ReaderReads \/ ReaderKills \/ ReaderPuts \/ ReaderEnds
TimerSteps == TimerExpires \/ TimerKills
WorkerSteps(script) == WorkerWrites(script) \/ WorkerCloses(script) \/ WorkerExits
WorkerFaults(script) == WorkerRaises(script) \/ WorkerDies \/ WorkerOverflows(script)
=============================================================================
