------------------------- MODULE DocumentRun_proofs -------------------------
(***************************************************************************)
(* Theorems about DocumentRun: the receipt of an upload, the record and    *)
(* the page that follows it, the call of a worker, and what is read and    *)
(* compared, each with an inductive invariant of its own.                  *)
(***************************************************************************)
EXTENDS DocumentRun, WorkerCall_proofs, CandidateReading_proofs

\* What was written of a file is what has arrived of it, within the limit.
Arrived(offer, bytes) ==
  LET past == bytes + 1 - offer.extra
  IN IF past <= 0 THEN 0 ELSE IF past > offer.size THEN offer.size ELSE past

UploadInv ==
  \/ upload = NoUpload
  \/ /\ upload = [offer |-> upload.offer, state |-> upload.state, code |-> upload.code,
                  received |-> upload.received, spooled |-> upload.spooled]
     /\ upload.offer \in Offers
     /\ upload.received \in Nat /\ upload.received <= Total(upload.offer)
     /\ upload.spooled \in Nat /\ upload.spooled <= UploadLimit
     /\ upload.state \in {"open", "refused", "accepted"}
     /\ upload.state # "refused" => upload.spooled = Arrived(upload.offer, upload.received)
     /\ upload.state = "accepted" => upload.received = Total(upload.offer)

LEMMA UploadStart == Init => UploadInv
PROOF BY DEF Init, UploadInv

LEMMA NothingYet == NoUpload.state = "none"
PROOF BY DEF NoUpload

LEMMA ReceiptStep == UploadInv /\ Receive => UploadInv'
PROOF
<1> SUFFICES ASSUME UploadInv, Receive PROVE UploadInv'
  OBVIOUS
<1> USE UploadAssumption
<1>1. CASE OpenUpload
  <2>1. PICK offer \in Offers :
          LET opened == [offer |-> offer, state |-> "open", code |-> "", received |-> 0,
                         spooled |-> 0]
          IN upload' = IF offer.declared < -1 THEN Refused(opened, "INVALID_LENGTH")
                       ELSE IF offer.declared > RequestLimit
                       THEN Refused(opened, "REQUEST_TOO_LARGE")
                       ELSE IF offer.form = "no_multipart"
                       THEN Refused(opened, "MULTIPART_REQUIRED") ELSE opened
    BY <1>1 DEF OpenUpload
  <2>2. offer.extra \in Nat \ {0} /\ offer.size \in Nat
    BY DEF Offer
  <2>3. Arrived(offer, 0) = 0 /\ Total(offer) \in Nat /\ 0 <= Total(offer)
    BY <2>2 DEF Arrived, Total
  <2>4. \E state \in {"open", "refused"} : \E code :
          upload' = [offer |-> offer, state |-> state, code |-> code, received |-> 0,
                     spooled |-> 0]
    BY <2>1 DEF Refused
  <2> QED BY <2>3, <2>4 DEF UploadInv
<1>2. CASE ReceivePiece
  <2>1. upload.state = "open" /\ upload # NoUpload
    BY <1>2, NothingYet DEF ReceivePiece
  <2>2. PICK bytes \in 1..2 :
          upload.received + bytes <= Total(upload.offer) /\ upload' = Received(upload, bytes)
    BY <1>2 DEF ReceivePiece
  <2>3. upload.offer.extra \in Nat \ {0} /\ upload.offer.size \in Nat
    BY <2>1 DEF Offer, UploadInv
  <2>4. Arrived(upload.offer, upload.received + bytes) \in Nat
    BY <2>1, <2>3 DEF Arrived, UploadInv
  <2> DEFINE body == upload.received + bytes
             file == Arrived(upload.offer, body)
  <2>5. body \in Nat /\ body <= Total(upload.offer)
    BY <2>1, <2>2 DEF UploadInv
  <2>6. upload' = IF body > RequestLimit
                  THEN Refused([upload EXCEPT !.received = body], "REQUEST_TOO_LARGE")
                  ELSE IF file > UploadLimit
                  THEN Refused([upload EXCEPT !.received = body], "FILE_TOO_LARGE")
                  ELSE [upload EXCEPT !.received = body, !.spooled = file]
    BY <2>2 DEF Received, Arrived
  <2>7. file = Arrived(upload.offer, body) /\ file \in Nat
    BY <2>4
  <2> HIDE DEF body, file
  <2>8. CASE body > RequestLimit \/ file > UploadLimit
    <3>1. \E code : upload' = Refused([upload EXCEPT !.received = body], code)
      BY <2>6, <2>8
    <3> QED BY <2>1, <2>5, <3>1 DEF UploadInv, Refused
  <2>9. CASE ~(body > RequestLimit) /\ ~(file > UploadLimit)
    <3>1. upload' = [upload EXCEPT !.received = body, !.spooled = file]
      BY <2>6, <2>9
    <3>2. file <= UploadLimit
      BY <2>7, <2>9
    <3>3. upload' = [offer |-> upload.offer, state |-> "open", code |-> upload.code,
                     received |-> body, spooled |-> file]
      BY <2>1, <3>1 DEF UploadInv
    <3>4. upload.offer \in Offers
      BY <2>1 DEF UploadInv
    <3> QED BY <2>5, <2>7, <3>2, <3>3, <3>4 DEF UploadInv
  <2> QED BY <2>8, <2>9
<1>3. CASE EndOfBody
  <2>1. upload.state = "open" /\ upload # NoUpload
    BY <1>3, NothingYet DEF EndOfBody
  <2>2. upload.offer.extra \in Nat \ {0} /\ upload.offer.size \in Nat
    BY <2>1 DEF Offer, UploadInv
  <2>3. Total(upload.offer) \in Nat
    BY <2>2 DEF Total
  <2>4. CASE FormProblem(upload) = ""
    <3>1. ~(upload.received < Total(upload.offer))
      BY <2>4 DEF FormProblem
    <3>2. upload.received <= Total(upload.offer)
      BY <2>1 DEF UploadInv
    <3>3. upload' = [upload EXCEPT !.state = "accepted"]
      BY <1>3, <2>4 DEF EndOfBody
    <3> QED BY <2>1, <2>3, <3>1, <3>2, <3>3 DEF UploadInv
  <2>5. CASE FormProblem(upload) # ""
    BY <1>3, <2>1, <2>5 DEF EndOfBody, UploadInv, Refused
  <2> QED BY <2>4, <2>5
<1> QED BY <1>1, <1>2, <1>3 DEF Receive

LEMMA UploadNext == UploadInv /\ [Next]_vars => UploadInv'
PROOF
<1> SUFFICES ASSUME UploadInv, [Next]_vars PROVE UploadInv'
  OBVIOUS
<1>1. CASE UNCHANGED upload
  BY <1>1 DEF UploadInv
<1>2. CASE Receive
  BY <1>2, ReceiptStep
<1>3. CASE AcceptRun
  BY <1>3 DEF AcceptRun, UploadInv
<1>4. Executor => UNCHANGED upload
  BY DEF Executor, StoreUpload, Prepare, NextDocument, BeginRead, EndRead, StartWorker,
         CallReturns, Consult, TextAnswered, VisionAnswered, AIFails, EndDocument, Conclude,
         Analyze, FinishRun, FailRun, Stays
<1>5. Consumer \/ ObserveFails \/ ReaderThread \/ TimerThread \/ WorkerProcess \/ WorkerFails
        => UNCHANGED upload
  BY DEF Consumer, Observe, ConsumerStep, ObserveFails, ReaderThread, TimerThread,
         WorkerProcess, WorkerFails, Stays, MishapStays
<1>6. SaveFails \/ FailRunFails \/ CheckRecording \/ Poll \/ RunDeadline \/ Stop \/ Down
        \/ Restart => UNCHANGED upload
  BY DEF SaveFails, FailRunFails, CheckRecording, Poll, RunDeadline, Stop, Down, Restart,
         Stays, MishapStays
<1> QED BY <1>1, <1>2, <1>3, <1>4, <1>5, <1>6 DEF Next, vars

LEMMA UploadInvariance == Spec => []UploadInv
PROOF BY UploadStart, UploadNext, PTL DEF Spec

\* An accepted file is the whole file of the client, and no limit is passed, however
\* the body is cut into pieces and wherever it ends.
THEOREM UploadCorrect == Spec => []UploadWhole
PROOF
<1>1. UploadInv => UploadWhole
  <2> SUFFICES ASSUME UploadInv, upload.state # "none" PROVE UploadWhole
    BY DEF UploadWhole
  <2>1. upload # NoUpload
    BY NothingYet
  <2>2. upload.offer.extra \in Nat \ {0} /\ upload.offer.size \in Nat
    BY <2>1, UploadAssumption DEF Offer, UploadInv
  <2>3. Arrived(upload.offer, Total(upload.offer)) = upload.offer.size
    BY <2>2 DEF Arrived, Total
  <2> QED BY <2>1, <2>3 DEF UploadWhole, UploadInv
<1> QED BY <1>1, UploadInvariance, PTL
-----------------------------------------------------------------------------
\* What a step does to the call of a worker.
CallStep ==
  \/ call' \in {NewCall, NoCall}
  \/ \E ok \in BOOLEAN : ConsumerObserves(ok)
  \/ ConsumerStops \/ ConsumerTakes
  \/ \E stopping : ConsumerWaits(stopping)
  \/ ConsumerDecides \/ ConsumerCloses \/ ConsumerJoins
  \/ ReaderSteps \/ TimerSteps
  \/ exec.at = "calling" /\ (WorkerSteps(Scripts[Input]) \/ WorkerFaults(Scripts[Input]))

LEMMA StepsOfCalls == [Next]_vars => UNCHANGED call \/ CallStep
PROOF
<1> SUFFICES ASSUME [Next]_vars PROVE UNCHANGED call \/ CallStep
  OBVIOUS
<1>1. CASE Executor
  BY <1>1 DEF Executor, StoreUpload, Prepare, NextDocument, BeginRead, EndRead, StartWorker,
         CallReturns, Consult, TextAnswered, VisionAnswered, AIFails, EndDocument, Conclude,
         Analyze, FinishRun, FailRun, CallStep
<1>2. CASE Consumer \/ ObserveFails
  <2>1. Observe => \E ok \in BOOLEAN : ConsumerObserves(ok)
    BY DEF Observe
  <2> QED BY <1>2, <2>1 DEF Consumer, ConsumerStep, ObserveFails, CallStep
<1>3. CASE ReaderThread \/ TimerThread \/ WorkerProcess \/ WorkerFails
  BY <1>3 DEF ReaderThread, TimerThread, WorkerProcess, WorkerFails, CallStep
<1>4. CASE SaveFails \/ FailRunFails \/ CheckRecording \/ Poll \/ RunDeadline \/ Stop \/ Down
             \/ Restart \/ Receive \/ AcceptRun
  BY <1>4 DEF SaveFails, FailRunFails, CheckRecording, Poll, RunDeadline, Stop, Down, Restart,
         Receive, AcceptRun, CallStep
<1>5. CASE UNCHANGED vars
  BY <1>5 DEF vars
<1> QED BY <1>1, <1>2, <1>3, <1>4, <1>5 DEF Next

\* The consumer joins the reader after it has closed the call.
ClosingInv ==
  call # NoCall =>
    /\ IsCall(call)
    /\ call.consumer \in {"joining", "returned"} =>
         call.closed /\ call.worker = "exited" /\ call.timer # "armed"
    /\ call.consumer = "returned" => call.reader = "done"

LEMMA ClosingNext == ClosingInv /\ [Next]_vars => ClosingInv'
PROOF
<1> SUFFICES ASSUME ClosingInv, CallStep PROVE ClosingInv'
  BY StepsOfCalls DEF ClosingInv
<1>1. CASE call' \in {NewCall, NoCall}
  <2>1. IsCall(NewCall) /\ NewCall.consumer = "listening"
    BY DEF NewCall, IsCall
  <2> QED BY <1>1, <2>1 DEF ClosingInv
<1> DEFINE Acting ==
       /\ IsCall(call') /\ call'.worker = call.worker /\ call'.reader = call.reader
       /\ call'.consumer \in {"listening", "waiting", "deciding", "closing"}
<1>2. CASE \/ \E ok \in BOOLEAN : ConsumerObserves(ok)
           \/ ConsumerStops \/ ConsumerTakes
           \/ \E stopping : ConsumerWaits(stopping)
           \/ ConsumerDecides
  <2>1. Calling /\ IsCall(call) /\ call.consumer \in {"listening", "waiting", "deciding"}
    BY <1>2 DEF ConsumerObserves, ConsumerStops, ConsumerTakes, ConsumerWaits,
           ConsumerDecides, Taking, ClosingInv, Calling
  <2>2. Acting
    <3>1. CASE \E ok \in BOOLEAN : ConsumerObserves(ok)
      BY <3>1, <2>1 DEF ConsumerObserves, Taking, IsCall
    <3>2. CASE ConsumerStops \/ ConsumerDecides
      BY <3>2, <2>1 DEF ConsumerStops, ConsumerDecides, IsCall
    <3>3. CASE ConsumerTakes
      BY <3>3, <2>1 DEF ConsumerTakes, Taking, IsCall
    <3>4. CASE \E stopping : ConsumerWaits(stopping)
      BY <3>4, <2>1 DEF ConsumerWaits, IsCall
    <3> QED BY <1>2, <3>1, <3>2, <3>3, <3>4
  <2> QED BY <2>1, <2>2 DEF ClosingInv
<1>3. CASE ConsumerCloses
  <2>1. Calling /\ IsCall(call)
    BY <1>3 DEF ConsumerCloses, ClosingInv, Calling
  <2> DEFINE c == Killed(call, "closer")
  <2>2. IsCall(c) /\ c.worker = "exited" /\ c.timer = call.timer
    BY <2>1, KillEnds
  <2>3. call' = [c EXCEPT !.consumer = "joining", !.closed = TRUE,
                          !.timer = IF @ = "armed" THEN "cancelled" ELSE @]
    BY <1>3 DEF ConsumerCloses
  <2> HIDE DEF c
  <2> QED BY <2>2, <2>3 DEF ClosingInv, IsCall
<1>4. CASE ConsumerJoins
  BY <1>4 DEF ConsumerJoins, ClosingInv, IsCall, Calling
<1>5. CASE ReaderSteps
  <2>1. Calling /\ IsCall(call) /\ call.reader # "done"
    BY <1>5 DEF ReaderSteps, ReaderReads, ReaderKills, ReaderPuts, ReaderEnds, ClosingInv, Calling
  <2>2. /\ IsCall(call') /\ call'.consumer = call.consumer /\ call'.closed = call.closed
        /\ call'.worker \in {call.worker, "exited"} /\ call'.timer = call.timer
    <3>1. CASE ReaderReads
      BY <3>1, <2>1 DEF ReaderReads, IsCall
    <3>2. CASE ReaderPuts
      BY <3>2, <2>1 DEF ReaderPuts, IsCall
    <3>3. CASE ReaderEnds
      BY <3>3, <2>1 DEF ReaderEnds, IsCall
    <3>4. CASE ReaderKills
      <4> DEFINE c == Killed(call, "failed")
      <4>1. /\ IsCall(c) /\ c.worker = "exited" /\ c.closed = call.closed
            /\ c.consumer = call.consumer /\ c.timer = call.timer
        BY <2>1, KillEnds
      <4>2. call' = [c EXCEPT !.reader = "ending"]
        BY <3>4 DEF ReaderKills
      <4> HIDE DEF c
      <4> QED BY <4>1, <4>2 DEF IsCall
    <3> QED BY <1>5, <3>1, <3>2, <3>3, <3>4 DEF ReaderSteps
  <2> QED BY <2>1, <2>2 DEF ClosingInv, Calling
<1>6. CASE TimerSteps
  <2>1. Calling /\ IsCall(call)
    BY <1>6 DEF TimerSteps, TimerExpires, TimerKills, ClosingInv, Calling
  <2>2. CASE TimerExpires
    BY <2>1, <2>2 DEF TimerExpires, ClosingInv, IsCall, Calling
  <2>3. CASE TimerKills
    <3> DEFINE c == Killed(call, "timer")
    <3>1. IsCall(c) /\ c.worker = "exited" /\ c.closed = call.closed
            /\ c.consumer = call.consumer /\ c.reader = call.reader
      BY <2>1, KillEnds
    <3>2. \E pipe : call' = [c EXCEPT !.timer = "fired", !.pipe = pipe]
      BY <2>3 DEF TimerKills
    <3> HIDE DEF c
    <3> QED BY <2>1, <3>1, <3>2 DEF ClosingInv, IsCall, Calling
  <2> QED BY <1>6, <2>2, <2>3 DEF TimerSteps
<1>7. ASSUME NEW script, WorkerSteps(script) \/ WorkerFaults(script) PROVE ClosingInv'
  <2>1. Calling /\ IsCall(call) /\ call.worker # "exited"
    BY <1>7 DEF WorkerSteps, WorkerFaults, WorkerWrites, WorkerCloses, WorkerExits,
           WorkerRaises, WorkerDies, WorkerOverflows, ClosingInv, Calling
  <2>2. /\ IsCall(call') /\ call'.consumer = call.consumer /\ call'.closed = call.closed
        /\ call'.timer = call.timer /\ call'.reader = call.reader
    <3>1. CASE WorkerWrites(script) \/ WorkerCloses(script) \/ WorkerRaises(script)
      BY <3>1, <2>1 DEF WorkerWrites, WorkerCloses, WorkerRaises, IsCall
    <3>2. CASE WorkerExits
      BY <3>2, <2>1 DEF WorkerExits, IsCall
    <3>3. CASE WorkerDies
      BY <3>3, <2>1 DEF WorkerDies, IsCall
    <3>4. CASE WorkerOverflows(script)
      BY <3>4, <2>1 DEF WorkerOverflows, IsCall
    <3> QED BY <1>7, <3>1, <3>2, <3>3, <3>4 DEF WorkerSteps, WorkerFaults
  <2> QED BY <2>1, <2>2 DEF ClosingInv, Calling
<1> QED BY <1>1, <1>2, <1>3, <1>4, <1>5, <1>6, <1>7 DEF CallStep

\* When run_worker returns nothing of the call goes on, whatever the worker, the
\* reader and the timer did meanwhile.
THEOREM CallsEndWhole == Spec => []NothingLeftRunning
PROOF
<1>1. Init => ClosingInv
  BY DEF Init, ClosingInv
<1>2. ClosingInv => NothingLeftRunning
  BY DEF ClosingInv, NothingLeftRunning, Calling
<1> QED BY <1>1, <1>2, ClosingNext, PTL DEF Spec
-----------------------------------------------------------------------------
\* The record of the run.  A record of the model is a function with known fields.
IsExec(e) ==
  e = [at |-> e.at, n |-> e.n, extract |-> e.extract, result |-> e.result,
       error |-> e.error, outcome |-> e.outcome]
IsEnv(e) ==
  e = [job |-> e.job, up |-> e.up, stopping |-> e.stopping, late |-> e.late, left |-> e.left]
IsDoc(d) ==
  d = [status |-> d.status, result |-> d.result, error |-> d.error, original |-> d.original,
       units |-> d.units]
IsRun(r, size) ==
  /\ r = [status |-> r.status, docs |-> r.docs, issues |-> r.issues, analysis |-> r.analysis]
  /\ r.docs = [i \in 1..size |-> r.docs[i]]
  /\ \A i \in 1..size : IsDoc(r.docs[i])

\* The stages in which a document is under way, and those of a run that is.
InDocument == {"started", "reading", "ready", "calling", "called", "asking", "ended"}
Working == InDocument \cup {"storing", "prepare", "next", "concluding", "analyzing", "finishing"}

Size == Len(Job.inputs)

RecordInv ==
  /\ IsExec(exec) /\ IsEnv(env) /\ env.job \in Jobs
  /\ exec.n \in 0..Size
  /\ exec.at = "idle" => saved = NoRun /\ exec.n = 0
  /\ exec.at # "idle" => IsRun(saved, Size)
  /\ ~env.up => exec.at = "over"
  /\ exec.at \in Working =>
       \A i \in 1..Size : i > exec.n => saved.docs[i].status = "PENDING"
  /\ exec.at = "storing" => exec.n = 1 /\ Size = 1 /\ saved.docs[1].status = "PENDING"
  /\ exec.at \in InDocument => exec.n # 0 /\ saved.docs[exec.n].status = "RUNNING"

LEMMA JobsHaveInputs ==
  ASSUME NEW job \in Jobs
  PROVE  /\ job.inputs \in Seq(Inputs) /\ Len(job.inputs) \in Nat
         /\ DOMAIN job.inputs = 1..Len(job.inputs)
         /\ job.kind = "upload" => Len(job.inputs) = 1
PROOF BY JobsAssumption

LEMMA NotRecorded == NoRun.status = "none" /\ \A r, size : IsRun(r, size) => r # NoRun
PROOF
<1>1. NoRun.status = "none" /\ DOMAIN NoRun = {"status"}
  BY DEF NoRun
<1>2. ASSUME NEW r, NEW size, IsRun(r, size) PROVE "docs" \in DOMAIN r
  BY <1>2 DEF IsRun
<1> QED BY <1>1, <1>2

\* What the thread does beside a change of the record.
Moves ==
  /\ IsExec(exec') /\ exec'.n = exec.n
  /\ exec'.at = "idle" <=> exec.at = "idle"
  /\ exec'.at \in InDocument => exec.at \in InDocument
  /\ exec'.at \in Working => exec.at \in Working
  /\ exec'.at = "storing" => exec.at = "storing"

Finishes == IsExec(exec') /\ exec'.at = "over" /\ exec'.n \in 0..Size /\ exec.at # "idle"

Notes(run) == \E event : Save(run, <<event>>)

WithDoc(n, doc) == [saved EXCEPT !.docs[n] = doc]

\* The documents that are done stay, and while the run goes on those that are not
\* keep their status.
Continues(run) ==
  /\ IsRun(run, Size)
  /\ \A i \in 1..Size : saved.docs[i].status \in DocOutcome => run.docs[i] = saved.docs[i]
  /\ exec'.at \in Working => \A i \in 1..Size : run.docs[i].status = saved.docs[i].status

RecordStep ==
  \/ UNCHANGED <<saved, trail>> /\ (Moves \/ Finishes)
  \/ AcceptRun
  \/ exec.at # "idle" /\ \E run : Notes(run) /\ Continues(run) /\ (Moves \/ Finishes)
  \/ StoreUpload \/ NextDocument
  \/ /\ exec.at \in InDocument /\ IsExec(exec') /\ exec'.at = "next" /\ exec'.n = exec.n
     /\ \E doc : IsDoc(doc) /\ Notes(WithDoc(exec.n, doc))

LEMMA DocReplaced ==
  ASSUME NEW size \in Nat, IsRun(saved, size), NEW n \in 1..size, NEW doc, IsDoc(doc),
         NEW run, run = WithDoc(n, doc)
  PROVE  /\ IsRun(run, size) /\ run.docs[n] = doc /\ run.status = saved.status
         /\ \A i \in 1..size : i # n => run.docs[i] = saved.docs[i]
PROOF
<1>1. run = [saved EXCEPT !.docs = [saved.docs EXCEPT ![n] = doc]]
  BY DEF IsRun, WithDoc
<1>2. /\ run.docs = [saved.docs EXCEPT ![n] = doc]
      /\ run = [status |-> run.status, docs |-> run.docs, issues |-> run.issues,
                analysis |-> run.analysis]
      /\ run.status = saved.status
  BY <1>1 DEF IsRun
<1>3. DOMAIN saved.docs = 1..size
  BY DEF IsRun
<1>4. run.docs = [i \in 1..size |-> run.docs[i]]
  BY <1>2, <1>3
<1>5. \A i \in 1..size : run.docs[i] = IF i = n THEN doc ELSE saved.docs[i]
  BY <1>2, <1>3
<1>6. \A i \in 1..size : IsDoc(run.docs[i])
  BY <1>5 DEF IsRun
<1> QED BY <1>2, <1>4, <1>5, <1>6 DEF IsRun

LEMMA SizeIsNat ==
  RecordInv => /\ Size \in Nat /\ exec.n \in Nat /\ DOMAIN Job.inputs = 1..Size
               /\ exec.at \in InDocument => exec.n \in 1..Size
PROOF BY JobsHaveInputs DEF RecordInv, Size, Job

\* A record that stays as it is, and one in which only the document under way changes
\* and is not done.
LEMMA RecordStays ==
  RecordInv /\ exec.at # "idle" => Continues(saved)
PROOF BY DEF RecordInv, Continues

LEMMA DocUpdated ==
  ASSUME RecordInv, exec.at \in InDocument, NEW doc, IsDoc(doc), doc.status = "RUNNING",
         NEW run, run = WithDoc(exec.n, doc)
  PROVE  Continues(run)
PROOF
<1>1. Size \in Nat /\ exec.n \in 1..Size
  BY SizeIsNat
<1>2. IsRun(saved, Size) /\ saved.docs[exec.n].status = "RUNNING"
  BY DEF RecordInv, InDocument
<1>3. /\ IsRun(run, Size) /\ run.docs[exec.n] = doc
      /\ \A i \in 1..Size : i # exec.n => run.docs[i] = saved.docs[i]
  BY <1>1, <1>2, DocReplaced
<1> QED BY <1>2, <1>3 DEF Continues, DocOutcome

LEMMA OneEvent ==
  /\ \A stage, status : Records(stage, status) => Notes(saved)
  /\ \A doc, event : SavesDoc(doc, <<event>>) => Notes(WithDoc(exec.n, doc))
PROOF BY DEF Records, SavesDoc, Notes, WithDoc

LEMMA ExtractionSteps ==
  ASSUME RecordInv,
         BeginRead \/ EndRead \/ StartWorker \/ CallReturns \/ Consult \/ TextAnswered
           \/ VisionAnswered \/ AIFails \/ EndDocument
  PROVE  RecordStep
PROOF
<1> DEFINE Keeping == KeepsRun \/ \E stage, status : Records(stage, status)
<1> DEFINE Going == IsExec(exec') /\ exec'.n = exec.n
                      /\ exec'.at \in InDocument \cup {"failing"}
<1>1. exec.at \in InDocument /\ exec.at # "idle" /\ IsExec(exec)
  BY DEF BeginRead, EndRead, StartWorker, CallReturns, Consult, TextAnswered, VisionAnswered,
         AIFails, EndDocument, At, InDocument, RecordInv
<1>2. Continues(saved)
  BY <1>1, RecordStays
<1>3. ASSUME Keeping, Going PROVE RecordStep
  <2>1. Moves
    BY <1>1, <1>3 DEF Moves, Working, InDocument
  <2>2. KeepsRun \/ Notes(saved)
    BY <1>3, OneEvent
  <2> QED BY <1>1, <1>2, <2>1, <2>2 DEF RecordStep, KeepsRun
<1>4. \A code : Gives(code) => Going
  BY <1>1 DEF Gives, IsExec, InDocument
<1>5. \A step \in InDocument \cup {"failing"} : Goes(step) => Going
  BY <1>1 DEF Goes, IsExec
<1>6. CASE BeginRead
  <2>1. Keeping
    BY <1>6 DEF BeginRead
  <2>2. Going
    BY <1>4, <1>5, <1>6 DEF BeginRead, InDocument
  <2> QED BY <1>3, <2>1, <2>2
<1>7. ASSUME NEW doc, IsDoc(doc), doc.status = "RUNNING", NEW event,
             SavesDoc(doc, <<event>>), Going
      PROVE  RecordStep
  <2>1. Moves
    BY <1>1, <1>7 DEF Moves, Working, InDocument
  <2>2. PICK run : run = WithDoc(exec.n, doc)
    OBVIOUS
  <2>3. Continues(run) /\ Notes(run)
    BY <1>1, <1>7, <2>2, DocUpdated, OneEvent
  <2> QED BY <1>1, <2>1, <2>3 DEF RecordStep
<1>8. IsDoc(Doc) /\ Doc.status = "RUNNING"
  BY <1>1, SizeIsNat DEF RecordInv, InDocument, IsRun, Doc
<1>9. CASE EndRead
  <2>1. CASE KeepsRun
    <3>1. Going
      BY <1>4, <1>5, <1>9, <2>1 DEF EndRead, InDocument
    <3> QED BY <1>3, <2>1, <3>1
  <2>2. CASE ~KeepsRun
    <3>1. /\ Goes("ready")
          /\ \E event : SavesDoc([Doc EXCEPT !.original = TRUE], <<event>>)
      BY <1>9, <2>2 DEF EndRead
    <3>2. PICK doc : doc = [Doc EXCEPT !.original = TRUE]
      OBVIOUS
    <3>4. IsDoc(doc) /\ doc.status = "RUNNING"
      BY <1>8, <3>2 DEF IsDoc
    <3>3. Going
      BY <1>5, <3>1 DEF InDocument
    <3> HIDE DEF Going
    <3> QED BY <1>7, <3>1, <3>2, <3>3, <3>4
  <2> QED BY <2>1, <2>2
<1>10. ASSUME NEW doc, IsDoc(doc), NEW event, SavesDoc(doc, <<event>>), Goes("next")
       PROVE  RecordStep
  <2>1. IsExec(exec') /\ exec'.at = "next" /\ exec'.n = exec.n
    BY <1>1, <1>10 DEF Goes, IsExec
  <2>2. Notes(WithDoc(exec.n, doc))
    BY <1>10, OneEvent
  <2> QED BY <1>1, <1>10, <2>1, <2>2 DEF RecordStep
<1>11. CASE StartWorker
  <2>1. CASE ~exec.extract
    <3>1. Goes("next") /\ \E event : SavesDoc([Doc EXCEPT !.status = "SKIPPED"], <<event>>)
      BY <1>11, <2>1 DEF StartWorker
    <3>2. IsDoc([Doc EXCEPT !.status = "SKIPPED"])
      BY <1>8 DEF IsDoc
    <3> QED BY <1>10, <3>1, <3>2
  <2>2. CASE exec.extract
    <3>1. KeepsRun /\ (\/ Gives("RUN_TIMEOUT") \/ Gives("ATTACHMENT_UNAVAILABLE")
                       \/ Goes("calling"))
      BY <1>11, <2>2 DEF StartWorker
    <3>2. Going
      BY <1>4, <1>5, <3>1 DEF InDocument
    <3> QED BY <1>3, <3>1, <3>2
  <2> QED BY <2>1, <2>2
<1>12. CASE CallReturns
  <2>1. KeepsRun /\ (\/ Goes("failing") \/ Gives(CallError(call))
                     \/ exec' = [exec EXCEPT !.at = "called", !.result = FirstReading[Input]])
    BY <1>12 DEF CallReturns
  <2>2. Going
    BY <1>1, <1>4, <1>5, <2>1 DEF InDocument, IsExec
  <2> QED BY <1>3, <2>1, <2>2
<1>13. CASE Consult
  <2>1. Keeping /\ (\/ Goes("ended") \/ Gives("AI_TIMEOUT") \/ Goes("asking")
                    \/ exec' = [exec EXCEPT !.at = "ended", !.result = InputTooLarge(@)])
    BY <1>13 DEF Consult
  <2>2. Going
    BY <1>1, <1>4, <1>5, <2>1 DEF InDocument, IsExec
  <2> QED BY <1>3, <2>1, <2>2
<1>14. CASE TextAnswered \/ VisionAnswered \/ AIFails
  <2>1. \/ \E result, stage : Answered(result, stage)
        \/ \E failure, stage : Unanswered(failure, stage)
    BY <1>14 DEF TextAnswered, VisionAnswered, AIFails
  <2>2. Keeping
    BY <2>1 DEF Answered, Unanswered
  <2>3. Going
    BY <1>1, <1>4, <2>1 DEF Answered, Unanswered, InDocument, IsExec
  <2> QED BY <1>3, <2>2, <2>3
<1>15. CASE EndDocument
  <2>1. Goes("next") /\ \E status, event :
          SavesDoc([Doc EXCEPT !.status = status, !.result = exec.result, !.error = exec.error],
                   <<event>>)
    BY <1>15 DEF EndDocument
  <2>2. PICK status, event, doc :
          /\ doc = [Doc EXCEPT !.status = status, !.result = exec.result, !.error = exec.error]
          /\ SavesDoc(doc, <<event>>)
    BY <2>1
  <2>3. IsDoc(doc)
    BY <1>8, <2>2 DEF IsDoc
  <2> QED BY <1>10, <2>1, <2>2, <2>3
<1> QED BY <1>6, <1>9, <1>11, <1>12, <1>13, <1>14, <1>15

LEMMA IsRunEquals ==
  ASSUME NEW size, NEW status, NEW issues, NEW docs, NEW analysis, NEW run,
         run = [status |-> status, docs |-> docs, issues |-> issues, analysis |-> analysis],
         docs = [i \in 1..size |-> docs[i]], \A i \in 1..size : IsDoc(docs[i])
  PROVE  IsRun(run, size)
PROOF BY DEF IsRun

LEMMA DocsGivenUp ==
  ASSUME NEW size \in Nat, IsRun(saved, size), NEW status, NEW code
  PROVE  /\ IsRun(GivenUp(saved, status, code), size)
         /\ \A i \in 1..size : saved.docs[i].status \in DocOutcome =>
              GivenUp(saved, status, code).docs[i] = saved.docs[i]
         /\ \A i \in 1..size :
              /\ GivenUp(saved, status, code).docs[i].result = saved.docs[i].result
              /\ GivenUp(saved, status, code).docs[i].original = saved.docs[i].original
PROOF
<1>1. DOMAIN saved.docs = 1..size
  BY DEF IsRun
<1>2. PICK docs :
        docs = [i \in DOMAIN saved.docs |->
                  IF saved.docs[i].status \in {"PENDING", "RUNNING"}
                  THEN [saved.docs[i] EXCEPT !.status = status, !.error = code]
                  ELSE saved.docs[i]]
  OBVIOUS
<1>3. GivenUp(saved, status, code) =
        [saved EXCEPT !.status = status, !.issues = saved.issues \cup {code}, !.docs = docs]
  BY <1>2 DEF GivenUp
<1>4. GivenUp(saved, status, code) =
        [status |-> status, docs |-> docs, issues |-> saved.issues \cup {code},
         analysis |-> saved.analysis]
  BY <1>3 DEF IsRun
<1>5. docs = [i \in 1..size |-> docs[i]]
  BY <1>1, <1>2
<1>6. \A i \in 1..size : IsDoc(docs[i])
  BY <1>1, <1>2 DEF IsDoc, IsRun
<1>7. IsRun(GivenUp(saved, status, code), size)
  BY <1>4, <1>5, <1>6, IsRunEquals
<1>8. \A i \in 1..size : saved.docs[i].status \in DocOutcome => docs[i] = saved.docs[i]
  BY <1>1, <1>2 DEF DocOutcome
<1>9. ASSUME NEW i \in 1..size
      PROVE  docs[i].result = saved.docs[i].result /\ docs[i].original = saved.docs[i].original
  <2>1. IsDoc(saved.docs[i])
    BY DEF IsRun
  <2>2. docs[i] = [saved.docs[i] EXCEPT !.status = status, !.error = code]
          \/ docs[i] = saved.docs[i]
    BY <1>1, <1>2
  <2> QED BY <2>1, <2>2 DEF IsDoc
<1> QED BY <1>4, <1>7, <1>8, <1>9

LEMMA RunSteps ==
  ASSUME RecordInv,
         Prepare \/ Conclude \/ Analyze \/ FinishRun \/ FailRun \/ CheckRecording \/ SaveFails
           \/ FailRunFails \/ Restart \/ Down
  PROVE  RecordStep
PROOF
<1>1. IsExec(exec) /\ Size \in Nat /\ exec.n \in 0..Size
  BY SizeIsNat DEF RecordInv
<1>2. CASE Prepare
  <2>1. exec.at = "prepare" /\ Continues(saved)
    BY <1>2, RecordStays DEF Prepare, At
  <2>2. Moves
    BY <1>1, <1>2, <2>1 DEF Prepare, Goes, Fails, Moves, Working, InDocument, IsExec
  <2>3. KeepsRun \/ Notes(saved)
    BY <1>2, OneEvent DEF Prepare
  <2> QED BY <2>1, <2>2, <2>3 DEF RecordStep, KeepsRun
<1>3. CASE Conclude
  <2>1. exec.at = "concluding" /\ Continues(saved) /\ IsRun(saved, Size)
    BY <1>3, RecordStays DEF Conclude, At, RecordInv
  <2>2. Moves
    BY <1>1, <1>3, <2>1 DEF Conclude, Moves, Working, InDocument, IsExec
  <2>3. CASE KeepsRun
    BY <2>2, <2>3 DEF RecordStep, KeepsRun
  <2>4. CASE ~KeepsRun
    <3>1. PICK run : run = [saved EXCEPT !.issues = {"NO_ATTACHMENTS"}] /\ Notes(run)
      BY <1>3, <2>4 DEF Conclude, Notes
    <3>2. run.docs = saved.docs /\ IsRun(run, Size)
      BY <2>1, <3>1 DEF IsRun
    <3>3. Continues(run)
      BY <3>2 DEF Continues
    <3> QED BY <2>1, <2>2, <3>1, <3>3 DEF RecordStep
  <2> QED BY <2>3, <2>4
<1>4. CASE Analyze
  <2>1. exec.at = "analyzing" /\ IsRun(saved, Size)
    BY <1>4 DEF Analyze, At, RecordInv
  <2>2. Moves
    BY <1>1, <1>4, <2>1 DEF Analyze, Goes, Fails, Moves, Working, InDocument, IsExec
  <2>3. CASE KeepsRun
    BY <2>2, <2>3 DEF RecordStep, KeepsRun
  <2>4. CASE ~KeepsRun
    <3>1. PICK analysis, run : run = [saved EXCEPT !.analysis = analysis] /\ Notes(run)
      BY <1>4, <2>4 DEF Analyze, Notes
    <3>2. run.docs = saved.docs /\ IsRun(run, Size)
      BY <2>1, <3>1 DEF IsRun
    <3>3. Continues(run)
      BY <3>2 DEF Continues
    <3> QED BY <2>1, <2>2, <3>1, <3>3 DEF RecordStep
  <2> QED BY <2>3, <2>4
<1>5. CASE FinishRun
  <2>1. exec.at = "finishing" /\ IsRun(saved, Size)
    BY <1>5 DEF FinishRun, At, RecordInv
  <2>2. Finishes
    BY <1>1, <1>5, <2>1 DEF FinishRun, Goes, Finishes, IsExec
  <2>3. PICK run : Notes(run) /\ (\/ run = Interrupted(saved)
                                  \/ run = [saved EXCEPT !.status = exec.outcome])
    BY <1>5 DEF FinishRun, Notes
  <2>4. ASSUME run = Interrupted(saved) PROVE Continues(run)
    BY <1>1, <2>1, <2>2, <2>4, DocsGivenUp DEF Interrupted, FailedRun, Continues, Finishes, Working, InDocument
  <2>5. ASSUME run = [saved EXCEPT !.status = exec.outcome] PROVE Continues(run)
    <3>1. run.docs = saved.docs /\ IsRun(run, Size)
      BY <2>1, <2>5 DEF IsRun
    <3> QED BY <3>1 DEF Continues
  <2>6. Continues(run)
    BY <2>3, <2>4, <2>5
  <2> QED BY <2>1, <2>2, <2>3, <2>6 DEF RecordStep
<1>6. CASE FailRun \/ CheckRecording
  <2>1. exec.at \in {"failing", "unrecorded"} /\ IsRun(saved, Size)
    BY <1>6 DEF FailRun, CheckRecording, At, RecordInv
  <2>2. Finishes
    BY <1>1, <1>6, <2>1 DEF FailRun, CheckRecording, Goes, Finishes, IsExec
  <2>3. PICK code : Notes(FailedRun(saved, code))
    BY <1>6 DEF FailRun, CheckRecording, Notes
  <2>4. Continues(FailedRun(saved, code))
    BY <1>1, <2>1, <2>2, DocsGivenUp DEF Interrupted, FailedRun, Continues, Finishes, Working, InDocument
  <2> QED BY <2>1, <2>2, <2>3, <2>4 DEF RecordStep
<1>7. CASE SaveFails \/ FailRunFails
  <2>1. Moves
    BY <1>1, <1>7 DEF SaveFails, Saving, FailRunFails, At, Fails, Moves, Working, InDocument, IsExec
  <2> QED BY <1>7, <2>1 DEF SaveFails, FailRunFails, KeepsRun, RecordStep
<1>8. CASE Restart
  <2>1. exec.at = "over" /\ exec' = exec /\ IsRun(saved, Size)
    BY <1>8 DEF Restart, RecordInv
  <2>2. Finishes
    BY <1>1, <2>1 DEF Finishes
  <2>3. KeepsRun \/ Notes(Interrupted(saved))
    BY <1>8 DEF Restart, Notes
  <2>4. Continues(Interrupted(saved))
    BY <1>1, <2>1, DocsGivenUp DEF Interrupted, FailedRun, Continues, Working, InDocument
  <2> QED BY <2>1, <2>2, <2>3, <2>4 DEF RecordStep, KeepsRun
<1>9. CASE Down
  <2>1. exec.at # "idle"
    BY <1>9 DEF Down, Recorded, RecordInv
  <2>2. exec' = [at |-> "over", n |-> 0, extract |-> TRUE, result |-> NoResult, error |-> "",
                 outcome |-> ""]
    BY <1>9 DEF Down, Idle
  <2>3. IsExec(exec') /\ exec'.at = "over" /\ exec'.n = 0
    BY <2>2 DEF IsExec
  <2>4. Finishes
    BY <1>1, <2>1, <2>3 DEF Finishes
  <2> QED BY <1>9, <2>4 DEF Down, RecordStep
<1> QED BY <1>2, <1>3, <1>4, <1>5, <1>6, <1>7, <1>8, <1>9

LEMMA CallSteps ==
  ASSUME RecordInv,
         Consumer \/ ObserveFails \/ ReaderThread \/ TimerThread \/ WorkerProcess \/ WorkerFails
  PROVE  RecordStep
PROOF
<1>1. IsExec(exec)
  BY DEF RecordInv
<1>2. CASE Observe
  <2>1. exec.at = "calling" /\ exec.at \in InDocument
    BY <1>2 DEF Observe, At, InDocument
  <2>2. IsDoc(Doc) /\ Doc.status = "RUNNING" /\ Continues(saved)
    BY <2>1, SizeIsNat, RecordStays DEF RecordInv, IsRun, Doc
  <2> DEFINE event == Told[Input][Head(call.queue).at]
             doc == Observed(event, Doc)
  <2>3. IsDoc(doc) /\ doc.status = "RUNNING"
    BY <2>2 DEF Observed, IsDoc
  <2>4. \/ UNCHANGED exec /\ \E note : SavesDoc(doc, <<note>>)
        \/ exec' = [exec EXCEPT !.error = "PROCESSING_FAILED"] /\ KeepsRun
    BY <1>2 DEF Observe
  <2> HIDE DEF doc
  <2>5. CASE UNCHANGED exec /\ \E note : SavesDoc(doc, <<note>>)
    <3>1. PICK run : run = WithDoc(exec.n, doc)
      OBVIOUS
    <3>2. Notes(run)
      BY <2>5, <3>1, OneEvent
    <3>3. Continues(run)
      BY <2>1, <2>3, <3>1, DocUpdated
    <3>4. Moves
      BY <1>1, <2>5 DEF Moves
    <3> QED BY <2>1, <3>2, <3>3, <3>4 DEF RecordStep
  <2>6. CASE exec' = [exec EXCEPT !.error = "PROCESSING_FAILED"] /\ KeepsRun
    <3>1. Moves
      BY <1>1, <2>6 DEF Moves, IsExec
    <3> QED BY <2>6, <3>1 DEF RecordStep, KeepsRun
  <2> QED BY <2>4, <2>5, <2>6
<1>3. CASE ObserveFails
  <2>1. Moves
    BY <1>1, <1>3 DEF ObserveFails, Moves, IsExec
  <2> QED BY <1>3, <2>1 DEF ObserveFails, RecordStep, KeepsRun
<1>4. CASE ConsumerStep \/ ReaderThread \/ TimerThread \/ WorkerProcess \/ WorkerFails
  <2>1. UNCHANGED exec /\ KeepsRun
    BY <1>4 DEF ConsumerStep, ReaderThread, TimerThread, WorkerProcess, WorkerFails
  <2>2. Moves
    BY <1>1, <2>1 DEF Moves
  <2> QED BY <2>1, <2>2 DEF RecordStep, KeepsRun
<1> QED BY <1>2, <1>3, <1>4 DEF Consumer

LEMMA RecordSteps == RecordInv /\ [Next]_vars => RecordStep
PROOF
<1> SUFFICES ASSUME RecordInv, [Next]_vars PROVE RecordStep
  OBVIOUS
<1>1. CASE AcceptRun \/ StoreUpload \/ NextDocument
  BY <1>1 DEF RecordStep
<1>2. CASE Receive \/ Poll \/ RunDeadline \/ Stop \/ UNCHANGED vars
  <2>1. UNCHANGED <<exec, saved, trail>>
    BY <1>2 DEF Receive, Poll, RunDeadline, Stop, vars
  <2>2. Moves
    BY <2>1 DEF RecordInv, Moves
  <2> QED BY <2>1, <2>2 DEF RecordStep
<1> QED BY <1>1, <1>2, ExtractionSteps, RunSteps, CallSteps DEF Next, Executor

\* What a step does to the backend and its job.
BackendStep ==
  /\ IsEnv(env') /\ env'.job = env.job
  /\ env'.up = env.up \/ env'.up \/ exec'.at = "over"
  /\ env.up \/ UNCHANGED exec

LEMMA BackendSteps == RecordInv /\ [Next]_vars => BackendStep
PROOF
<1> SUFFICES ASSUME RecordInv, [Next]_vars PROVE BackendStep
  OBVIOUS
<1>1. IsEnv(env)
  BY DEF RecordInv
<1>2. CASE Executor \/ CheckRecording \/ FailRunFails \/ AcceptRun \/ Receive
  BY <1>1, <1>2 DEF Executor, StoreUpload, Prepare, NextDocument, BeginRead, EndRead,
         StartWorker, CallReturns, Consult, TextAnswered, VisionAnswered, AIFails, EndDocument,
         Conclude, Analyze, FinishRun, FailRun, CheckRecording, FailRunFails, AcceptRun, Receive,
         Stays, At, BackendStep
<1>3. CASE Consumer \/ ReaderThread \/ TimerThread \/ WorkerProcess \/ Poll \/ UNCHANGED vars
  BY <1>1, <1>3 DEF Consumer, Observe, ConsumerStep, ReaderThread, TimerThread, WorkerProcess,
         Poll, Stays, At, vars, BackendStep
<1>4. CASE ObserveFails \/ WorkerFails \/ SaveFails
  <2>1. Mishap /\ (env.up \/ UNCHANGED exec)
    BY <1>4 DEF ObserveFails, WorkerFails, SaveFails, MishapStays, At
  <2>2. IsEnv(env') /\ env'.job = env.job /\ env'.up = env.up
    BY <1>1, <2>1 DEF Mishap, IsEnv
  <2> QED BY <2>1, <2>2 DEF BackendStep
<1>5. CASE RunDeadline \/ Stop
  <2>1. env.up /\ IsEnv(env') /\ env'.job = env.job /\ env'.up = env.up
    BY <1>1, <1>5 DEF RunDeadline, Stop, IsEnv
  <2> QED BY <2>1 DEF BackendStep
<1>6. CASE Restart
  <2>1. UNCHANGED exec /\ IsEnv(env') /\ env'.job = env.job /\ env'.up
    BY <1>1, <1>6 DEF Restart, IsEnv
  <2> QED BY <2>1 DEF BackendStep
<1>7. CASE Down
  <2>1. env.up /\ IsEnv(env') /\ env'.job = env.job /\ exec'.at = "over"
    BY <1>1, <1>7 DEF Down, IsEnv, Idle
  <2> QED BY <2>1 DEF BackendStep
<1> QED BY <1>2, <1>3, <1>4, <1>5, <1>6, <1>7 DEF Next

LEMMA RecordStart == Init => RecordInv
PROOF
<1> SUFFICES ASSUME Init PROVE RecordInv
  OBVIOUS
<1>1. exec = [at |-> "idle", n |-> 0, extract |-> TRUE, result |-> NoResult, error |-> "",
              outcome |-> ""]
  BY DEF Init, Idle
<1>2. IsExec(exec) /\ exec.at = "idle" /\ exec.n = 0
  BY <1>1 DEF IsExec
<1>3. PICK job \in Jobs : env = [job |-> job, up |-> TRUE, stopping |-> FALSE, late |-> FALSE,
                                left |-> Mishaps[job]]
  BY DEF Init
<1>4. IsEnv(env) /\ env.job \in Jobs /\ env.up
  BY <1>3 DEF IsEnv
<1>5. Size \in Nat
  BY <1>4, JobsHaveInputs DEF Size, Job
<1> QED BY <1>2, <1>4, <1>5 DEF Init, RecordInv, Working, InDocument

LEMMA AcceptStep ==
  ASSUME RecordInv, AcceptRun
  PROVE  /\ IsExec(exec') /\ exec'.n \in 0..Size /\ IsRun(saved', Size)
         /\ \A i \in 1..Size : saved'.docs[i].status = "PENDING"
         /\ \/ exec'.at = "prepare" /\ exec'.n = 0
            \/ exec'.at = "storing" /\ exec'.n = 1 /\ Size = 1
PROOF
<1>1. IsExec(exec) /\ exec.at = "idle" /\ exec.n = 0
  BY DEF RecordInv, AcceptRun, At
<1>2. Size \in Nat /\ DOMAIN Job.inputs = 1..Size /\ (Job.kind = "upload" => Size = 1)
  BY JobsHaveInputs DEF RecordInv, Size, Job
<1>3. saved' = [status |-> "RUNNING", docs |-> [i \in 1..Size |-> NewDoc], issues |-> {},
                analysis |-> NoAnalysis]
  BY <1>2 DEF AcceptRun, Create, NewRun
<1>4. IsDoc(NewDoc) /\ NewDoc.status = "PENDING"
  BY DEF NewDoc, IsDoc
<1>5. IsRun(saved', Size) /\ \A i \in 1..Size : saved'.docs[i].status = "PENDING"
  BY <1>3, <1>4 DEF IsRun
<1>6. CASE Job.kind = "upload"
  <2>1. exec' = [exec EXCEPT !.at = "storing", !.n = 1]
    BY <1>6 DEF AcceptRun
  <2>2. IsExec(exec') /\ exec'.at = "storing" /\ exec'.n = 1
    BY <1>1, <2>1 DEF IsExec
  <2> QED BY <1>2, <1>5, <1>6, <2>2
<1>7. CASE Job.kind # "upload"
  <2>1. exec' = [exec EXCEPT !.at = "prepare"]
    BY <1>7 DEF AcceptRun
  <2> QED BY <1>1, <1>2, <1>5, <2>1 DEF IsExec
<1> QED BY <1>6, <1>7

LEMMA StoreStep ==
  ASSUME RecordInv, StoreUpload
  PROVE  /\ IsExec(exec') /\ exec.at = "storing"
         /\ \/ UNCHANGED exec /\ Notes(saved)
            \/ /\ exec'.at = "prepare" /\ exec'.n = 0
               /\ \E doc : IsDoc(doc) /\ doc.status = "PENDING" /\ Notes(WithDoc(1, doc))
PROOF
<1>1. IsExec(exec) /\ exec.at = "storing" /\ exec.n = 1 /\ Size = 1
  BY DEF RecordInv, StoreUpload, At
<1>2. IsDoc(Doc) /\ Doc.status = "PENDING"
  BY <1>1 DEF RecordInv, IsRun, Doc
<1>3. CASE trail[Len(trail)].stage = "run"
  BY <1>1, <1>3, OneEvent DEF StoreUpload
<1>4. CASE trail[Len(trail)].stage # "run"
  <2>1. PICK doc, event : doc = [Doc EXCEPT !.original = TRUE] /\ SavesDoc(doc, <<event>>)
    BY <1>4 DEF StoreUpload
  <2>2. IsDoc(doc) /\ doc.status = "PENDING"
    BY <1>2, <2>1 DEF IsDoc
  <2>3. Notes(WithDoc(1, doc))
    BY <1>1, <2>1, OneEvent
  <2>4. exec' = [exec EXCEPT !.at = "prepare", !.n = 0]
    BY <1>4 DEF StoreUpload
  <2> QED BY <1>1, <2>2, <2>3, <2>4 DEF IsExec
<1> QED BY <1>3, <1>4

LEMMA NextStep ==
  ASSUME RecordInv, NextDocument
  PROVE  /\ IsExec(exec') /\ exec.at = "next"
         /\ \/ UNCHANGED <<saved, trail>> /\ exec'.at = "concluding" /\ exec'.n = exec.n
            \/ /\ exec'.at = "started" /\ exec'.n = exec.n + 1 /\ exec'.n \in 1..Size
               /\ \E doc : IsDoc(doc) /\ doc.status = "RUNNING" /\ Notes(WithDoc(exec.n + 1, doc))
PROOF
<1>1. /\ IsExec(exec) /\ exec.at = "next" /\ exec.n \in 0..Size /\ Size \in Nat
      /\ IsRun(saved, Size)
  BY SizeIsNat DEF RecordInv, NextDocument, At
<1>2. CASE env.stopping \/ exec.n = Len(Job.inputs)
  BY <1>1, <1>2 DEF NextDocument, Goes, KeepsRun, IsExec
<1>3. CASE ~(env.stopping \/ exec.n = Len(Job.inputs))
  <2>1. /\ exec' = [exec EXCEPT !.at = "started", !.n = exec.n + 1, !.error = "",
                                !.result = NoResult]
        /\ \E event : Save([saved EXCEPT !.docs[exec.n + 1].status = "RUNNING"], <<event>>)
    BY <1>3 DEF NextDocument
  <2>2. exec.n + 1 \in 1..Size
    BY <1>1, <1>3 DEF Size
  <2>3. PICK doc : doc = [saved.docs[exec.n + 1] EXCEPT !.status = "RUNNING"]
    OBVIOUS
  <2>4. IsDoc(doc) /\ doc.status = "RUNNING"
    <3>1. IsDoc(saved.docs[exec.n + 1])
      BY <1>1, <2>2 DEF IsRun
    <3> QED BY <2>3, <3>1 DEF IsDoc
  <2>5. [saved EXCEPT !.docs[exec.n + 1].status = "RUNNING"] = WithDoc(exec.n + 1, doc)
    BY <2>3 DEF WithDoc
  <2>6. Notes(WithDoc(exec.n + 1, doc))
    BY <2>1, <2>5 DEF Notes
  <2> QED BY <1>1, <2>1, <2>2, <2>4, <2>6 DEF IsExec
<1> QED BY <1>2, <1>3

LEMMA RecordNext == RecordInv /\ [Next]_vars => RecordInv'
PROOF
<1> SUFFICES ASSUME RecordInv, [Next]_vars PROVE RecordInv'
  OBVIOUS
<1>1. RecordStep
  BY RecordSteps
<1>2. /\ IsEnv(env') /\ env'.job = env.job /\ Size' = Size /\ Size \in Nat /\ env'.job \in Jobs
      /\ ~env'.up => exec'.at = "over"
  BY BackendSteps, SizeIsNat DEF BackendStep, Size, Job, RecordInv
<1> DEFINE DocKept == \/ UNCHANGED saved
                   \/ \E run : Notes(run) /\ Continues(run)
<1>3. ASSUME Finishes, DocKept PROVE RecordInv'
  <2>1. IsRun(saved', Size)
    BY <1>3 DEF RecordInv, Finishes, Notes, Save, Continues
  <2> QED BY <1>2, <1>3, <2>1 DEF RecordInv, Finishes, Working, InDocument
<1>4. ASSUME Moves, DocKept, exec.at = "idle" => UNCHANGED saved PROVE RecordInv'
  <2>1. exec.at # "idle" => IsRun(saved', Size)
    BY <1>4 DEF RecordInv, Notes, Save, Continues
  <2>2. exec'.at \in Working =>
          \A i \in 1..Size : saved'.docs[i].status = saved.docs[i].status
    BY <1>4 DEF Notes, Save, Continues
  <2>3. exec.at = "over" => exec'.at \notin Working /\ exec'.at # "idle"
    BY <1>4 DEF Moves, Working, InDocument
  <2>4. exec'.at \in InDocument \cup {"storing"} => exec'.at \in Working
    BY DEF Working
  <2>5. exec.n \in 0..Size /\ exec'.n = exec.n
    BY <1>4 DEF RecordInv, Moves
  <2> QED BY <1>2, <1>4, <2>1, <2>2, <2>3, <2>4, <2>5 DEF RecordInv, Moves
<1>5. CASE AcceptRun
  BY <1>2, <1>5, AcceptStep DEF RecordInv, Working, InDocument
<1>6. CASE StoreUpload
  <2>1. CASE UNCHANGED exec /\ Notes(saved)
    BY <1>2, <1>6, <2>1, StoreStep DEF RecordInv, Notes, Save
  <2>2. CASE ~(UNCHANGED exec /\ Notes(saved))
    <3>1. PICK doc : IsDoc(doc) /\ doc.status = "PENDING" /\ Notes(WithDoc(1, doc))
      BY <1>6, <2>2, StoreStep
    <3>2. IsExec(exec') /\ exec'.at = "prepare" /\ exec'.n = 0 /\ exec.at = "storing"
      BY <1>6, <2>2, StoreStep
    <3>3. Size = 1 /\ IsRun(saved, Size)
      BY <3>2 DEF RecordInv
    <3>4. PICK run : run = WithDoc(1, doc)
      OBVIOUS
    <3>5. saved' = run /\ IsRun(run, Size) /\ run.docs[1] = doc
      BY <3>1, <3>3, <3>4, DocReplaced DEF Notes, Save
    <3>6. \A i \in 1..Size : saved'.docs[i].status = "PENDING"
      BY <3>1, <3>3, <3>5
    <3> QED BY <1>2, <3>2, <3>3, <3>5, <3>6 DEF RecordInv, Working, InDocument
  <2> QED BY <2>1, <2>2
<1>7. CASE NextDocument
  <2>1. IsExec(exec') /\ exec.at = "next" /\ IsRun(saved, Size) /\ exec.n \in 0..Size
    BY <1>7, NextStep DEF RecordInv
  <2>2. CASE UNCHANGED <<saved, trail>> /\ exec'.at = "concluding" /\ exec'.n = exec.n
    BY <1>2, <2>1, <2>2 DEF RecordInv, Working, InDocument
  <2>3. CASE ~(UNCHANGED <<saved, trail>> /\ exec'.at = "concluding" /\ exec'.n = exec.n)
    <3>1. PICK doc : IsDoc(doc) /\ doc.status = "RUNNING" /\ Notes(WithDoc(exec.n + 1, doc))
      BY <1>7, <2>3, NextStep
    <3>2. exec'.at = "started" /\ exec'.n = exec.n + 1 /\ exec'.n \in 1..Size
      BY <1>7, <2>3, NextStep
    <3>3. PICK run : run = WithDoc(exec.n + 1, doc)
      OBVIOUS
    <3>4. /\ saved' = run /\ IsRun(run, Size) /\ run.docs[exec'.n] = doc
          /\ \A i \in 1..Size : i # exec'.n => run.docs[i] = saved.docs[i]
      BY <1>2, <2>1, <3>1, <3>2, <3>3, DocReplaced DEF Notes, Save
    <3>5. \A i \in 1..Size : i > exec'.n => saved'.docs[i].status = "PENDING"
      BY <1>2, <2>1, <3>2, <3>4 DEF RecordInv, Working
    <3> QED BY <1>2, <2>1, <3>1, <3>2, <3>4, <3>5 DEF RecordInv, InDocument
  <2> QED BY <2>2, <2>3
<1>8. CASE /\ exec.at \in InDocument /\ IsExec(exec') /\ exec'.at = "next" /\ exec'.n = exec.n
           /\ \E doc : IsDoc(doc) /\ Notes(WithDoc(exec.n, doc))
  <2>1. PICK doc : IsDoc(doc) /\ Notes(WithDoc(exec.n, doc))
    BY <1>8
  <2>2. PICK run : run = WithDoc(exec.n, doc)
    OBVIOUS
  <2>3. exec.n \in 1..Size /\ IsRun(saved, Size)
    BY <1>8, SizeIsNat DEF RecordInv, InDocument
  <2>4. /\ saved' = run /\ IsRun(run, Size)
        /\ \A i \in 1..Size : i # exec.n => run.docs[i] = saved.docs[i]
    BY <1>2, <2>1, <2>2, <2>3, DocReplaced DEF Notes, Save
  <2>5. \A i \in 1..Size : i > exec'.n => saved'.docs[i].status = "PENDING"
    BY <1>2, <1>8, <2>3, <2>4 DEF RecordInv, Working
  <2> QED BY <1>2, <1>8, <2>3, <2>4, <2>5 DEF RecordInv, InDocument
<1>9. CASE UNCHANGED <<saved, trail>> /\ (Moves \/ Finishes)
  BY <1>3, <1>4, <1>9
<1>10. CASE exec.at # "idle" /\ \E run : Notes(run) /\ Continues(run) /\ (Moves \/ Finishes)
  <2> HIDE DEF DocKept
  <2>1. DocKept
    BY <1>10 DEF DocKept
  <2> QED BY <1>3, <1>4, <1>10, <2>1
<1> QED BY <1>1, <1>5, <1>6, <1>7, <1>8, <1>9, <1>10 DEF RecordStep

LEMMA RecordInvariance == Spec => []RecordInv
PROOF BY RecordStart, RecordNext, PTL DEF Spec
-----------------------------------------------------------------------------
\* One event more at the end of a sequence.
LEMMA TrailGrows ==
  ASSUME NEW S, NEW t \in Seq(S), NEW event
  PROVE  /\ t \o <<event>> \in Seq(S \cup {event})
         /\ Len(t \o <<event>>) = Len(t) + 1
         /\ SubSeq(t \o <<event>>, 1, Len(t)) = t
PROOF
<1>1. t \in Seq(S \cup {event}) /\ <<event>> \in Seq(S \cup {event})
  OBVIOUS
<1>2. Len(<<event>>) = 1 /\ Len(t) \in Nat
  OBVIOUS
<1>3. t \o <<event>> \in Seq(S \cup {event}) /\ Len(t \o <<event>>) = Len(t) + 1
  BY <1>1, <1>2
<1>4. SubSeq(t \o <<event>>, 1, Len(t)) = t
  BY <1>1, <1>2, <1>3
<1> QED BY <1>3, <1>4

TrailInv == \E S : trail \in Seq(S)

Final ==
  /\ \A i \in 1..Size :
       saved.docs[i].status \in DocOutcome => saved'.docs[i] = saved.docs[i]
  /\ \/ UNCHANGED <<saved, trail>>
     \/ Running /\ \E event : trail' = trail \o <<event>>

LEMMA FinalSteps ==
  ASSUME RecordInv, [Next]_vars
  PROVE  \/ exec.at = "idle" /\ exec'.at # "idle" /\ \E event : trail' = <<event>>
         \/ exec.at # "idle" /\ Final
         \/ UNCHANGED <<saved, trail>> /\ exec'.at = exec.at
PROOF
<1>1. RecordStep
  BY RecordSteps
<1>2. \A run : Notes(run) => Running /\ \E event : trail' = trail \o <<event>>
  BY DEF Notes, Save
<1>3. \A run : Notes(run) => saved' = run
  BY DEF Notes, Save
<1>4. CASE AcceptRun
  BY <1>4, AcceptStep DEF AcceptRun, At, Create
<1>5. CASE UNCHANGED <<saved, trail>> /\ (Moves \/ Finishes)
  BY <1>5 DEF Moves, Finishes, Final
<1>6. CASE exec.at # "idle" /\ \E run : Notes(run) /\ Continues(run)
  BY <1>2, <1>3, <1>6 DEF Final, Continues
<1>7. ASSUME NEW n \in 1..Size, NEW doc, IsDoc(doc), Notes(WithDoc(n, doc)), exec.at # "idle",
             saved.docs[n].status \in {"PENDING", "RUNNING"}
      PROVE  Final
  <2>1. PICK run : run = WithDoc(n, doc)
    OBVIOUS
  <2>2. Size \in Nat /\ IsRun(saved, Size)
    BY <1>7, SizeIsNat DEF RecordInv
  <2>3. saved' = run /\ \A i \in 1..Size : i # n => run.docs[i] = saved.docs[i]
    BY <1>3, <1>7, <2>1, <2>2, DocReplaced
  <2>4. \A i \in 1..Size : saved.docs[i].status \in DocOutcome => saved'.docs[i] = saved.docs[i]
    BY <1>7, <2>3 DEF DocOutcome
  <2> QED BY <1>2, <1>7, <2>4 DEF Final
<1>8. CASE StoreUpload
  <2>1. exec.at = "storing" /\ Size = 1 /\ saved.docs[1].status = "PENDING"
    BY <1>8, StoreStep DEF RecordInv
  <2>2. CASE Notes(saved)
    BY <1>2, <1>3, <2>1, <2>2 DEF Final
  <2>3. CASE \E doc : IsDoc(doc) /\ Notes(WithDoc(1, doc))
    BY <1>7, <2>1, <2>3
  <2> QED BY <1>8, <2>2, <2>3, StoreStep
<1>9. CASE NextDocument
  <2>1. exec.at = "next" /\ exec.n \in 0..Size /\ Size \in Nat
    BY <1>9, NextStep, SizeIsNat DEF RecordInv
  <2>2. CASE UNCHANGED <<saved, trail>>
    BY <2>1, <2>2 DEF Final
  <2>3. CASE ~UNCHANGED <<saved, trail>>
    <3>1. exec.n + 1 \in 1..Size /\ \E doc : IsDoc(doc) /\ Notes(WithDoc(exec.n + 1, doc))
      BY <1>9, <2>3, NextStep
    <3>2. saved.docs[exec.n + 1].status = "PENDING"
      BY <2>1, <3>1 DEF RecordInv, Working
    <3> QED BY <1>7, <2>1, <3>1, <3>2
  <2> QED BY <2>2, <2>3
<1>10. CASE exec.at \in InDocument /\ \E doc : IsDoc(doc) /\ Notes(WithDoc(exec.n, doc))
  <2>1. exec.n \in 1..Size /\ exec.at # "idle" /\ saved.docs[exec.n].status = "RUNNING"
    BY <1>10, SizeIsNat DEF RecordInv, InDocument
  <2> QED BY <1>7, <1>10, <2>1
<1> QED BY <1>1, <1>4, <1>5, <1>6, <1>8, <1>9, <1>10 DEF RecordStep

LEMMA TrailNext == RecordInv /\ TrailInv /\ [Next]_vars => TrailInv'
PROOF
<1> SUFFICES ASSUME RecordInv, TrailInv, [Next]_vars PROVE TrailInv'
  OBVIOUS
<1>1. CASE UNCHANGED trail
  BY <1>1 DEF TrailInv
<1>2. CASE \E event : trail' = <<event>>
  <2>1. PICK event : trail' = <<event>>
    BY <1>2
  <2>2. trail' \in Seq({event})
    BY <2>1
  <2> QED BY <2>2 DEF TrailInv
<1>3. CASE \E event : trail' = trail \o <<event>>
  <2>1. PICK S, event : trail \in Seq(S) /\ trail' = trail \o <<event>>
    BY <1>3 DEF TrailInv
  <2>2. trail' \in Seq(S \cup {event})
    BY <2>1, TrailGrows
  <2> QED BY <2>2 DEF TrailInv
<1> QED BY <1>1, <1>2, <1>3, FinalSteps DEF Final

LEMMA TrailInvariance == Spec => []TrailInv
PROOF
<1>1. Init => TrailInv
  BY DEF Init, TrailInv
<1> QED BY <1>1, TrailNext, RecordInvariance, PTL DEF Spec

\* The record only grows: neither the failure of one document, nor a stop, a restart or
\* a run that cannot be saved rewrites what was recorded of a document that is done, or
\* of a run that is over, for any number of documents.
THEOREM RecordKept == Spec => ResultsAreFinal
PROOF
<1> DEFINE A == Recorded =>
       /\ \A i \in DOMAIN saved.docs :
            saved.docs[i].status \in DocOutcome => saved'.docs[i] = saved.docs[i]
       /\ ~Running => saved' = saved /\ trail' = trail
       /\ SubSeq(trail', 1, Len(trail)) = trail
<1>1. ASSUME RecordInv, TrailInv, [Next]_vars PROVE [A]_<<saved, trail>>
  <2> SUFFICES ASSUME Recorded, ~UNCHANGED <<saved, trail>> PROVE A
    OBVIOUS
  <2>1. exec.at # "idle" /\ Final
    BY <1>1, FinalSteps DEF RecordInv, Recorded
  <2>2. DOMAIN saved.docs = 1..Size
    BY <1>1, <2>1 DEF RecordInv, IsRun
  <2>3. Running /\ \E event : trail' = trail \o <<event>>
    BY <2>1 DEF Final
  <2>4. SubSeq(trail', 1, Len(trail)) = trail
    BY <1>1, <2>3, TrailGrows DEF TrailInv
  <2> QED BY <2>1, <2>2, <2>3, <2>4 DEF Final
<1> QED BY <1>1, RecordInvariance, TrailInvariance, PTL DEF Spec, ResultsAreFinal
-----------------------------------------------------------------------------
(***************************************************************************)
(* The page: an answer is of one moment, and once it says that the run is  *)
(* over the trail does not grow any more.                                  *)
(***************************************************************************)

IsPoll(p) ==
  p = [cursor |-> p.cursor, items |-> p.items, page |-> p.page, finished |-> p.finished]

\* An answer on its way begins where the page is; the last one reaches the end.
InOrder(p) ==
  p.page # NoPage =>
    /\ p.page.next \in p.cursor..Len(trail)
    /\ p.page.items = (p.cursor + 1)..p.page.next
    /\ p.page.status # "RUNNING" => ~Running /\ (~p.page.more => p.page.next = Len(trail))

PollInv ==
  /\ IsPoll(poll)
  /\ poll.cursor \in 0..Len(trail) /\ poll.items = 1..poll.cursor
  /\ InOrder(poll)
  /\ poll.finished => ~Running /\ poll.cursor = Len(trail)
  /\ exec.at = "idle" => poll = NewPoll

LEMMA StaysAccepted == RecordInv /\ [Next]_vars /\ exec.at # "idle" => exec'.at # "idle"
PROOF
<1> SUFFICES ASSUME RecordInv, [Next]_vars, exec.at # "idle" PROVE exec'.at # "idle"
  OBVIOUS
<1>1. CASE Moves \/ Finishes
  BY <1>1 DEF Moves, Finishes
<1>2. CASE AcceptRun
  BY <1>2 DEF AcceptRun, At
<1>3. CASE StoreUpload
  BY <1>3 DEF StoreUpload, Goes, RecordInv, IsExec
<1>4. CASE NextDocument
  BY <1>4, NextStep
<1> QED BY <1>1, <1>2, <1>3, <1>4, RecordSteps DEF RecordStep

LEMMA PollSteps == [Next]_vars => UNCHANGED poll \/ Poll
PROOF
<1> SUFFICES ASSUME [Next]_vars PROVE UNCHANGED poll \/ Poll
  OBVIOUS
<1>1. CASE Executor
  BY <1>1 DEF Executor, StoreUpload, Prepare, NextDocument, BeginRead, EndRead, StartWorker,
     CallReturns, Consult, TextAnswered, VisionAnswered, AIFails, EndDocument, Conclude,
     Analyze, FinishRun, FailRun, Stays
<1>2. CASE Consumer \/ ObserveFails \/ ReaderThread \/ TimerThread \/ WorkerProcess \/ WorkerFails
  BY <1>2 DEF Consumer, Observe, ConsumerStep, ObserveFails, ReaderThread, TimerThread,
     WorkerProcess, WorkerFails, Stays, MishapStays
<1>3. CASE SaveFails \/ FailRunFails \/ CheckRecording \/ RunDeadline \/ Stop \/ Down \/ Restart
  BY <1>3 DEF SaveFails, FailRunFails, CheckRecording, RunDeadline, Stop, Down, Restart,
     Stays, MishapStays
<1>4. CASE Receive \/ AcceptRun \/ UNCHANGED vars
  BY <1>4 DEF Receive, AcceptRun, vars
<1> QED BY <1>1, <1>2, <1>3, <1>4 DEF Next

LEMMA PollAsks ==
  ASSUME RecordInv, TrailInv, PollInv, Poll
  PROVE  PollInv'
PROOF
<1>1. Len(trail) \in Nat /\ PageLimit \in Nat
  BY PageAssumption DEF TrailInv
<1>2. UNCHANGED <<exec, saved, trail>> /\ (Running' <=> Running)
  BY DEF Poll, Running
<1>3. CASE Answers /\ Ask
  <2> DEFINE upto == IF Len(trail) - poll.cursor <= PageLimit THEN Len(trail)
                     ELSE poll.cursor + PageLimit
             page == [items |-> (poll.cursor + 1)..upto, more |-> Len(trail) > upto,
                      next |-> upto, status |-> saved.status]
  <2>1. upto \in poll.cursor..Len(trail)
    BY <1>1 DEF PollInv
  <2>2. /\ page.next = upto /\ page.items = (poll.cursor + 1)..page.next
        /\ page.status # "RUNNING" => ~Running
        /\ ~page.more => ~(Len(trail) > page.next)
    BY DEF Running
  <2>3. poll' = [poll EXCEPT !.page = page] /\ ~poll.finished /\ saved # NoRun
    BY <1>3 DEF Ask, Page, Recorded
  <2> HIDE DEF upto, page
  <2>4. poll' = [cursor |-> poll.cursor, items |-> poll.items, page |-> page,
                 finished |-> poll.finished]
    BY <2>3 DEF PollInv, IsPoll
  <2>5. InOrder(poll)'
    BY <1>1, <1>2, <2>1, <2>2, <2>4 DEF InOrder, PollInv
  <2>6. exec.at # "idle"
    BY <2>3 DEF RecordInv
  <2> QED BY <1>2, <2>3, <2>4, <2>5, <2>6 DEF PollInv, IsPoll
<1>4. CASE Take
  <2>1. /\ poll.page # NoPage
        /\ poll' = [cursor |-> poll.page.next, items |-> poll.items \cup poll.page.items,
                    page |-> NoPage,
                    finished |-> ~poll.page.more /\ poll.page.status # "RUNNING"]
    BY <1>4 DEF Take, PollInv, IsPoll
  <2>2. /\ poll.page.next \in poll.cursor..Len(trail)
        /\ poll.page.items = (poll.cursor + 1)..poll.page.next
        /\ poll.page.status # "RUNNING" =>
             ~Running /\ (~poll.page.more => poll.page.next = Len(trail))
    BY <2>1 DEF PollInv, InOrder
  <2>3. poll'.cursor \in 0..Len(trail) /\ poll'.items = 1..poll'.cursor
    BY <1>1, <2>1, <2>2 DEF PollInv
  <2>4. exec.at # "idle"
    BY <2>1 DEF PollInv, NewPoll
  <2> QED BY <1>2, <2>1, <2>2, <2>3, <2>4 DEF PollInv, IsPoll, InOrder
<1>5. CASE Lose
  <2>1. /\ poll.page # NoPage
        /\ poll' = [cursor |-> poll.cursor, items |-> poll.items, page |-> NoPage,
                    finished |-> poll.finished]
    BY <1>5 DEF Lose, PollInv, IsPoll
  <2>2. exec.at # "idle"
    BY <2>1 DEF PollInv, NewPoll
  <2> QED BY <1>2, <2>1, <2>2 DEF PollInv, IsPoll, InOrder
<1> QED BY <1>3, <1>4, <1>5 DEF Poll

LEMMA PollNext == RecordInv /\ TrailInv /\ PollInv /\ [Next]_vars => PollInv'
PROOF
<1> SUFFICES ASSUME RecordInv, TrailInv, PollInv, [Next]_vars, UNCHANGED poll PROVE PollInv'
  BY PollSteps, PollAsks
<1>1. CASE exec.at = "idle" /\ exec'.at # "idle" /\ \E event : trail' = <<event>>
  <2>1. poll' = NewPoll /\ Len(trail') = 1
    BY <1>1 DEF PollInv
  <2> QED BY <1>1, <2>1 DEF PollInv, IsPoll, NewPoll, InOrder
<1>2. CASE UNCHANGED <<saved, trail>> /\ (exec'.at = "idle" => exec.at = "idle")
  BY <1>2 DEF PollInv, InOrder, Running
<1>3. CASE exec.at # "idle" /\ Running /\ \E event : trail' = trail \o <<event>>
  <2>1. exec'.at # "idle" /\ ~poll.finished
    BY <1>3, StaysAccepted DEF PollInv
  <2>2. Len(trail) \in Nat /\ Len(trail') = Len(trail) + 1
    <3>1. PICK S, event : trail \in Seq(S) /\ trail' = trail \o <<event>>
      BY <1>3 DEF TrailInv
    <3> QED BY <3>1, TrailGrows
  <2>3. InOrder(poll)'
    BY <1>3, <2>2 DEF InOrder, PollInv
  <2> QED BY <2>1, <2>2, <2>3 DEF PollInv
<1> QED BY <1>1, <1>2, <1>3, FinalSteps, StaysAccepted DEF Final

LEMMA PollInvariance == Spec => []PollInv
PROOF
<1>1. Init => PollInv
  <2> SUFFICES ASSUME Init PROVE PollInv
    OBVIOUS
  <2>1. /\ poll = [cursor |-> 0, items |-> {}, page |-> NoPage, finished |-> FALSE]
        /\ poll = NewPoll /\ Len(trail) = 0
    BY DEF Init, NewPoll
  <2>2. IsPoll(poll) /\ ~poll.finished /\ poll.cursor = 0 /\ poll.items = {} /\ poll.page = NoPage
    BY <2>1 DEF IsPoll
  <2>3. {} = 1..0 /\ 0 \in 0..0
    OBVIOUS
  <2> QED BY <2>1, <2>2, <2>3 DEF PollInv, InOrder
<1> QED BY <1>1, PollNext, RecordInvariance, TrailInvariance, PTL DEF Spec

\* A page that stops asking has shown every event of a run that is over, whatever the
\* size of its pages and however its requests fail: the status of an answer and its
\* events are of one moment, and a run that is over is not written to again.
THEOREM PageShowsAll == Spec => []PageSeesAll
PROOF
<1>1. TrailInv /\ PollInv => PageSeesAll
  BY DEF PollInv, TrailInv, PageSeesAll
<1> QED BY <1>1, PollInvariance, TrailInvariance, PTL
-----------------------------------------------------------------------------
(***************************************************************************)
(* What a worker tells of its document is a finite sequence of events.     *)
(***************************************************************************)
TraceStatus == {"STARTED", "SUCCEEDED", "FAILED", "NEEDS_REVIEW"}
\* What a document was parsed into is numbered.
Parsed(stage, status, cites) == stage = "parsing" /\ status = "SUCCEEDED" => cites \subseteq Nat
WorkerEvent(C) ==
  {e \in [stage : WorkerStages, status : TraceStatus, cites : C] :
     Parsed(e.stage, e.status, e.cites)}

LEMMA StepType ==
  ASSUME NEW C, NEW stage \in WorkerStages, NEW status \in TraceStatus, NEW cites \in C,
         Parsed(stage, status, cites)
  PROVE  <<Event(stage, status, cites)>> \in Seq(WorkerEvent(C))
PROOF
<1>1. Event(stage, status, cites) \in WorkerEvent(C)
  BY DEF Event, WorkerEvent
<1> QED BY <1>1

LEMMA KnownType == \A ok : Known(ok) \in TraceStatus
  BY DEF Known, TraceStatus

LEMMA NormalEventsSeq ==
  ASSUME NEW key, NEW items, IsFiniteSet(items), NEW C,
         \A i \in 1..Cardinality(items) : NormalEvents(key, items)[i].cites \in C
  PROVE  NormalEvents(key, items) \in Seq(WorkerEvent(C))
PROOF
<1> DEFINE n == Cardinality(items)
           nth(i) == CHOOSE c \in items : Cardinality({d \in items : d.at < c.at}) = i - 1
           event(i) == Event("normalization", Known(Normal(key, nth(i)).state = "PRESENT"),
                             nth(i).units)
<1>1. n \in Nat
  BY FS_CardinalityType
<1>2. NormalEvents(key, items) = [i \in 1..n |-> event(i)]
  BY DEF NormalEvents
<1> HIDE DEF n, nth
<1>3. \A i \in 1..n : nth(i).units \in C
  <2> SUFFICES ASSUME NEW i \in 1..n PROVE nth(i).units \in C
    OBVIOUS
  <2>1. NormalEvents(key, items)[i] = event(i)
    BY <1>2
  <2>2. event(i).cites = nth(i).units
    BY DEF Event
  <2> QED BY <2>1, <2>2 DEF n
<1>4. \A i \in 1..n : event(i) \in WorkerEvent(C)
  <2> SUFFICES ASSUME NEW i \in 1..n PROVE event(i) \in WorkerEvent(C)
    OBVIOUS
  <2>1. PICK status \in TraceStatus : status = Known(Normal(key, nth(i)).state = "PRESENT")
    BY KnownType
  <2>2. PICK units \in C : units = nth(i).units
    BY <1>3
  <2>3. Event("normalization", status, units) \in WorkerEvent(C)
    BY DEF Event, WorkerEvent, WorkerStages, Parsed
  <2> QED BY <2>1, <2>2, <2>3
<1> HIDE DEF event
<1> QED BY <1>1, <1>2, <1>4

LEMMA AllFieldEventsSeq ==
  ASSUME NEW found, NEW E, \A key \in Fields : FieldEvents(found, key) \in Seq(E)
  PROVE  AllFieldEvents(found) \in Seq(E)
PROOF
<1> DEFINE n == Len(FieldKeys)
           g == [i \in 1..n |-> FieldEvents(found, FieldKeys[i])]
<1>1. n \in Nat /\ \A i \in 1..n : FieldKeys[i] \in Fields
  BY KeysAssumption
<1>2. \A i \in 1..n : g[i] \in Seq(E)
  <2> SUFFICES ASSUME NEW i \in 1..n PROVE g[i] \in Seq(E)
    OBVIOUS
  <2>1. PICK key \in Fields : key = FieldKeys[i]
    BY <1>1
  <2> QED BY <2>1
<1>3. AllFieldEvents(found) = (CHOOSE f : IsJoin(f, <<>>, g, 0, n))[n]
  <2>1. \A f : f = [i \in 0..n |-> IF i = 0 THEN <<>>
                                  ELSE f[i - 1] \o FieldEvents(found, FieldKeys[i])]
               <=> IsJoin(f, <<>>, g, 0, n)
    <3> SUFFICES ASSUME NEW f
                 PROVE  [i \in 0..n |-> IF i = 0 THEN <<>>
                                        ELSE f[i - 1] \o FieldEvents(found, FieldKeys[i])]
                        = [i \in 0..n |-> IF i = 0 THEN <<>> ELSE f[i - 1] \o g[i]]
      BY DEF IsJoin
    <3>1. \A i \in 0..n : i # 0 => i \in 1..n
      BY <1>1
    <3>2. \A i \in 1..n : g[i] = FieldEvents(found, FieldKeys[i])
      OBVIOUS
    <3> HIDE DEF n, g
    <3> QED BY <3>1, <3>2
  <2> QED BY <2>1 DEF AllFieldEvents
<1> HIDE DEF g, n
<1>4. Joinable(E, <<>>, g, 0, n)
  BY <1>1, <1>2 DEF Joinable
<1> QED BY <1>3, <1>4, JoinIsSeq

\* What the events of the fields refer to, with and without candidates.
Cited(found) ==
  {{}} \cup {UnitsOf(OfField(found, key)) : key \in Fields}
     \cup {NormalEvents(key, Chosen(found, key))[i].cites : key \in Fields, i \in Nat}

LEMMA FieldEventsSeq ==
  ASSUME NEW units \in Seq(SourceUnit), NEW key \in Fields, NEW C,
         Cited(Candidates(units)) \subseteq C
  PROVE  FieldEvents(Candidates(units), key) \in Seq(WorkerEvent(C))
PROOF
<1> DEFINE found == Candidates(units)
           items == Chosen(found, key)
<1>1. IsFiniteSet(items)
  <2>1. items \in SUBSET found
    BY DEF Chosen, OfField
  <2> QED BY <2>1, CandidatesFinite
<1>2. PICK first : first = <<Event("candidates", "SUCCEEDED", UnitsOf(OfField(found, key)))>>
  OBVIOUS
<1>3. first \in Seq(WorkerEvent(C))
  <2>1. UnitsOf(OfField(found, key)) \in C
    BY DEF Cited
  <2>2. "candidates" \in WorkerStages /\ "SUCCEEDED" \in TraceStatus
    BY DEF WorkerStages, TraceStatus
  <2> QED BY <1>2, <2>1, <2>2, StepType DEF Parsed
<1>4. NormalEvents(key, items) \in Seq(WorkerEvent(C))
  <2>1. Cardinality(items) \in Nat
    BY <1>1, FS_CardinalityType
  <2>2. \A i \in 1..Cardinality(items) : NormalEvents(key, items)[i].cites \in C
    <3>1. 1..Cardinality(items) \subseteq Nat
      BY <2>1
    <3> QED BY <3>1 DEF Cited
  <2> HIDE DEF items
  <2> QED BY <1>1, <2>2, NormalEventsSeq
<1>5. PICK last : last = <<Event("field_result", Known(Decide(key, items).state = "PRESENT"), {})>>
  OBVIOUS
<1>6. last \in Seq(WorkerEvent(C))
  <2>1. {} \in C
    BY DEF Cited
  <2>2. "field_result" \in WorkerStages /\ Known(Decide(key, items).state = "PRESENT") \in TraceStatus
    BY KnownType DEF WorkerStages
  <2> QED BY <1>5, <2>1, <2>2, StepType DEF Parsed
<1>7. FieldEvents(found, key) = first \o NormalEvents(key, items) \o last
  BY <1>2, <1>5 DEF FieldEvents
<1>8. first \o NormalEvents(key, items) \o last \in Seq(WorkerEvent(C))
  BY <1>3, <1>4, <1>6, ConcatProperties
<1> QED BY <1>7, <1>8

\* The trace of a document is a sequence of events of the worker's stages.
LEMMA TraceSeq ==
  ASSUME NEW file \in File, NEW expected
  PROVE  \E C : TraceOf(file, expected) \in Seq(WorkerEvent(C))
PROOF
<1> DEFINE units == file.units
           C == {DOMAIN units} \cup Cited(Candidates(units))
           E == WorkerEvent(C)
           step(stage, status) == <<Event(stage, status, {})>>
<1>1. units \in Seq(SourceUnit)
  <2>1. PICK x \in File : x = file
    OBVIOUS
  <2>2. x.units \in Seq(SourceUnit)
    BY DEF File
  <2> QED BY <2>1, <2>2
<1>2. AllFieldEvents(Candidates(units)) \in Seq(E)
  <2>1. \A key \in Fields : FieldEvents(Candidates(units), key) \in Seq(E)
    <3>1. Cited(Candidates(units)) \subseteq C
      OBVIOUS
    <3> HIDE DEF C
    <3> QED BY <1>1, <3>1, FieldEventsSeq
  <2> HIDE DEF E
  <2> QED BY <2>1, AllFieldEventsSeq
<1>3. \A stage \in WorkerStages, status \in TraceStatus : step(stage, status) \in Seq(E)
  <2>1. {} \in C
    BY DEF Cited
  <2> HIDE DEF C
  <2> QED BY <2>1, StepType DEF Parsed
<1>4. <<Event("parsing", "SUCCEEDED", DOMAIN units)>> \in Seq(E)
  <2>1. DOMAIN units \in C /\ "parsing" \in WorkerStages /\ "SUCCEEDED" \in TraceStatus
    BY DEF WorkerStages, TraceStatus
  <2>2. Parsed("parsing", "SUCCEEDED", DOMAIN units)
    BY <1>1 DEF Parsed
  <2> HIDE DEF C
  <2> QED BY <2>1, <2>2, StepType
<1>5. PICK s1, s2, s3, s4, s5, s6, s7, s8, s9 \in Seq(E) :
        /\ s1 = step("validation", "STARTED") /\ s2 = step("validation", "FAILED")
        /\ s3 = step("validation", "SUCCEEDED") /\ s4 = step("parsing", "STARTED")
        /\ s5 = step("parsing", "FAILED") /\ s6 = <<Event("parsing", "SUCCEEDED", DOMAIN units)>>
        /\ s7 = step("text_check", "NEEDS_REVIEW")
        /\ s8 = step("role_detection", Known(RoleProblem(units, expected) = ""))
        /\ s9 = step("completed", Known(ExtractDocument(file, expected).issues = {}))
  <2>1. \A ok : \A stage \in WorkerStages : step(stage, Known(ok)) \in Seq(E)
    BY <1>3, KnownType
  <2>2. {"validation", "parsing", "text_check", "role_detection", "completed"} \subseteq WorkerStages
        /\ {"STARTED", "FAILED", "SUCCEEDED", "NEEDS_REVIEW"} \subseteq TraceStatus
    BY DEF WorkerStages, TraceStatus
  <2> HIDE DEF E, step
  <2> QED BY <1>3, <1>4, <2>1, <2>2
<1>6. PICK all \in Seq(E) : all = AllFieldEvents(Candidates(units))
  BY <1>2
<1>7. TraceOf(file, expected) =
        s1 \o (IF FormatProblem(file) # NoProblem THEN s2
               ELSE s3 \o s4 \o (IF ParseProblem(file) # NoProblem THEN s5
                                 ELSE s6 \o (IF ~Usable(units) THEN s7 ELSE s8 \o all \o s9)))
  BY <1>5, <1>6 DEF TraceOf
<1>8. \A x, y \in Seq(E) : x \o y \in Seq(E)
  BY ConcatProperties
<1> HIDE DEF E
<1>9. TraceOf(file, expected) \in Seq(E)
  BY <1>7, <1>8
<1> QED BY <1>9 DEF E

LEMMA ToldSeq ==
  ASSUME NEW input \in Inputs
  PROVE  \E C : Told[input] \in Seq(WorkerEvent(C))
PROOF
<1>1. input.file \in File
  BY JobsAssumption DEF DocumentInput
<1> QED BY <1>1, TraceSeq DEF Told

\* Every trace ends.
LEMMA TracesAreFinite == \A input \in Inputs : Len(Told[input]) \in Nat
  BY ToldSeq
-----------------------------------------------------------------------------
\* What the run is told of its workers.

LEMMA ScriptsEnd ==
  ASSUME NEW input \in Inputs
  PROVE  IsScript(Scripts[input]) /\ Len(Scripts[input]) = Len(Told[input]) + 1
PROOF
<1> DEFINE n == Len(Told[input]) + 1
           script == [i \in 1..n |-> [type |-> IF i <= Len(Told[input]) THEN "event" ELSE "result",
                                      at |-> i]]
<1>1. n \in Nat \ {0} /\ Len(Told[input]) \in Nat
  BY TracesAreFinite
<1>2. Scripts[input] = script
  BY DEF Scripts, ScriptOf
<1>3. \A i \in 1..n :
        /\ script[i].at = i /\ script[i].type = (IF i = n THEN "result" ELSE "event")
        /\ script[i] \in WorkerLine
  BY <1>1 DEF WorkerLine, LineType
<1>4. Len(script) = n
  <2>1. n \in Nat /\ script = [i \in 1..n |-> script[i]]
    BY <1>1
  <2> HIDE DEF n, script
  <2> QED BY <2>1
<1> HIDE DEF script
<1> QED BY <1>1, <1>2, <1>3, <1>4 DEF IsScript

\* A call belongs to the document the run is at.
LEMMA CallPlaces ==
  ASSUME RecordInv, [Next]_vars, call = NoCall \/ exec.at = "calling"
  PROVE  \/ call' = NoCall
         \/ exec'.at = "calling" /\ call' = NewCall
         \/ /\ call # NoCall /\ exec'.at = "calling" /\ exec'.n = exec.n
            /\ env'.job = env.job
PROOF
<1>1. IsExec(exec) /\ IsEnv(env) /\ (~env.up => exec.at = "over")
  BY DEF RecordInv
<1>2. CASE Executor
  <2>1. CASE StartWorker
    BY <1>1, <2>1 DEF StartWorker, At, Goes, IsExec
  <2>2. CASE CallReturns
    BY <2>2 DEF CallReturns
  <2>3. CASE StoreUpload \/ Prepare \/ NextDocument \/ BeginRead \/ EndRead \/ Consult
    BY <2>3 DEF StoreUpload, Prepare, NextDocument, BeginRead, EndRead, Consult, At
  <2>4. CASE TextAnswered \/ VisionAnswered \/ AIFails \/ EndDocument \/ Conclude \/ Analyze
               \/ FinishRun \/ FailRun
    BY <2>4 DEF TextAnswered, VisionAnswered, AIFails, EndDocument, Conclude, Analyze,
       FinishRun, FailRun, At
  <2> QED BY <1>2, <2>1, <2>2, <2>3, <2>4 DEF Executor
<1>3. CASE Observe
  <2>1. exec.at = "calling" /\ call # NoCall /\ UNCHANGED env
    BY <1>3 DEF Observe, At, Taking, Calling, Stays
  <2>2. UNCHANGED exec \/ exec' = [exec EXCEPT !.error = "PROCESSING_FAILED"]
    BY <1>3 DEF Observe
  <2> QED BY <1>1, <2>1, <2>2 DEF IsExec
<1>4. CASE ObserveFails
  <2>1. exec.at = "calling" /\ call # NoCall /\ env' = [env EXCEPT !.left = @ - 1]
    BY <1>4 DEF ObserveFails, At, ConsumerObserves, Taking, Calling, MishapStays, Mishap
  <2>2. exec' = [exec EXCEPT !.error = "AUDIT_SAVE_FAILED"]
    BY <1>4 DEF ObserveFails
  <2> QED BY <1>1, <2>1, <2>2 DEF IsExec, IsEnv
<1>5. CASE ConsumerStep
  <2>1. Calling
    BY <1>5 DEF ConsumerStep, ConsumerStops, ConsumerTakes, ConsumerWaits, ConsumerDecides,
       ConsumerCloses, ConsumerJoins, Taking
  <2> QED BY <1>5, <2>1 DEF ConsumerStep, At, Calling, Stays
<1>6. CASE ReaderThread \/ TimerThread
  <2>1. Calling
    BY <1>6 DEF ReaderThread, TimerThread, ReaderSteps, ReaderReads, ReaderKills, ReaderPuts,
       ReaderEnds, TimerSteps, TimerExpires, TimerKills
  <2> QED BY <1>6, <2>1 DEF ReaderThread, TimerThread, Calling, Stays
<1>7. CASE WorkerProcess \/ WorkerFails
  <2>1. Calling /\ exec.at = "calling" /\ UNCHANGED exec
    BY <1>7 DEF WorkerProcess, WorkerFails, WorkerSteps, WorkerFaults, WorkerWrites, WorkerRaises,
       WorkerCloses, WorkerExits, WorkerDies, WorkerOverflows
  <2>2. UNCHANGED env \/ env' = [env EXCEPT !.left = @ - 1]
    BY <1>7 DEF WorkerProcess, WorkerFails, Stays, MishapStays, Mishap
  <2> QED BY <1>1, <2>1, <2>2 DEF Calling, IsEnv
<1>8. CASE SaveFails \/ FailRunFails \/ CheckRecording \/ Receive \/ AcceptRun \/ Restart
  BY <1>1, <1>8 DEF SaveFails, Saving, FailRunFails, CheckRecording, Receive, AcceptRun, Restart, At
<1>9. CASE Poll \/ RunDeadline \/ Stop \/ UNCHANGED vars
  <2>1. UNCHANGED <<exec, call>>
    BY <1>9 DEF Poll, RunDeadline, Stop, vars
  <2>2. env'.job = env.job
    BY <1>1, <1>9 DEF Poll, RunDeadline, Stop, vars, IsEnv
  <2> QED BY <2>1, <2>2
<1>10. CASE Down
  BY <1>10 DEF Down
<1> QED BY <1>2, <1>3, <1>4, <1>5, <1>6, <1>7, <1>8, <1>9, <1>10 DEF Next, Consumer

CallsInv ==
  call # NoCall => exec.at = "calling" /\ OutcomeInv(call, Len(Scripts[Input]))

CallAction ==
  \/ \E ok \in BOOLEAN : ConsumerObserves(ok)
  \/ ConsumerStops \/ ConsumerTakes
  \/ \E stopping : ConsumerWaits(stopping)
  \/ ConsumerDecides \/ ConsumerCloses \/ ConsumerJoins
  \/ ReaderSteps \/ TimerSteps
  \/ WorkerSteps(Scripts[Input]) \/ WorkerFaults(Scripts[Input])

LEMMA CallStepKeeps ==
  ASSUME RecordInv, CallsInv, call # NoCall, CallAction
  PROVE  OutcomeInv(call', Len(Scripts[Input])) /\ call' # NoCall
PROOF
<1> DEFINE n == Len(Scripts[Input])
<1>1. exec.at = "calling" /\ OutcomeInv(call, n)
  BY DEF CallsInv
<1>2. IsScript(Scripts[Input])
  <2>1. Input \in Inputs
    BY <1>1, JobsHaveInputs DEF RecordInv, InDocument, Size, Input, Job
  <2> QED BY <2>1, ScriptsEnd
<1>3. OutcomeInv(call', n)
  <2>1. CASE (\E ok \in BOOLEAN : ConsumerObserves(ok)) \/ ConsumerTakes
    BY <1>1, <2>1, ConsumerTakesKeeps
  <2>2. CASE ConsumerStops \/ (\E stopping : ConsumerWaits(stopping)) \/ ConsumerJoins
    BY <1>1, <2>2, ConsumerActsKeeps
  <2>3. CASE ConsumerDecides \/ ConsumerCloses
    BY <1>1, <2>3, ConsumerDecidesKeeps, ConsumerClosesKeeps
  <2>4. CASE ReaderSteps \/ TimerSteps
    BY <1>1, <2>4, ReaderKeeps, TimerKeeps
  <2>5. CASE WorkerSteps(Scripts[Input]) \/ WorkerFaults(Scripts[Input])
    BY <1>1, <1>2, <2>5, WorkerWritesKeeps, WorkerEndsKeeps, WorkerFailsKeeps DEF WorkerSteps
  <2> QED BY <2>1, <2>2, <2>3, <2>4, <2>5 DEF CallAction
<1>4. IsCall(call')
  BY <1>3 DEF OutcomeInv, Shape
<1>5. "worker" \in DOMAIN call' /\ "worker" \notin DOMAIN NoCall
  BY <1>4 DEF IsCall, NoCall
<1> QED BY <1>3, <1>5

LEMMA CallsNext == RecordInv /\ CallsInv /\ [Next]_vars => CallsInv'
PROOF
<1> SUFFICES ASSUME RecordInv, RecordInv', CallsInv, [Next]_vars PROVE CallsInv'
  BY RecordNext
<1> DEFINE n == Len(Scripts[Input])
<1>1. Input \in Inputs \/ exec.at # "calling"
  BY JobsHaveInputs DEF RecordInv, InDocument, Size, Input, Job
<1>2. Input' \in Inputs \/ exec'.at # "calling"
  BY JobsHaveInputs DEF RecordInv, InDocument, Size, Input, Job
<1>3. CASE exec'.at = "calling" /\ call' = NewCall
  <2>1. Len(Scripts[Input']) \in Nat \ {0}
    BY <1>2, <1>3, ScriptsEnd DEF IsScript
  <2>2. OutcomeInv(NewCall, Len(Scripts[Input']))
    BY <2>1, OutcomeStart
  <2> QED BY <1>3, <2>2 DEF CallsInv
<1>4. CASE call # NoCall /\ exec'.at = "calling" /\ exec'.n = exec.n /\ env'.job = env.job
  <2>1. Input' = Input /\ exec.at = "calling" /\ OutcomeInv(call, n)
    BY <1>4 DEF Input, Job, CallsInv
  <2>2. IsScript(Scripts[Input])
    BY <1>1, <2>1, ScriptsEnd
  <2>3. CASE UNCHANGED call
    BY <1>4, <2>1, <2>3 DEF CallsInv
  <2>4. CASE call' = NoCall
    BY <2>4 DEF CallsInv
  <2>5. CASE call' = NewCall
    BY <1>3, <1>4, <2>5
  <2>6. ASSUME CallStep, call' \notin {NewCall, NoCall} PROVE OutcomeInv(call', n)
    BY <1>4, <2>6, CallStepKeeps DEF CallStep, CallAction
  <2> QED BY <1>4, <2>1, <2>3, <2>4, <2>5, <2>6, StepsOfCalls DEF CallsInv
<1>5. CASE call' = NoCall
  BY <1>5 DEF CallsInv
<1> QED BY <1>3, <1>4, <1>5, CallPlaces DEF CallsInv

LEMMA CallsInvariance == Spec => []CallsInv
PROOF
<1>1. Init => CallsInv
  BY DEF Init, CallsInv
<1> QED BY <1>1, CallsNext, RecordInvariance, PTL DEF Spec

\* The outcome of a call is its worker's: no result of one that raised, died or was
\* killed counts, and none is blamed for what the timer did to it, in whatever order
\* the worker, the pipe's reader, the timer and the consumer take their steps.
THEOREM OutcomeIsJust == Spec => []OutcomeIsTheWorkers
PROOF
<1>1. CallsInv => OutcomeIsTheWorkers
  BY OutcomeFollows DEF CallsInv, OutcomeIsTheWorkers, Returned, Calling
<1> QED BY <1>1, CallsInvariance, PTL
-----------------------------------------------------------------------------
(***************************************************************************)
(* The account of a worker in the record.                                  *)
(***************************************************************************)
\* What was kept of the worker of a document stays in its place.
Same(i) ==
  /\ KeptOf(i)' = KeptOf(i)
  /\ \A j \in KeptOf(i) : trail'[j] = trail[j] /\ Place(i, j)' = Place(i, j)

LEMMA EventAdded ==
  ASSUME NEW S, trail \in Seq(S), NEW event, trail' = trail \o <<event>>, NEW i
  PROVE  /\ Len(trail) \in Nat /\ KeptOf(i) \subseteq 1..Len(trail)
         /\ \A T \in SUBSET KeptOf(i) : IsFiniteSet(T)
         /\ trail'[Len(trail) + 1] = event
         /\ \A j \in KeptOf(i) : trail'[j] = trail[j]
         /\ KeptOf(i)' = IF event.doc = i /\ event.stage \in WorkerStages
                         THEN KeptOf(i) \cup {Len(trail) + 1} ELSE KeptOf(i)
PROOF
<1> DEFINE n == Len(trail)
<1>1. n \in Nat /\ DOMAIN trail = 1..n
  OBVIOUS
<1>2. /\ DOMAIN trail' = 1..(n + 1) /\ trail'[n + 1] = event
      /\ \A j \in 1..n : trail'[j] = trail[j]
  <2>1. trail' \in Seq(S \cup {event}) /\ Len(trail') = n + 1
    BY TrailGrows
  <2>2. trail'[n + 1] = event /\ \A j \in 1..n : trail'[j] = trail[j]
    BY <1>1
  <2> QED BY <2>1, <2>2
<1>3. KeptOf(i) = {j \in 1..n : trail[j].doc = i /\ trail[j].stage \in WorkerStages}
  BY <1>1 DEF KeptOf, EventsOf
<1>4. KeptOf(i)' = {j \in 1..(n + 1) : trail'[j].doc = i /\ trail'[j].stage \in WorkerStages}
  BY <1>2 DEF KeptOf, EventsOf
<1>5. KeptOf(i) \subseteq DOMAIN trail
  BY <1>1, <1>3
<1>6. \A T \in SUBSET KeptOf(i) : IsFiniteSet(T)
  BY <1>5, FiniteDomain
<1>7. 1..(n + 1) = (1..n) \cup {n + 1}
  BY <1>1
<1>8. KeptOf(i)' = {j \in 1..n : trail[j].doc = i /\ trail[j].stage \in WorkerStages}
                     \cup {j \in {n + 1} : event.doc = i /\ event.stage \in WorkerStages}
  BY <1>2, <1>4, <1>7
<1> QED BY <1>1, <1>2, <1>3, <1>6, <1>8

\* Up to a place in the record nothing changes when the record grows.
LEMMA PlacesStay ==
  ASSUME NEW S, trail \in Seq(S), NEW event, trail' = trail \o <<event>>, NEW i,
         NEW j \in KeptOf(i)
  PROVE  Place(i, j)' = Place(i, j)
PROOF
<1>1. /\ Len(trail) \in Nat /\ j \in 1..Len(trail)
      /\ KeptOf(i)' = KeptOf(i) \/ KeptOf(i)' = KeptOf(i) \cup {Len(trail) + 1}
  BY EventAdded
<1>2. {k \in KeptOf(i)' : k <= j} = {k \in KeptOf(i) : k <= j}
  BY <1>1
<1> QED BY <1>2 DEF Place

Plain ==
  \/ UNCHANGED trail
  \/ \E event : event.stage \notin WorkerStages /\ trail' = trail \o <<event>>

LEMMA PlainKeeps ==
  ASSUME TrailInv, Plain, NEW i
  PROVE  Same(i)
PROOF
<1>1. CASE UNCHANGED trail
  BY <1>1 DEF Same, KeptOf, EventsOf, Place
<1>2. CASE ~UNCHANGED trail
  <2>1. PICK S, event : /\ trail \in Seq(S) /\ trail' = trail \o <<event>>
                        /\ event.stage \notin WorkerStages
    BY <1>2 DEF TrailInv, Plain
  <2> QED BY <2>1, EventAdded, PlacesStay DEF Same
<1> QED BY <1>1, <1>2

LEMMA EventKept ==
  ASSUME TrailInv, NEW event, trail' = trail \o <<event>>, event.stage \in WorkerStages, NEW i,
         NEW new, new = Len(trail) + 1
  PROVE  /\ i # event.doc => Same(i)
         /\ i = event.doc =>
              /\ Cardinality(KeptOf(i)) \in Nat
              /\ Cardinality(KeptOf(i)') = Cardinality(KeptOf(i)) + 1
              /\ KeptOf(i)' = KeptOf(i) \cup {new}
              /\ trail'[new] = event
              /\ Place(i, new)' = Cardinality(KeptOf(i)) + 1
              /\ \A j \in KeptOf(i) : trail'[j] = trail[j] /\ Place(i, j)' = Place(i, j)
PROOF
<1>1. PICK S : trail \in Seq(S)
  BY DEF TrailInv
<1>2. \A j \in KeptOf(i) : trail'[j] = trail[j] /\ Place(i, j)' = Place(i, j)
  BY <1>1, EventAdded, PlacesStay
<1>3. CASE i # event.doc
  BY <1>1, <1>2, <1>3, EventAdded DEF Same
<1>4. CASE i = event.doc
  <2>1. /\ Len(trail) \in Nat /\ new \notin 1..Len(trail) /\ KeptOf(i) \subseteq 1..Len(trail)
        /\ IsFiniteSet(KeptOf(i)) /\ trail'[new] = event
        /\ KeptOf(i)' = KeptOf(i) \cup {new}
    BY <1>1, <1>4, EventAdded
  <2>2. new \notin KeptOf(i)
    BY <2>1
  <2>3. /\ Cardinality(KeptOf(i)) \in Nat
        /\ Cardinality(KeptOf(i) \cup {new}) = Cardinality(KeptOf(i)) + 1
    BY <2>1, <2>2, FS_AddElement, FS_CardinalityType
  <2>4. {k \in KeptOf(i)' : k <= new} = KeptOf(i)'
    BY <2>1
  <2>5. Place(i, new)' = Cardinality(KeptOf(i)')
    BY <2>4 DEF Place
  <2> QED BY <1>2, <1>4, <2>1, <2>3, <2>5
<1> QED BY <1>3, <1>4

\* An event the observer has saved.
Seen ==
  /\ exec.at = "calling" /\ ConsumerObserves(TRUE) /\ UNCHANGED <<exec, env>>
  /\ trail' = trail \o <<Noted(Told[Input][Head(call.queue).at].stage,
                               Told[Input][Head(call.queue).at].status, exec.n)>>

LEMMA OneNote ==
  ASSUME NEW stage, NEW status, NEW n, NEW run, stage \notin WorkerStages,
         Save(run, <<Noted(stage, status, n)>>)
  PROVE  Plain
PROOF
<1>1. PICK event : event = Noted(stage, status, n)
  OBVIOUS
<1>2. event.stage = stage
  BY <1>1 DEF Noted
<1> QED BY <1>1, <1>2 DEF Save, Plain

\* Nothing else than the observer records in the stages of a worker.
LEMMA TrailSteps == [Next]_vars => AcceptRun \/ Seen \/ Plain
PROOF
<1> SUFFICES ASSUME [Next]_vars PROVE AcceptRun \/ Seen \/ Plain
  OBVIOUS
<1> USE DEF WorkerStages
<1>1. ASSUME NEW status, Records("classification", status) \/ Records("attachment_read", status)
               \/ Records("text_provider", status) \/ Records("vision_provider", status)
      PROVE  Plain
  BY <1>1, OneNote DEF Records
<1>2. ASSUME NEW doc, NEW status, NEW stage \in {"original_storage", "extraction", "document"},
             SavesDoc(doc, <<Noted(stage, status, exec.n)>>)
      PROVE  Plain
  BY <1>2, OneNote DEF SavesDoc
<1>3. CASE StoreUpload
  BY <1>1, <1>2, <1>3 DEF StoreUpload
<1>4. CASE Prepare
  BY <1>1, <1>4 DEF Prepare, KeepsRun, Plain
<1>5. CASE NextDocument
  <2>1. CASE KeepsRun
    BY <2>1 DEF KeepsRun, Plain
  <2>2. CASE ~KeepsRun
    <3>1. \E run : Save(run, <<Noted("document", "STARTED", exec.n + 1)>>)
      BY <1>5, <2>2 DEF NextDocument
    <3> QED BY <3>1, OneNote
  <2> QED BY <2>1, <2>2
<1>6. CASE BeginRead
  BY <1>1, <1>6 DEF BeginRead, KeepsRun, Plain
<1>7. CASE EndRead
  BY <1>2, <1>7 DEF EndRead, KeepsRun, Plain
<1>8. CASE StartWorker
  BY <1>2, <1>8 DEF StartWorker, KeepsRun, Plain
<1>9. CASE CallReturns \/ SaveFails \/ FailRunFails \/ ObserveFails
  BY <1>9 DEF CallReturns, SaveFails, FailRunFails, ObserveFails, KeepsRun, Plain
<1>10. CASE Consult
  BY <1>1, <1>10 DEF Consult, KeepsRun, Plain
<1>11. CASE TextAnswered \/ VisionAnswered \/ AIFails
  BY <1>1, <1>11 DEF TextAnswered, VisionAnswered, AIFails, Answered, Unanswered
<1>12. CASE EndDocument
  BY <1>2, <1>12 DEF EndDocument
<1>13. CASE Conclude \/ Analyze
  <2>1. KeepsRun \/ \E run : \/ Save(run, <<Noted("attachments", "NEEDS_REVIEW", 0)>>)
                             \/ Save(run, <<Noted("analysis", "SUCCEEDED", 0)>>)
    BY <1>13 DEF Conclude, Analyze
  <2> QED BY <2>1, OneNote DEF KeepsRun, Plain
<1>14. CASE FinishRun \/ FailRun \/ CheckRecording \/ Restart
  <2>1. KeepsRun \/ \E run, status : Save(run, <<Noted("run", status, 0)>>)
    BY <1>14 DEF FinishRun, FailRun, CheckRecording, Restart
  <2> QED BY <2>1, OneNote DEF KeepsRun, Plain
<1>15. CASE Observe
  <2>1. CASE KeepsRun
    BY <2>1 DEF KeepsRun, Plain
  <2>2. CASE ~KeepsRun
    BY <1>15, <2>2 DEF Observe, At, SavesDoc, Save, Stays, Seen
  <2> QED BY <2>1, <2>2
<1>16. CASE ConsumerStep \/ ReaderThread \/ TimerThread \/ WorkerProcess \/ WorkerFails
  BY <1>16 DEF ConsumerStep, ReaderThread, TimerThread, WorkerProcess, WorkerFails, KeepsRun, Plain
<1>17. CASE Receive \/ Poll \/ RunDeadline \/ Stop \/ Down \/ UNCHANGED vars
  BY <1>17 DEF Receive, Poll, RunDeadline, Stop, Down, vars, Plain
<1> QED BY <1>3, <1>4, <1>5, <1>6, <1>7, <1>8, <1>9, <1>10, <1>11, <1>12, <1>13, <1>14,
           <1>15, <1>16, <1>17 DEF Next, Executor, Consumer

\* Where the thread of the run comes from, for the stages before and after a call.
Early == {"started", "reading", "ready"}
LEMMA EarlySteps ==
  RecordInv /\ [Next]_vars =>
    exec'.at \notin Early \/ (exec.at \in Early /\ exec'.n = exec.n) \/ NextDocument
PROOF
<1> SUFFICES ASSUME RecordInv, [Next]_vars, exec'.at \in Early
             PROVE  (exec.at \in Early /\ exec'.n = exec.n) \/ NextDocument
  OBVIOUS
<1> USE DEF Early
<1>1. IsExec(exec)
  BY DEF RecordInv
<1>2. CASE StoreUpload \/ Prepare \/ BeginRead \/ EndRead \/ StartWorker \/ CallReturns
  BY <1>1, <1>2 DEF StoreUpload, Prepare, BeginRead, EndRead, StartWorker, CallReturns, At, Goes,
     Gives, Fails, IsExec
<1>3. CASE Consult \/ TextAnswered \/ VisionAnswered \/ AIFails \/ EndDocument
  BY <1>1, <1>3 DEF Consult, TextAnswered, VisionAnswered, AIFails, EndDocument, Answered,
     Unanswered, At, Goes, Gives, IsExec
<1>4. CASE Conclude \/ Analyze \/ FinishRun \/ FailRun \/ FailRunFails \/ CheckRecording \/ SaveFails
  <2>1. ASSUME Conclude PROVE exec'.at \in {"analyzing", "finishing"}
    BY <1>1, <2>1 DEF Conclude, IsExec
  <2>2. ASSUME Analyze PROVE exec'.at \in {"finishing", "failing"}
    BY <1>1, <2>2 DEF Analyze, Goes, Fails, IsExec
  <2>3. ASSUME FinishRun \/ FailRun \/ FailRunFails \/ CheckRecording \/ SaveFails
        PROVE  exec'.at \in {"over", "unrecorded", "failing"}
    BY <1>1, <2>3 DEF FinishRun, FailRun, FailRunFails, CheckRecording, SaveFails, Goes, Fails, IsExec
  <2> QED BY <1>4, <2>1, <2>2, <2>3
<1>5. CASE Observe
  <2>1. UNCHANGED exec \/ exec' = [exec EXCEPT !.error = "PROCESSING_FAILED"]
    BY <1>5 DEF Observe
  <2> QED BY <1>1, <2>1 DEF IsExec
<1>6. CASE ObserveFails \/ AcceptRun
  BY <1>1, <1>6 DEF ObserveFails, AcceptRun, IsExec
<1>7. CASE ConsumerStep \/ ReaderThread \/ TimerThread \/ WorkerProcess \/ WorkerFails \/ Receive
           \/ Poll \/ RunDeadline \/ Stop \/ Restart \/ UNCHANGED vars
  BY <1>7 DEF ConsumerStep, ReaderThread, TimerThread, WorkerProcess, WorkerFails, Receive,
     Poll, RunDeadline, Stop, Restart, vars
<1>8. CASE Down
  BY <1>8 DEF Down, Idle
<1> QED BY <1>2, <1>3, <1>4, <1>5, <1>6, <1>7, <1>8 DEF Next, Executor, Consumer

\* The worker of the document under way has said everything.
HasAll == exec.at \in {"called", "asking"} \/ (exec.at = "ended" /\ exec.result # NoResult)
LEMMA LateSteps ==
  RecordInv /\ [Next]_vars =>
    \/ ~HasAll' \/ (HasAll /\ exec'.n = exec.n)
    \/ /\ exec.at = "calling" /\ call.consumer = "returned" /\ ~call.raised
       /\ CallError(call) = "" /\ exec'.n = exec.n /\ UNCHANGED trail
PROOF
<1> SUFFICES ASSUME RecordInv, [Next]_vars, HasAll'
             PROVE  \/ HasAll /\ exec'.n = exec.n
                    \/ /\ exec.at = "calling" /\ call.consumer = "returned" /\ ~call.raised
                       /\ CallError(call) = "" /\ exec'.n = exec.n /\ UNCHANGED trail
  OBVIOUS
<1> USE DEF HasAll
<1>1. IsExec(exec)
  BY DEF RecordInv
<1>2. CASE StoreUpload \/ Prepare \/ NextDocument \/ BeginRead \/ EndRead \/ StartWorker
  BY <1>1, <1>2 DEF StoreUpload, Prepare, NextDocument, BeginRead, EndRead, StartWorker, At, Goes,
     Gives, Fails, IsExec
<1>3. CASE CallReturns
  BY <1>1, <1>3 DEF CallReturns, KeepsRun, At, Goes, Gives, IsExec
<1>4. CASE Consult \/ TextAnswered \/ VisionAnswered \/ AIFails \/ EndDocument
  BY <1>1, <1>4 DEF Consult, TextAnswered, VisionAnswered, AIFails, EndDocument, Answered,
     Unanswered, At, Goes, Gives, IsExec
<1>5. CASE Conclude \/ Analyze \/ FinishRun \/ FailRun \/ FailRunFails \/ CheckRecording \/ SaveFails
  <2>1. ASSUME Conclude PROVE exec'.at \in {"analyzing", "finishing"}
    BY <1>1, <2>1 DEF Conclude, IsExec
  <2>2. ASSUME Analyze PROVE exec'.at \in {"finishing", "failing"}
    BY <1>1, <2>2 DEF Analyze, Goes, Fails, IsExec
  <2>3. ASSUME FinishRun \/ FailRun \/ FailRunFails \/ CheckRecording \/ SaveFails
        PROVE  exec'.at \in {"over", "unrecorded", "failing"}
    BY <1>1, <2>3 DEF FinishRun, FailRun, FailRunFails, CheckRecording, SaveFails, Goes, Fails, IsExec
  <2> QED BY <1>5, <2>1, <2>2, <2>3
<1>6. CASE Observe
  <2>1. UNCHANGED exec \/ exec' = [exec EXCEPT !.error = "PROCESSING_FAILED"]
    BY <1>6 DEF Observe
  <2> QED BY <1>1, <2>1 DEF IsExec
<1>7. CASE ObserveFails \/ AcceptRun
  BY <1>1, <1>7 DEF ObserveFails, AcceptRun, IsExec
<1>8. CASE ConsumerStep \/ ReaderThread \/ TimerThread \/ WorkerProcess \/ WorkerFails \/ Receive
           \/ Poll \/ RunDeadline \/ Stop \/ Restart \/ UNCHANGED vars
  BY <1>8 DEF ConsumerStep, ReaderThread, TimerThread, WorkerProcess, WorkerFails, Receive,
     Poll, RunDeadline, Stop, Restart, vars
<1>9. CASE Down
  BY <1>9 DEF Down, Idle
<1> QED BY <1>2, <1>3, <1>4, <1>5, <1>6, <1>7, <1>8, <1>9 DEF Next, Executor, Consumer

\* Only the end of a document gives it a result, and its source once stored stays.
KeepsResult(run) ==
  \A i \in 1..Size :
    /\ run.docs[i].result = saved.docs[i].result
    /\ run.docs[i].original = saved.docs[i].original \/ run.docs[i].original = TRUE

LEMMA DocKeepsResult ==
  ASSUME RecordInv, exec.at # "idle", NEW n \in 1..Size, NEW doc, IsDoc(doc),
         doc.result = saved.docs[n].result,
         doc.original = saved.docs[n].original \/ doc.original = TRUE
  PROVE  KeepsResult(WithDoc(n, doc))
PROOF
<1>1. Size \in Nat /\ IsRun(saved, Size)
  BY SizeIsNat DEF RecordInv
<1>2. PICK run : run = WithDoc(n, doc)
  OBVIOUS
<1>3. run.docs[n] = doc /\ \A i \in 1..Size : i # n => run.docs[i] = saved.docs[i]
  BY <1>1, <1>2, DocReplaced
<1> QED BY <1>2, <1>3 DEF KeepsResult

LEMMA ResultSteps ==
  ASSUME RecordInv, [Next]_vars, exec.at # "idle"
  PROVE  \/ KeepsResult(saved')
         \/ /\ exec.at = "ended" /\ exec'.at = "next" /\ exec'.n = exec.n
            /\ saved'.docs[exec.n].result = exec.result
            /\ saved'.docs[exec.n].original = saved.docs[exec.n].original
            /\ \A i \in 1..Size : i # exec.n => saved'.docs[i] = saved.docs[i]
PROOF
<1>1. /\ IsRun(saved, Size) /\ Size \in Nat /\ (exec.at \in InDocument => exec.n \in 1..Size)
      /\ (exec.at = "storing" => exec.n = 1 /\ Size = 1)
  BY SizeIsNat DEF RecordInv
<1>2. ASSUME UNCHANGED saved \/ \E events : Save(saved, events) PROVE KeepsResult(saved')
  BY <1>2 DEF KeepsResult, Save
<1>3. ASSUME NEW doc, NEW events, exec.n \in 1..Size, IsDoc(doc), SavesDoc(doc, events),
             doc.result = Doc.result, doc.original = Doc.original \/ doc.original = TRUE
      PROVE  KeepsResult(saved')
  <2>1. saved' = WithDoc(exec.n, doc)
    BY <1>3 DEF SavesDoc, Save, WithDoc
  <2>2. /\ doc.result = saved.docs[exec.n].result
        /\ doc.original = saved.docs[exec.n].original \/ doc.original = TRUE
    BY <1>3 DEF Doc
  <2> QED BY <1>3, <2>1, <2>2, DocKeepsResult
<1>4. exec.n \in 1..Size => IsDoc(Doc)
  BY <1>1 DEF IsRun, Doc
<1>5. CASE StoreUpload
  <2>1. exec.at = "storing" /\ exec.n \in 1..Size
    BY <1>1, <1>5 DEF StoreUpload, At
  <2>2. CASE \E events : SavesDoc([Doc EXCEPT !.original = TRUE], events)
    <3>1. PICK doc, events : doc = [Doc EXCEPT !.original = TRUE] /\ SavesDoc(doc, events)
      BY <2>2
    <3>2. IsDoc(doc) /\ doc.result = Doc.result /\ (doc.original = Doc.original \/ doc.original = TRUE)
      BY <1>4, <2>1, <3>1 DEF IsDoc
    <3> QED BY <1>3, <2>1, <3>1, <3>2
  <2> QED BY <1>2, <1>5, <2>2 DEF StoreUpload, Records
<1>6. CASE Prepare \/ BeginRead \/ Consult \/ TextAnswered \/ VisionAnswered \/ AIFails
           \/ CallReturns
  BY <1>2, <1>6 DEF Prepare, BeginRead, Consult, TextAnswered, VisionAnswered, AIFails, CallReturns,
     Answered, Unanswered, Records, KeepsRun
<1>7. CASE NextDocument
  <2>1. CASE KeepsRun
    BY <1>2, <2>1 DEF KeepsRun
  <2>2. CASE ~KeepsRun
    <3>1. exec.n + 1 \in 1..Size
      BY <1>7, <2>2, NextStep DEF KeepsRun
    <3>2. PICK doc : doc = [saved.docs[exec.n + 1] EXCEPT !.status = "RUNNING"]
      OBVIOUS
    <3>3. /\ IsDoc(doc) /\ doc.result = saved.docs[exec.n + 1].result
          /\ doc.original = saved.docs[exec.n + 1].original
      <4>1. IsDoc(saved.docs[exec.n + 1])
        BY <1>1, <3>1 DEF IsRun
      <4> QED BY <3>2, <4>1 DEF IsDoc
    <3>4. saved' = [saved EXCEPT !.docs[exec.n + 1].status = "RUNNING"]
      BY <1>7, <2>2 DEF NextDocument, Save
    <3>5. saved' = WithDoc(exec.n + 1, doc)
      BY <3>2, <3>4 DEF WithDoc
    <3> QED BY <3>1, <3>3, <3>5, DocKeepsResult
  <2> QED BY <2>1, <2>2
<1>8. CASE EndRead
  <2>1. exec.n \in 1..Size
    BY <1>1, <1>8 DEF EndRead, At, InDocument
  <2>2. CASE KeepsRun
    BY <1>2, <2>2 DEF KeepsRun
  <2>3. CASE ~KeepsRun
    <3>1. PICK doc, events : doc = [Doc EXCEPT !.original = TRUE] /\ SavesDoc(doc, events)
      BY <1>8, <2>3 DEF EndRead
    <3>2. IsDoc(doc) /\ doc.result = Doc.result /\ (doc.original = Doc.original \/ doc.original = TRUE)
      BY <1>4, <2>1, <3>1 DEF IsDoc
    <3> QED BY <1>3, <2>1, <3>1, <3>2
  <2> QED BY <2>2, <2>3
<1>9. CASE StartWorker
  <2>1. exec.n \in 1..Size
    BY <1>1, <1>9 DEF StartWorker, At, InDocument
  <2>2. CASE KeepsRun
    BY <1>2, <2>2 DEF KeepsRun
  <2>3. CASE ~KeepsRun
    <3>1. PICK doc, events : doc = [Doc EXCEPT !.status = "SKIPPED"] /\ SavesDoc(doc, events)
      BY <1>9, <2>3 DEF StartWorker
    <3>2. IsDoc(doc) /\ doc.result = Doc.result /\ (doc.original = Doc.original \/ doc.original = TRUE)
      BY <1>4, <2>1, <3>1 DEF IsDoc
    <3> QED BY <1>3, <2>1, <3>1, <3>2
  <2> QED BY <2>2, <2>3
<1>10. CASE Observe
  <2>1. exec.n \in 1..Size
    BY <1>1, <1>10 DEF Observe, At, InDocument
  <2>2. CASE KeepsRun
    BY <1>2, <2>2 DEF KeepsRun
  <2>3. CASE ~KeepsRun
    <3>1. PICK event, doc, events : doc = Observed(event, Doc) /\ SavesDoc(doc, events)
      BY <1>10, <2>3 DEF Observe
    <3>2. IsDoc(doc) /\ doc.result = Doc.result /\ (doc.original = Doc.original \/ doc.original = TRUE)
      BY <1>4, <2>1, <3>1 DEF IsDoc, Observed
    <3> QED BY <1>3, <2>1, <3>1, <3>2
  <2> QED BY <2>2, <2>3
<1>11. CASE EndDocument
  <2>1. exec.at = "ended" /\ exec.n \in 1..Size
    BY <1>1, <1>11 DEF EndDocument, At, InDocument
  <2>2. PICK status, doc, events :
          /\ doc = [Doc EXCEPT !.status = status, !.result = exec.result, !.error = exec.error]
          /\ SavesDoc(doc, events)
    BY <1>11 DEF EndDocument
  <2>3. IsDoc(doc) /\ doc.result = exec.result /\ doc.original = saved.docs[exec.n].original
    BY <1>4, <2>1, <2>2 DEF IsDoc, Doc
  <2>4. PICK run : run = WithDoc(exec.n, doc)
    OBVIOUS
  <2>5. saved' = run
    BY <2>2, <2>4 DEF SavesDoc, Save, WithDoc
  <2>6. run.docs[exec.n] = doc /\ \A i \in 1..Size : i # exec.n => run.docs[i] = saved.docs[i]
    BY <1>1, <2>1, <2>3, <2>4, DocReplaced
  <2>7. exec'.at = "next" /\ exec'.n = exec.n
    BY <1>11 DEF RecordInv, IsExec, EndDocument, Goes
  <2> QED BY <2>1, <2>3, <2>5, <2>6, <2>7
<1>12. CASE Conclude \/ Analyze
  <2>1. \/ KeepsRun
        \/ \E issues : saved' = [saved EXCEPT !.issues = issues]
        \/ \E analysis : saved' = [saved EXCEPT !.analysis = analysis]
    BY <1>12 DEF Conclude, Analyze, Save
  <2>2. saved'.docs = saved.docs
    BY <1>1, <2>1 DEF IsRun, KeepsRun
  <2> QED BY <2>2 DEF KeepsResult
<1>13. CASE FinishRun \/ FailRun \/ CheckRecording \/ Restart
  <2>1. \/ KeepsRun
        \/ saved' = [saved EXCEPT !.status = exec.outcome]
        \/ \E status, code : saved' = GivenUp(saved, status, code)
    BY <1>13 DEF FinishRun, FailRun, CheckRecording, Restart, Save, Interrupted, FailedRun
  <2>2. ASSUME saved' = [saved EXCEPT !.status = exec.outcome] PROVE saved'.docs = saved.docs
    BY <1>1, <2>2 DEF IsRun
  <2> QED BY <1>1, <1>2, <2>1, <2>2, DocsGivenUp DEF KeepsResult, KeepsRun
<1>14. CASE ConsumerStep \/ ObserveFails \/ ReaderThread \/ TimerThread \/ WorkerProcess
            \/ WorkerFails \/ SaveFails \/ FailRunFails
  BY <1>2, <1>14 DEF ConsumerStep, ObserveFails, ReaderThread, TimerThread, WorkerProcess,
     WorkerFails, SaveFails, FailRunFails, KeepsRun
<1>15. CASE Receive \/ Poll \/ RunDeadline \/ Stop \/ Down \/ UNCHANGED vars
  BY <1>2, <1>15 DEF Receive, Poll, RunDeadline, Stop, Down, vars
<1>16. ~AcceptRun
  BY DEF AcceptRun, At
<1> QED BY <1>5, <1>6, <1>7, <1>8, <1>9, <1>10, <1>11, <1>12, <1>13, <1>14, <1>15, <1>16
        DEF Next, Executor, Consumer

\* A document that is not done was not before, nor does it overtake another.
Open(i) ==
  /\ exec.at \in Working
  /\ i > exec.n \/ (i = exec.n /\ exec.at \in InDocument \cup {"storing"})
Ahead(i) ==
  /\ exec.at \in Working
  /\ i > exec.n \/ (i = exec.n /\ exec.at \in Early \cup {"storing"})

LEMMA OpenSteps ==
  ASSUME RecordInv, [Next]_vars, exec.at # "idle", NEW i \in 1..Size
  PROVE  (Open(i)' => Open(i)) /\ (Ahead(i)' => Ahead(i))
PROOF
<1>1. exec.n \in Nat /\ Size \in Nat
  BY SizeIsNat
<1>2. /\ InDocument \subseteq Working /\ Early \subseteq InDocument /\ "storing" \in Working
      /\ \A at \in {"storing", "next", "ended", "calling"} : at \notin Early
      /\ \A at \in {"storing", "next"} : at \notin InDocument
  BY DEF InDocument, Working, Early
<1>3. CASE StoreUpload
  BY <1>1, <1>2, <1>3, StoreStep DEF Open, Ahead, RecordInv, Working, InDocument, Early
<1>4. CASE NextDocument
  BY <1>1, <1>2, <1>4, NextStep DEF Open, Ahead, Working, InDocument, Early
<1>5. CASE Moves /\ ~NextDocument
  BY <1>1, <1>2, <1>5, EarlySteps DEF Open, Ahead, Moves
<1>6. CASE Finishes
  BY <1>6 DEF Open, Ahead, Finishes, Working, InDocument
<1>7. CASE exec.at \in InDocument /\ exec'.at = "next" /\ exec'.n = exec.n
  BY <1>1, <1>2, <1>7 DEF Open, Ahead
<1>8. ~AcceptRun
  BY DEF AcceptRun, At
<1> QED BY <1>3, <1>4, <1>5, <1>6, <1>7, <1>8, RecordSteps DEF RecordStep

\* What happens to a call that is not observed.
QuietCall ==
  \/ ConsumerTakes \/ ConsumerStops \/ (\E stopping : ConsumerWaits(stopping))
  \/ ConsumerDecides \/ ConsumerCloses \/ ConsumerJoins \/ ConsumerObserves(FALSE)
  \/ ReaderSteps \/ TimerSteps \/ WorkerSteps(Scripts[Input]) \/ WorkerFaults(Scripts[Input])

LEMMA CallKinds ==
  ASSUME RecordInv, [Next]_vars, exec'.at = "calling"
  PROVE  /\ exec'.n = exec.n
         /\ \/ exec.at = "ready" /\ call' = NewCall
            \/ exec.at = "calling" /\ (UNCHANGED call \/ Seen \/ QuietCall)
PROOF
<1>1. IsExec(exec)
  BY DEF RecordInv
<1>2. CASE StartWorker
  BY <1>1, <1>2 DEF StartWorker, At, Goes, Gives, IsExec
<1>3. CASE StoreUpload \/ Prepare \/ NextDocument \/ BeginRead \/ EndRead \/ CallReturns
  <2>1. ASSUME CallReturns PROVE exec'.at \in {"failing", "ended", "called"}
    BY <1>1, <2>1 DEF CallReturns, Goes, Gives, IsExec
  <2>2. ASSUME StoreUpload \/ NextDocument PROVE FALSE
    BY <2>2, StoreStep, NextStep
  <2>3. ASSUME Prepare PROVE exec'.at \in {"next", "failing"}
    BY <1>1, <2>3 DEF Prepare, Goes, Fails, IsExec
  <2>4. ASSUME BeginRead \/ EndRead PROVE exec'.at \in {"ready", "reading", "ended"}
    BY <1>1, <2>4 DEF BeginRead, EndRead, Goes, Gives, IsExec
  <2> QED BY <1>3, <2>1, <2>2, <2>3, <2>4
<1>4. CASE Consult \/ TextAnswered \/ VisionAnswered \/ AIFails \/ EndDocument
  BY <1>1, <1>4 DEF Consult, TextAnswered, VisionAnswered, AIFails, EndDocument, Answered,
     Unanswered, At, Goes, Gives, IsExec
<1>5. CASE Conclude \/ Analyze \/ FinishRun \/ FailRun \/ FailRunFails \/ CheckRecording \/ SaveFails
  <2>1. ASSUME Conclude PROVE exec'.at \in {"analyzing", "finishing"}
    BY <1>1, <2>1 DEF Conclude, IsExec
  <2>2. ASSUME Analyze PROVE exec'.at \in {"finishing", "failing"}
    BY <1>1, <2>2 DEF Analyze, Goes, Fails, IsExec
  <2>3. ASSUME FinishRun \/ FailRun \/ FailRunFails \/ CheckRecording \/ SaveFails
        PROVE  exec'.at \in {"over", "unrecorded", "failing"}
    BY <1>1, <2>3 DEF FinishRun, FailRun, FailRunFails, CheckRecording, SaveFails, Goes, Fails, IsExec
  <2> QED BY <1>5, <2>1, <2>2, <2>3
<1>6. CASE Observe
  <2>1. exec.at = "calling"
    BY <1>6 DEF Observe, At
  <2>2. \/ /\ UNCHANGED exec /\ ConsumerObserves(TRUE)
           /\ \E doc : SavesDoc(doc, <<Noted(Told[Input][Head(call.queue).at].stage,
                                Told[Input][Head(call.queue).at].status, exec.n)>>)
        \/ exec' = [exec EXCEPT !.error = "PROCESSING_FAILED"] /\ ConsumerObserves(FALSE)
    BY <1>6 DEF Observe
  <2>3. CASE exec' = [exec EXCEPT !.error = "PROCESSING_FAILED"] /\ ConsumerObserves(FALSE)
    BY <1>1, <2>1, <2>3 DEF IsExec, QuietCall
  <2>4. UNCHANGED env
    BY <1>6 DEF Observe, Stays
  <2> QED BY <2>1, <2>2, <2>3, <2>4 DEF SavesDoc, Save, Seen
<1>7. CASE ObserveFails
  BY <1>1, <1>7 DEF ObserveFails, At, IsExec, QuietCall
<1>8. CASE AcceptRun
  BY <1>1, <1>8 DEF AcceptRun, At, IsExec
<1>9. CASE ConsumerStep \/ ReaderThread \/ TimerThread \/ WorkerProcess \/ WorkerFails
  <2>1. UNCHANGED exec /\ QuietCall
    BY <1>9 DEF ConsumerStep, ReaderThread, TimerThread, WorkerProcess, WorkerFails, QuietCall
  <2> QED BY <2>1
<1>10. CASE Receive \/ Poll \/ RunDeadline \/ Stop \/ Restart \/ UNCHANGED vars
  BY <1>10 DEF Receive, Poll, RunDeadline, Stop, Restart, vars
<1>11. CASE Down
  BY <1>11 DEF Down, Idle
<1> QED BY <1>2, <1>3, <1>4, <1>5, <1>6, <1>7, <1>8, <1>9, <1>10, <1>11
        DEF Next, Executor, Consumer

\* The record of a document is the beginning of its worker's account, all of it once
\* the document has a result.
ToldOf(i) == Told[Job.inputs[i]]
Faithful(i) ==
  \A j \in KeptOf(i) :
    /\ Place(i, j) <= Len(ToldOf(i))
    /\ trail[j].stage = ToldOf(i)[Place(i, j)].stage
    /\ trail[j].status = ToldOf(i)[Place(i, j)].status
Whole(i) == Cardinality(KeptOf(i)) = Len(ToldOf(i))
HasResult(i) == saved.docs[i].result # NoResult

TraceInv ==
  /\ exec.at # "idle" => \A i \in 1..Size : Faithful(i) /\ (HasResult(i) => Whole(i))
  /\ \A i \in 1..Size : Ahead(i) => KeptOf(i) = {}
  /\ \A i \in 1..Size : Open(i) => ~HasResult(i)
  /\ HasAll => Whole(exec.n)
  /\ exec.at = "calling" => call # NoCall
  /\ call # NoCall => FlowInv(call, Cardinality(KeptOf(exec.n)), Scripts[Input])

LEMMA SameKeeps ==
  ASSUME NEW i, Same(i), Job' = Job
  PROVE  /\ Faithful(i) => Faithful(i)'
         /\ Whole(i) => Whole(i)'
         /\ KeptOf(i)' = KeptOf(i)
PROOF
<1>1. ToldOf(i)' = ToldOf(i)
  BY DEF ToldOf
<1> QED BY <1>1 DEF Same, Faithful, Whole

LEMMA TraceAccepted ==
  ASSUME RecordInv, CallsInv, AcceptRun, Size' = Size
  PROVE  TraceInv'
PROOF
<1>1. trail' = <<Noted("run", "STARTED", 0)>> /\ saved' = NewRun(Job) /\ call' = call
  BY DEF AcceptRun, Create
<1>2. \A i : KeptOf(i)' = {}
  <2>1. PICK event : event = Noted("run", "STARTED", 0)
    OBVIOUS
  <2>2. event.stage = "run"
    BY <2>1 DEF Noted
  <2>3. DOMAIN trail' = {1} /\ trail'[1] = event
    BY <1>1, <2>1
  <2> QED BY <2>2, <2>3 DEF KeptOf, EventsOf, WorkerStages
<1>3. exec'.at \in {"prepare", "storing"}
  BY AcceptStep
<1>4. \A i \in 1..Size : saved'.docs[i].result = NoResult
  <2>1. DOMAIN Job.inputs = 1..Size
    BY SizeIsNat
  <2>2. saved' = [status |-> "RUNNING", docs |-> [i \in 1..Size |-> NewDoc], issues |-> {},
                  analysis |-> NoAnalysis]
    BY <1>1, <2>1 DEF NewRun
  <2>3. NewDoc.result = NoResult
    BY DEF NewDoc
  <2> QED BY <2>2, <2>3
<1>5. call' = NoCall
  BY <1>1 DEF CallsInv, AcceptRun, At
<1> QED BY <1>2, <1>3, <1>4, <1>5 DEF TraceInv, Faithful, HasResult, HasAll

LEMMA TraceQuiet ==
  ASSUME RecordInv, CallsInv, TrailInv, TraceInv, [Next]_vars, exec.at # "idle",
         exec'.at # "idle", Size' = Size, Job' = Job, Plain, ~Seen
  PROVE  TraceInv'
PROOF
<1>1. /\ Size \in Nat /\ exec.n \in Nat /\ (exec.at \in InDocument => exec.n \in 1..Size)
  BY SizeIsNat
<1>2. \A i \in 1..Size : Same(i)
  BY PlainKeeps
<1>3. \A i \in 1..Size : Faithful(i)'
  BY <1>2, SameKeeps DEF TraceInv
<1>4. ASSUME NEW i \in 1..Size, HasResult(i)' PROVE Whole(i)'
  <2>1. CASE HasResult(i)
    BY <1>2, <2>1, SameKeeps DEF TraceInv
  <2>2. CASE ~HasResult(i)
    <3>1. exec.at = "ended" /\ i = exec.n /\ exec.result # NoResult
      BY <1>4, <2>2, ResultSteps DEF HasResult, KeepsResult
    <3> QED BY <1>2, <3>1, SameKeeps DEF TraceInv, HasAll
  <2> QED BY <2>1, <2>2
<1>5. ASSUME NEW i \in 1..Size, Ahead(i)' PROVE KeptOf(i)' = {}
  BY <1>2, <1>5, SameKeeps, OpenSteps DEF TraceInv
<1>6. ASSUME NEW i \in 1..Size, Open(i)' PROVE ~HasResult(i)'
  <2>1. Open(i) /\ ~HasResult(i)
    BY <1>6, OpenSteps DEF TraceInv
  <2>2. ~(exec'.at = "next" /\ exec'.n = exec.n /\ i = exec.n)
    BY <1>1, <1>6 DEF Open, InDocument
  <2> QED BY <2>1, <2>2, ResultSteps DEF HasResult, KeepsResult
<1>7. ASSUME HasAll' PROVE Whole(exec.n)'
  <2>1. CASE HasAll /\ exec'.n = exec.n
    <3>1. exec.at \in InDocument /\ Whole(exec.n)
      BY <2>1 DEF TraceInv, HasAll, InDocument
    <3>2. PICK n \in 1..Size : n = exec.n
      BY <1>1, <3>1
    <3> QED BY <1>2, <2>1, <3>1, <3>2, SameKeeps
  <2>2. CASE /\ exec.at = "calling" /\ call.consumer = "returned" /\ ~call.raised
             /\ CallError(call) = "" /\ exec'.n = exec.n
    <3>1. exec.at \in InDocument /\ call # NoCall
      BY <2>2 DEF TraceInv, InDocument
    <3>2. PICK n \in 1..Size : n = exec.n
      BY <1>1, <3>1
    <3>3. call.got # 0
      BY <2>2 DEF CallError
    <3>4. Cardinality(KeptOf(n)) + 1 = Len(Scripts[Input]) /\ Cardinality(KeptOf(n)) \in Nat
      BY <3>1, <3>2, <3>3 DEF TraceInv, FlowInv
    <3>5. Input \in Inputs /\ Input = Job.inputs[n]
      BY <3>2, JobsHaveInputs DEF RecordInv, Size, Input, Job
    <3>6. Len(Scripts[Input]) = Len(ToldOf(n)) + 1 /\ Len(ToldOf(n)) \in Nat
      BY <3>5, ScriptsEnd, TracesAreFinite DEF ToldOf
    <3>7. Whole(n)
      BY <3>4, <3>6 DEF Whole
    <3> QED BY <1>2, <2>2, <3>2, <3>7, SameKeeps
  <2> QED BY <1>7, <2>1, <2>2, LateSteps
<1>8. ASSUME exec'.at = "calling"
      PROVE  call' # NoCall /\ FlowInv(call', Cardinality(KeptOf(exec.n)'), Scripts[Input]')
  <2>1. exec'.n = exec.n /\ exec.at \in InDocument
    BY <1>8, CallKinds DEF InDocument
  <2>2. PICK n \in 1..Size : n = exec.n
    BY <1>1, <2>1
  <2>3. Input' = Input /\ Input \in Inputs
    BY <2>1, <2>2, JobsHaveInputs DEF RecordInv, Size, Input, Job
  <2>4. IsScript(Scripts[Input])
    BY <2>3, ScriptsEnd
  <2>5. KeptOf(exec.n)' = KeptOf(n) /\ KeptOf(exec.n) = KeptOf(n)
    BY <1>2, <2>1, <2>2, SameKeeps
  <2>6. CASE exec.at = "ready" /\ call' = NewCall
    <3>1. Ahead(n)
      BY <2>2, <2>6 DEF Ahead, Early, Working, InDocument
    <3>2. Cardinality(KeptOf(n)) = 0
      BY <3>1, FS_EmptySet DEF TraceInv
    <3>3. "worker" \in DOMAIN NewCall /\ "worker" \notin DOMAIN NoCall
      BY DEF NewCall, NoCall
    <3> QED BY <2>3, <2>4, <2>5, <2>6, <3>2, <3>3, FlowStart
  <2>7. CASE exec.at = "calling" /\ (UNCHANGED call \/ QuietCall)
    <3>1. /\ call # NoCall /\ OutcomeInv(call, Len(Scripts[Input]))
          /\ FlowInv(call, Cardinality(KeptOf(n)), Scripts[Input])
      BY <2>2, <2>7 DEF TraceInv, CallsInv
    <3>2. CASE UNCHANGED call
      BY <2>3, <2>5, <3>1, <3>2
    <3>3. CASE QuietCall
      <4>1. call' # NoCall
        BY <3>1, <3>3, CallStepKeeps DEF QuietCall, CallAction
      <4>2. FlowInv(call', Cardinality(KeptOf(n)), Scripts[Input])
        BY <2>4, <3>1, <3>3, WorkerFlows, ReaderFlows, ConsumerFlows DEF QuietCall
      <4> QED BY <2>3, <2>5, <4>1, <4>2
    <3> QED BY <2>7, <3>2, <3>3
  <2> QED BY <1>8, <2>6, <2>7, CallKinds
<1>9. call' # NoCall => exec'.at = "calling"
  BY CallsNext DEF CallsInv
<1> QED BY <1>3, <1>4, <1>5, <1>6, <1>7, <1>8, <1>9 DEF TraceInv

LEMMA TraceSeen ==
  ASSUME RecordInv, CallsInv, TrailInv, TraceInv, [Next]_vars, Size' = Size, Job' = Job, Seen
  PROVE  TraceInv'
PROOF
<1>1. /\ exec.at = "calling" /\ exec' = exec /\ Size \in Nat /\ exec.n \in 1..Size
      /\ exec.at # "idle" /\ exec.at \in InDocument /\ exec.at \notin Early /\ exec.at \in Working
  BY SizeIsNat DEF Seen, InDocument, Working, Early
<1>2. PICK n \in 1..Size : n = exec.n
  BY <1>1
<1>3. Input \in Inputs /\ Input = Job.inputs[n] /\ Input' = Input
  BY <1>1, <1>2, JobsHaveInputs DEF RecordInv, Size, Input, Job
<1>4. PICK seen : seen = Cardinality(KeptOf(n))
  OBVIOUS
<1>5. /\ IsScript(Scripts[Input]) /\ Len(Scripts[Input]) = Len(ToldOf(n)) + 1
      /\ Len(ToldOf(n)) \in Nat /\ ToldOf(n) = Told[Input]
  BY <1>3, ScriptsEnd, TracesAreFinite DEF ToldOf
<1>6. /\ call # NoCall /\ OutcomeInv(call, Len(Scripts[Input]))
      /\ FlowInv(call, seen, Scripts[Input]) /\ ConsumerObserves(TRUE)
  BY <1>1, <1>2, <1>4 DEF TraceInv, CallsInv, Seen
<1>7. /\ Head(call.queue).at = seen + 1 /\ seen + 1 < Len(Scripts[Input])
      /\ FlowInv(call', seen + 1, Scripts[Input]) /\ seen \in Nat
  BY <1>5, <1>6, ObservedFlows DEF FlowInv
<1>8. seen + 1 \in 1..Len(ToldOf(n))
  BY <1>5, <1>7
<1>9. call' # NoCall
  BY <1>6, CallStepKeeps DEF CallAction
<1>10. PICK event : event = Noted(ToldOf(n)[seen + 1].stage, ToldOf(n)[seen + 1].status, exec.n)
  OBVIOUS
<1>11. /\ trail' = trail \o <<event>> /\ event.doc = n
       /\ event.stage = ToldOf(n)[seen + 1].stage /\ event.status = ToldOf(n)[seen + 1].status
  BY <1>2, <1>5, <1>7, <1>10 DEF Seen, Noted
<1>12. event.stage \in WorkerStages
  <2>1. PICK C : ToldOf(n) \in Seq(WorkerEvent(C))
    BY <1>3, <1>5, ToldSeq
  <2>2. ToldOf(n)[seen + 1] \in WorkerEvent(C)
    BY <1>8, <2>1
  <2> QED BY <1>11, <2>2 DEF WorkerEvent
<1>13. \A i \in 1..Size : i # n => Same(i)
  BY <1>11, <1>12, EventKept
<1>14. PICK new : new = Len(trail) + 1
  OBVIOUS
<1>15. /\ Cardinality(KeptOf(n)') = seen + 1
       /\ KeptOf(n)' = KeptOf(n) \cup {new} /\ trail'[new] = event
       /\ Place(n, new)' = seen + 1
       /\ \A j \in KeptOf(n) : trail'[j] = trail[j] /\ Place(n, j)' = Place(n, j)
  <2>1. n = event.doc /\ trail' = trail \o <<event>> /\ new = Len(trail) + 1
    BY <1>11, <1>14
  <2> HIDE DEF Seen
  <2>2. /\ Cardinality(KeptOf(n)') = Cardinality(KeptOf(n)) + 1
        /\ KeptOf(n)' = KeptOf(n) \cup {new} /\ trail'[new] = event
        /\ Place(n, new)' = Cardinality(KeptOf(n)) + 1
    BY ONLY <1>12, <2>1, EventKept, TrailInv
  <2>3. \A j \in KeptOf(n) : trail'[j] = trail[j] /\ Place(n, j)' = Place(n, j)
    BY ONLY <1>12, <2>1, EventKept, TrailInv
  <2> QED BY <1>4, <2>2, <2>3
<1>16. KeepsResult(saved')
  BY <1>1, ResultSteps
<1>17. Open(n) /\ ~HasResult(n)
  BY <1>1, <1>2 DEF Open, TraceInv
<1>18. ASSUME NEW i \in 1..Size PROVE Faithful(i)' /\ (HasResult(i)' => Whole(i)')
  <2>1. CASE i # n
    BY <1>1, <1>13, <1>16, <2>1, SameKeeps DEF TraceInv, HasResult, KeepsResult
  <2>2. CASE i = n
    <3>1. ToldOf(n)' = ToldOf(n)
      BY DEF ToldOf
    <3>2. Faithful(n)
      BY <1>1 DEF TraceInv
    <3>3. Faithful(n)'
      <4> SUFFICES ASSUME NEW j \in KeptOf(n)'
                   PROVE  /\ Place(n, j)' <= Len(ToldOf(n))
                          /\ trail'[j].stage = ToldOf(n)[Place(n, j)'].stage
                          /\ trail'[j].status = ToldOf(n)[Place(n, j)'].status
        BY <3>1 DEF Faithful
      <4>1. CASE j = new
        <5>1. Place(n, j)' = seen + 1
          BY <1>15, <4>1 DEF Place
        <5>2. seen + 1 <= Len(ToldOf(n))
          BY <1>5, <1>7, <1>8
        <5>3. trail'[j] = event
          BY <1>15, <4>1
        <5> QED BY <1>11, <5>1, <5>2, <5>3
      <4>2. CASE j \in KeptOf(n)
        BY <1>15, <3>2, <4>2 DEF Faithful
      <4> QED BY <1>15, <4>1, <4>2
    <3>4. ~HasResult(n)'
      BY <1>16, <1>17 DEF HasResult, KeepsResult
    <3> QED BY <2>2, <3>3, <3>4
  <2> QED BY <2>1, <2>2
<1>19. ASSUME NEW i \in 1..Size, Ahead(i)' PROVE KeptOf(i)' = {}
  <2>1. i # n
    BY <1>1, <1>2, <1>19 DEF Ahead, Early
  <2> QED BY <1>1, <1>13, <1>19, <2>1, OpenSteps, SameKeeps DEF TraceInv
<1>20. ASSUME NEW i \in 1..Size, Open(i)' PROVE ~HasResult(i)'
  BY <1>1, <1>16, <1>20, OpenSteps DEF TraceInv, HasResult, KeepsResult
<1>21. ~HasAll'
  BY <1>1 DEF HasAll
<1>22. FlowInv(call', Cardinality(KeptOf(exec.n)'), Scripts[Input]')
  <2>1. KeptOf(exec.n)' = KeptOf(n)'
    BY <1>1, <1>2
  <2> QED BY <1>3, <1>7, <1>15, <2>1
<1> QED BY <1>9, <1>18, <1>19, <1>20, <1>21, <1>22 DEF TraceInv

LEMMA TraceNext ==
  RecordInv /\ CallsInv /\ TrailInv /\ TraceInv /\ [Next]_vars => TraceInv'
PROOF
<1> SUFFICES ASSUME RecordInv, CallsInv, TrailInv, TraceInv, [Next]_vars PROVE TraceInv'
  OBVIOUS
<1>1. Job' = Job /\ Size' = Size
  BY BackendSteps DEF BackendStep, Job, Size
<1>2. CASE AcceptRun
  BY <1>1, <1>2, TraceAccepted
<1>3. CASE exec.at = "idle" /\ ~AcceptRun
  <2>1. exec'.at = "idle"
    BY <1>3, RecordSteps, StoreStep, NextStep DEF RecordStep, Moves, Finishes, InDocument
  <2>2. call' = NoCall
    BY <1>3, <2>1, CallPlaces DEF CallsInv
  <2> QED BY <2>1, <2>2 DEF TraceInv, Ahead, Open, HasAll, Working, InDocument
<1>4. CASE exec.at # "idle"
  <2>1. exec'.at # "idle" /\ ~AcceptRun
    BY <1>4, StaysAccepted DEF AcceptRun, At
  <2> QED BY <1>1, <1>4, <2>1, TraceSeen, TraceQuiet, TrailSteps
<1> QED BY <1>2, <1>3, <1>4

LEMMA TraceInvariance == Spec => []TraceInv
PROOF
<1>1. Init => TraceInv
  <2>1. Init => exec.at = "idle" /\ call = NoCall
    <3>1. Init => exec = Idle /\ call = NoCall
      BY DEF Init
    <3>2. Idle.at = "idle"
      BY DEF Idle
    <3> QED BY <3>1, <3>2
  <2> QED BY <2>1 DEF TraceInv, Ahead, Open, HasAll, Working, InDocument
<1> QED BY <1>1, TraceNext, RecordInvariance, CallsInvariance, TrailInvariance, PTL DEF Spec

\* The record is the worker's account: of every document it holds what its worker
\* said, in that order and without a gap, and everything once the document has a
\* result, however long the traces and however small the queue and the pipe.
THEOREM AccountKept == Spec => []TraceKept
PROOF
<1>1. RecordInv /\ TraceInv => TraceKept
  <2> SUFFICES ASSUME RecordInv, TraceInv, Recorded, NEW i \in DOMAIN saved.docs
               PROVE  Faithful(i) /\ (HasResult(i) => Whole(i))
    BY DEF TraceKept, Faithful, Whole, HasResult, ToldOf
  <2>1. exec.at # "idle" /\ DOMAIN saved.docs = 1..Size
    BY DEF RecordInv, Recorded, IsRun
  <2> QED BY <2>1 DEF TraceInv
<1> QED BY <1>1, TraceInvariance, RecordInvariance, PTL
-----------------------------------------------------------------------------
(***************************************************************************)
(* What is read.                                                           *)
(***************************************************************************)
LEMMA InputsAreSound ==
  ASSUME NEW input \in Inputs
  PROVE  input.file \in File /\ Sound(input.file.units) /\ input.id \in Docs
PROOF
<1>1. DocumentInput(input)
  BY JobsAssumption
<1>2. input.file \in File /\ input.id \in Docs
      /\ \A i \in DOMAIN input.file.units : WellFormed(input.file.units[i])
  BY <1>1 DEF DocumentInput
<1>3. input.file.units \in Seq(SourceUnit)
  BY <1>2 DEF File
<1> QED BY <1>2, <1>3 DEF Sound

LEMMA FirstReadingIs ==
  ASSUME NEW input \in Inputs
  PROVE  IsReading(input.file, FirstReading[input])
PROOF
<1>1. FirstReading[input] = ExtractDocument(input.file, input.expected)
  BY DEF FirstReading
<1> QED BY <1>1, InputsAreSound, FirstIsReading

\* The source of the document under way is stored.
Stored ==
  \/ exec.at \in {"ready", "calling", "called", "asking"}
  \/ exec.at = "ended" /\ exec.result # NoResult

ReadInv ==
  /\ Stored => Doc.original = TRUE
  /\ exec.at \in {"called", "asking"} => exec.result = FirstReading[Input]
  /\ exec.at = "asking" => Asks(exec.result)
  /\ exec.at = "ended" /\ exec.result # NoResult => IsReading(Input.file, exec.result)
  /\ exec.at # "idle" => \A i \in 1..Size :
       HasResult(i) => /\ IsReading(Job.inputs[i].file, saved.docs[i].result)
                       /\ saved.docs[i].original = TRUE
  /\ exec.at # "idle" => \A i \in 1..Size : saved.docs[i].original \in BOOLEAN

LEMMA InputOf ==
  RecordInv =>
    /\ exec.at \in InDocument => Input \in Inputs /\ exec.n \in 1..Size
    /\ \A i \in 1..Size : Job.inputs[i] \in Inputs
PROOF
<1> SUFFICES ASSUME RecordInv
             PROVE  /\ exec.at \in InDocument => Input \in Inputs /\ exec.n \in 1..Size
                    /\ \A i \in 1..Size : Job.inputs[i] \in Inputs
  OBVIOUS
<1>1. Job.inputs \in Seq(Inputs) /\ DOMAIN Job.inputs = 1..Size
  BY JobsHaveInputs DEF RecordInv, Job, Size
<1>2. \A i \in 1..Size : Job.inputs[i] \in Inputs
  <2>1. PICK s \in Seq(Inputs) : s = Job.inputs
    BY <1>1
  <2>2. \A i \in DOMAIN s : s[i] \in Inputs
    OBVIOUS
  <2> QED BY <1>1, <2>1, <2>2
<1> QED BY <1>2, SizeIsNat DEF Input

LEMMA StoredSteps ==
  ASSUME RecordInv, ReadInv, [Next]_vars, Stored'
  PROVE  /\ exec'.n = exec.n /\ exec.n \in 1..Size /\ exec.at \in InDocument
         /\ Stored \/ saved'.docs[exec.n].original = TRUE
PROOF
<1> USE DEF Stored
<1>1. IsExec(exec) /\ (exec.at \in InDocument => exec.n \in 1..Size /\ exec.at # "idle")
  BY SizeIsNat DEF RecordInv, InDocument
<1> DEFINE Wanted == /\ exec'.n = exec.n /\ exec.at \in InDocument
                     /\ Stored \/ saved'.docs[exec.n].original = TRUE
<1> SUFFICES Wanted
  BY <1>1 DEF InDocument
<1>2. CASE StoreUpload \/ Prepare \/ NextDocument
  BY <1>1, <1>2 DEF StoreUpload, Prepare, NextDocument, At, Goes, Fails, IsExec
<1>3. CASE BeginRead
  <2>1. exec.at = "started" /\ exec.n \in 1..Size /\ exec.at # "idle"
    BY <1>1, <1>3 DEF BeginRead, At, InDocument
  <2>2. \/ exec' = [exec EXCEPT !.at = "ended", !.error = "RUN_TIMEOUT", !.result = NoResult]
        \/ exec' = [exec EXCEPT !.at = "ready"] /\ Doc.original /\ UNCHANGED saved
        \/ exec' = [exec EXCEPT !.at = "reading"]
    BY <1>3 DEF BeginRead, Goes, Gives, KeepsRun
  <2>3. Doc.original \in BOOLEAN
    BY <2>1 DEF ReadInv, Doc
  <2>4. CASE Doc.original
    <3>1. Doc.original = TRUE
      BY <2>3, <2>4
    <3> QED BY <1>1, <2>1, <2>2, <3>1 DEF IsExec, Doc, InDocument
  <2>5. CASE ~Doc.original
    BY <1>1, <2>1, <2>2, <2>5 DEF IsExec
  <2> QED BY <2>4, <2>5
<1>4. CASE EndRead
  <2>1. exec.at = "reading" /\ exec.n \in 1..Size /\ exec.at # "idle"
    BY <1>1, <1>4 DEF EndRead, At, InDocument
  <2>2. CASE \E code : Gives(code)
    BY <1>1, <2>1, <2>2 DEF Gives, IsExec
  <2>3. CASE /\ Goes("ready")
             /\ \E event : SavesDoc([Doc EXCEPT !.original = TRUE], <<event>>)
    <3>1. PICK doc, event : doc = [Doc EXCEPT !.original = TRUE] /\ SavesDoc(doc, <<event>>)
      BY <2>3
    <3>2. IsRun(saved, Size) /\ Size \in Nat
      BY <2>1, SizeIsNat DEF RecordInv
    <3>3. IsDoc(doc) /\ doc.original = TRUE
      <4>1. IsDoc(Doc)
        BY <2>1, <3>2 DEF IsRun, Doc
      <4> QED BY <3>1, <4>1 DEF IsDoc
    <3>4. PICK run : run = WithDoc(exec.n, doc)
      OBVIOUS
    <3>5. saved' = run
      BY <3>1, <3>4 DEF SavesDoc, Save, WithDoc
    <3>6. run.docs[exec.n] = doc
      BY <2>1, <3>2, <3>3, <3>4, DocReplaced
    <3>7. exec'.n = exec.n
      BY <1>1, <2>3 DEF Goes, IsExec
    <3> QED BY <2>1, <3>3, <3>5, <3>6, <3>7 DEF InDocument
  <2> QED BY <1>4, <2>2, <2>3 DEF EndRead
<1>5. CASE StartWorker \/ CallReturns
  BY <1>1, <1>5 DEF StartWorker, CallReturns, At, Goes, Gives, IsExec, InDocument
<1>6. CASE Consult \/ TextAnswered \/ VisionAnswered \/ AIFails \/ EndDocument
  BY <1>1, <1>6 DEF Consult, TextAnswered, VisionAnswered, AIFails, EndDocument, Answered,
     Unanswered, At, Goes, Gives, IsExec, InDocument
<1>7. CASE Conclude \/ Analyze \/ FinishRun \/ FailRun \/ FailRunFails \/ CheckRecording \/ SaveFails
  <2>1. ASSUME Conclude PROVE exec'.at \in {"analyzing", "finishing"}
    BY <1>1, <2>1 DEF Conclude, IsExec
  <2>2. ASSUME Analyze PROVE exec'.at \in {"finishing", "failing"}
    BY <1>1, <2>2 DEF Analyze, Goes, Fails, IsExec
  <2>3. ASSUME FinishRun \/ FailRun \/ FailRunFails \/ CheckRecording \/ SaveFails
        PROVE  exec'.at \in {"over", "unrecorded", "failing"}
    BY <1>1, <2>3 DEF FinishRun, FailRun, FailRunFails, CheckRecording, SaveFails, Goes, Fails, IsExec
  <2> QED BY <1>7, <2>1, <2>2, <2>3
<1>8. CASE Observe
  <2>1. UNCHANGED exec \/ exec' = [exec EXCEPT !.error = "PROCESSING_FAILED"]
    BY <1>8 DEF Observe
  <2>2. exec.at = "calling"
    BY <1>8 DEF Observe, At
  <2> QED BY <1>1, <2>1, <2>2 DEF IsExec, InDocument
<1>9. CASE ObserveFails \/ AcceptRun
  BY <1>1, <1>9 DEF ObserveFails, AcceptRun, At, IsExec, InDocument
<1>10. CASE ConsumerStep \/ ReaderThread \/ TimerThread \/ WorkerProcess \/ WorkerFails \/ Receive
           \/ Poll \/ RunDeadline \/ Stop \/ Restart \/ UNCHANGED vars
  <2>1. UNCHANGED exec
    BY <1>10 DEF ConsumerStep, ReaderThread, TimerThread, WorkerProcess, WorkerFails, Receive,
       Poll, RunDeadline, Stop, Restart, vars
  <2> QED BY <2>1 DEF InDocument
<1>11. CASE Down
  BY <1>11 DEF Down, Idle
<1> QED BY <1>2, <1>3, <1>4, <1>5, <1>6, <1>7, <1>8, <1>9, <1>10, <1>11 DEF Next, Executor, Consumer

\* Where the result of the document under way comes from.
Consulted ==
  \/ exec.at \in {"called", "asking"}
  \/ exec.at = "ended" /\ exec.result # NoResult

Comes ==
  /\ exec'.at \in {"called", "asking"} => exec'.result = FirstReading[Input]
  /\ exec'.at = "asking" => Asks(exec'.result)
  /\ exec'.at = "ended" => IsReading(Input.file, exec'.result)

LEMMA ConsultComes ==
  ASSUME RecordInv, ReadInv, Consult, Consulted'
  PROVE  Comes
PROOF
<1>1. /\ IsExec(exec) /\ exec.at = "called" /\ exec.result = FirstReading[Input]
      /\ Input \in Inputs
  BY InputOf DEF RecordInv, ReadInv, Consult, At, InDocument
<1>2. IsReading(Input.file, exec.result)
  BY <1>1, FirstReadingIs
<1>3. CASE Goes("ended")
  <2>1. exec'.at = "ended" /\ exec'.result = exec.result
    BY <1>1, <1>3 DEF Goes, IsExec
  <2> QED BY <1>2, <2>1 DEF Comes
<1>4. CASE Gives("AI_TIMEOUT")
  <2>1. exec'.at = "ended" /\ exec'.result = NoResult
    BY <1>1, <1>4 DEF Gives, IsExec
  <2> QED BY <2>1 DEF Consulted
<1>5. CASE exec' = [exec EXCEPT !.at = "ended", !.result = InputTooLarge(exec.result)]
  <2>1. exec'.at = "ended" /\ exec'.result = InputTooLarge(exec.result)
    BY <1>1, <1>5 DEF IsExec
  <2> QED BY <1>2, <2>1, TooLargeIsReading DEF Comes
<1>6. CASE Goes("asking") /\ Asks(exec.result)
  <2>1. exec'.at = "asking" /\ exec'.result = exec.result
    BY <1>1, <1>6 DEF Goes, IsExec
  <2> QED BY <1>1, <1>6, <2>1 DEF Comes
<1> QED BY <1>3, <1>4, <1>5, <1>6 DEF Consult

LEMMA AnswerComes ==
  ASSUME RecordInv, ReadInv, TextAnswered \/ VisionAnswered, Consulted'
  PROVE  Comes
PROOF
<1>1. /\ IsExec(exec) /\ exec.at = "asking" /\ exec.result = FirstReading[Input]
      /\ Input \in Inputs /\ Asks(exec.result)
  BY InputOf DEF RecordInv, ReadInv, TextAnswered, VisionAnswered, At, InDocument
<1>2. IsReading(Input.file, exec.result) /\ Sound(Input.file.units)
  BY <1>1, FirstReadingIs, InputsAreSound
<1>3. ASSUME NEW result, NEW stage, Answered(result, stage)
      PROVE  exec'.at = "ended" /\ exec'.result = result
  BY <1>1, <1>3 DEF Answered, IsExec
<1>4. ASSUME NEW failure, NEW stage, Unanswered(failure, stage) PROVE FALSE
  <2>1. exec'.at = "ended" /\ exec'.result = NoResult
    BY <1>1, <1>4 DEF Unanswered, Gives, IsExec
  <2> QED BY <2>1 DEF Consulted
<1>5. CASE TextAnswered
  <2>1. PICK answer \in TextAnswers :
          \/ Answered(ApplyText(exec.result, answer, Input.file.units), "text_provider")
          \/ Unanswered("invalid", "text_provider")
    BY <1>5 DEF TextAnswered
  <2>2. exec'.at = "ended" /\ exec'.result = ApplyText(exec.result, answer, Input.file.units)
    BY <1>3, <1>4, <2>1
  <2>3. answer \in SUBSET TextCandidate
    BY JobsAssumption
  <2> QED BY <1>2, <2>2, <2>3, TextIsReading DEF Comes
<1>6. CASE VisionAnswered
  <2>1. PICK answer \in VisionAnswers :
          \/ Answered(ApplyVision(exec.result, answer, Input.expected), "vision_provider")
          \/ Unanswered("invalid", "vision_provider")
    BY <1>6 DEF VisionAnswered
  <2>2. exec'.at = "ended" /\ exec'.result = ApplyVision(exec.result, answer, Input.expected)
    BY <1>3, <1>4, <2>1
  <2>3. exec.result.status = "NO_USABLE_TEXT" /\ Input.file.suffix = "pdf"
    BY <1>1, <1>6 DEF VisionAnswered, Asks
  <2> QED BY <1>2, <2>2, <2>3, VisionIsReading DEF Comes
<1> QED BY <1>5, <1>6

LEMMA ResultComes ==
  ASSUME RecordInv, ReadInv, [Next]_vars, Consulted', Job' = Job
  PROVE  exec'.n = exec.n /\ Input \in Inputs /\ Comes
PROOF
<1> USE DEF Consulted
<1>1. IsExec(exec) /\ (exec.at \in InDocument => Input \in Inputs)
  BY InputOf DEF RecordInv
<1>2. exec'.n = exec.n /\ exec.at \in InDocument
  <2>1. Stored'
    BY DEF Stored
  <2> QED BY <2>1, StoredSteps
<1> SUFFICES Comes
  BY <1>1, <1>2
<1>3. CASE UNCHANGED exec
  BY <1>3 DEF ReadInv, Comes
<1>4. CASE CallReturns
  <2>1. \/ exec' = [exec EXCEPT !.at = "failing"]
        \/ exec' = [exec EXCEPT !.at = "ended", !.error = CallError(call), !.result = NoResult]
        \/ exec' = [exec EXCEPT !.at = "called", !.result = FirstReading[Input]]
    BY <1>4 DEF CallReturns, Goes, Gives
  <2>2. exec'.at = "called" /\ exec'.result = FirstReading[Input]
    BY <1>1, <2>1 DEF IsExec
  <2> QED BY <2>2 DEF Comes
<1>5. CASE Consult \/ TextAnswered \/ VisionAnswered
  BY <1>5, ConsultComes, AnswerComes
<1>6. CASE StoreUpload \/ Prepare \/ NextDocument \/ BeginRead \/ EndRead \/ StartWorker
  BY <1>1, <1>6 DEF StoreUpload, Prepare, NextDocument, BeginRead, EndRead, StartWorker, At, Goes,
     Gives, Fails, IsExec
<1>7. CASE AIFails \/ EndDocument
  <2>1. (\E code : Gives(code)) \/ Goes("next")
    BY <1>7 DEF AIFails, EndDocument, Unanswered
  <2> QED BY <1>1, <2>1 DEF Goes, Gives, IsExec
<1>8. CASE Conclude \/ Analyze \/ FinishRun \/ FailRun \/ FailRunFails \/ CheckRecording \/ SaveFails
  <2>1. ASSUME Conclude PROVE exec'.at \in {"analyzing", "finishing"}
    BY <1>1, <2>1 DEF Conclude, IsExec
  <2>2. ASSUME Analyze PROVE exec'.at \in {"finishing", "failing"}
    BY <1>1, <2>2 DEF Analyze, Goes, Fails, IsExec
  <2>3. ASSUME FinishRun \/ FailRun \/ FailRunFails \/ CheckRecording \/ SaveFails
        PROVE  exec'.at \in {"over", "unrecorded", "failing"}
    BY <1>1, <2>3 DEF FinishRun, FailRun, FailRunFails, CheckRecording, SaveFails, Goes, Fails, IsExec
  <2> QED BY <1>8, <2>1, <2>2, <2>3
<1>9. CASE Observe \/ ObserveFails \/ AcceptRun
  <2>1. ASSUME Observe \/ ObserveFails PROVE exec'.at = "calling"
    <3>1. exec.at = "calling" /\ (UNCHANGED exec \/ \E e : exec' = [exec EXCEPT !.error = e])
      BY <2>1 DEF Observe, ObserveFails, At
    <3> QED BY <1>1, <3>1 DEF IsExec
  <2>2. ASSUME AcceptRun PROVE exec'.at \in {"storing", "prepare"}
    BY <1>1, <2>2 DEF AcceptRun, IsExec
  <2> QED BY <1>9, <2>1, <2>2
<1>10. CASE ConsumerStep \/ ReaderThread \/ TimerThread \/ WorkerProcess \/ WorkerFails \/ Receive
           \/ Poll \/ RunDeadline \/ Stop \/ Restart \/ UNCHANGED vars
  <2>1. UNCHANGED exec
    BY <1>10 DEF ConsumerStep, ReaderThread, TimerThread, WorkerProcess, WorkerFails, Receive,
       Poll, RunDeadline, Stop, Restart, vars
  <2> QED BY <1>3, <2>1
<1>11. CASE Down
  BY <1>11 DEF Down, Idle
<1> QED BY <1>1, <1>2, <1>4, <1>5, <1>6, <1>7, <1>8, <1>9, <1>10, <1>11 DEF Next, Executor, Consumer

-----------------------------------------------------------------------------
LEMMA ReadAccepted ==
  ASSUME RecordInv, AcceptRun, Size' = Size
  PROVE  ReadInv'
PROOF
<1>1. exec'.at \in {"prepare", "storing"}
  BY AcceptStep
<1>2. DOMAIN Job.inputs = 1..Size
  BY SizeIsNat
<1>3. saved' = [status |-> "RUNNING", docs |-> [i \in 1..Size |-> NewDoc], issues |-> {},
                analysis |-> NoAnalysis]
  BY <1>2 DEF AcceptRun, Create, NewRun
<1>4. NewDoc.result = NoResult /\ NewDoc.original = FALSE
  BY DEF NewDoc
<1>5. \A i \in 1..Size : saved'.docs[i].result = NoResult /\ saved'.docs[i].original \in BOOLEAN
  BY <1>3, <1>4
<1> QED BY <1>1, <1>5 DEF ReadInv, Stored, HasResult

LEMMA ReadNext == RecordInv /\ ReadInv /\ [Next]_vars => ReadInv'
PROOF
<1> SUFFICES ASSUME RecordInv, ReadInv, [Next]_vars PROVE ReadInv'
  OBVIOUS
<1>1. Job' = Job /\ Size' = Size
  BY BackendSteps DEF BackendStep, Job, Size
<1>2. CASE exec.at = "idle"
  <2>1. CASE AcceptRun
    BY <1>1, <2>1, ReadAccepted
  <2>2. CASE ~AcceptRun
    <3>1. exec'.at = "idle"
      BY <1>2, <2>2, RecordSteps, NextStep, StoreStep DEF RecordStep, Moves, Finishes, InDocument
    <3> QED BY <3>1 DEF ReadInv, Stored
  <2> QED BY <2>1, <2>2
<1>3. CASE exec.at # "idle"
  <2>1. Stored' => Doc'.original = TRUE
    <3> SUFFICES ASSUME Stored' PROVE saved'.docs[exec'.n].original = TRUE
      BY DEF Doc
    <3>1. /\ exec'.n = exec.n /\ exec.n \in 1..Size
          /\ Stored \/ saved'.docs[exec.n].original = TRUE
      BY StoredSteps
    <3>2. CASE Stored
      <4>1. saved.docs[exec.n].original = TRUE
        BY <3>2 DEF ReadInv, Doc
      <4> QED BY <1>3, <3>1, <4>1, ResultSteps DEF KeepsResult
    <3> QED BY <3>1, <3>2
  <2>2. /\ exec'.at \in {"called", "asking"} => exec'.result = FirstReading[Input']
        /\ exec'.at = "asking" => Asks(exec.result)'
        /\ exec'.at = "ended" /\ exec'.result # NoResult => IsReading(Input'.file, exec'.result)
    <3>1. ASSUME Consulted' PROVE Input' = Input /\ Comes
      <4>1. exec'.n = exec.n /\ Comes
        BY <1>1, <3>1, ResultComes
      <4> QED BY <1>1, <4>1 DEF Input
    <3>2. Input' = Input => (Asks(exec.result)' <=> Asks(exec'.result))
      BY DEF Asks
    <3> QED BY <3>1, <3>2 DEF Consulted, Comes
  <2>3. ASSUME NEW i \in 1..Size, HasResult(i)'
        PROVE  /\ IsReading(Job.inputs[i].file, saved'.docs[i].result)
               /\ saved'.docs[i].original = TRUE
    <3>1. CASE KeepsResult(saved')
      BY <1>3, <2>3, <3>1 DEF ReadInv, HasResult, KeepsResult
    <3>2. CASE exec.at = "ended" /\ saved'.docs[exec.n].result = exec.result
               /\ saved'.docs[exec.n].original = saved.docs[exec.n].original
               /\ \A j \in 1..Size : j # exec.n => saved'.docs[j] = saved.docs[j]
      <4>1. CASE i = exec.n
        BY <2>3, <3>2, <4>1 DEF ReadInv, HasResult, Stored, Doc, Input
      <4>2. CASE i # exec.n
        BY <1>3, <2>3, <3>2, <4>2 DEF ReadInv, HasResult
      <4> QED BY <4>1, <4>2
    <3> QED BY <1>3, <3>1, <3>2, ResultSteps
  <2>4. \A i \in 1..Size : saved'.docs[i].original \in BOOLEAN
    BY <1>3, ResultSteps DEF ReadInv, KeepsResult
  <2> QED BY <1>1, <2>1, <2>2, <2>3, <2>4 DEF ReadInv
<1> QED BY <1>2, <1>3

LEMMA ReadInvariance == Spec => []ReadInv
PROOF
<1>1. Init => ReadInv
  <2>1. Init => exec.at = "idle"
    <3>1. Idle.at = "idle"
      BY DEF Idle
    <3>2. Init => exec = Idle
      BY DEF Init
    <3> QED BY <3>1, <3>2
  <2> QED BY <2>1 DEF ReadInv, Stored
<1> QED BY <1>1, ReadNext, RecordInvariance, PTL DEF Spec

\* The documents that have a result are read from their inputs.
LEMMA ReadDocs ==
  ASSUME RecordInv, ReadInv, NEW i \in Read
  PROVE  /\ i \in 1..Size /\ Job.inputs[i] \in Inputs
         /\ IsReading(Job.inputs[i].file, saved.docs[i].result)
         /\ saved.docs[i].original = TRUE /\ saved.docs[i].result # NoResult
PROOF
<1>1. Recorded /\ i \in DOMAIN saved.docs /\ saved.docs[i].result # NoResult
  BY DEF Read
<1>2. exec.at # "idle"
  BY <1>1, NotRecorded DEF RecordInv, Recorded
<1>3. DOMAIN saved.docs = 1..Size
  BY <1>2 DEF RecordInv, IsRun
<1> QED BY <1>1, <1>2, <1>3, InputOf DEF ReadInv, HasResult

\* A value that counts without a human is in the source cited for it, and the source of
\* every result is kept, the page when a candidate was read from one; whatever the
\* documents and whatever Gemini answers (extract_fields, apply_text_candidates,
\* apply_visual_candidates, run).
THEOREM ValuesAreSourced == Spec => []NothingInvented
PROOF
<1>1. RecordInv /\ ReadInv => NothingInvented
  <2> SUFFICES ASSUME RecordInv, ReadInv PROVE NothingInvented
    OBVIOUS
  <2>1. ASSUME NEW i \in Read, NEW key \in Fields,
               saved.docs[i].result.rows[key].state = "PRESENT",
               ~saved.docs[i].result.rows[key].needs
        PROVE  Holds(key, saved.docs[i].result.rows[key].norm,
                     Quoted(Job.inputs[i], saved.docs[i].result.rows[key]))
    <3>1. Sourced(Job.inputs[i].file.units, key, saved.docs[i].result.rows[key])
      BY ReadDocs DEF IsReading
    <3> QED BY <2>1, <3>1 DEF Sourced, Quoted
  <2>2. ASSUME NEW i \in Read
        PROVE  /\ Original(i) # "missing"
               /\ ByVision(saved.docs[i].result) => Original(i) = "inline"
    <3>1. /\ saved.docs[i].original = TRUE /\ saved.docs[i].result # NoResult
          /\ IsReading(Job.inputs[i].file, saved.docs[i].result)
      BY ReadDocs
    <3>2. Original(i) \in {"inline", "attachment"}
      BY <3>1 DEF Original
    <3>3. ASSUME ByVision(saved.docs[i].result) PROVE Original(i) = "inline"
      <4>1. Job.inputs[i].file.suffix = "pdf" /\ saved.docs[i].result.status = "NO_USABLE_TEXT"
        BY <3>1, <3>3 DEF ByVision, IsReading
      <4> QED BY <3>1, <4>1 DEF Original
    <3> QED BY <3>2, <3>3
  <2> QED BY <2>1, <2>2 DEF NothingInvented, Holds
<1> QED BY <1>1, RecordInvariance, ReadInvariance, PTL

\* What a label says alone is a candidate of its field.
LEMMA SayingsAreCandidates ==
  ASSUME NEW file, Sound(file.units), NEW key \in Fields, NEW saying \in Sayings(file, key)
  PROVE  \E c \in Chosen(Candidates(file.units), key) :
           Normal(key, c).state = "PRESENT" => Normal(key, c) = saying
PROOF
<1>1. PICK line \in OwnLines(file.units) :
        /\ IsLabel(line) /\ line.key = key /\ line.rest # <<>>
        /\ Totals(file, key) => line.total
        /\ saying = Normal(key, Candidate(0, line, line.rest, {}, FALSE, FALSE))
  BY DEF Sayings
<1>2. PICK units : units = file.units
  OBVIOUS
<1>a. IsLabel(line) /\ line.rest # <<>>
  BY <1>1
<1>3. ReadAlone(units, line)
  <2>1. CASE \E i \in DOMAIN units : /\ units[i].row > 0 /\ ~units[i].formula
                                     /\ line = units[i].lines[1]
    <3>1. PICK i \in DOMAIN units : /\ units[i].row > 0 /\ ~units[i].formula
                                    /\ line = units[i].lines[1]
      BY <2>1
    <3>2. IsLabel(line) /\ line.rest # <<>>
      BY <1>a
    <3> QED BY ONLY <3>1, <3>2, CellAlone
  <2>2. CASE \E i \in DOMAIN Fragments(units) :
               /\ line = Fragments(units)[i].line
               /\ i = Len(Fragments(units)) \/ Ends(Fragments(units), i + 1)
    <3>1. PICK frags : frags = Fragments(units)
      OBVIOUS
    <3>2. PICK i \in DOMAIN frags : /\ line = frags[i].line
                                    /\ i = Len(frags) \/ Ends(frags, i + 1)
      BY <2>2, <3>1
    <3>3. Sound(units)
      BY <1>2
    <3>4. IsLabel(line)
      BY <1>a
    <3> QED BY ONLY <3>1, <3>2, <3>3, <3>4, LineAlone
  <2>3. line \in OwnLines(units)
    BY <1>1, <1>2
  <2> QED BY <2>1, <2>2, <2>3 DEF OwnLines
<1>4. PICK c \in Candidates(units) : c.line = line /\ c.raw = line.rest /\ c.formula = FALSE
  BY <1>3 DEF ReadAlone
<1>5. c \in Chosen(Candidates(units), key)
  <2>1. \A d \in Candidates(units) : d.line \in LinesOf(Pieces(units))
    BY <1>2, CandidatesRooted DEF Rooted
  <2>2. c \in OfField(Candidates(units), key)
    BY <1>1, <1>4 DEF OfField
  <2>3. ASSUME key = Weight, NEW d \in OfField(Candidates(units), key), d.line.total
        PROVE  c.line.total
    <3>1. d.line \in LinesOf(Pieces(units)) /\ d.line.key = key
      BY <2>1 DEF OfField
    <3>2. Totals(file, key)
      BY <1>2, <2>3, <3>1 DEF Totals
    <3> QED BY <1>1, <1>4, <3>2
  <2> QED BY <2>2, <2>3 DEF Chosen
<1>6. PICK d : d = Candidate(0, line, line.rest, {}, FALSE, FALSE)
  OBVIOUS
<1>7. d.line = c.line /\ d.raw = c.raw /\ d.formula = FALSE /\ ~d.table
  BY <1>4, <1>6 DEF Candidate
<1>8. Normal(key, c).state = "PRESENT" => Normal(key, d) = Normal(key, c)
  BY <1>4, <1>7, NormalAlone
<1> QED BY <1>1, <1>2, <1>5, <1>6, <1>8

\* A source that says two things of a field is not decided by rules, in whatever units
\* it says them (extract_fields; README.md:457, conflicting totals stay unresolved).
THEOREM NothingIsPicked == Spec => []ConflictsStayOpen
PROOF
<1>1. RecordInv /\ ReadInv => ConflictsStayOpen
  <2> SUFFICES ASSUME RecordInv, ReadInv, NEW i \in Read, NEW key \in Fields,
                      NEW file, file = Job.inputs[i].file,
                      NEW row, row = saved.docs[i].result.rows[key],
                      row.state = "PRESENT", row.method = "rule",
                      NEW x \in Sayings(file, key), NEW y \in Sayings(file, key)
               PROVE  x = y
    BY DEF ConflictsStayOpen
  <2>1. Sound(file.units) /\ Decided(file.units, key, row)
    BY ReadDocs, InputsAreSound DEF IsReading
  <2>2. \A c, d \in Chosen(Candidates(file.units), key) :
          Normal(key, c).state = "PRESENT" /\ Normal(key, c) = Normal(key, d)
    BY <2>1 DEF Decided
  <2>3. PICK c \in Chosen(Candidates(file.units), key) :
          Normal(key, c).state = "PRESENT" => Normal(key, c) = x
    BY <2>1, SayingsAreCandidates
  <2>4. PICK d \in Chosen(Candidates(file.units), key) :
          Normal(key, d).state = "PRESENT" => Normal(key, d) = y
    BY <2>1, SayingsAreCandidates
  <2> QED BY <2>2, <2>3, <2>4
<1> QED BY <1>1, RecordInvariance, ReadInvariance, PTL

-----------------------------------------------------------------------------
\* What a save does to the analysis: only Analyze replaces it.
LEMMA AnalysisSteps ==
  ASSUME RecordInv, [Next]_vars, exec.at # "idle"
  PROVE  saved'.analysis = saved.analysis \/ Analyze
PROOF
<1>1. IsRun(saved, Size) /\ Size \in Nat
  BY SizeIsNat DEF RecordInv
<1>2. ASSUME KeepsRun \/ (\E events : Save(saved, events)) \/ UNCHANGED saved
      PROVE  saved'.analysis = saved.analysis
  BY <1>2 DEF KeepsRun, Save
<1>3. ASSUME NEW n, NEW doc, saved' = [saved EXCEPT !.docs[n] = doc]
      PROVE  saved'.analysis = saved.analysis
  BY <1>1, <1>3 DEF IsRun
<1>4. ASSUME NEW doc, NEW events, SavesDoc(doc, events)
      PROVE  saved'.analysis = saved.analysis
  BY <1>3, <1>4 DEF SavesDoc, Save
<1>5. ASSUME NEW status, NEW code, saved' = GivenUp(saved, status, code)
      PROVE  saved'.analysis = saved.analysis
  BY <1>1, <1>5 DEF GivenUp, IsRun
<1>6. CASE StoreUpload \/ EndRead \/ StartWorker \/ Observe \/ EndDocument
  <2>1. \/ KeepsRun \/ \E events : Save(saved, events)
        \/ \E doc, events : SavesDoc(doc, events)
    BY <1>6 DEF StoreUpload, EndRead, StartWorker, Observe, EndDocument, Records
  <2> QED BY <1>2, <1>4, <2>1
<1>7. CASE Prepare \/ BeginRead \/ Consult \/ TextAnswered \/ VisionAnswered \/ AIFails
           \/ CallReturns
  BY <1>2, <1>7 DEF Prepare, BeginRead, Consult, TextAnswered, VisionAnswered, AIFails, CallReturns,
     Answered, Unanswered, Records, KeepsRun
<1>8. CASE NextDocument
  <2>1. CASE KeepsRun
    BY <1>2, <2>1
  <2>2. CASE ~KeepsRun
    <3>1. saved' = [saved EXCEPT !.docs[exec.n + 1].status = "RUNNING"]
      BY <1>8, <2>2 DEF NextDocument, Save
    <3> QED BY <1>1, <3>1 DEF IsRun
  <2> QED BY <2>1, <2>2
<1>9. CASE Conclude
  <2>1. KeepsRun \/ \E issues : saved' = [saved EXCEPT !.issues = issues]
    BY <1>9 DEF Conclude, Save
  <2> QED BY <1>1, <1>2, <2>1 DEF IsRun
<1>10. CASE FinishRun \/ FailRun \/ CheckRecording \/ Restart
  <2>1. \/ KeepsRun
        \/ saved' = [saved EXCEPT !.status = exec.outcome]
        \/ \E status, code : saved' = GivenUp(saved, status, code)
    BY <1>10 DEF FinishRun, FailRun, CheckRecording, Restart, Save, Interrupted, FailedRun
  <2>2. ASSUME saved' = [saved EXCEPT !.status = exec.outcome]
        PROVE  saved'.analysis = saved.analysis
    BY <1>1, <2>2 DEF IsRun
  <2> QED BY <1>2, <1>5, <2>1, <2>2
<1>11. CASE ConsumerStep \/ ObserveFails \/ ReaderThread \/ TimerThread \/ WorkerProcess
            \/ WorkerFails \/ SaveFails \/ FailRunFails
  BY <1>2, <1>11 DEF ConsumerStep, ObserveFails, ReaderThread, TimerThread, WorkerProcess,
     WorkerFails, SaveFails, FailRunFails
<1>12. CASE Receive \/ Poll \/ RunDeadline \/ Stop \/ Down \/ UNCHANGED vars
  BY <1>2, <1>12 DEF Receive, Poll, RunDeadline, Stop, Down, vars
<1>13. ~AcceptRun
  BY DEF AcceptRun, At
<1> QED BY <1>6, <1>7, <1>8, <1>9, <1>10, <1>11, <1>12, <1>13 DEF Next, Executor, Consumer

LEMMA TheOnlyOne ==
  ASSUME NEW id \in Docs PROVE TheOnly({id}) = id
PROOF
<1>1. PICK options : options = {id}
  OBVIOUS
<1>2. \A d \in Docs : options = {d} => d = id
  BY <1>1
<1>3. \E d \in Docs : options = {d}
  BY <1>1
<1>4. PICK d : d = CHOOSE e \in Docs : options = {e}
  OBVIOUS
<1>5. d \in Docs /\ options = {d}
  BY <1>3, <1>4
<1>6. TheOnly(options) = d
  BY <1>3, <1>4 DEF TheOnly
<1> QED BY <1>1, <1>2, <1>5, <1>6

\* A document that is the only one compared under its role is asked about every value
\* for which it has an issue.
LEMMA OpenSidesAreAsked ==
  ASSUME NEW docs, NEW reading, NEW pair, NEW role \in Role, NEW id \in Docs,
         Options(docs, reading, role, pair) = {id},
         NEW field \in Compare(docs, reading, pair).fields,
         \/ Settled(reading[id].values[field.key])
         \/ \E issue \in reading[id].issues : issue.field = field.key
  PROVE  \/ Settled(field[role])
         \/ \E req \in Compare(docs, reading, pair).reqs : req.doc = id /\ req.field = field.key
PROOF
<1>1. Selected(docs, reading, role, pair) = id
  BY TheOnlyOne DEF Selected
<1>2. PICK f \in Fields : field = CompareField(docs, reading, pair, f)
  BY DEF Compare
<1>3. field.key = f /\ field[role] = reading[id].values[f]
  <2>1. id # NoDoc
    BY NullsAssumption
  <2>2. SideRead(docs, reading, role, pair, f) = reading[id].values[f]
    BY <1>1, <2>1 DEF SideRead
  <2> QED BY <1>2, <2>2 DEF CompareField, Role
<1>4. ASSUME NEW issue \in reading[id].issues, issue.field = f
      PROVE  \E req \in Compare(docs, reading, pair).reqs : req.doc = id /\ req.field = f
  <2>1. PICK req : req = Demand(issue.code, id, issue.field)
    OBVIOUS
  <2>2. req.doc = id /\ req.field = f
    BY <1>4, <2>1 DEF Demand
  <2>3. id \in {Selected(docs, reading, r, pair) : r \in Role} /\ id \in {docs[i] : i \in DOMAIN docs}
    BY <1>1 DEF Options
  <2>4. req \in DocumentRequirements(docs, reading, pair)
    BY <1>4, <2>1, <2>3 DEF DocumentRequirements
  <2>5. req \in Compare(docs, reading, pair).reqs
    BY <2>4 DEF Compare, CompareRequirements
  <2> QED BY <2>2, <2>5
<1> QED BY <1>3, <1>4

-----------------------------------------------------------------------------
\* ComparedAs and the invariant, of any pair.
Comparable(docs, role, pair) ==
  {d.id : d \in {d \in Pieces(docs) :
     /\ d.role = role
     /\ ~IsPair(pair) \/ role \notin DOMAIN pair \/ d.id = pair[role]}}

Named(analysis, pair) ==
  \A field \in analysis.fields, role \in Role :
    \A id \in Comparable(analysis.docs, role, pair) :
      Comparable(analysis.docs, role, pair) = {id} /\ ~Settled(field[role]) =>
        \E req \in analysis.reqs : req.doc = id /\ req.field = field.key

\* The documents an analysis compares under a role are those the comparison had to
\* choose from.
LEMMA OptionsCompared ==
  ASSUME NEW docs, NEW reading, NEW role, NEW pair
  PROVE  Comparable(Compare(docs, reading, pair).docs, role, pair) =
           Options(docs, reading, role, pair)
PROOF
<1>1. PICK shown : shown = [i \in DOMAIN docs |-> [id |-> docs[i], role |-> reading[docs[i]].role]]
  OBVIOUS
<1>2. Compare(docs, reading, pair).docs = shown
  BY <1>1 DEF Compare
<1>3. \A i \in DOMAIN docs : shown[i].id = docs[i] /\ shown[i].role = reading[docs[i]].role
  BY <1>1
<1>4. DOMAIN shown = DOMAIN docs
  BY <1>1
<1>5. ASSUME NEW id \in Comparable(shown, role, pair)
      PROVE  id \in Options(docs, reading, role, pair)
  <2>1. PICK d \in Pieces(shown) :
          /\ d.id = id /\ d.role = role
          /\ ~IsPair(pair) \/ role \notin DOMAIN pair \/ d.id = pair[role]
    BY <1>5 DEF Comparable
  <2>2. PICK i \in DOMAIN shown : d = shown[i]
    BY DEF Pieces
  <2> QED BY <1>3, <1>4, <2>1, <2>2 DEF Options
<1>6. ASSUME NEW id \in Options(docs, reading, role, pair)
      PROVE  id \in Comparable(shown, role, pair)
  <2>1. PICK i \in DOMAIN docs :
          /\ docs[i] = id /\ reading[id].role = role
          /\ ~IsPair(pair) \/ role \notin DOMAIN pair \/ id = pair[role]
    BY <1>6 DEF Options
  <2>2. PICK d \in Pieces(shown) : d = shown[i]
    BY <1>4, <2>1 DEF Pieces
  <2>3. d.id = id /\ d.role = role
    BY <1>3, <2>1, <2>2
  <2> QED BY <2>1, <2>2, <2>3 DEF Comparable
<1> QED BY <1>2, <1>5, <1>6

\* What an analysis takes over of a document that it compares.
LEMMA AdaptedIs ==
  ASSUME RecordInv, ReadInv, exec.at # "idle",
         NEW i \in 1..Size, NEW id, Ids[i] = id, Adapted(id).role \in Role, NEW key \in Fields
  PROVE  /\ id \in Docs
         /\ \/ Settled(Adapted(id).values[key])
            \/ \E issue \in Adapted(id).issues : issue.field = key
PROOF
<1>1. DOMAIN Job.inputs = 1..Size
  BY SizeIsNat
<1>2. PICK k \in DOMAIN Job.inputs : k = CHOOSE j \in DOMAIN Job.inputs : Job.inputs[j].id = id
  BY <1>1 DEF Ids
<1>3. PICK result, error : result = saved.docs[k].result /\ error = saved.docs[k].error
  OBVIOUS
<1>4. Adapted(id) = AdaptDocument(result, error)
  BY <1>2, <1>3 DEF Adapted
<1>5. result # NoResult
  <2>1. result = NoResult => AdaptDocument(result, error).role = "none"
    BY DEF AdaptDocument
  <2> QED BY <1>4, <2>1 DEF Role
<1>6. PICK adapted : adapted = Adapted(id)
  OBVIOUS
<1>7. /\ adapted.role \in {"other", result.role}
      /\ adapted.values[key] = [state |-> result.rows[key].state, norm |-> result.rows[key].norm,
                                needs |-> result.rows[key].needs,
                                method |-> result.rows[key].method, supplied |-> FALSE]
      /\ adapted.issues = result.issues
  BY <1>4, <1>5, <1>6 DEF AdaptDocument
<1>8. result.role \in Role
  BY <1>6, <1>7 DEF Role
<1>9. IsReading(Job.inputs[k].file, result)
  BY <1>1, <1>2, <1>3, <1>5 DEF ReadInv, HasResult
<1>10. AskedAbout(result, key)
  BY <1>8, <1>9 DEF IsReading
<1>11. id \in Docs
  <2>1. Job.inputs[i] \in Inputs /\ Job.inputs[i].id = id
    BY <1>1, InputOf DEF Ids
  <2> QED BY <2>1, InputsAreSound
<1> QED BY <1>6, <1>7, <1>10, <1>11 DEF AskedAbout, Settled

LEMMA ComparisonNames ==
  ASSUME RecordInv, ReadInv, exec.at # "idle", NEW pair,
         NEW reading, reading = [id \in {Ids[i] : i \in DOMAIN Ids} |-> Adapted(id)]
  PROVE  Named(Compare(Ids, reading, pair), pair)
PROOF
<1>1. PICK analysis : analysis = Compare(Ids, reading, pair)
  OBVIOUS
<1>2. ASSUME NEW field \in analysis.fields, NEW role \in Role,
             NEW id \in Comparable(analysis.docs, role, pair),
             Comparable(analysis.docs, role, pair) = {id}, ~Settled(field[role])
      PROVE  \E req \in analysis.reqs : req.doc = id /\ req.field = field.key
  <2>1. Options(Ids, reading, role, pair) = {id}
    BY <1>1, <1>2, OptionsCompared
  <2>2. PICK i \in DOMAIN Ids : Ids[i] = id /\ reading[id].role = role
    BY <2>1 DEF Options
  <2>3. reading[id] = Adapted(id) /\ i \in 1..Size
    BY <2>2, SizeIsNat DEF Ids
  <2>4. field \in Compare(Ids, reading, pair).fields
    BY <1>1
  <2>5. PICK f \in Fields : field = CompareField(Ids, reading, pair, f)
    BY <2>4 DEF Compare
  <2>6. field.key = f
    BY <2>5 DEF CompareField
  <2>7. /\ id \in Docs
        /\ \/ Settled(reading[id].values[f])
           \/ \E issue \in reading[id].issues : issue.field = f
    BY <2>2, <2>3, AdaptedIs
  <2>8. PICK docs : docs = Ids
    OBVIOUS
  <2>9. /\ Options(docs, reading, role, pair) = {id}
        /\ field \in Compare(docs, reading, pair).fields
        /\ \/ Settled(reading[id].values[field.key])
           \/ \E issue \in reading[id].issues : issue.field = field.key
    BY <2>1, <2>4, <2>6, <2>7, <2>8
  <2>10. \/ Settled(field[role])
         \/ \E req \in Compare(docs, reading, pair).reqs : req.doc = id /\ req.field = field.key
    BY ONLY <2>7, <2>9, OpenSidesAreAsked
  <2> QED BY <1>1, <1>2, <2>8, <2>10
<1>3. Named(analysis, pair)
  BY <1>2 DEF Named
<1> QED BY <1>1, <1>3

LEMMA AnalyzeNames ==
  ASSUME RecordInv, ReadInv, Analyze
  PROVE  saved'.analysis = saved.analysis \/ Named(saved'.analysis, Job.pair)
PROOF
<1>1. IsRun(saved, Size) /\ exec.at # "idle"
  BY DEF Analyze, At, RecordInv
<1>2. \/ KeepsRun
      \/ \E reading \in {[id \in {Ids[i] : i \in DOMAIN Ids} |-> Adapted(id)]} :
           saved' = [saved EXCEPT !.analysis = IF exec.extract
                                               THEN Compare(Ids, reading, Job.pair)
                                               ELSE NotCompared(FALSE)]
  BY DEF Analyze, Save
<1>3. CASE KeepsRun
  BY <1>3 DEF KeepsRun
<1>4. CASE ~KeepsRun
  <2>1. PICK reading \in {[id \in {Ids[i] : i \in DOMAIN Ids} |-> Adapted(id)]} :
           saved' = [saved EXCEPT !.analysis = IF exec.extract
                                               THEN Compare(Ids, reading, Job.pair)
                                               ELSE NotCompared(FALSE)]
    BY <1>2, <1>4
  <2>2. saved'.analysis \in {Compare(Ids, reading, Job.pair), NotCompared(FALSE)}
    BY <1>1, <2>1 DEF IsRun
  <2>3. Named(Compare(Ids, reading, Job.pair), Job.pair)
    BY <1>1, ComparisonNames
  <2>4. \A pair : Named(NotCompared(FALSE), pair)
    BY DEF Named, NotCompared
  <2> QED BY <2>2, <2>3, <2>4
<1> QED BY <1>3, <1>4

AskInv == exec.at # "idle" /\ saved.analysis # NoAnalysis => Named(saved.analysis, Job.pair)

LEMMA AskNext == RecordInv /\ ReadInv /\ AskInv /\ [Next]_vars => AskInv'
PROOF
<1> SUFFICES ASSUME RecordInv, ReadInv, AskInv, [Next]_vars PROVE AskInv'
  OBVIOUS
<1>1. PICK pair : pair = Job.pair /\ pair = Job.pair'
  BY BackendSteps DEF BackendStep, Job
<1>2. PICK analysis : analysis = saved'.analysis
  OBVIOUS
<1>3. SUFFICES ASSUME exec'.at # "idle", analysis # NoAnalysis PROVE Named(analysis, pair)
  BY <1>1, <1>2 DEF AskInv, NoAnalysis
<1>4. CASE exec.at = "idle"
  <2>1. AcceptRun
    BY <1>3, <1>4, RecordSteps DEF RecordStep, Moves, Finishes, StoreUpload, NextDocument, At,
       InDocument
  <2>2. analysis = NoAnalysis
    BY <1>2, <2>1 DEF AcceptRun, Create, NewRun
  <2> QED BY <1>3, <2>2
<1>5. CASE exec.at # "idle"
  <2>1. analysis = saved.analysis \/ Named(analysis, pair)
    BY <1>1, <1>2, <1>5, AnalysisSteps, AnalyzeNames
  <2> QED BY <1>1, <1>3, <1>5, <2>1 DEF AskInv
<1> QED BY <1>4, <1>5

\* A value of a compared document that is open is named by a requirement of the
\* analysis, with its document (adapt_document, compare), through every way the issues
\* of a result are replaced on the way.
THEOREM OpenFieldsNamed == Spec => []OpenFieldsAreAsked
PROOF
<1>1. Init => AskInv
  <2>1. Idle.at = "idle" /\ (Init => exec = Idle)
    BY DEF Idle, Init
  <2> QED BY <2>1 DEF AskInv
<1>2. RecordInv /\ AskInv => OpenFieldsAreAsked
  <2>1. RecordInv /\ Recorded => exec.at # "idle"
    BY NotRecorded DEF RecordInv, Recorded
  <2>2. \A docs, role : ComparedAs(docs, role) = Comparable(docs, role, Job.pair)
    BY DEF ComparedAs, Comparable
  <2> QED BY <2>1, <2>2 DEF AskInv, Named, OpenFieldsAreAsked
<1> QED BY <1>1, <1>2, AskNext, RecordInvariance, ReadInvariance, PTL DEF Spec
=============================================================================
