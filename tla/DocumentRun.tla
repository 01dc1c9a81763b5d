---------------------------- MODULE DocumentRun ----------------------------
(***************************************************************************)
(* One run of the extraction service over its documents: the upload that   *)
(* may start it, the thread that takes one document after the other        *)
(* through its worker and through Gemini (RunService._execute and what it  *)
(* calls, app/dev_extraction/service.py), the mailbox stages around it     *)
(* (MailboxWorkflow, app/documents/workflow.py), the record of the run and *)
(* the page that follows it.                                               *)
(*                                                                         *)
(* How runs of one email compete is the subject of MailboxRuns; here is    *)
(* one run, and what it does to its documents.  Each change of the run and *)
(* the save that follows it is one step, so the run is its stored record.  *)
(* Time is left out: late is set when the deadline of the run has passed.  *)
(*                                                                         *)
(* Operators named Slip... are not part of the model, see MailboxRuns.     *)
(***************************************************************************)
EXTENDS CandidateReading, WorkerCall, AuditTrail, UploadReceipt

CONSTANTS
  Inputs,        \* the documents a run may be given
  Jobs,          \* records [kind, email, inputs, signals, pair]
  TextAnswers, VisionAnswers,   \* what Gemini may answer
  AIFailures,    \* and how it may fail
  Categories,    \* what it may take an unclear email for
  Watched,       \* the jobs a page follows, a bound
  MaxAttachments,   \* the limit of extract_email
  Mishaps        \* how much may go wrong in each job, a bound

\* DocumentInput.  source says what reading it will find.
DocumentInput(input) ==
  /\ input.id \in Docs
  /\ input.expected \in Role \cup {"none"}
  /\ input.source \in {"intact", "outside", "gone", "changed"}
  /\ input.file \in File
  /\ \A i \in DOMAIN input.file.units : WellFormed(input.file.units[i])

Category == {"BL_COMPARISON", "SI_REQUEST", "INVOICE_QUERY", "GENERAL", "SPAM"}

\* signals: the categories the words of the email point to; email: what the dataset
\* has of it; pair: that of a task.
JobKind == {"upload", "dataset_email", "mailbox_email"}

ASSUME JobsAssumption ==
  /\ \A input \in Inputs : DocumentInput(input)
  /\ \A job \in Jobs :
       /\ job.kind \in JobKind /\ job.signals \subseteq Category
       /\ job.inputs \in Seq(Inputs)
       /\ job.kind = "upload" => Len(job.inputs) = 1
  /\ TextAnswers \subseteq SUBSET TextCandidate /\ VisionAnswers \subseteq VisionAnswer
  /\ Categories \subseteq Category
  /\ Watched \subseteq Jobs
  /\ AIFailures \subseteq Failures
  /\ Mishaps \in [Jobs -> Nat]

\* What a document of a run is given up for: its source, its worker, Gemini or the run.
GivenUpFor ==
  {ProviderError(failure) : failure \in Failures} \cup
  {"ATTACHMENT_PATH_INVALID", "ATTACHMENT_UNAVAILABLE", "source_unavailable", "RESOURCE_LIMIT",
   "WORKER_FAILED", "INVALID_WORKER_OUTPUT", "EXTRACTION_TIMEOUT", "RUN_TIMEOUT",
   "RUN_INTERRUPTED"}

ASSUME CodesAssumption ==
  RuleIssues \cup FileIssues \cup RoleIssues \cup ReaderIssues \cup GivenUpFor \subseteq IssueCodes

\* Values has what each text of a document, and each that Gemini may offer, normalizes to.
ASSUME ValuesAssumption ==
  LET Normalized == Values \cup {NoValue}
  IN /\ \A input \in Inputs, key \in Fields :
          \A c \in OfField(Candidates(input.file.units), key) : Normal(key, c).norm \in Normalized
     /\ \A answer \in TextAnswers :
          \A item \in answer : NormalReview(item.field, item.raw).norm \in Normalized
     /\ \A answer \in VisionAnswers, key \in Fields :
          NormalReview(key, answer.fields[key].raw).norm \in Normalized

VARIABLES
  exec,   \* the thread of the run: what it does, with which document
  env     \* the job, the backend and its deadline; left counts the mishaps to come

vars == <<upload, exec, env, call, saved, trail, poll>>

\* What a worker says about each input.
FirstReading == [input \in Inputs |-> ExtractDocument(input.file, input.expected)]
Told == [input \in Inputs |-> TraceOf(input.file, input.expected)]
ScriptOf(input) ==
  [i \in 1..(Len(Told[input]) + 1) |->
     [type |-> IF i <= Len(Told[input]) THEN "event" ELSE "result", at |-> i]]
Scripts == [input \in Inputs |-> ScriptOf(input)]

DocOutcome == {"SUCCEEDED", "FAILED", "SKIPPED", "INTERRUPTED"}
NewDoc == [status |-> "PENDING", result |-> NoResult, error |-> "", original |-> FALSE,
           units |-> {}]
NoAnalysis == [none |-> TRUE]
NewRun(job) ==
  [status |-> "RUNNING", docs |-> [i \in DOMAIN job.inputs |-> NewDoc], issues |-> {},
   analysis |-> NoAnalysis]

\* result and error are those of the document under way, outcome that of the run.
Idle == [at |-> "idle", n |-> 0, extract |-> TRUE, result |-> NoResult, error |-> "",
         outcome |-> ""]
ExecAt == {"idle", "storing", "prepare", "next", "started", "reading", "ready", "calling",
           "called", "asking", "ended", "concluding", "analyzing", "finishing", "failing",
           "unrecorded", "over"}

Job == env.job
Input == Job.inputs[exec.n]
Doc == saved.docs[exec.n]
Noted(stage, status, n) == [stage |-> stage, status |-> status, doc |-> n]
WorkerStages == {"validation", "parsing", "text_check", "role_detection", "candidates",
                 "normalization", "field_result", "completed"}

At(step) == env.up /\ exec.at = step
Goes(step) == exec' = [exec EXCEPT !.at = step]
Fails(code) == exec' = [exec EXCEPT !.at = "failing", !.error = code]
\* The document is done with, without a result.
Gives(code) == exec' = [exec EXCEPT !.at = "ended", !.error = code, !.result = NoResult]
Records(stage, status) == Save(saved, <<Noted(stage, status, exec.n)>>)
SavesDoc(doc, events) == Save([saved EXCEPT !.docs[exec.n] = doc], events)
KeepsRun == UNCHANGED <<saved, trail>>
Stays == UNCHANGED <<upload, env, poll>>
\* One of the mishaps the bound allows.
Mishap == env.left > 0 /\ env' = [env EXCEPT !.left = @ - 1]
MishapStays == Mishap /\ UNCHANGED <<upload, poll>>
-----------------------------------------------------------------------------
Init ==
  /\ upload = NoUpload /\ exec = Idle /\ call = NoCall
  /\ saved = NoRun /\ trail = <<>> /\ poll = NewPoll
  /\ \E job \in Jobs : env = [job |-> job, up |-> TRUE, stopping |-> FALSE, late |-> FALSE,
                                   left |-> Mishaps[job]]

Receive ==
  /\ env.up /\ exec.at = "idle" /\ Job.kind = "upload"
  /\ OpenUpload \/ ReceivePiece \/ EndOfBody
  /\ UNCHANGED <<exec, env, call, saved, trail, poll>>

\* Dataset.email
EmailProblem(job) ==
  CASE job.email = "missing" -> "EMAIL_NOT_FOUND"
    [] job.email = "malformed" -> "INVALID_EMAIL"
    [] OTHER -> ""

\* extract_email
MayExtract(job) == EmailProblem(job) = "" /\ Len(job.inputs) <= MaxAttachments

\* run, up to submit.  The bytes of an upload are stored before it returns.
AcceptRun ==
  /\ At("idle") /\ ~env.stopping
  /\ Job.kind = "upload" => upload.state = "accepted"
  /\ Job.kind = "dataset_email" => MayExtract(Job)
  /\ Create(NewRun(Job), <<Noted("run", "STARTED", 0)>>)
  /\ exec' = IF Job.kind = "upload" THEN [exec EXCEPT !.at = "storing", !.n = 1]
             ELSE [exec EXCEPT !.at = "prepare"]
  /\ upload' = NoUpload
  /\ UNCHANGED <<env, call, poll>>

StoreUpload ==
  /\ At("storing")
  /\ IF trail[Len(trail)].stage = "run"
     THEN Records("attachment_read", "STARTED") /\ UNCHANGED exec
     ELSE /\ SavesDoc([Doc EXCEPT !.original = TRUE],
                      <<Noted("original_storage", "SUCCEEDED", exec.n)>>)
          /\ exec' = [exec EXCEPT !.at = "prepare", !.n = 0]
  /\ UNCHANGED call /\ Stays

\* classify: rules that contradict each other decide nothing.
Unclear == "none"
Classify(signals) ==
  IF \E category \in signals : signals = {category}
  THEN CHOOSE category \in signals : TRUE ELSE Unclear

\* MailboxWorkflow.prepare.  An email no rule is clear about is classified by Gemini.
Prepare ==
  /\ At("prepare")
  /\ \/ /\ Job.kind # "mailbox_email"
        /\ Goes("next") /\ KeepsRun
     \/ /\ Job.kind = "mailbox_email"
        /\ \E category \in IF Classify(Job.signals) = Unclear THEN Categories
                             ELSE {Classify(Job.signals)} :
             exec' = [exec EXCEPT !.at = "next", !.extract = category = "BL_COMPARISON"]
        /\ Records("classification", "SUCCEEDED")
     \/ /\ Job.kind = "mailbox_email" /\ Classify(Job.signals) = Unclear
        /\ \E failure \in AIFailures : Fails(ProviderError(failure))
        /\ KeepsRun
  /\ UNCHANGED call /\ Stays

NextDocument ==
  /\ At("next")
  /\ IF env.stopping \/ exec.n = Len(Job.inputs)
     THEN Goes("concluding") /\ KeepsRun
     ELSE LET n == exec.n + 1
          IN /\ exec' = [exec EXCEPT !.at = "started", !.n = n, !.error = "",
                                     !.result = NoResult]
             /\ Save([saved EXCEPT !.docs[n].status = "RUNNING"],
                     <<Noted("document", "STARTED", n)>>)
  /\ UNCHANGED call /\ Stays

\* _read, first half: nothing to do for an upload.
BeginRead ==
  /\ At("started")
  /\ IF env.late THEN Gives("RUN_TIMEOUT") /\ KeepsRun
     ELSE IF Doc.original THEN Goes("ready") /\ KeepsRun
     ELSE Goes("reading") /\ Records("attachment_read", "STARTED")
  /\ UNCHANGED call /\ Stays

\* Dataset.attachment
DatasetProblem(input) ==
  CASE input.source = "outside" -> "ATTACHMENT_PATH_INVALID"
    [] input.source = "gone" -> "ATTACHMENT_UNAVAILABLE"
    [] OTHER -> IF input.file.bytes > MaxBytes THEN "RESOURCE_LIMIT" ELSE ""

\* document_path: the file of an object is its content as it was when it was saved.
StoredProblem(input) == IF input.source = "intact" THEN "" ELSE "source_unavailable"

SourceProblem(input) ==
  IF Job.kind = "dataset_email" THEN DatasetProblem(input) ELSE StoredProblem(input)

\* Second half: the source is gone or too large, or it is stored.
EndRead ==
  /\ At("reading")
  /\ IF SourceProblem(Input) # "" THEN Gives(SourceProblem(Input)) /\ KeepsRun
     ELSE IF Input.file.bytes > MaxBytes THEN Gives("RESOURCE_LIMIT") /\ KeepsRun
     ELSE /\ Goes("ready")
          /\ SavesDoc([Doc EXCEPT !.original = TRUE],
                      <<Noted("original_storage", "SUCCEEDED", exec.n)>>)
  /\ UNCHANGED call /\ Stays

StartWorker ==
  /\ At("ready")
  /\ IF ~exec.extract
     THEN /\ Goes("next") /\ UNCHANGED call
          /\ SavesDoc([Doc EXCEPT !.status = "SKIPPED"],
                      <<Noted("extraction", "SKIPPED", exec.n)>>)
     ELSE /\ KeepsRun
          /\ \/ env.late /\ Gives("RUN_TIMEOUT") /\ UNCHANGED call
             \/ ~env.late /\ Gives("ATTACHMENT_UNAVAILABLE") /\ UNCHANGED call
             \/ ~env.late /\ Goes("calling") /\ call' = NewCall
  /\ Stays
-----------------------------------------------------------------------------
\* _observe: an event may refer to units the document is known to have only.
Observed(event, doc) ==
  IF event.stage = "parsing" /\ event.status = "SUCCEEDED"
  THEN [doc EXCEPT !.units = event.cites] ELSE doc

Observe ==
  /\ At("calling") /\ Taking("event")
  /\ LET event == Told[Input][Head(call.queue).at]
         doc == Observed(event, Doc)
     IN \/ /\ event.cites \subseteq doc.units
           /\ ConsumerObserves(TRUE)
           /\ SavesDoc(doc, <<Noted(event.stage, event.status, exec.n)>>)
           /\ UNCHANGED exec
        \/ /\ ~(event.cites \subseteq doc.units)
           /\ ConsumerObserves(FALSE)
           /\ exec' = [exec EXCEPT !.error = "PROCESSING_FAILED"]
           /\ KeepsRun
  /\ Stays

\* The event cannot be saved.
ObserveFails ==
  /\ At("calling") /\ ConsumerObserves(FALSE)
  /\ exec' = [exec EXCEPT !.error = "AUDIT_SAVE_FAILED"]
  /\ KeepsRun /\ MishapStays

ConsumerStep ==
  /\ At("calling")
  /\ \/ env.stopping /\ ConsumerStops
     \/ ConsumerTakes
     \/ ConsumerWaits(env.stopping)
     \/ ConsumerDecides
     \/ ConsumerCloses
     \/ ConsumerJoins
  /\ UNCHANGED exec /\ KeepsRun /\ Stays

ReaderThread == ReaderSteps /\ UNCHANGED exec /\ KeepsRun /\ Stays
TimerThread == TimerSteps /\ UNCHANGED exec /\ KeepsRun /\ Stays
WorkerProcess ==
  exec.at = "calling" /\ WorkerSteps(Scripts[Input]) /\ UNCHANGED exec /\ KeepsRun /\ Stays
WorkerFails ==
  exec.at = "calling" /\ WorkerFaults(Scripts[Input]) /\ UNCHANGED exec /\ KeepsRun /\ MishapStays

\* run_worker returns, or raises what the observer raised.
CallReturns ==
  /\ At("calling") /\ call.consumer = "returned"
  /\ call' = NoCall
  /\ IF call.raised THEN Goes("failing")
     ELSE IF CallError(call) # "" THEN Gives(CallError(call))
     ELSE exec' = [exec EXCEPT !.at = "called", !.result = FirstReading[Input]]
  /\ KeepsRun /\ Stays
-----------------------------------------------------------------------------
Asks(result) ==
  \/ result.status = "READABLE" /\ FallbackFields(result) # {}
  \/ result.status = "NO_USABLE_TEXT" /\ Input.file.suffix = "pdf"

\* Before _text_extract and _visual_extract, and up to their request.
Consult ==
  /\ At("called")
  /\ LET readable == exec.result.status = "READABLE"
     IN IF ~Asks(exec.result) \/ (readable /\ env.late) THEN Goes("ended") /\ KeepsRun
        ELSE IF env.late THEN Gives("AI_TIMEOUT") /\ KeepsRun
        ELSE IF readable /\ "long_source" \in Input.file.traits
        THEN /\ exec' = [exec EXCEPT !.at = "ended", !.result = InputTooLarge(@)]
             /\ Records("text_provider", "NEEDS_REVIEW")
        ELSE /\ Goes("asking")
             /\ Records(IF readable THEN "text_provider" ELSE "vision_provider", "STARTED")
  /\ UNCHANGED call /\ Stays

Answered(result, stage) ==
  /\ exec' = [exec EXCEPT !.at = "ended", !.result = result]
  /\ Records(stage, IF NeedsReview(result) THEN "NEEDS_REVIEW" ELSE "SUCCEEDED")

Unanswered(failure, stage) == Gives(ProviderError(failure)) /\ Records(stage, "FAILED")

TextAnswered ==
  /\ At("asking") /\ exec.result.status = "READABLE"
  /\ \E answer \in TextAnswers :
       IF ValidText(answer, FallbackFields(exec.result))
       THEN Answered(ApplyText(exec.result, answer, Input.file.units), "text_provider")
       ELSE Unanswered("invalid", "text_provider")
  /\ UNCHANGED call /\ Stays

VisionAnswered ==
  /\ At("asking") /\ exec.result.status = "NO_USABLE_TEXT"
  /\ \E answer \in VisionAnswers :
       IF ValidVision(answer) /\ PagesExist(answer, Input.file.units)
       THEN Answered(ApplyVision(exec.result, answer, Input.expected), "vision_provider")
       ELSE Unanswered("invalid", "vision_provider")
  /\ UNCHANGED call /\ Stays

AIFails ==
  /\ At("asking")
  /\ \E failure \in AIFailures :
       Unanswered(failure, IF exec.result.status = "READABLE" THEN "text_provider"
                           ELSE "vision_provider")
  /\ UNCHANGED call /\ Stays

DocStatusOf(result, error) ==
  CASE error = "RUN_INTERRUPTED" -> "INTERRUPTED"
    [] error # "RUN_INTERRUPTED" /\ (error # "" \/ result.status \in {"FAILED", "REJECTED"})
         -> "FAILED"
    [] OTHER -> "SUCCEEDED"

EndDocument ==
  /\ At("ended")
  /\ LET status == DocStatusOf(exec.result, exec.error)
     IN SavesDoc([Doc EXCEPT !.status = status, !.result = exec.result, !.error = exec.error],
                 <<Noted("document", status, exec.n)>>)
  /\ Goes("next")
  /\ UNCHANGED call /\ Stays
-----------------------------------------------------------------------------
\* The end of the loop.  stopping is looked at here, and again before the analysis.
Conclude ==
  /\ At("concluding")
  /\ exec' = [exec EXCEPT
       !.at = IF Job.kind = "mailbox_email" THEN "analyzing" ELSE "finishing",
       !.outcome = IF env.stopping THEN "INTERRUPTED"
                   ELSE IF \E i \in DOMAIN saved.docs : saved.docs[i].status = "FAILED"
                   THEN "FAILED" ELSE "SUCCEEDED"]
  /\ IF Job.inputs = <<>> /\ Job.kind # "mailbox_email" /\ ~env.stopping
     THEN Save([saved EXCEPT !.issues = {"NO_ATTACHMENTS"}],
               <<Noted("attachments", "NEEDS_REVIEW", 0)>>)
     ELSE KeepsRun
  /\ UNCHANGED call /\ Stays

Ids == [i \in DOMAIN Job.inputs |-> Job.inputs[i].id]
Adapted(id) ==
  LET i == CHOOSE i \in DOMAIN Job.inputs : Job.inputs[i].id = id
  IN AdaptDocument(saved.docs[i].result, saved.docs[i].error)

SlipAnalyze ==
  /\ At("analyzing")
  /\ IF \E i \in DOMAIN saved.docs :
          exec.extract /\ saved.docs[i].result # NoResult /\ ~Adaptable(saved.docs[i].result)
     THEN Fails("PROCESSING_FAILED") /\ KeepsRun
     ELSE /\ Goes("finishing")
          /\ \E reading \in {[id \in {Ids[i] : i \in DOMAIN Ids} |-> Adapted(id)]} :
               Save([saved EXCEPT !.analysis = IF exec.extract
                                               THEN Compare(Ids, reading, Job.pair)
                                               ELSE NotCompared(FALSE)],
                    <<Noted("analysis", "SUCCEEDED", 0)>>)
  /\ UNCHANGED call /\ Stays

\* MailboxWorkflow.finish; its events but the last are left out.
Analyze ==
  /\ At("analyzing")
  /\ IF env.stopping THEN Goes("finishing") /\ KeepsRun
     ELSE IF \E i \in DOMAIN saved.docs :
          exec.extract /\ saved.docs[i].result # NoResult /\ ~Adaptable(saved.docs[i].result)
     THEN Fails("PROCESSING_FAILED") /\ KeepsRun
     ELSE /\ exec' = [exec EXCEPT !.at = "finishing",
                        !.outcome = IF \E i \in DOMAIN saved.docs : saved.docs[i].error # ""
                                    THEN "FAILED" ELSE "SUCCEEDED"]
          /\ \E reading \in {[id \in {Ids[i] : i \in DOMAIN Ids} |-> Adapted(id)]} :
               Save([saved EXCEPT !.analysis = IF exec.extract
                                               THEN Compare(Ids, reading, Job.pair)
                                               ELSE NotCompared(FALSE)],
                    <<Noted("analysis", "SUCCEEDED", 0)>>)
  /\ UNCHANGED call /\ Stays

FinishRun ==
  /\ At("finishing")
  /\ Save(IF exec.outcome = "INTERRUPTED" THEN Interrupted(saved)
          ELSE [saved EXCEPT !.status = exec.outcome],
          <<Noted("run", exec.outcome, 0)>>)
  /\ Goes("over")
  /\ UNCHANGED call /\ Stays

\* Where the run is about to save.
Saving ==
  \/ exec.at \in {"storing", "next", "started", "reading", "asking", "ended", "concluding",
                  "analyzing", "finishing"}
  \/ exec.at = "prepare" /\ Job.kind = "mailbox_email"
  \/ exec.at = "ready" /\ ~exec.extract
  \/ exec.at = "called" /\ Asks(exec.result) /\ ~env.late

\* Any save may fail.  (The one of an event from a worker is ObserveFails.)
SaveFails ==
  /\ env.up /\ Saving
  /\ Fails("AUDIT_SAVE_FAILED")
  /\ UNCHANGED call /\ KeepsRun /\ MishapStays

SlipFailedRun(run, code) ==
  [run EXCEPT !.status = "FAILED", !.issues = @ \cup {code},
     !.docs = [i \in DOMAIN @ |-> [@[i] EXCEPT !.status = "FAILED", !.error = code]]]

FailedRun(run, code) == GivenUp(run, "FAILED", code)

\* _fail, over the record as it is stored.
FailRun ==
  /\ At("failing")
  /\ Save(FailedRun(saved, exec.error), <<Noted("run", "FAILED", 0)>>)
  /\ Goes("over")
  /\ UNCHANGED call /\ Stays

\* The failure cannot be saved either; a later read tries again.
FailRunFails ==
  /\ At("failing")
  /\ exec' = [exec EXCEPT !.at = "unrecorded", !.error = "AUDIT_SAVE_FAILED"]
  /\ UNCHANGED call /\ KeepsRun /\ Stays

\* check_recording, for a read of the record: _fail once more, or ahead of the thread
\* that is on its way to it and then finds the run over.
CheckRecording ==
  /\ At("failing") \/ At("unrecorded")
  /\ Save(FailedRun(saved, "AUDIT_SAVE_FAILED"), <<Noted("run", "FAILED", 0)>>)
  /\ Goes("over")
  /\ UNCHANGED call /\ Stays
-----------------------------------------------------------------------------
\* events (api.py): a run whose failure could not be recorded gives an error.
Answers == env.up /\ Recorded /\ exec.at # "unrecorded"

\* original (api.py): how a browser is given the source of a document; one that was
\* opened and is a PDF is shown in its page.
Original(i) ==
  LET doc == saved.docs[i]
      shown == /\ doc.result # NoResult /\ Job.inputs[i].file.suffix = "pdf"
               /\ doc.result.status \in {"READABLE", "NO_USABLE_TEXT"}
  IN IF ~doc.original THEN "missing" ELSE IF shown THEN "inline" ELSE "attachment"

\* The page asks the backend.
Poll ==
  /\ Job \in Watched
  /\ \/ Answers /\ Ask
     \/ Take
     \/ Lose
  /\ UNCHANGED <<upload, exec, env, call, saved, trail>>

RunDeadline ==
  /\ env.up /\ ~env.late /\ exec.at \notin {"idle", "over", "failing", "unrecorded"}
  /\ env.left > 0 /\ env' = [env EXCEPT !.late = TRUE, !.left = @ - 1]
  /\ UNCHANGED <<upload, exec, call, saved, trail, poll>>

Stop ==
  /\ env.up /\ ~env.stopping /\ exec.at # "over"
  /\ env.left > 0 /\ env' = [env EXCEPT !.stopping = TRUE, !.left = @ - 1]
  /\ UNCHANGED <<upload, exec, call, saved, trail, poll>>

\* The process ends, once its threads have when it stops, or at any time: what is in
\* its memory is lost, and a worker does not outlive the end of its pipe.
Down ==
  /\ env.up /\ Recorded
  /\ env' = [env EXCEPT !.up = FALSE]
  /\ call' = NoCall /\ exec' = [Idle EXCEPT !.at = "over"]
  /\ UNCHANGED <<upload, saved, trail, poll>>

\* initialize
Restart ==
  /\ ~env.up
  /\ env' = [env EXCEPT !.up = TRUE, !.stopping = FALSE]
  /\ IF Running THEN Save(Interrupted(saved), <<Noted("run", "INTERRUPTED", 0)>>)
     ELSE KeepsRun
  /\ UNCHANGED <<upload, exec, call, poll>>

Executor ==
  \/ StoreUpload \/ Prepare \/ NextDocument \/ BeginRead \/ EndRead \/ StartWorker
  \/ CallReturns \/ Consult \/ TextAnswered \/ VisionAnswered \/ AIFails \/ EndDocument
  \/ Conclude \/ Analyze \/ FinishRun \/ FailRun
Consumer == Observe \/ ConsumerStep

Next ==
  \/ Receive \/ AcceptRun \/ Executor \/ Consumer \/ ObserveFails
  \/ ReaderThread \/ TimerThread \/ WorkerProcess \/ WorkerFails
  \/ SaveFails \/ FailRunFails \/ CheckRecording
  \/ Poll \/ RunDeadline \/ Stop \/ Down \/ Restart

\* The threads of the backend run and the timer of a call expires.  Nothing is
\* assumed of the worker, of a stop or a crash, of the page or of a failing save.
Fairness ==
  /\ WF_vars(Executor) /\ WF_vars(Consumer)
  /\ WF_vars(ReaderThread) /\ WF_vars(TimerThread)

Spec == Init /\ [][Next]_vars /\ Fairness
-----------------------------------------------------------------------------
RowType == [state : ValueState, norm : Values \cup {NoValue}, method : Method,
            needs : BOOLEAN,
            cites : SUBSET [unit : Nat, verbatim : BOOLEAN, verified : BOOLEAN]]
ResultType == [status : DocStatus, role : Role \cup {"none"}, rows : [Fields -> RowType],
               issues : SUBSET Issue, ai : BOOLEAN]

\* What a run is given up for, with the documents that are not done.
RunError == GivenUpFor \cup {"PROCESSING_FAILED", "AUDIT_SAVE_FAILED"}
DocType == [status : DocOutcome \cup {"PENDING", "RUNNING"},
            result : ResultType \cup {NoResult}, error : RunError \cup {""}, original : BOOLEAN,
            units : SUBSET Nat]
RunStatus == {"RUNNING", "SUCCEEDED", "FAILED", "INTERRUPTED"}
Stage == WorkerStages \cup
  {"run", "attachment_read", "original_storage", "classification", "document", "extraction",
   "text_provider", "vision_provider", "attachments", "analysis"}
StageStatus == DocOutcome \cup {"STARTED", "NEEDS_REVIEW"}

\* The documents that have a result, and what the rules say of their fields.
Read == IF Recorded THEN {i \in DOMAIN saved.docs : saved.docs[i].result # NoResult} ELSE {}
Explained(result) ==
  \A issue \in result.issues :
    issue.field # NoField /\ ~result.ai => issue.code \in RuleIssues

\* Every part of the state has its type, in particular every value a rule or Gemini
\* arrives at is a normalized value, every analysis a result of the mailbox, and every
\* problem of a rule one that ISSUE_DETAILS explains.
TypeOK ==
  /\ upload \in Upload \cup {NoUpload}
  /\ \A i \in Read : Explained(saved.docs[i].result)
  /\ exec \in [at : ExecAt, n : Nat, extract : BOOLEAN, result : ResultType \cup {NoResult},
               error : RunError \cup {""}, outcome : RunStatus \cup {""}]
  /\ env \in [job : Jobs, up : BOOLEAN, stopping : BOOLEAN, late : BOOLEAN,
             left : Nat]
  /\ call \in Call \cup {NoCall}
  /\ saved \in {NoRun} \cup
       [status : RunStatus, docs : Seq(DocType),
        issues : SUBSET (RunError \cup {"NO_ATTACHMENTS"}), analysis : Result \cup {NoAnalysis}]
  /\ trail \in Seq([stage : Stage, status : StageStatus, doc : Nat])
  /\ poll \in [cursor : Nat, items : SUBSET Nat, finished : BOOLEAN,
               page : {NoPage} \cup [items : SUBSET Nat, more : BOOLEAN, next : Nat,
                                     status : RunStatus]]

(***************************************************************************)
(* The worker and its call.                                                *)
(***************************************************************************)

Returned == Calling /\ call.consumer = "returned" /\ ~call.raised

\* What is recorded of the worker of a document, by sequence number, and the how many-th
\* of these one is.
KeptOf(i) == {j \in EventsOf(i) : trail[j].stage \in WorkerStages}
Place(i, j) == Cardinality({k \in KeptOf(i) : k <= j})

\* The record holds the worker's account of a document without a gap and in its
\* order, and all of it once the document has a result (the queue of run_worker loses
\* nothing, _observe saves every event; docs/EXTRACTION.md calls it the live trace).
TraceKept ==
  Recorded => \A i \in DOMAIN saved.docs :
    LET told == Told[Job.inputs[i]]
    IN /\ \A j \in KeptOf(i) :
            /\ Place(i, j) <= Len(told)
            /\ trail[j].stage = told[Place(i, j)].stage
            /\ trail[j].status = told[Place(i, j)].status
       /\ saved.docs[i].result # NoResult => Cardinality(KeptOf(i)) = Len(told)

\* What the run is told of its worker is what became of it.  One that raised, died or
\* was killed gives no result, whatever it had written before (the exit code run_worker
\* looks at last); and it is blamed only for what it did itself: one the timer killed,
\* even in the middle of a line, is reported as a timeout (expire sets expired first).
OutcomeIsTheWorkers ==
  Returned =>
    /\ CallError(call) = "" => ~call.fault /\ call.death = "ok" /\ call.worker = "exited"
    /\ CallError(call) \in {"WORKER_FAILED", "INVALID_WORKER_OUTPUT"} => call.fault

\* When the call is over nothing of it goes on: no process, no thread that reads its
\* pipe, no timer that would kill (the finally of run_worker).
NothingLeftRunning ==
  Calling /\ call.consumer = "returned" =>
    call.worker = "exited" /\ call.reader = "done" /\ call.timer # "armed"

\* A run that was accepted ends, though its worker may hang and its queue be full, as
\* long as the backend lives and the end can be recorded.
RunEnds == saved.status = "RUNNING" ~> saved.status # "RUNNING" \/ ~env.up \/ At("unrecorded")

(***************************************************************************)
(* The record and the page.                                                *)
(***************************************************************************)

\* A page that stops asking shows every event of a run that is over: the status and
\* the events of one answer are of one moment (events, useAuditEvents).
PageSeesAll == poll.finished => ~Running /\ poll.items = DOMAIN trail

\* What was recorded of a document that is done is never rewritten, by a failure, a
\* stop or a restart, nor is a run that is over; events are only added.
ResultsAreFinal ==
  [][Recorded =>
       /\ \A i \in DOMAIN saved.docs :
            saved.docs[i].status \in DocOutcome => saved'.docs[i] = saved.docs[i]
       /\ ~Running => saved' = saved /\ trail' = trail
       /\ SubSeq(trail', 1, Len(trail)) = trail]_<<saved, trail>>

(***************************************************************************)
(* What is read.                                                           *)
(***************************************************************************)

ByVision(result) == \E key \in Fields : result.rows[key].method = "gemini_vision"
Quoted(input, row) == UNION {TextOf(input.file.units[cite.unit]) : cite \in row.cites}

\* A value that counts without a human is in the source that is cited for it: the
\* names, or the number; and the source of every result is kept, so that a human can
\* see the page a candidate was read from (README: evidence is tied to the source,
\* values are not invented; rules.py extract_fields, semantic.py apply_text_candidates).
NothingInvented ==
  /\ \A i \in Read, key \in Fields :
       LET row == saved.docs[i].result.rows[key]
           quoted == Quoted(Job.inputs[i], row)
       IN row.state = "PRESENT" /\ ~row.needs =>
            IF key \in Parties \cup Ports
            THEN Pieces(row.norm.words) \subseteq {text.words : text \in quoted}
            ELSE \E text \in quoted, factor \in {1} \cup {Factor[u] : u \in Measure} :
                   row.norm.amount = text.num * factor
  /\ \A i \in Read :
       /\ Original(i) # "missing"
       /\ ByVision(saved.docs[i].result) => Original(i) = "inline"

\* The lines a value stands in alone: in a cell, or with nothing under them that goes on
\* with it.
OwnLines(units) ==
  LET frags == Fragments(units)
  IN {units[i].lines[1] : i \in {i \in DOMAIN units : units[i].row > 0 /\ ~units[i].formula}}
       \cup {frags[i].line : i \in {i \in DOMAIN frags : i = Len(frags) \/ Ends(frags, i + 1)}}

\* What a label in one line says of a field; of the weight only the labels of a total
\* count, if there are any.
Totals(file, key) ==
  key = Weight /\ \E line \in LinesOf(Pieces(file.units)) : line.key = key /\ line.total
Sayings(file, key) ==
  {Normal(key, Candidate(0, line, line.rest, {}, FALSE, FALSE)) :
     line \in {l \in OwnLines(file.units) :
                 IsLabel(l) /\ l.key = key /\ l.rest # <<>> /\ (Totals(file, key) => l.total)}}

\* A source that says two things of a field is not decided by rules: no value is
\* picked from those that contradict each other (README.md:457, conflicting totals
\* stay unresolved; extract_fields).
ConflictsStayOpen ==
  \A i \in Read, key \in Fields :
    LET row == saved.docs[i].result.rows[key]
    IN row.state = "PRESENT" /\ row.method = "rule"
       => \A x, y \in Sayings(Job.inputs[i].file, key) : x = y

\* The documents of an analysis that may be compared under a role (_select).
ComparedAs(docs, role) ==
  {d.id : d \in {d \in Pieces(docs) :
     /\ d.role = role
     /\ ~IsPair(Job.pair) \/ role \notin DOMAIN Job.pair \/ d.id = Job.pair[role]}}

\* Every value of a compared document that is open is asked about by name, so that a
\* reviewer is led to it: the requirements of the analysis name the document and the
\* field (apply_text_candidates replaces issues, adapt_document and compare carry them).
OpenFieldsAreAsked ==
  Recorded /\ saved.analysis # NoAnalysis =>
    \A field \in saved.analysis.fields, role \in Role :
      LET sources == ComparedAs(saved.analysis.docs, role)
      IN \A id \in sources : sources = {id} /\ ~Settled(field[role]) =>
           \E req \in saved.analysis.reqs : req.doc = id /\ req.field = field.key
=============================================================================
