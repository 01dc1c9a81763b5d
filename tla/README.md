# DraftGuard: specifications

TLA+ modules for DraftGuard, the runs TLC makes of them and the theorems TLAPS
checks about them. DraftGuard compares the shipping instruction
(SI) a customer sent with the draft bill of lading (BL) a carrier returned. It
keeps emails, documents, analysis runs, reviews and drafts in a SQLite database
(`mailbox.sqlite3`) and a page-by-page history of every run in a second one (the
audit database). A FastAPI process serves requests on threads, a run service
processes documents on worker threads, each in a subprocess of its own, and
React pages poll for the results.

The modules follow the code under `backend/app` and `frontend/src`. The docs are
read for what they promise, never for what the code does.

## The system

| Component | State | Operations | Works with |
|---|---|---|---|
| Mailbox store, `app/store.py` | tables `emails`, `documents`, `runs`; `revision`, `latest_run_id`, `current_run_id` of each email | `analyze`, reads (each expires old runs first), `import_dataset`, `recover_audit_runs` | run service (call), mailbox workflow (object handed over) |
| Task sources, `app/task_store.py` | pair, attachments and revision of tasks | `select_pair`, `replace_document`, `clone_task`, `create_custom_task` | runs: every change of source starts a new revision |
| Mailbox workflow, `app/documents/workflow.py` | snapshot of the email the request read | `created`, `finish`, `commit` | called by the run service inside its audit transactions |
| Run service, `app/dev_extraction/service.py` | `capacity` (semaphore), executor, `recording_failures`, `stopping` | `run`, `_execute`, `_fail`, `check_recording`, `shutdown` | both databases, worker processes |
| Audit store, `app/dev_extraction/store.py` | tables of runs and events; triggers that make a finished run immutable | `initialize`, `create`, `save`, `events` | mailbox database, attached in the same connection |
| Process lifecycle, `app/main.py` | the process itself | start, graceful stop, crash | recovers both databases at start |
| Import command, `app/cli.py` | none of its own | interrupts, recovers, imports, optionally analyzes | both databases, beside a live backend |
| Human review, `task_store.py`, `documents/reviews.py` | tables of reviews and completions | `record_review`, `record_completion`, overlay on a result | bound to run and pair |
| Amendment drafts, `task_store.py`, `documents/amendment.py` | one draft per task and revision, with versions | generate, edit | findings of the current run and its reviews |
| Worker process, `dev_extraction/process.py`, `worker.py` | queue, reader thread, timer, process | one document or one analysis, with deadlines | run service |
| Comparison, `documents/analysis.py` | none | seven-field comparison, revision delta | baseline of a run |
| Extraction, `extraction/*` | none | read, normalise, judge | worker process |
| AI providers, `ai/*` | none | remote calls, quote checks | worker process, drafts |
| Analysis hook, `mailbox/useAnalysis.ts` | phase, timers | start, replace, cancel | pages, HTTP |
| Pollers, `extraction/usePollingResource.ts`, `useAuditEvents.ts` | cursor, last answer | poll each second while RUNNING | HTTP |

What is hard in it:

- **Two owners of a run.** The request thread inserts the run and reports an
  error; the worker thread commits the result. In between the pages expire the
  run after 120 seconds, the user changes the sources, and the import command
  may fail everything that is RUNNING.
- **Two databases.** Every change of status is made in both. The audit database
  is in WAL mode, the mailbox attached to it is not, so SQLite does not commit
  the two atomically if the process dies.
- **Failures of failures.** A result that cannot be saved becomes a failure to
  save; when this cannot be saved either, the run stays RUNNING and only
  `recording_failures` knows. A later read of an audit page, if there is one,
  tries again.
- **Shutdown.** `stopping` is read at several points of a worker.
- **A bounded pool.** A semaphore guards an executor of the same size; each
  path out of `RunService.run` must give its permit back exactly once.
- **A process and its pipe.** A call of a worker has four actors: the process, the
  thread that fills a bounded queue from its pipe, the timer that kills it, and
  the thread that takes the lines and decides what happened.
- **Decisions about something that moves.** A review, an acknowledgment or a draft
  is about the run and the revision a page showed. Another client, an analysis
  that ends, a provider that answers late change them meanwhile.
- **Layers of uncertainty.** A value is found by a rule, by Gemini in a text, by
  Gemini on a page, corrected or supplied by a human. What counts as checked, what
  a reviewer is asked and what a customer is told all follow from it, in four
  pieces of code that walk the same fields.

What makes each component right:

- *Mailbox, sources, workflow:* the result shown belongs to the revision and the
  pair shown; a late run is history; a revision keeps its comparison baseline; an
  analysis never overrides a choice of the user.
- *Run service:* permits balance, requests end, a shutdown ends, a live backend
  forgets no run that is RUNNING.
- *Audit store:* agreement with the mailbox; a finished run never changes;
  readers see every event.
- *Reviews:* an approval counts for the finding, the run and the pair it was
  given for; a completion acknowledges what it saw.
- *Drafts:* the wording a user saved survives; a draft belongs to its findings.
- *Worker process:* exactly one outcome per call, the worker's own, and nothing
  left running.
- *Extraction and Gemini:* a value that counts is in the source cited for it, what
  contradicts itself is not decided, what is open is asked about.
- *Comparison:* a field neither appears nor disappears because one side was not
  certain.
- *HTTP interface:* a refused request changes nothing, an accepted one is about
  what its page showed; an upload is whole and within its limits.
- *Hook and pollers:* one analysis is observed at a time, and its lock is released
  (but for one case, see the differences below); the last event of a run is shown.

## The modules

| Module | What it is |
|---|---|
| `ResultBoard` | What the mailbox promises about results: runs are asked for, given up, published or archived; a revision takes results down. |
| `MailboxRuns` | Mailbox store, task sources, mailbox workflow, run service, status part of the audit store, process lifecycle and import command, composed in one next-state relation. |
| `FieldComparison` | Operators: comparison, revision delta, overlay of reviews, progress, blockers, issue list. |
| `CheckLedger` | What the review desk promises: an acknowledgment names the current analysis while nothing is open in it. |
| `TaskReview` | The review desk of one task: sources, saved analyses, reviews, acknowledgments, drafts. |
| `ExtractionRules` | Operators: the checks of a file, labels, values, normalisation, roles, and the events a worker reports. |
| `CandidateReading` | Operators: what Gemini is asked, which answers are accepted, and how a reading enters a comparison. |
| `WorkerCall` | One call of a worker process: worker, reader thread, timer, consumer. |
| `AuditTrail` | The record of a run, its events, and the page that follows them. |
| `UploadReceipt` | The receipt of an uploaded file under its limits. |
| `DocumentRun` | One run of the extraction service, composed of the five above. |
| `LocalApi` | The requests to the desk over HTTP: their checks in order, their effect, what a page is told. |
| `TaskPage` | A page of a task with its panels and the hook `useAnalysis`, another client and the analyses, above `LocalApi`. |
| `MC…` | `MCMailboxRuns`, `MCTaskReview`, `MCDocumentRun`, `MCTaskPage`: instances for TLC. |
| `…_proofs` | Eight modules of theorems, see below. |

They stand on one another as follows. `MailboxRuns` has how runs compete for an
email and treats what a run computes as data. `DocumentRun` has the inside of one
run and no competitors. `TaskReview` has what happens to a task once analyses are
saved; an analysis is one step there. `LocalApi` gives that step a beginning and
an end, and `TaskPage` puts pages around it. `FieldComparison` is the one
definition of the comparison for `DocumentRun`, `TaskReview` and `TaskPage`.

The operators named `Slip…` are not part of the models. Each is the definition
that follows it with a mistake a programmer could make there: a test on the status
but not on the revision, a permit that is not given back, a check in the wrong
order. With such an operator in the place of the right one TLC finds the
corresponding property violated, which shows that the property depends on this
piece of code.

### ResultBoard

Five variables and five actions: `Ask`, `Publish`, `Archive`, `GiveUp`, `Revise`.
`MailboxRuns` maps to it as follows. A RUNNING row is an open run, a FAILED row a
closed one; `latest_run_id` and `current_run_id` are `latest` and `shown`. Source
changes and imports are `Revise`. A commit is `Publish` if the run is still the
one its email waits for, and `Archive` otherwise. `Archive` also admits a closed
run, since the code lets an expired task run succeed late (second finding below).

### MailboxRuns

State and code:

- `email`, `run`, `documents` are the tables of the mailbox. The revision, the
  attachments, the selected pair, `pair_selected`, `current_run_id` and
  `latest_run_id` of an email are kept, its text is not. Of a result only this is
  kept: none, a comparison the next revision may be compared with, or another.
- `audit` is `processing_status` of each run in the audit database.
- `pc` says where the request thread or, once submitted, the worker thread of a
  run is; the comment at its definition relates each stage to the code. `job` is
  what the worker holds in memory: the request's snapshot of `pair_selected`, how
  the documents came out, the outcome so far and the result so far.
- `permits`, `held`, `recording`, `stopping`, `initialized` are attributes of
  `RunService` and `AuditStore`; `up` tells whether the process is alive.
- `cli` is how far a run of the import command has come.

| Action | Code |
|---|---|
| `ReadMailbox` | `list_samples`, `list_tasks`, `detail`: `_recover_expired` |
| `Analyze` | `Store.analyze` up to its first commit, with `_recover_expired`, `_check_not_running`, `_revision_baseline` |
| `SelectPair`, `ReplaceDocument` | the methods of that name with `_advance_task` |
| `AcquirePermit`, `RefuseBusy`, `InitializeFails`, `CreateAudit`, `CreateFails`, `Submit`, `AcceptanceFails` | `RunService.run`, statement by statement with its `finally` |
| `ReportError` | the `except` clause of `Store.analyze` |
| `ExtractDocuments`, `FinishAnalysis`, `Commit`, `WorkerFails`, `FailRun` | `RunService._execute` with `MailboxWorkflow.finish` and `commit`, and `_fail` |
| `Release` | the done callback that releases the permit |
| `CheckRecording` | `RunService.check_recording`, called by the audit routes of `dev_extraction/api.py`, which exist only when the extraction tools are enabled |
| `BeginShutdown`, `Exit`, `Crash`, `CrashInCommit`, `Restart` | `RunService.shutdown`, the end of the process, `lifespan` in `app/main.py` |
| `CliInterrupts`, `CliRecovers`, `ImportDataset`, `CliRefused` | `app/cli.py` with `Store.recover_audit_runs` and `import_dataset` |

A custom task starts without sources. The clone of an analyzed sample may start with
its pair, and then with `pair_selected`; `FirstPairs` has the choices of an instance.

One SQLite transaction is one step, for SQLite serialises writers and the code
opens them with `BEGIN IMMEDIATE`. What a thread does between two transactions is
the change of `pc` and `job`. A request the code refuses before it writes is not a
step. `CrashInCommit` is the one place where a transaction over both databases is
not atomic.

Time is not modelled: `ReadMailbox` and `Analyze` may expire any set of RUNNING
rows, which includes every choice the 120 seconds can make. Likewise any
transaction may fail (`CreateFails`, `WorkerFails`, the second disjuncts of
`SaveFailure` and `ReportError`).

### FieldComparison

Operators without state. `Compare` is `compare` of `documents/analysis.py` with the
choice of the pair (`Selected`), the sides (`SideRead`), the findings
(`CompareField`) and the requirements (`CompareRequirements`); `Delta` is
`revision_delta`; `Overlay` is `apply_review_overlay` with `ReviewedSide` for one
value; `Progress` is the counts it returns beside; `Blockers` is
`completion_eligibility`;
`IssueItems` is `build_issue_items`.

A value on one side is a record of its state, its normalised value, its method and
whether it waits for a human; the raw text and the evidence are left out. Where the
code has a list whose order and duplicates decide nothing, there is a set. The
documents of a result remain a sequence, since the overlay takes the first document
of a role (fourth finding).

### TaskReview and CheckLedger

`task` is the row of the task with its attachments and its pair, `runs` the saved
analyses, `reviews` the review events of each run, `completions` the acknowledged
runs, `draft` the one amendment draft, `calls` what each client's generation holds
between its two transactions.

| Action | Code |
|---|---|
| `SelectPair`, `ReplaceDocument` | the methods of that name with `_advance_task` |
| `SaveOther`, `SaveComparison` | `MailboxWorkflow.finish` and `commit`, of a run that is still wanted; with `_revision_baseline` and `revision_delta` |
| `RecordReview`, `RecordCompletion` | the methods of that name |
| `AskDraft`, `SaveDraft`, `GiveUpDraft` | `generate_amendment_draft` before, after and without the provider's answer |
| `UpdateDraft` | `update_amendment_draft` |

`ReviewedResult`, `ShownState` and `ShownDraft` are what `_public_run` and
`_amendment_draft` show of it. Requests carry the revision and the run their page
showed, and a stale one is refused; so an action of the desk has the current ones,
and `LocalApi` has the refusals.

`CheckLedger` is what the desk amounts to: the current analysis, whether something
is open in it, the acknowledged ones. An analysis is open in it while `Blockers`
has any. It has five actions, and `LedgerKept` is the refinement.

### ExtractionRules and CandidateReading

Operators without state, on the reading of one document. `FileProblem` has the
checks of `detect_format`, `parse` and the readers in their order;
`Candidates` the labels found in cells and lines with their continuation lines;
`Normal` the normalisation of each kind of field; `Decide` and `FieldResults` how
the candidates of one field become one value; `ExtractDocument` the whole of
`extract_document`; `TraceOf` the events it reports on the way.

A file is a record of its suffix, the kind of its first bytes, the traits its
reader would meet and its source units; a line is a label, a heading, the tail of a
label, a text or a stop; a text has a kind, a number and the units it names. What a
regular expression matches in characters is thereby data: a reading is faithful in
what is done with a match, not in what matches.

`CandidateReading` has `FallbackFields` (what `semantic.py` asks about), `ValidText`
and `Verified` (which answers and quotes it accepts), `ApplyText`, `ApplyVision`
and `AdaptDocument`, which turns a reading into what `compare` takes. Gemini itself
is external: any answer of a given set, or a failure.

### WorkerCall, AuditTrail, UploadReceipt

`WorkerCall` is `run_worker` of `dev_extraction/process.py`. `call` has the lines
the worker has written, the pipe, the queue, and where the worker, the reader, the
timer and the consumer are. `WorkerWrites`, `WorkerRaises`, `WorkerDies`,
`WorkerExits` are the process; `ReaderReads`, `ReaderPuts`, `ReaderEnds` the
thread; `WorkerOverflows`, `ReaderKills` a line of more than 32 MB, for which the
reader ends the worker; `TimerExpires`, `TimerKills` the timer, in two steps as in `expire`;
`ConsumerTakes`, `ConsumerWaits`, `ConsumerDecides`, `ConsumerCloses`,
`ConsumerJoins` the loop, the decision after it and its `finally`. A killed worker
may have written half a line.

`AuditTrail` is `AuditStore` as one run sees it: `saved` is the stored run, `trail`
its events, both changed in one transaction (`Create`, `Save`, `Interrupted`).
`poll` is `useAuditEvents`: `Ask`, `Take`, `Lose`, with its cursor.

`UploadReceipt` is `InboundGuard`, `LimitedUploadParser` and the checks of `upload`
in `api.py`: the offer, the bytes counted, the bytes spooled.

### DocumentRun

`exec` is the thread of the run (`RunService._execute`), `env` the process around
it with `stopping`, the run's deadline and the job, beside `call`, `saved`,
`trail`, `poll` and `upload` of the modules above. Each change of the run object
and the `save` that follows it is one step, so `saved` is the run.

| Action | Code |
|---|---|
| `Receive`, `AcceptRun`, `StoreUpload` | the three entries of `api.py`, the middleware before them, `RunService.run`, and the storing of the upload |
| `Prepare`, `NextDocument`, `BeginRead`, `EndRead` | `_execute` up to the worker, with `Classify`, `EmailProblem`, `SourceProblem` for the workflow and the readers of sources |
| `StartWorker`, `Observe`, `ObserveFails`, `ConsumerStep`, `CallReturns` | the call of `run_worker` with its observer `_observe`; a process that cannot be started leaves the document ATTACHMENT_UNAVAILABLE |
| `Consult`, `TextAnswered`, `VisionAnswered`, `AIFails` | `_text_extract`, `_visual_extract` and the providers |
| `EndDocument`, `Conclude`, `Analyze`, `FinishRun` | the rest of `_execute` with `MailboxWorkflow.finish` |
| `SaveFails`, `FailRun`, `FailRunFails`, `CheckRecording` | a save that raises, wherever the run saves (`Saving`), `_fail`, and its retry by a read, also while `_fail` is between two attempts |
| `RunDeadline`, `Stop`, `Down`, `Restart` | the clock, `shutdown`, the end of the process, `AuditStore.initialize` |
| `Poll` | the page |

### LocalApi and TaskPage

`LocalApi` adds `latest`, the analysis under way, to the desk. `Route` lists for
each operation its checks in the order of `api/tasks.py`, `middleware` and the
store; `Problem` is the first that fails, `Status` its code; `Perform` is the desk's
action of an accepted request. `StartRun`, `RunSucceeds`, `RunFails`, `RunExpires`
are an analysis as seen from outside; one that a new revision overtakes leaves the
model. `Snapshot` and `RunSnapshot` are what `task_detail` and `task_run_detail`
answer.

`TaskPage` has `page` (the task as shown, the phase and the lock of `useAnalysis`, a
result that waits to be presented, notices), `slots` (one request per panel),
`strays` (requests a page gave up, which the server still serves) and `budget`.

| Action | Code |
|---|---|
| `Reanalyze`, `SaveSources`, `Decide`, `Confirm`, `Complete`, `Draft`, `CloseDraft`, `Explain` | the controls of `Workspace.tsx` and the components, with the conditions that enable them; the dialog of the completion is opened (`Confirm`) when the analysis is ready, and confirmed (`Complete`) whatever the page shows by then |
| `Serve`, `DraftAnswered`, `BriefingAnswered`, `Detail` | the transaction of a request, the provider's answer, the second transaction that reads the task |
| `ReceiveDecision`, `ReceiveDraft`, `ReceiveBriefing`, `ReceiveSources`, `ReceiveAnalysis` | what each panel does with its answer |
| `Poll`, `Reveal` | the hook's timers |
| `Lost`, `ServeStray`, `StrayFollows`, `StrayDropped` | the 45 seconds of `request` in `api.ts`, and failures of the database |
| `LoadAgain`, `Leave` | another page, another run of the history, a reload |
| `Rival`, `DraftEnds`, `RunEnds`, `RunIsLate` | another client, the provider, the worker |

An answer and the change it reports are different steps, so that answers come out
of order. The content of a request besides its revision and run is chosen when it
is served, since nothing looks at it earlier. `Lost` stands for a timeout and for
a database that fails. A form, or the controls of a value, have one request in
flight, as they disable themselves; but the page builds them again for another
revision, pair, document or field, and the new ones know nothing of it. The page
therefore has two slots for the sources (`sources`, `resent`) and two for reviews
(`review`, `supply`). Two is a bound: by going on to further fields a user could have
more requests in flight. `Leave` counts as a click; opening and closing the
dialog, or the email panel, does not.

## The runs

Each configuration asks one question; the bounds are in the cfg and the MC module.

| Run | Instance | What it shows |
|---|---|---|
| `MailboxPairs` | one task with an SI and a draft BL, as a custom one without a pair or a clone with both selected, a third document to upload, 2 runs, 2 permits, 2 revisions | `CurrentIsOwnSuccess`, `CurrentUsesSelectedPair`, `RunningIsLatest`, `PairAttached`, `SelectionSurvivesRuns`; `ImplementsBoard`: the store refines `ResultBoard` |
| `MailboxBaselines` | a task without documents, 3 runs, 1 permit, 2 revisions | `BaselineFrozen` |
| `MailboxImports` | a sample, 2 runs, an import that changes it, one stop or crash, tools disabled | `TypeOK`, `OnlyLatestRunPublishes`, and `NothingForgotten`: whatever is RUNNING in the audit database has a thread, a note in `recording_failures`, or an initialization to come that interrupts it |
| `MailboxStops` | a task, 2 runs, 1 permit, one stop or crash, with fairness | `DatabasesAgree`, `PermitsBalance`, `SuccessIsFinal`, and that `RequestsEnd`, `ShutdownEnds` |
| `MailboxStopsLate`, `MailboxLateAnswer`, `MailboxMisfiled` | as above | findings 1 to 3 |
| `TaskDesk` | a cloned task, 2 fields, 2 values, documents s1, b1, b2, 2 runs, 2 revisions, 2 reviews or drafts, one client, symmetric fields | the nine properties of `TaskReview`, with the refinement of `CheckLedger` |
| `ReviewMisapplied`, `CandidateInDraft` | small desks | findings 4 and 5 |
| `DocumentPipeline` | 14 jobs (uploads and sources; each exit of the readers, the provider and the worker), a pipe and a queue of one line, a page of 2 events, 4 fields with one rule each | the eleven properties of the document run |
| `TaskPage` | 3 clicks with no other client, or 2 clicks and one request of the other; 1 field, 3 documents, 2 values, 2 runs, 2 revisions, one review or draft | `PageTypeOK`, `LockIsHeld`, `NoticesAreOfTheShown`, `DecisionsAreAboutTheShown`, `PageComesFree` |

Every property has at least one mutant in `PROJECT.json`: a definition of the model
changed the way a bug in its code would change it, under which the run finds the
property violated.

### Bounds

`Runs` bounds how many analyses are ever started, `MaxRevision` the revisions,
`MaxStops` the ends of the process, `Docs` the documents, `MaxWork` reviews and
generated drafts, `Budgets` the clicks.

- Two runs are one that overtakes another; a baseline needs a third, so
  `MailboxBaselines` has three.
- Two revisions suffice for what compares revisions: `Stale` and the checks of the
  requests compare for equality only.
- With three documents one of a pair is replaced while it is analysed.
- One stop reaches every stage of every run, and the start after it.
- One permit and two runs give the refusal of the second, two and two the two
  workers. Emails share the permits and the process only, so each run has one.
- A pipe and a queue of one line give a full pipe and a full queue; a page of two
  events of the trail gives a cursor in the middle of it.
- In `DocumentPipeline` a budget of mishaps bounds failed saves, polls and lost
  answers: 2 on the quick job, 0 where two documents are compared, else 1.
- Three clicks of `TaskPage` are spent when an analysis is started, reviewed and
  acknowledged, so there the dialog is confirmed only while the analysis on the page
  is ready. That the page may have moved on by then is in the model (`Complete`) and
  in the theorems, which hold for any number of clicks.
- Runs and fields are symmetric where no liveness is checked.

Deadlock is checked in the Mailbox runs. It is not where the system may stop: in
`TaskDesk` and the two small desks and in `TaskPage` a task may rest, or the bounds
are used up; in `DocumentPipeline` the one run ends.

`MailboxPairs` assumes that the extraction does not take a document uploaded for one
role as the other; `MailboxMisfiled` drops this, and is finding 3.

### Fairness

- `MailboxStops` (`FairSpec`): threads run until they return, as Python's do, and the
  loop over documents has deadlines (`ThreadsFair`); `Exit` follows
  `executor.shutdown(wait=True)`. No read is fair: nobody has to keep an audit
  page open, and its routes exist only with the extraction tools. So it is not
  stated that a RUNNING run settles; `NothingForgotten` says instead what is left
  that can settle it. No request, source change, crash or restart is fair either.
- `DocumentPipeline`: the executor, the consumer, the reader thread and the timer
  thread. The worker process, a stop, a crash, the page and a failing save are not.
- `TaskPage`: `Observe` (the hook's timer of a second, the 45 seconds), `Reveal` (its
  four seconds) and `RunEnds` (the worker's deadline). Nobody has to click.

### Findings

Each is a run whose counterexample is what the code does.

1. `MailboxStopsLate`: a run that `shutdown` interrupts between its last document
   and the commit is published without a result (`service.py:490`).
2. `MailboxLateAnswer`: an expired run, FAILED in the store, becomes SUCCEEDED when
   its worker answers late (`workflow.py:121`; PRD.md:324 has FAILED as final).
3. `MailboxMisfiled`: one document is on both sides of a published pair, when the
   extraction reads the document uploaded as SI as a draft BL (`workflow.py:141`).
4. `ReviewMisapplied`: a correction of a document that was read in two roles is
   applied to the first side only (`reviews.py:17`; PRD.md:303).
5. `CandidateInDraft`: the issue list of an amendment has a value that still awaits
   confirmation (`amendment.py:80`; its docstring at line 88).

### Other differences met in the code

They are in the models as the code has them, but no run is made of them.

- `replaceTask` (`useAnalysis.ts:108`) clears the timer and the waiting result and
  leaves the lock, so a decision saved while a result waits to be presented leaves
  the page in "preparing" until it is loaded again; `docs/UI.md:87` says that the
  result opens by itself. `PageComesFree` names this case `Stuck` and excludes it.
- `TaskSources` says every saved change starts a new check; `analyze` returns at once
  when the lock is held.
- Answers out of order can set a page back to an older revision. The server refuses
  what is then decided on it.
- `risk.py` says that notes cannot outlive the values they describe; the panel's key
  is the task and the revision, and what is explained is the machine's result,
  whatever was reviewed since. `NoticesAreOfTheShown` states what does hold.
- `task_run_detail` reads in two transactions; `record_review` commits before
  `task_detail` may fail with 503, so a retry records the event twice.
- A bare weight is read as kilograms (`rules.py:316`; EXTRACTION.md:456), also one
  Gemini read (`semantic.py:210`); a LOCODE in parentheses is stripped from a port
  (`rules.py:346`; README.md:458); CONFLICTING_VALUES is among the fallback codes
  (`semantic.py:25`; README.md:457); a quote with other white space passes
  `semantic.py:225` and fails the run at `analysis.py:94` (EXTRACTION.md:114).
- An answer without a draft (`AmendmentEmail`, when reviews went on) shows nothing of
  the rest of the answer.
- The demo scripts look for `-wal` and `-shm` only and copy the two databases one
  after the other.

## The theorems

Each holds for every value of the constants: any number of emails, documents, runs,
fields and clicks, any sizes of queues and limits, any documents and answers of
Gemini. The properties are those of the runs; `Spec` is the specification without
fairness.

| Module | Theorem | Property | What it establishes |
|---|---|---|---|
| `MailboxRuns_proofs` | `TypeCorrect` | `TypeOK` | rows, stages and counters keep their types |
| | `CurrentCorrect` | `CurrentIsOwnSuccess` | the result shown is a success of this email and revision |
| | `DatabasesCorrect` | `DatabasesAgree` | a success in one database is one in the other, but for a crash between the commits |
| | `SuccessCorrect` | `SuccessIsFinal` | nothing late changes a row that succeeded |
| | `BoardImplemented` | `ImplementsBoard` | the mailbox implements `ResultBoard` |
| | `PermitsCorrect` | `PermitsBalance` | no permit is lost or doubled |
| | `RunningCorrect` | `RunningIsLatest` | what is RUNNING is the latest run of its email |
| | `PairCorrect` | `CurrentUsesSelectedPair` | the result shown is of the pair the email has |
| | `PublicationCorrect` | `OnlyLatestRunPublishes` | a result is published for the latest run only |
| | `SelectionCorrect` | `SelectionSurvivesRuns` | no run changes a pair the user selected |
| | `BaselineCorrect` | `BaselineFrozen` | the runs of one revision share one baseline, a comparable success of an older revision |
| | `PairsAttached` | `PairAttached` | a pair names two attached documents, if what a task starts with and is given has the role it is filed under |
| | `NothingIsForgotten` | `NothingForgotten` | what is RUNNING has a thread, a note or an initialization to come |
| `TaskReview_proofs` | `DeskTypeCorrect` | `TypeOK` | also: the overlay of any reviews is again a result |
| | `ReviewsCorrect` | `ReviewsOnComparedPair` | a review is about a document its run compared |
| | `FindingsCorrect` | `FindingsAreConfirmed` | findings, coverage and defects agree with the sides |
| | `PendingCorrect` | `PendingIsShown` | what is counted as pending is shown as pending |
| | `CompletionCorrect` | `CompletedChecksHold` | an acknowledged check stays confirmed and equal |
| | `DeltaCorrect` | `DeltaAccounts` | a delta accounts for every discrepancy of its baseline |
| | `DraftsCorrect` | `DraftsAreAboutOpenFacts` | a draft is stored for the current, open analysis only |
| | `SupplyCorrect` | `SuppliedInformationResolvesNothing` | a supplied value settles nothing |
| | `LedgerCorrect` | `LedgerKept` | the desk implements `CheckLedger` |
| `DocumentRun_proofs` | `UploadCorrect` | `UploadWhole` | an accepted upload is whole and within its limit |
| | `CallsEndWhole` | `NothingLeftRunning` | when a call is over nothing of it goes on |
| | `OutcomeIsJust` | `OutcomeIsTheWorkers` | the outcome of a call is its worker's own |
| | `AccountKept` | `TraceKept` | the record holds the worker's account, without a gap |
| | `RecordKept` | `ResultsAreFinal` | what is done is never rewritten, events are only added |
| | `PageShowsAll` | `PageSeesAll` | a page that stops asking has shown every event |
| | `ValuesAreSourced` | `NothingInvented` | a value that counts is in the source cited for it |
| | `NothingIsPicked` | `ConflictsStayOpen` | a contradiction in a source, among its totals if it has any, is not decided by rules |
| | `OpenFieldsNamed` | `OpenFieldsAreAsked` | an open value is asked about by name |
| `DocumentTypes_proofs` | `PipelineTypeCorrect` | `TypeOK` | whatever is read, answered or fails: values, results, events and codes are of their types |
| | `AnalysesAreOfTheDone` | | an analysis is of documents that are done with, each with a result or a reason |
| `TaskPage_proofs` | `LockHeld` | `LockIsHeld` | the lock of `useAnalysis` agrees with its phase and its request |
| | `DecisionsShown` | `DecisionsAreAboutTheShown` | what the API accepts is about what the page showed |
| | `PageIsADesk` | | pages and HTTP layer implement `TaskReview` |
| | `PageKeepsTheDesk` | `CompletedChecksHold` | acknowledged checks, with racing pages |
| | `NoticesShown` | `NoticesAreOfTheShown` | what a page notes is true of what it shows |
| | `PageTypeCorrect` | `PageTypeOK` | the page and its requests keep their types |

`FieldComparison_proofs`, `WorkerCall_proofs` and `CandidateReading_proofs` have the
lemmas about the operators, which the others use.

### Assumptions

Only the named `ASSUME`s of the modules, which TLC evaluates on every instance: the
nulls are not among the values, limits are numbers, queues and pages have room for
one, each document has an id and the units its reader gives (`JobsAssumption`), and
answers of Gemini have the form of the response schemas, the codes that readers, rules,
providers and the run give are among `IssueCodes` (`CodesAssumption`), and `Values` has
what the texts of the documents and answers normalize to (`ValuesAssumption`). No set is assumed finite but
the `Runs` of a desk. One theorem has a hypothesis: `PairsAttached` supposes
`FiledByRole`, which the code does not check (finding 3).

### The arguments

*Mailbox.* The inductive invariant `Inv` is `TypeOK`, `RowsFollowStages`,
`DatabasesAgree` and `CurrentIsOwnSuccess`. The last is not inductive alone: it needs
that the row of a success never changes. Late writers are stopped by looking whether
the audit run is RUNNING, so `DatabasesAgree` is needed; and that a writer finds
there what it expects follows from how far its thread has come (`RowsFollowStages`).
Each conjunct is a lemma over the kinds of steps (`NextType`, `RowsStep`,
`StagesStep`, `AgreeStep`, `CurrentStep`). `BoardImplemented` maps each action to one
of the board or a stutter (`AskStep`, `CommitOnBoard`, `RevisionOnBoard`,
`GiveUpStep`). `PermitInv` counts with the cardinality of the held permits, `RowInv`
adds that no row is of a later revision than its email and that the RUNNING one is
the latest, `BaseInv` and `PairInv` follow baselines and pairs. `MemoryInv` says which
runs the memory of the process accounts for, `RowsAlive` that a RUNNING row is of a
run of this process; together they give `NothingForgotten`.

*Desk.* `DeskInv` says that results are saved once and never change, that the sources
and the base of each are kept, that reviews are about the compared pair, and what an
acknowledged run has. What a review does to a result is in `FieldComparison_proofs`:
`Consistent` (findings agree with sides) is kept by the overlay of every sequence of
reviews, also by its early exit when the machine's findings stand.

*Worker.* `ClosingInv` follows the four actors to the end of a call. `CallsInv` relates
the lines written, the pipe, the queue and what the consumer has taken to the
script of the worker, of which they are consecutive pieces; `OutcomeInv` says who may
be blamed. That scripts end, and that traces are finite sequences, rests on the sets
of candidates being finite; where a definition is a recursive function, the proof
takes the smallest number at which the claim would fail.

*Record.* `RecordInv` ties the stage of the thread to the status of each document: the
one under way is RUNNING, those after it are PENDING. `TrailInv` and `PollInv`
give the page. For `TraceKept` there is `TraceInv`: what is kept of a document is the
beginning of its account, a document ahead has nothing, an open one no result, and
all is kept once the call has returned without an error; `FlowInv` says that what the
consumer takes next is what comes next.

*Readings.* `ReadInv` says that each result is a reading of its file (`IsReading`) and
that its source is stored. A reading has its counted values in the units it cites,
rules decide only when all candidates that count agree, every open value has an issue,
and only PDFs without text have values by vision. This holds of what the rules give
(`FirstIsReading`), and a text or vision answer keeps it (`TextIsReading`,
`VisionIsReading`), in particular when the second replaces the issues of the
first. That a candidate is text of the units it cites (`CandidatesRooted`) is shown
through the joins of lines and the cells beside and below a label; that a label
standing alone is a candidate (`CellAlone`, `LineAlone`) gives `NothingIsPicked`.
`OpenFieldsNamed` adds what `adapt_document` and `compare` do with the issues
(`AdaptedIs`, `OpenSidesAreAsked`).

*Types.* `TypeInv` of `DocumentTypes_proofs` has a part for each of upload, call, page,
thread, record and events. What rules and answers of Gemini give is followed code by
code: each issue of the rules on a field is one that `ISSUE_DETAILS` explains, each
error of a call one of `CallErrors`. That `adapt_document` and `compare` make a `Result`
of the documents needs more than types: `CoverInv` says that each document the thread
has left behind is done and, when the run extracts, has a result or a reason in
`GivenUpFor`; every path through a document ends so (`DocsEnd`, `LoopSteps`). It also
gives `AnalysesAreOfTheDone`.

*Page.* `HookInv` relates lock, phase and request of the hook with the requests that go
on without it. `PerformIsDesk` shows that every request is an action of the desk or
none, which gives `PageIsADesk` and with it the theorems of the desk for the
page. `NoticeInv` adds that rows a page holds are saved ones and that notes fit them.

Three properties of the readings were stated too generally to hold of every document,
though no instance showed it, and are now as precise as the code: a cell has one
line, and a blank one is no label (`WellFormed`); a label that another line goes on
with says nothing alone (`OwnLines`); documents outside the chosen pair are not asked
about (`ComparedAs`).

### Only checked by TLC

- Liveness: `RequestsEnd`, `ShutdownEnds`, `RunEnds`, `PageComesFree`. They
  depend on fairness and `ENABLED`, which this prover does not reason about.

## What is not modelled

- `src/.agents` has vendored tools that the program does not use.
- Characters: raw values, regular expressions, the libraries that parse PDF, DOCX and
  XLSX, and what is rendered from them. What they find is input of the models.
- Time. Deadlines expire at any moment; the order of review events is that in which
  they were recorded, while the code sorts by the text of the clock, so a clock that is
  set back is outside the model.
- Events of the comparison for each field; the writer thread of `process.py`; the failure of `create` inside `DocumentRun` (it is in
  `MailboxRuns`).
- Raw and normalized values are one value in `FieldComparison`, and the lines of a
  quote are whole lines in `CandidateReading`, where the code also takes part of one.
- More than two attachments in a run of `DocumentRun` instances, and more mishaps than
  their budget; the theorems have neither bound.
- Lists, pagination, health, overview, audit and document pages; the columns of old
  databases that are migrated at start; duplicates in `clone_task`; `--analyze` and
  `--rerun` of the command, whose runs are those of any client; the first import.
- The demo scripts, which copy and restore the two databases while nothing runs.
