---------------------------- MODULE MailboxRuns ----------------------------
(***************************************************************************)
(* Analysis runs of DraftGuard: from the request that inserts a run in the *)
(* mailbox database, over the run service's worker thread and the audit    *)
(* database, to the commit that publishes the result, with everything that *)
(* may happen meanwhile: source changes, expiry, failed writes, graceful   *)
(* shutdown, a crash and the recovery at the next start.                   *)
(*                                                                         *)
(*   Store.analyze, _recover_expired, recover_audit_runs   app/store.py    *)
(*   select_pair, replace_document, _revision_baseline     app/task_store.py*)
(*   MailboxWorkflow.finish, commit                 app/documents/workflow.py*)
(*   RunService.run, _execute, _fail, check_recording                      *)
(*                                        app/dev_extraction/service.py    *)
(*   AuditStore.create, save, initialize  app/dev_extraction/store.py      *)
(*                                                                         *)
(* A SQLite transaction is one step.  A request the code refuses before it *)
(* writes (a stale revision, a run in progress, an invalid pair) changes   *)
(* nothing and is not a step.                                              *)
(*                                                                         *)
(* An operator named Slip... is no part of the model: it is the operator   *)
(* defined after it with a mistake a programmer could make there, and the  *)
(* properties are known to notice it.                                      *)
(***************************************************************************)
EXTENDS Naturals, FiniteSets

CONSTANTS
  Emails,         \* the rows of table emails
  Tasks,          \* those with record_kind 'task'; the others are samples
  Runs,           \* run ids (uuid4), each used at most once
  Docs,           \* document ids
  NoRun, NoDoc,   \* SQL NULL
  DetectedRole,   \* the role extraction reads off each document, if any
  FirstDocs,      \* the documents each email starts with
  FirstPairs,     \* the pairs the emails may start with
  Imports,        \* the attachment sets a changed dataset may bring
  Capacity,       \* permits of the run service and threads of its executor
  DocLimit,       \* the number of attachments a task may have
  DevExtraction,  \* settings.dev_extraction_enabled
  MaxRevision,    \* bound of the model on an email's revision
  MaxStops        \* bound of the model on how often the process ends

ASSUME EmailsAssumption == Tasks \subseteq Emails /\ Emails # {}
ASSUME NullAssumption == NoRun \notin Runs /\ NoDoc \notin Docs
ASSUME DocsAssumption ==
  /\ DetectedRole \in [Docs -> {"si", "bl", "none"}]
  /\ FirstDocs \in [Emails -> SUBSET Docs]
  /\ Imports \subseteq SUBSET Docs
\* clone_task maps the pair of a sample's result, whose documents have one role
\* each; a sample has no pair of its own.
ASSUME PairsAssumption ==
  /\ FirstPairs \subseteq [Emails -> [{"si", "bl"} -> Docs \cup {NoDoc}]]
  /\ \A first \in FirstPairs, e \in Emails :
       /\ \A role \in {"si", "bl"} :
            first[e][role] # NoDoc => e \in Tasks /\ first[e][role] \in FirstDocs[e]
       /\ first[e]["si"] = first[e]["bl"] => first[e]["si"] = NoDoc
ASSUME SettingsAssumption ==
  /\ Capacity \in Nat \ {0}
  /\ DocLimit \in Nat
  /\ DevExtraction \in BOOLEAN
  /\ MaxRevision \in Nat
  /\ MaxStops \in Nat

VARIABLES
  email,        \* table emails of mailbox.sqlite3
  run,          \* table runs of mailbox.sqlite3
  documents,    \* table documents: the ids registered so far
  audit,        \* processing_status of each run in the audit database
  pc,           \* where the request thread or the worker of each run is
  job,          \* what the worker of each run holds in memory
  permits,      \* value of RunService.capacity
  held,         \* runs that acquired a permit and have not released it
  recording,    \* RunService.recording_failures
  stopping,     \* RunService.stopping
  initialized,  \* AuditStore._initialized
  up,           \* whether the backend process is alive
  stops,        \* how often the process has ended (for the bound only)
  cli           \* how far a run of the import command has come

mailbox == <<email, run, documents>>
service == <<permits, held, recording, stopping, initialized, up, stops>>
vars == <<email, run, documents, audit, pc, job,
          permits, held, recording, stopping, initialized,
                 up, stops, cli>>
-----------------------------------------------------------------------------
Role == {"si", "bl"}
RunOrNone == Runs \cup {NoRun}
DocOrNone == Docs \cup {NoDoc}
Pair == [Role -> DocOrNone]

EmailRow == [revision : Nat, docs : SUBSET Docs, pair : Pair,
             selected : BOOLEAN, current : RunOrNone, latest : RunOrNone]

\* "comparison" is a result the next revision may be compared with: category
\* BL_COMPARISON and seven fields.  "other" is any other result.
Result == {"none", "other", "comparison"}

RunRow == [status : {"none", "RUNNING", "SUCCEEDED", "FAILED"},
           email : Emails, revision : Nat, docs : SUBSET Docs,
           pair : Pair, base : RunOrNone, result : Result]

\* selected is the snapshot of pair_selected the request took; docs says how
\* the documents came out, "unreadable" being parsed FAILED or REJECTED with no
\* error; outcome is run["processing_status"] and result run["analysis"].
Job == [selected : BOOLEAN, docs : {"ok", "unreadable", "error"},
        outcome : {"RUNNING", "SUCCEEDED", "FAILED", "INTERRUPTED"},
        result : Result]

(***************************************************************************)
(* new       the run id is not used yet                                    *)
(* inserted  the run is in the mailbox, RunService.run is about to begin   *)
(* acquired  a permit is taken, the audit run is not written               *)
(* created   the audit run is written, the worker is not submitted         *)
(* working   _execute is in its document loop                              *)
(* closing   past the loop and the first look at stopping                  *)
(* finished  past the second look, with or without workflow.finish         *)
(* failing, failingDb   an exception, or sqlite3.Error, reached _execute   *)
(* raised    the error is on its way to Store.analyze                      *)
(* done      nothing is left to do but releasing the permit                *)
(* lost      the process died first                                        *)
(***************************************************************************)
WorkerStage == {"working", "closing", "finished", "failing", "failingDb"}
Stage == {"new", "inserted", "acquired", "created", "raised", "done", "lost"}
           \cup WorkerStage

AuditStatus == {"none", "RUNNING", "SUCCEEDED", "FAILED", "INTERRUPTED"}

TypeOK ==
  /\ email \in [Emails -> EmailRow]
  /\ run \in [Runs -> RunRow]
  /\ documents \subseteq Docs
  /\ audit \in [Runs -> AuditStatus]
  /\ pc \in [Runs -> Stage]
  /\ job \in [Runs -> Job]
  /\ permits \in Nat
  /\ held \subseteq Runs
  /\ recording \subseteq Runs
  /\ stopping \in BOOLEAN
  /\ initialized \in BOOLEAN
  /\ up \in BOOLEAN
  /\ stops \in Nat
  /\ cli \in {"idle", "recovering", "importing"}
-----------------------------------------------------------------------------
NoPair == [role \in Role |-> NoDoc]
NoJob == [selected |-> FALSE, docs |-> "ok", outcome |-> "RUNNING",
          result |-> "none"]

\* A run id nobody has used has no row; the fields under status "none" mean
\* nothing.
NoRow == [status |-> "none", email |-> CHOOSE e \in Emails : TRUE,
          revision |-> 0, docs |-> {}, pair |-> NoPair, base |-> NoRun,
          result |-> "none"]

\* A cloned task starts with the pair its sample's result names, and has it
\* selected if it is complete; a custom task and a sample start without.
Init ==
  /\ \E first \in FirstPairs :
       email = [e \in Emails |->
                  [revision |-> 1, docs |-> FirstDocs[e], pair |-> first[e],
                   selected |-> \A role \in Role : first[e][role] # NoDoc,
                   current |-> NoRun, latest |-> NoRun]]
  /\ run = [r \in Runs |-> NoRow]
  /\ documents = UNION {FirstDocs[e] : e \in Emails}
  /\ audit = [r \in Runs |-> "none"]
  /\ pc = [r \in Runs |-> "new"]
  /\ job = [r \in Runs |-> NoJob]
  /\ permits = Capacity
  /\ held = {}
  /\ recording = {}
  /\ stopping = FALSE
  /\ initialized = DevExtraction
  /\ up = TRUE
  /\ stops = 0
  /\ cli = "idle"
-----------------------------------------------------------------------------
(* Transactions of the mailbox database.                                   *)

Running == {r \in Runs : run[r].status = "RUNNING"}

FailedRow(r) == [run[r] EXCEPT !.status = "FAILED"]

\* _recover_expired: the RUNNING rows more than 120 seconds old become FAILED.
\* Time is not modelled: old is any set of RUNNING rows.
Recover(old) == [r \in Runs |-> IF r \in old THEN FailedRow(r) ELSE run[r]]

\* list_samples, list_tasks, detail: every read recovers expired runs first.
ReadMailbox(old) ==
  /\ up
  /\ old \subseteq Running
  /\ run' = Recover(old)
  /\ UNCHANGED <<email, documents, audit, pc, job, service, cli>>

\* Slip: the current run is looked at instead of the latest.
SlipNotRunning(e, old) == email[e].current \notin Running \ old

NotRunning(e, old) == email[e].latest \notin Running \ old

Attempts(e) == {r \in Runs : /\ run[r].status # "none"
                             /\ run[r].email = e
                             /\ run[r].revision = email[e].revision}

Comparable(e) == {r \in Runs : /\ run[r].status = "SUCCEEDED"
                               /\ run[r].email = e
                               /\ run[r].revision < email[e].revision
                               /\ run[r].result = "comparison"}

\* Slip: every attempt looks for a baseline of its own.
SlipBaselines(e) ==
  IF Comparable(e) = {} THEN {NoRun}
  ELSE {r \in Comparable(e) :
          \A s \in Comparable(e) : run[s].revision <= run[r].revision}

\* _revision_baseline: the first attempt of a revision looks for the last
\* comparable success below it, the others repeat the first one's answer.  The
\* order of started_at and finished_at within a revision is left open.
Baselines(e) ==
  IF Attempts(e) # {} THEN {run[r].base : r \in Attempts(e)}
  ELSE IF Comparable(e) = {} THEN {NoRun}
  ELSE {r \in Comparable(e) :
          \A s \in Comparable(e) : run[s].revision <= run[r].revision}

AnalyzedDocs(e) ==
  IF e \in Tasks /\ email[e].selected
  THEN email[e].docs \cap {email[e].pair[role] : role \in Role}
  ELSE email[e].docs

\* Store.analyze up to the end of its first transaction.
Analyze(e, r, old) ==
  /\ up
  /\ pc[r] = "new"
  /\ NotRunning(e, old)
  /\ \E base \in IF e \in Tasks THEN Baselines(e) ELSE {NoRun} :
       run' = [Recover(old) EXCEPT ![r] =
                 [status |-> "RUNNING", email |-> e,
                  revision |-> email[e].revision, docs |-> AnalyzedDocs(e),
                  pair |-> email[e].pair, base |-> base, result |-> "none"]]
  /\ email' = [email EXCEPT ![e].latest = r]
  /\ pc' = [pc EXCEPT ![r] = "inserted"]
  /\ job' = [job EXCEPT ![r].selected = email[e].selected]
  /\ UNCHANGED <<documents, audit, service, cli>>

\* Slip: the new pair is not written.
SlipAdvance(e, docs, pair, selected) ==
  email' = [email EXCEPT ![e] =
              [revision |-> @.revision + 1, docs |-> docs, pair |-> @.pair,
               selected |-> selected, current |-> NoRun, latest |-> NoRun]]

\* _advance_task: a new revision has no run yet.
Advance(e, docs, pair, selected) ==
  email' = [email EXCEPT ![e] =
              [revision |-> @.revision + 1, docs |-> docs, pair |-> pair,
               selected |-> selected, current |-> NoRun, latest |-> NoRun]]

SelectPair(e, pair) ==
  /\ up
  /\ email[e].revision < MaxRevision
  /\ \A role \in Role : pair[role] \in email[e].docs \cup {NoDoc}
  /\ pair["si"] = pair["bl"] => pair["si"] = NoDoc
  /\ ~(email[e].selected /\ pair = email[e].pair)
  /\ Advance(e, email[e].docs, pair, TRUE)
  /\ UNCHANGED <<run, documents, audit, pc, job, service, cli>>

ReplaceDocument(e, role, d) ==
  LET old == email[e].pair[role] IN
  /\ up
  /\ email[e].revision < MaxRevision
  /\ d \in Docs \ documents
  /\ Cardinality(email[e].docs) < DocLimit \/ old \in email[e].docs
  /\ Advance(e, (email[e].docs \ {old}) \cup {d},
             [email[e].pair EXCEPT ![role] = d], email[e].selected)
  /\ documents' = documents \cup {d}
  /\ UNCHANGED <<run, audit, pc, job, service, cli>>

-----------------------------------------------------------------------------
(* RunService.run, on the thread of the request.                           *)

\* AuditStore.initialize interrupts the runs an earlier process left RUNNING.
Interrupted ==
  [r \in Runs |-> IF audit[r] = "RUNNING" THEN "INTERRUPTED" ELSE audit[r]]

\* ensure_initialized
InitializeOnce ==
  /\ audit' = IF initialized THEN audit ELSE Interrupted
  /\ initialized' = TRUE

\* Slip: the result of capacity.acquire is not looked at.
SlipAcquirePermit(r) ==
  /\ up
  /\ pc[r] = "inserted"
  /\ ~stopping
  /\ InitializeOnce
  /\ permits' = permits - 1
  /\ held' = held \cup {r}
  /\ pc' = [pc EXCEPT ![r] = "acquired"]
  /\ UNCHANGED <<mailbox, job, recording, stopping, up, stops, cli>>

AcquirePermit(r) ==
  /\ up
  /\ pc[r] = "inserted"
  /\ ~stopping
  /\ permits > 0
  /\ InitializeOnce
  /\ permits' = permits - 1
  /\ held' = held \cup {r}
  /\ pc' = [pc EXCEPT ![r] = "acquired"]
  /\ UNCHANGED <<mailbox, job, recording, stopping, up, stops, cli>>

\* EXTRACTION_BUSY
RefuseBusy(r) ==
  /\ up
  /\ pc[r] = "inserted"
  /\ stopping \/ permits = 0
  /\ InitializeOnce
  /\ pc' = [pc EXCEPT ![r] = "raised"]
  /\ UNCHANGED <<mailbox, job, permits, held, recording, stopping, up, stops, cli>>

\* ensure_initialized cannot write the audit database.
InitializeFails(r) ==
  /\ up
  /\ pc[r] = "inserted"
  /\ ~initialized
  /\ pc' = [pc EXCEPT ![r] = "raised"]
  /\ UNCHANGED <<mailbox, audit, job, service, cli>>

CreateAudit(r) ==
  /\ up
  /\ pc[r] = "acquired"
  /\ audit' = [audit EXCEPT ![r] = "RUNNING"]
  /\ pc' = [pc EXCEPT ![r] = "created"]
  /\ UNCHANGED <<mailbox, job, service, cli>>

\* Slip: the permit is lost.
SlipGiveBack(r) ==
  /\ UNCHANGED permits
  /\ held' = held \ {r}

GiveBack(r) ==
  /\ permits' = permits + 1
  /\ held' = held \ {r}

\* AuditStore.create raises: _fail notes the run and finds nothing to fail.
CreateFails(r) ==
  /\ up
  /\ pc[r] = "acquired"
  /\ GiveBack(r)
  /\ recording' = recording \cup {r}
  /\ pc' = [pc EXCEPT ![r] = "raised"]
  /\ UNCHANGED <<mailbox, audit, job, stopping, initialized, up, stops, cli>>

\* Slip: submitted is not set, so the finally clause releases the permit.
Submit(r) ==
  /\ up
  /\ pc[r] = "created"
  /\ pc' = [pc EXCEPT ![r] = "working"]
  /\ UNCHANGED <<mailbox, audit, job, service, cli>>

\* Slip: a failure that cannot be saved is not noted.
SlipSaveFailure(r) ==
  \/ /\ audit[r] = "RUNNING"
     /\ audit' = [audit EXCEPT ![r] = "FAILED"]
     /\ run' = [run EXCEPT ![r].status = "FAILED", ![r].result = job[r].result]
     /\ recording' = recording \ {r}
  \/ UNCHANGED <<audit, run, recording>>

\* _fail: the failure is saved in both databases, unless the run is already
\* over or the storage refuses once more; then only the note stays.
SaveFailure(r) ==
  \/ /\ audit[r] = "RUNNING"
     /\ audit' = [audit EXCEPT ![r] = "FAILED"]
     /\ run' = [run EXCEPT ![r].status = "FAILED", ![r].result = job[r].result]
     /\ recording' = recording \ {r}
  \/ /\ UNCHANGED <<audit, run>>
     /\ recording' = recording \cup {r}

\* The run cannot be read back, or the executor is already shut down; the
\* RuntimeError of the latter is not one Store.analyze catches.
AcceptanceFails(r) ==
  /\ up
  /\ pc[r] = "created"
  /\ SaveFailure(r)
  /\ GiveBack(r)
  /\ \/ pc' = [pc EXCEPT ![r] = "raised"]
     \/ stopping /\ pc' = [pc EXCEPT ![r] = "done"]
  /\ UNCHANGED <<email, documents, job, stopping, initialized, up, stops, cli>>

\* Slip: the update lacks its condition on the status.
SlipReportError(r) ==
  /\ up
  /\ pc[r] = "raised"
  /\ run' = [run EXCEPT ![r] = FailedRow(r)]
  /\ pc' = [pc EXCEPT ![r] = "done"]
  /\ UNCHANGED <<email, documents, audit, job, service, cli>>

\* The except clause of Store.analyze.  Nothing is written when the caller did
\* not wait for the worker, or when this write fails too.
ReportError(r) ==
  /\ up
  /\ pc[r] = "raised"
  /\ \/ r \in Running /\ run' = [run EXCEPT ![r] = FailedRow(r)]
     \/ UNCHANGED run
  /\ pc' = [pc EXCEPT ![r] = "done"]
  /\ UNCHANGED <<email, documents, audit, job, service, cli>>

\* Slip: the permit comes back only after a success.
SlipRelease(r) ==
  /\ up
  /\ r \in held
  /\ pc[r] \in {"raised", "done"}
  /\ audit[r] = "SUCCEEDED"
  /\ GiveBack(r)
  /\ UNCHANGED <<mailbox, audit, pc, job, recording, stopping, initialized,
                 up, stops, cli>>

\* The done callback of the worker's future.
Release(r) ==
  /\ up
  /\ r \in held
  /\ pc[r] \in {"raised", "done"}
  /\ GiveBack(r)
  /\ UNCHANGED <<mailbox, audit, pc, job, recording, stopping, initialized,
                 up, stops, cli>>
-----------------------------------------------------------------------------
(* RunService._execute, on a worker thread.                                *)

\* The document loop and the first look at stopping.  The loop breaks when it
\* sees stopping, which this look then sees too.  Its records can only be saved
\* while the audit run is RUNNING (trigger no_events_after_completion).
ExtractDocuments(r) ==
  /\ up
  /\ pc[r] = "working"
  /\ audit[r] = "RUNNING"
  /\ \E docs \in IF run[r].docs = {} THEN {"ok"}
                 ELSE {"ok", "unreadable", "error"} :
       job' = [job EXCEPT ![r].docs = docs,
                          ![r].outcome = IF stopping THEN "INTERRUPTED"
                                         ELSE IF docs = "ok" THEN "SUCCEEDED"
                                         ELSE "FAILED"]
  /\ pc' = [pc EXCEPT ![r] = "closing"]
  /\ UNCHANGED <<mailbox, audit, service, cli>>

\* The second look at stopping, and MailboxWorkflow.finish: only a document
\* error makes the analysis FAILED.  Nothing looks at the documents' own status
\* after this, so it is forgotten.
FinishAnalysis(r) ==
  /\ up
  /\ pc[r] = "closing"
  /\ \/ /\ stopping
        /\ job' = [job EXCEPT ![r].docs = "ok"]
     \/ /\ ~stopping
        /\ audit[r] = "RUNNING"
        /\ \E result \in {"other", "comparison"} :
             /\ job[r].docs = "unreadable" => result = "comparison"
             /\ job' = [job EXCEPT ![r].docs = "ok",
                                   ![r].result = result,
                                   ![r].outcome = IF job[r].docs = "error"
                                                  THEN "FAILED"
                                                  ELSE "SUCCEEDED"]
  /\ pc' = [pc EXCEPT ![r] = "finished"]
  /\ UNCHANGED <<mailbox, audit, service, cli>>

\* Slips: a run is stale only by its own status, or only by its revision.
SlipStaleStatus(r) == run[r].status # "RUNNING"
SlipStaleRevision(r) == email[run[r].email].revision # run[r].revision

Stale(r) ==
  \/ email[run[r].email].revision # run[r].revision
  \/ email[run[r].email].latest # r
  \/ run[r].status # "RUNNING"

StaleSample(r) ==
  job[r].outcome = "SUCCEEDED" /\ Stale(r) /\ run[r].email \notin Tasks

\* The pair a task run leaves behind: the email's own choice, else the only
\* document of that role among those whose role the result names.
PairOf(r, seen) ==
  [role \in Role |->
     LET options == {d \in seen : DetectedRole[d] = role} IN
     IF run[r].pair[role] # NoDoc THEN run[r].pair[role]
     ELSE IF Cardinality(options) = 1 THEN CHOOSE d \in options : TRUE
     ELSE NoDoc]

\* Slip: a stale run leaves its row alone.
SlipCommitRun(r, pair) ==
  run' = IF Stale(r) THEN run
         ELSE [run EXCEPT
                 ![r].status = IF job[r].outcome = "SUCCEEDED" THEN "SUCCEEDED"
                               ELSE "FAILED",
                 ![r].result = job[r].result,
                 ![r].pair = pair]

\* MailboxWorkflow.commit inside the terminal AuditStore.save, which the
\* trigger immutable_finished_run aborts unless the audit run is RUNNING.
\* First the row of the run ...
CommitRun(r, pair) ==
  run' = [run EXCEPT
            ![r].status = IF job[r].outcome = "SUCCEEDED" THEN "SUCCEEDED"
                          ELSE "FAILED",
            ![r].result = job[r].result,
            ![r].pair = pair]

\* Slip: the user's selection is not looked at.
SlipChooses(r) == job[r].outcome = "SUCCEEDED" /\ run[r].email \in Tasks

\* A task whose pair is not selected takes the pair its run found.
Chooses(r) ==
  job[r].outcome = "SUCCEEDED" /\ run[r].email \in Tasks /\ ~job[r].selected

\* Slip: the pair found is written to the run only.
SlipPublishPair(r, pair) == email[run[r].email]

\* ... then that of the email, if the run is still the one it waits for.
PublishPair(r, pair) ==
  IF Chooses(r)
  THEN [email[run[r].email] EXCEPT
          !.pair = pair, !.selected = \A role \in Role : pair[role] # NoDoc]
  ELSE email[run[r].email]

CommitEmail(r, pair) ==
  IF job[r].outcome = "SUCCEEDED" /\ ~Stale(r)
  THEN email' = [email EXCEPT ![run[r].email] =
                   [PublishPair(r, pair) EXCEPT !.current = r]]
  ELSE UNCHANGED email

CommitRows(r, seen) ==
  LET pair == IF Chooses(r) THEN PairOf(r, seen) ELSE run[r].pair IN
  /\ CommitRun(r, pair)
  /\ CommitEmail(r, pair)

\* The documents whose role a result names: those of a comparison, less the
\* ones whose role could not be read.
Named(r) == IF job[r].result = "comparison" THEN run[r].docs ELSE {}

\* The terminal record of _execute.  The run may fail to be read back after it
\* is committed; _fail then notes it and the caller gets an error.
Commit(r) ==
  /\ up
  /\ pc[r] = "finished"
  /\ audit[r] = "RUNNING"
  /\ ~StaleSample(r)
  /\ audit' = [audit EXCEPT ![r] = job[r].outcome]
  /\ \E seen \in SUBSET Named(r) : CommitRows(r, seen)
  /\ \/ pc' = [pc EXCEPT ![r] = "done"] /\ UNCHANGED recording
     \/ pc' = [pc EXCEPT ![r] = "raised"] /\ recording' = recording \cup {r}
  /\ job' = [job EXCEPT ![r] = NoJob]
  /\ UNCHANGED <<documents, permits, held, stopping, initialized,
                 up, stops, cli>>

\* An exception: from a provider or a document in the loop, from finish, or
\* the refusal of a stale sample; and sqlite3.Error from any save.
WorkerFails(r) ==
  /\ up
  /\ \/ /\ pc[r] \in {"working", "closing"} \/ (pc[r] = "finished" /\ StaleSample(r))
        /\ pc' = [pc EXCEPT ![r] = "failing"]
     \/ /\ pc[r] \in {"working", "closing", "finished"}
        /\ pc' = [pc EXCEPT ![r] = "failingDb"]
  /\ UNCHANGED <<mailbox, audit, job, service, cli>>

\* The except clauses of _execute.  Of the worker's memory only the analysis
\* survives, in the audit run the retry of CheckRecording reads.
FailRun(r) ==
  /\ up
  /\ SaveFailure(r)
  /\ \/ pc[r] = "failing" /\ pc' = [pc EXCEPT ![r] = "done"]
     \/ pc[r] \in {"failing", "failingDb"} /\ pc' = [pc EXCEPT ![r] = "raised"]
  /\ job' = [job EXCEPT ![r] = [NoJob EXCEPT !.result = job[r].result]]
  /\ UNCHANGED <<email, documents, permits, held, stopping, initialized,
                 up, stops, cli>>

\* A read of the audit run, a route the backend only has with the extraction
\* tools, retries the failure that could not be saved.
CheckRecording(r) ==
  /\ up
  /\ DevExtraction
  /\ r \in recording
  /\ \/ audit[r] = "RUNNING" /\ SaveFailure(r)
     \/ /\ audit[r] \notin {"none", "RUNNING"}
        /\ recording' = recording \ {r}
        /\ UNCHANGED <<audit, run>>
  /\ UNCHANGED <<email, documents, pc, job, permits, held, stopping, initialized,
                 up, stops, cli>>
-----------------------------------------------------------------------------
(* The life of the process.                                                *)

ProcessEnds ==
  /\ stops < MaxStops
  /\ stops' = stops + 1
  /\ up' = FALSE
  /\ pc' = [r \in Runs |-> IF pc[r] \in {"new", "done"} THEN pc[r] ELSE "lost"]
  /\ job' = [r \in Runs |-> NoJob]
  /\ permits' = Capacity
  /\ held' = {}
  /\ recording' = {}
  /\ stopping' = FALSE
  /\ initialized' = FALSE

\* RunService.shutdown sets stopping and waits for the workers.
BeginShutdown ==
  /\ up
  /\ ~stopping
  /\ stops < MaxStops
  /\ stopping' = TRUE
  /\ UNCHANGED <<mailbox, audit, pc, job, permits, held, recording, initialized,
                 up, stops, cli>>

\* Slip: shutdown also waits for the unsaved failures to be settled.
SlipExit ==
  /\ up
  /\ stopping
  /\ \A r \in Runs : pc[r] \notin WorkerStage
  /\ recording = {}
  /\ ProcessEnds
  /\ UNCHANGED <<mailbox, audit, cli>>

Exit ==
  /\ up
  /\ stopping
  /\ \A r \in Runs : pc[r] \notin WorkerStage
  /\ ProcessEnds
  /\ UNCHANGED <<mailbox, audit, cli>>

Crash ==
  /\ up
  /\ ProcessEnds
  /\ UNCHANGED <<mailbox, audit, cli>>

\* The audit database (WAL) commits before the mailbox database attached to it
\* (rollback journal): a crash in between keeps the one and loses the other.
CrashInCommit(r) ==
  /\ up
  /\ audit[r] = "RUNNING"
  /\ \/ /\ pc[r] = "finished"
        /\ ~StaleSample(r)
        /\ audit' = [audit EXCEPT ![r] = job[r].outcome]
     \/ /\ pc[r] \in {"failing", "failingDb"}
        /\ audit' = [audit EXCEPT ![r] = "FAILED"]
  /\ ProcessEnds
  /\ UNCHANGED <<mailbox, cli>>

\* The lifespan of the application: AuditStore.initialize when the extraction
\* tools are enabled, then Store.recover_audit_runs.
Restart ==
  /\ ~up
  /\ up' = TRUE
  /\ initialized' = DevExtraction
  /\ audit' = IF DevExtraction THEN Interrupted ELSE audit
  /\ run' = Recover(Running)
  /\ UNCHANGED <<email, documents, pc, job, permits, held, recording,
                 stopping, stops, cli>>
-----------------------------------------------------------------------------
(* The import command, a process of its own that may run beside the backend. *)

\* main: AuditStore.initialize, then Store.recover_audit_runs, then the import.
CliInterrupts ==
  /\ cli = "idle"
  /\ Imports # {}
  /\ audit' = Interrupted
  /\ cli' = "recovering"
  /\ UNCHANGED <<mailbox, pc, job, service>>

CliRecovers ==
  /\ cli = "recovering"
  /\ run' = Recover(Running)
  /\ cli' = "importing"
  /\ UNCHANGED <<email, documents, audit, pc, job, service>>

\* Store.import_dataset: the samples whose fingerprint changed, all or none.
ImportDataset(brought, old) ==
  LET changed == DOMAIN brought IN
  /\ cli = "importing"
  /\ \A e \in changed : NotRunning(e, old) /\ email[e].revision < MaxRevision
  /\ run' = Recover(old)
  /\ email' = [e \in Emails |->
                 IF e \in changed
                 THEN [email[e] EXCEPT !.revision = @ + 1, !.docs = brought[e],
                                       !.current = NoRun, !.latest = NoRun]
                 ELSE email[e]]
  /\ documents' = documents \cup UNION {brought[e] : e \in changed}
  /\ cli' = "idle"
  /\ UNCHANGED <<audit, pc, job, service>>

\* A sample being analyzed, or a bad dataset, ends the command.
CliRefused ==
  /\ cli = "importing"
  /\ cli' = "idle"
  /\ UNCHANGED <<mailbox, audit, pc, job, service>>
-----------------------------------------------------------------------------
RequestStep(r) ==
  \/ AcquirePermit(r)
  \/ RefuseBusy(r)
  \/ InitializeFails(r)
  \/ CreateAudit(r)
  \/ CreateFails(r)
  \/ Submit(r)
  \/ AcceptanceFails(r)
  \/ ReportError(r)

WorkerStep(r) ==
  \/ ExtractDocuments(r)
  \/ FinishAnalysis(r)
  \/ Commit(r)
  \/ WorkerFails(r)
  \/ FailRun(r)
  \/ Release(r)

Next ==
  \/ \E old \in SUBSET Running : ReadMailbox(old)
  \/ \E e \in Emails, r \in Runs, old \in SUBSET Running : Analyze(e, r, old)
  \/ \E e \in Tasks, pair \in Pair : SelectPair(e, pair)
  \/ \E e \in Tasks, role \in Role, d \in Docs : ReplaceDocument(e, role, d)
  \/ \E r \in Runs : RequestStep(r)
  \/ \E r \in Runs : WorkerStep(r)
  \/ \E r \in Runs : CheckRecording(r)
  \/ BeginShutdown
  \/ Exit
  \/ Crash
  \/ \E r \in Runs : CrashInCommit(r)
  \/ Restart
  \/ CliInterrupts
  \/ CliRecovers
  \/ \E changed \in SUBSET (Emails \ Tasks), old \in SUBSET Running :
       \E brought \in [changed -> Imports] : ImportDataset(brought, old)
  \/ CliRefused

Spec == Init /\ [][Next]_vars

\* What the scheduling of the code justifies.  Threads run until they return,
\* so no request or worker thread halts for good between two of its steps.
ThreadsFair ==
  \A r \in Runs : WF_vars(RequestStep(r)) /\ WF_vars(WorkerStep(r))

FairSpec == Spec /\ ThreadsFair /\ WF_vars(Exit)
-----------------------------------------------------------------------------
(* Safety.                                                                 *)

\* The result an email shows belongs to a run that succeeded, on this email, at
\* its present revision: no run of an older revision ever becomes current.
CurrentIsOwnSuccess ==
  \A e \in Emails : email[e].current # NoRun =>
    LET c == email[e].current IN
    /\ run[c].status = "SUCCEEDED"
    /\ run[c].email = e
    /\ run[c].revision = email[e].revision

\* A task shows a result of exactly the pair it has selected now, made from
\* documents attached now: reviews are taken against run and pair together.
CurrentUsesSelectedPair ==
  \A e \in Tasks : email[e].current # NoRun =>
    LET c == email[e].current IN
    /\ run[c].pair = email[e].pair
    /\ run[c].docs \subseteq email[e].docs

\* _check_not_running looks only at the latest run.  That is enough: a RUNNING
\* run of the present revision is always the latest, so there is at most one.
RunningIsLatest ==
  \A r \in Running :
    run[r].revision = email[run[r].email].revision => email[run[r].email].latest = r

\* Reanalyzing a revision keeps its comparison baseline, whatever runs of
\* older revisions finish in between; a baseline is a comparable success of an
\* older revision of the same task.
BaselineFrozen ==
  \A r \in Runs : run[r].status # "none" =>
    /\ \A s \in Runs :
         /\ run[s].status # "none"
         /\ run[s].email = run[r].email
         /\ run[s].revision = run[r].revision
         => run[s].base = run[r].base
    /\ LET base == run[r].base IN
       base # NoRun => /\ run[base].status = "SUCCEEDED"
                       /\ run[base].result = "comparison"
                       /\ run[base].email = run[r].email
                       /\ run[base].revision < run[r].revision

\* The two databases tell one story: a success of the mailbox is one of the
\* audit history, and the other way round unless the process died under it.
DatabasesAgree ==
  \A r \in Runs :
    /\ run[r].status = "SUCCEEDED" => audit[r] = "SUCCEEDED"
    /\ audit[r] = "SUCCEEDED" => run[r].status = "SUCCEEDED" \/ pc[r] = "lost"

\* Every permit is either free or held by exactly one run, on every path out
\* of RunService.run: refused, not created, not submitted, or executed.  A run
\* that is processed holds its permit until it is over, so no more runs than
\* there are permits are with the executor, which never queues.
PermitsBalance ==
  /\ permits + Cardinality(held) = Capacity
  /\ \A r \in held : pc[r] \in {"acquired", "created", "raised", "done"} \cup WorkerStage
  /\ \A r \in Runs : pc[r] \in {"acquired", "created"} \cup WorkerStage => r \in held

\* A live backend forgets no run.  A RUNNING audit run still has its thread, or
\* is noted for a read to fail it when neither its result nor its failure could
\* be saved, or was left by an earlier process and is interrupted by the next
\* initialization; and no RUNNING row of the mailbox is of a run whose process
\* died under it, so each still has its thread or expires.
NothingForgotten == up =>
  /\ \A r \in Running : pc[r] # "lost"
  /\ \A r \in Runs : audit[r] = "RUNNING" =>
       \/ pc[r] \in {"created"} \cup WorkerStage
       \/ r \in recording
       \/ pc[r] \in {"done", "lost"} /\ ~initialized

\* A pair names attached documents, and the two roles different ones.
PairAttached ==
  \A e \in Tasks : LET pair == email[e].pair IN
    /\ \A role \in Role : pair[role] \in email[e].docs \cup {NoDoc}
    /\ pair["si"] = pair["bl"] => pair["si"] = NoDoc

\* Once a run has succeeded its row never changes again.
SuccessIsFinal ==
  [][\A r \in Runs : run[r].status = "SUCCEEDED" => run'[r] = run[r]]_vars

\* The current result changes in two ways only: a new revision clears it, or
\* the latest run, RUNNING until this very step, succeeds.  A failed, stale,
\* expired or interrupted run leaves the last success in place.
OnlyLatestRunPublishes ==
  [][\A e \in Emails : email'[e].current # email[e].current =>
       \/ /\ email'[e].revision = email[e].revision + 1
          /\ email'[e].current = NoRun
       \/ /\ email'[e].revision = email[e].revision
          /\ email'[e].current = email[e].latest
          /\ run[email[e].latest].status = "RUNNING"
          /\ run'[email[e].latest].status = "SUCCEEDED"]_vars

\* Within a revision an analysis never overrides the user: a pair he selected,
\* or a document he uploaded for a role, stays as it is.
SelectionSurvivesRuns ==
  [][\A e \in Tasks : email'[e].revision = email[e].revision =>
       /\ email[e].selected => email'[e].pair = email[e].pair
       /\ \A role \in Role : email[e].pair[role] # NoDoc =>
            email'[e].pair[role] = email[e].pair[role]]_vars
-----------------------------------------------------------------------------
(* What the runs, revisions and results of the mailbox amount to.          *)

BoardState(r) ==
  CASE run[r].status = "none" -> "unused"
    [] run[r].status = "RUNNING" -> "open"
    [] run[r].status = "FAILED" -> "closed"
    [] run[r].status = "SUCCEEDED" -> "succeeded"

Board == INSTANCE ResultBoard WITH
  revision <- [e \in Emails |-> email[e].revision],
  asked <- [r \in Runs |-> IF run[r].status = "none" THEN {}
                           ELSE {<<run[r].email, run[r].revision>>}],
  state <- [r \in Runs |-> BoardState(r)],
  latest <- [e \in Emails |-> email[e].latest],
  shown <- [e \in Emails |-> email[e].current]

\* The mailbox, its worker threads and everything that befalls them implement
\* the result board: only the open latest run of the present revision ever
\* changes the result shown, and every other success is history.
ImplementsBoard == Board!Spec
-----------------------------------------------------------------------------
(* Liveness, under FairSpec.                                               *)

\* Every request comes to an end and gives its permit back.
RequestsEnd ==
  \A r \in Runs :
    pc[r] = "inserted" ~> pc[r] \in {"done", "lost"} /\ r \notin held

\* A graceful shutdown ends.
ShutdownEnds == stopping ~> ~up
-----------------------------------------------------------------------------
(* What the documentation says and the code does not keep.                 *)

\* A run only replaces the last result by a result.
CurrentHasResult ==
  \A e \in Emails : email[e].current # NoRun => run[email[e].current].result # "none"

\* "Runs and document versions are immutable once finalized." (docs/PRD.md)
FinalizedIsFinal ==
  [][\A r \in Runs : run[r].status \in {"SUCCEEDED", "FAILED"} =>
       run'[r].status = run[r].status]_vars
=============================================================================
