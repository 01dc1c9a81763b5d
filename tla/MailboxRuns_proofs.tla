------------------------- MODULE MailboxRuns_proofs -------------------------
(***************************************************************************)
(* Theorems about MailboxRuns for every value of its constants: its types, *)
(* the permits of the run service, what an email and its runs keep to one  *)
(* another, and the result board they implement.                           *)
(***************************************************************************)
EXTENDS MailboxRuns, FiniteSetTheorems, TLAPS

USE DEF mailbox, service

LEMMA InitType == Init => TypeOK
<1> SUFFICES ASSUME Init PROVE TypeOK
  OBVIOUS
<1>1. NoPair \in Pair /\ FirstPairs \subseteq [Emails -> Pair]
  BY PairsAssumption DEF NoPair, Pair, Role, DocOrNone
<1>2. NoRow \in RunRow
  BY <1>1, EmailsAssumption DEF NoRow, RunRow, RunOrNone, Result
<1>3. NoJob \in Job
  BY DEF NoJob, Job, Result
<1>4. email \in [Emails -> EmailRow]
  BY <1>1, DocsAssumption DEF Init, EmailRow, RunOrNone
<1>5. documents \subseteq Docs
  BY DocsAssumption DEF Init
<1> QED
  BY <1>2, <1>3, <1>4, <1>5, SettingsAssumption
  DEF Init, TypeOK, AuditStatus, Stage

LEMMA RecoverType ==
  ASSUME run \in [Runs -> RunRow], NEW old
  PROVE  Recover(old) \in [Runs -> RunRow]
<1>1. \A r \in Runs : FailedRow(r) \in RunRow
  BY DEF FailedRow, RunRow
<1> QED
  BY <1>1 DEF Recover

LEMMA BaselinesType ==
  ASSUME TypeOK, NEW e \in Emails
  PROVE  Baselines(e) \subseteq RunOrNone
  BY DEF Baselines, Attempts, Comparable, TypeOK, RunRow, RunOrNone

LEMMA AnalyzeType ==
  ASSUME TypeOK, NEW e \in Emails, NEW r \in Runs, NEW old \in SUBSET Running,
         Analyze(e, r, old)
  PROVE  email' \in [Emails -> EmailRow] /\ run' \in [Runs -> RunRow]
<1>1. email[e] \in EmailRow
  BY DEF TypeOK
<1>2. email' \in [Emails -> EmailRow]
  BY <1>1 DEF Analyze, TypeOK, EmailRow, RunOrNone
<1>3. AnalyzedDocs(e) \subseteq Docs
  BY <1>1 DEF AnalyzedDocs, EmailRow
<1>4. PICK base \in IF e \in Tasks THEN Baselines(e) ELSE {NoRun} :
        run' = [Recover(old) EXCEPT ![r] =
                  [status |-> "RUNNING", email |-> e,
                   revision |-> email[e].revision, docs |-> AnalyzedDocs(e),
                   pair |-> email[e].pair, base |-> base, result |-> "none"]]
  BY DEF Analyze
<1>5. base \in RunOrNone
  BY <1>4, BaselinesType DEF RunOrNone
<1>6. [status |-> "RUNNING", email |-> e, revision |-> email[e].revision,
       docs |-> AnalyzedDocs(e), pair |-> email[e].pair, base |-> base,
       result |-> "none"] \in RunRow
  BY <1>1, <1>3, <1>5 DEF RunRow, EmailRow, Result
<1> QED
  BY <1>2, <1>4, <1>6, RecoverType DEF TypeOK

LEMMA AdvanceType ==
  ASSUME TypeOK, NEW e \in Emails, NEW docs \in SUBSET Docs, NEW pair \in Pair,
         NEW selected \in BOOLEAN, Advance(e, docs, pair, selected)
  PROVE  email' \in [Emails -> EmailRow]
<1>1. email[e].revision + 1 \in Nat
  BY DEF TypeOK, EmailRow
<1>2. [revision |-> email[e].revision + 1, docs |-> docs, pair |-> pair,
       selected |-> selected, current |-> NoRun, latest |-> NoRun] \in EmailRow
  BY <1>1 DEF EmailRow, RunOrNone
<1> QED
  BY <1>2 DEF Advance, TypeOK

LEMMA SaveFailureType ==
  ASSUME TypeOK, NEW r \in Runs, SaveFailure(r)
  PROVE  /\ audit' \in [Runs -> AuditStatus]
         /\ run' \in [Runs -> RunRow]
         /\ recording' \subseteq Runs
<1>1. CASE UNCHANGED <<audit, run>> /\ recording' = recording \cup {r}
  BY <1>1 DEF TypeOK
<1>2. CASE /\ audit' = [audit EXCEPT ![r] = "FAILED"]
           /\ run' = [run EXCEPT ![r].status = "FAILED", ![r].result = job[r].result]
           /\ recording' = recording \ {r}
  <2>1. job[r].result \in Result
    BY DEF TypeOK, Job
  <2>2. run[r] \in RunRow
    BY DEF TypeOK
  <2>3. [run[r] EXCEPT !.status = "FAILED", !.result = job[r].result] \in RunRow
    BY <2>1, <2>2 DEF RunRow
  <2>4. run' \in [Runs -> RunRow]
    BY <1>2, <2>3 DEF TypeOK
  <2> QED
    BY <1>2, <2>4 DEF TypeOK, AuditStatus
<1> QED
  BY <1>1, <1>2 DEF SaveFailure

LEMMA PairOfType ==
  ASSUME TypeOK, NEW r \in Runs, NEW seen \in SUBSET Docs
  PROVE  PairOf(r, seen) \in Pair
<1>1. run[r].pair \in [Role -> DocOrNone]
  BY DEF TypeOK, RunRow, Pair
<1>2. \A role \in Role : PairOf(r, seen)[role] \in DocOrNone
  BY <1>1 DEF PairOf, DocOrNone
<1> QED
  BY <1>2 DEF PairOf, Pair

LEMMA CommitType ==
  ASSUME TypeOK, NEW r \in Runs, NEW seen \in SUBSET Docs, CommitRows(r, seen)
  PROVE  email' \in [Emails -> EmailRow] /\ run' \in [Runs -> RunRow]
<1> DEFINE pair == IF Chooses(r) THEN PairOf(r, seen) ELSE run[r].pair
<1>1. pair \in Pair
  BY PairOfType DEF TypeOK, RunRow
<1>2. CommitRun(r, pair) /\ CommitEmail(r, pair)
  BY DEF CommitRows
<1> HIDE DEF pair
<1>3. run' \in [Runs -> RunRow]
  <2> DEFINE status == IF job[r].outcome = "SUCCEEDED" THEN "SUCCEEDED" ELSE "FAILED"
  <2>1. job[r].result \in Result /\ status \in {"SUCCEEDED", "FAILED"}
    BY DEF TypeOK, Job
  <2>2. run' = [run EXCEPT ![r].status = status, ![r].result = job[r].result,
                           ![r].pair = pair]
    BY <1>2 DEF CommitRun
  <2> HIDE DEF status
  <2>3. [run[r] EXCEPT !.status = status, !.result = job[r].result,
                       !.pair = pair] \in RunRow
    <3>1. run[r] \in RunRow
      BY DEF TypeOK
    <3> QED
      BY <1>1, <2>1, <3>1 DEF RunRow
  <2> QED
    BY <2>2, <2>3 DEF TypeOK
<1>4. email' \in [Emails -> EmailRow]
  <2>1. run[r].email \in Emails /\ email[run[r].email] \in EmailRow
    BY DEF TypeOK, RunRow
  <2>2. (\A role \in Role : pair[role] # NoDoc) \in BOOLEAN
    OBVIOUS
  <2>3. PublishPair(r, pair) \in EmailRow
    BY <1>1, <2>1, <2>2 DEF PublishPair, EmailRow
  <2>4. [PublishPair(r, pair) EXCEPT !.current = r] \in EmailRow
    BY <2>3 DEF EmailRow, RunOrNone
  <2> QED
    BY <1>2, <2>1, <2>4 DEF CommitEmail, TypeOK
<1> QED
  BY <1>3, <1>4

LEMMA ProcessEndsType ==
  ASSUME TypeOK, ProcessEnds
  PROVE  /\ pc' \in [Runs -> Stage]
         /\ job' \in [Runs -> Job]
         /\ permits' \in Nat
         /\ held' \subseteq Runs
         /\ recording' \subseteq Runs
         /\ stopping' \in BOOLEAN
         /\ initialized' \in BOOLEAN
         /\ up' \in BOOLEAN
         /\ stops' \in Nat
<1>1. pc' \in [Runs -> Stage]
  BY DEF ProcessEnds, TypeOK, Stage
<1>2. job' \in [Runs -> Job]
  BY DEF ProcessEnds, NoJob, Job, Result
<1>3. stops' \in Nat /\ permits' \in Nat
  BY SettingsAssumption DEF ProcessEnds, TypeOK
<1> QED
  BY <1>1, <1>2, <1>3 DEF ProcessEnds

LEMMA ImportType ==
  ASSUME TypeOK, NEW changed \in SUBSET (Emails \ Tasks),
         NEW old \in SUBSET Running, NEW brought \in [changed -> Imports],
         ImportDataset(brought, old)
  PROVE  email' \in [Emails -> EmailRow] /\ documents' \subseteq Docs
<1>1. DOMAIN brought = changed /\ \A e \in changed : brought[e] \subseteq Docs
  BY DocsAssumption
<1>2. ASSUME NEW e \in changed
      PROVE  [email[e] EXCEPT !.revision = @ + 1, !.docs = brought[e],
                              !.current = NoRun, !.latest = NoRun] \in EmailRow
  <2>1. email[e] \in EmailRow /\ email[e].revision + 1 \in Nat
    BY DEF TypeOK, EmailRow
  <2> QED
    BY <1>1, <2>1 DEF EmailRow, RunOrNone
<1>3. email' = [e \in Emails |->
                  IF e \in changed
                  THEN [email[e] EXCEPT !.revision = @ + 1, !.docs = brought[e],
                                        !.current = NoRun, !.latest = NoRun]
                  ELSE email[e]]
  BY <1>1 DEF ImportDataset
<1>4. email' \in [Emails -> EmailRow]
  BY <1>2, <1>3 DEF TypeOK
<1>5. UNION {brought[e] : e \in changed} \subseteq Docs
  BY <1>1
<1>6. documents' = documents \cup UNION {brought[e] : e \in changed}
  BY <1>1 DEF ImportDataset
<1> QED
  BY <1>4, <1>5, <1>6 DEF TypeOK

LEMMA NextType == TypeOK /\ [Next]_vars => TypeOK'
<1> SUFFICES ASSUME TypeOK, [Next]_vars PROVE TypeOK'
  OBVIOUS
<1>1. ASSUME NEW old \in SUBSET Running, ReadMailbox(old) PROVE TypeOK'
  BY <1>1, RecoverType DEF ReadMailbox, TypeOK
<1>2. ASSUME NEW e \in Emails, NEW r \in Runs, NEW old \in SUBSET Running,
             Analyze(e, r, old) PROVE TypeOK'
  <2>1. email[e].selected \in BOOLEAN
    BY DEF TypeOK, EmailRow
  <2>2. job' \in [Runs -> Job]
    <3>1. job' = [job EXCEPT ![r].selected = email[e].selected]
      BY <1>2 DEF Analyze
    <3>2. job[r] \in Job
      BY DEF TypeOK
    <3>3. [job[r] EXCEPT !.selected = email[e].selected] \in Job
      BY <2>1, <3>2 DEF Job
    <3> QED
      BY <3>1, <3>3 DEF TypeOK
  <2>3. pc' \in [Runs -> Stage]
    BY <1>2 DEF Analyze, TypeOK, Stage
  <2> QED
    BY <1>2, <2>2, <2>3, AnalyzeType DEF Analyze, TypeOK
<1>3. ASSUME NEW e \in Tasks, NEW pair \in Pair, SelectPair(e, pair) PROVE TypeOK'
  <2>1. email' \in [Emails -> EmailRow]
    BY <1>3, AdvanceType, EmailsAssumption DEF SelectPair, TypeOK, EmailRow
  <2> QED
    BY <1>3, <2>1 DEF SelectPair, TypeOK
<1>4. ASSUME NEW e \in Tasks, NEW role \in Role, NEW d \in Docs,
             ReplaceDocument(e, role, d) PROVE TypeOK'
  <2>1. email[e] \in EmailRow /\ e \in Emails
    BY EmailsAssumption DEF TypeOK
  <2>2. [email[e].pair EXCEPT ![role] = d] \in Pair
    BY <2>1 DEF EmailRow, Pair, DocOrNone
  <2>3. (email[e].docs \ {email[e].pair[role]}) \cup {d} \in SUBSET Docs
    BY <2>1 DEF EmailRow
  <2>4. email' \in [Emails -> EmailRow]
    <3>1. email[e].selected \in BOOLEAN
      BY <2>1 DEF EmailRow
    <3>2. Advance(e, (email[e].docs \ {email[e].pair[role]}) \cup {d},
                  [email[e].pair EXCEPT ![role] = d], email[e].selected)
      BY <1>4 DEF ReplaceDocument
    <3> QED
      BY <2>1, <2>2, <2>3, <3>1, <3>2, AdvanceType
  <2> QED
    BY <1>4, <2>4 DEF ReplaceDocument, TypeOK
<1>5. ASSUME NEW r \in Runs, AcquirePermit(r) PROVE TypeOK'
  BY <1>5 DEF AcquirePermit, InitializeOnce, Interrupted, AuditStatus, Stage, TypeOK
<1>6. ASSUME NEW r \in Runs, RefuseBusy(r) \/ InitializeFails(r) PROVE TypeOK'
  BY <1>6 DEF RefuseBusy, InitializeFails, InitializeOnce, Interrupted, AuditStatus,
              Stage, TypeOK
<1>7. ASSUME NEW r \in Runs, CreateAudit(r) PROVE TypeOK'
  BY <1>7 DEF CreateAudit, AuditStatus, Stage, TypeOK
<1>8. ASSUME NEW r \in Runs, CreateFails(r) PROVE TypeOK'
  BY <1>8 DEF CreateFails, GiveBack, Stage, TypeOK
<1>9. ASSUME NEW r \in Runs, Submit(r) PROVE TypeOK'
  BY <1>9 DEF Submit, Stage, WorkerStage, TypeOK
<1>10. ASSUME NEW r \in Runs, AcceptanceFails(r) PROVE TypeOK'
  <2>1. pc' \in [Runs -> Stage] /\ permits' \in Nat /\ held' \subseteq Runs
    BY <1>10 DEF AcceptanceFails, GiveBack, Stage, TypeOK
  <2> QED
    BY <1>10, <2>1, SaveFailureType DEF AcceptanceFails, TypeOK
<1>11. ASSUME NEW r \in Runs, ReportError(r) PROVE TypeOK'
  <2>1. FailedRow(r) \in RunRow
    BY DEF FailedRow, RunRow, TypeOK
  <2>2. run' \in [Runs -> RunRow]
    BY <1>11, <2>1 DEF ReportError, TypeOK
  <2> QED
    BY <1>11, <2>2 DEF ReportError, Stage, TypeOK
<1>12. ASSUME NEW r \in Runs, ExtractDocuments(r) PROVE TypeOK'
  <2>1. PICK docs \in {"ok", "unreadable", "error"} :
          job' = [job EXCEPT ![r].docs = docs,
                             ![r].outcome = IF stopping THEN "INTERRUPTED"
                                            ELSE IF docs = "ok" THEN "SUCCEEDED"
                                            ELSE "FAILED"]
    BY <1>12 DEF ExtractDocuments
  <2>2. job' \in [Runs -> Job]
    <3> DEFINE outcome == IF stopping THEN "INTERRUPTED"
                          ELSE IF docs = "ok" THEN "SUCCEEDED" ELSE "FAILED"
    <3>1. outcome \in {"RUNNING", "SUCCEEDED", "FAILED", "INTERRUPTED"}
      OBVIOUS
    <3>2. job' = [job EXCEPT ![r].docs = docs, ![r].outcome = outcome]
      BY <2>1
    <3> HIDE DEF outcome
    <3>3. job[r] \in Job
      BY DEF TypeOK
    <3>4. [job[r] EXCEPT !.docs = docs, !.outcome = outcome] \in Job
      BY <3>1, <3>3 DEF Job
    <3> QED
      BY <3>2, <3>4 DEF TypeOK
  <2>3. pc' \in [Runs -> Stage]
    BY <1>12 DEF ExtractDocuments, TypeOK, Stage, WorkerStage
  <2> QED
    BY <1>12, <2>2, <2>3 DEF ExtractDocuments, TypeOK
<1>13. ASSUME NEW r \in Runs, FinishAnalysis(r) PROVE TypeOK'
  <2>1. job' \in [Runs -> Job]
    <3>1. CASE job' = [job EXCEPT ![r].docs = "ok"]
      BY <3>1 DEF TypeOK, Job
    <3>2. ASSUME NEW result \in {"other", "comparison"},
                 job' = [job EXCEPT ![r].docs = "ok", ![r].result = result,
                                    ![r].outcome = IF job[r].docs = "error"
                                                   THEN "FAILED" ELSE "SUCCEEDED"]
          PROVE  job' \in [Runs -> Job]
      <4> DEFINE outcome == IF job[r].docs = "error" THEN "FAILED" ELSE "SUCCEEDED"
      <4>1. outcome \in {"RUNNING", "SUCCEEDED", "FAILED", "INTERRUPTED"}
        OBVIOUS
      <4>2. job' = [job EXCEPT ![r].docs = "ok", ![r].result = result,
                               ![r].outcome = outcome]
        BY <3>2
      <4> HIDE DEF outcome
      <4>3. job[r] \in Job
        BY DEF TypeOK
      <4>4. [job[r] EXCEPT !.docs = "ok", !.result = result,
                           !.outcome = outcome] \in Job
        BY <3>2, <4>1, <4>3 DEF Job, Result
      <4> QED
        BY <4>2, <4>4 DEF TypeOK
    <3> QED
      BY <1>13, <3>1, <3>2 DEF FinishAnalysis
  <2>2. pc' \in [Runs -> Stage]
    BY <1>13 DEF FinishAnalysis, TypeOK, Stage, WorkerStage
  <2> QED
    BY <1>13, <2>1, <2>2 DEF FinishAnalysis, TypeOK
<1>14. ASSUME NEW r \in Runs, Commit(r) PROVE TypeOK'
  <2>1. PICK seen \in SUBSET Docs : CommitRows(r, seen)
    BY <1>14 DEF Commit, Named, TypeOK, RunRow
  <2>2. audit' \in [Runs -> AuditStatus]
    BY <1>14 DEF Commit, TypeOK, Job, AuditStatus
  <2>3. pc' \in [Runs -> Stage] /\ recording' \subseteq Runs
    BY <1>14 DEF Commit, TypeOK, Stage
  <2>4. job' \in [Runs -> Job]
    BY <1>14 DEF Commit, TypeOK, NoJob, Job, Result
  <2> QED
    BY <1>14, <2>1, <2>2, <2>3, <2>4, CommitType DEF Commit, TypeOK
<1>15. ASSUME NEW r \in Runs, WorkerFails(r) PROVE TypeOK'
  BY <1>15 DEF WorkerFails, Stage, WorkerStage, TypeOK
<1>16. ASSUME NEW r \in Runs, FailRun(r) PROVE TypeOK'
  <2>1. job' \in [Runs -> Job]
    BY <1>16 DEF FailRun, TypeOK, NoJob, Job, Result
  <2>2. pc' \in [Runs -> Stage]
    BY <1>16 DEF FailRun, TypeOK, Stage
  <2> QED
    BY <1>16, <2>1, <2>2, SaveFailureType DEF FailRun, TypeOK
<1>17. ASSUME NEW r \in Runs, Release(r) PROVE TypeOK'
  BY <1>17 DEF Release, GiveBack, TypeOK
<1>18. ASSUME NEW r \in Runs, CheckRecording(r) PROVE TypeOK'
  BY <1>18, SaveFailureType DEF CheckRecording, TypeOK
<1>19. ASSUME BeginShutdown PROVE TypeOK'
  BY <1>19 DEF BeginShutdown, TypeOK
<1>20. ASSUME Exit PROVE TypeOK'
  BY <1>20, ProcessEndsType DEF Exit, TypeOK
<1>21. ASSUME Crash PROVE TypeOK'
  BY <1>21, ProcessEndsType DEF Crash, TypeOK
<1>22. ASSUME NEW r \in Runs, CrashInCommit(r) PROVE TypeOK'
  <2>1. audit' \in [Runs -> AuditStatus]
    BY <1>22 DEF CrashInCommit, TypeOK, Job, AuditStatus
  <2> QED
    BY <1>22, <2>1, ProcessEndsType DEF CrashInCommit, TypeOK
<1>23. ASSUME Restart PROVE TypeOK'
  BY <1>23, RecoverType, SettingsAssumption
  DEF Restart, Interrupted, AuditStatus, TypeOK
<1>24. ASSUME CliInterrupts PROVE TypeOK'
  BY <1>24 DEF CliInterrupts, Interrupted, AuditStatus, TypeOK
<1>25. ASSUME CliRecovers PROVE TypeOK'
  BY <1>25, RecoverType DEF CliRecovers, TypeOK
<1>26. ASSUME NEW changed \in SUBSET (Emails \ Tasks), NEW old \in SUBSET Running,
             NEW brought \in [changed -> Imports], ImportDataset(brought, old) PROVE TypeOK'
  BY <1>26, ImportType, RecoverType DEF ImportDataset, TypeOK
<1>27. ASSUME CliRefused PROVE TypeOK'
  BY <1>27 DEF CliRefused, TypeOK
<1>28. ASSUME UNCHANGED vars PROVE TypeOK'
  BY <1>28 DEF vars, TypeOK
<1> QED
  BY <1>1, <1>2, <1>3, <1>4, <1>5, <1>6, <1>7, <1>8, <1>9, <1>10, <1>11, <1>12, <1>13, <1>14,
     <1>15, <1>16, <1>17, <1>18, <1>19, <1>20, <1>21, <1>22, <1>23, <1>24, <1>25, <1>26, <1>27,
     <1>28
     DEF Next, RequestStep, WorkerStep

(***************************************************************************)
(* Both databases, the worker threads and the service keep their types     *)
(* over requests, failed writes, imports, crashes and restarts.            *)
(***************************************************************************)
THEOREM TypeCorrect == Spec => []TypeOK
  BY InitType, NextType, PTL DEF Spec
-----------------------------------------------------------------------------
(***************************************************************************)
(* The inductive invariant.  A run has a row exactly when its id has been  *)
(* used, and an audit record only from CreateAudit on: that is what keeps  *)
(* a failure, written by whoever finds the audit run RUNNING, away from a  *)
(* row that already succeeded.                                             *)
(***************************************************************************)
RowsFollowStages ==
  \A r \in Runs :
    /\ pc[r] = "new" <=> run[r].status = "none"
    /\ pc[r] \in {"new", "inserted", "acquired"} => audit[r] = "none"

Inv == TypeOK /\ RowsFollowStages /\ DatabasesAgree /\ CurrentIsOwnSuccess

\* What a step may do to the row of a run: a success is final, and a row keeps
\* its email, its revision and its baseline.
RowStep(r) ==
  /\ run[r].status = "SUCCEEDED" => run'[r] = run[r]
  /\ run[r].status # "none" => /\ run'[r].status # "none"
                               /\ run'[r].email = run[r].email
                               /\ run'[r].revision = run[r].revision
                               /\ run'[r].base = run[r].base

LEMMA RecoverStep ==
  ASSUME TypeOK, NEW old \in SUBSET Running, NEW r \in Runs
  PROVE  /\ Recover(old)[r].email = run[r].email
         /\ Recover(old)[r].revision = run[r].revision
         /\ Recover(old)[r].base = run[r].base
         /\ run[r].status # "RUNNING" => Recover(old)[r] = run[r]
         /\ run[r].status = "RUNNING" =>
              Recover(old)[r].status \in {"RUNNING", "FAILED"}
  BY DEF Recover, FailedRow, Running, TypeOK, RunRow

LEMMA SaveFailureStep ==
  ASSUME Inv, NEW r \in Runs, NEW s \in Runs, SaveFailure(r)
  PROVE  RowStep(s)
<1>1. CASE UNCHANGED run
  BY <1>1 DEF RowStep
<1>2. CASE /\ audit[r] = "RUNNING"
           /\ run' = [run EXCEPT ![r].status = "FAILED", ![r].result = job[r].result]
  <2>1. run[r].status # "SUCCEEDED"
    BY <1>2 DEF Inv, DatabasesAgree
  <2> QED
    BY <1>2, <2>1 DEF RowStep, Inv, TypeOK, RunRow
<1> QED
  BY <1>1, <1>2 DEF SaveFailure

LEMMA CommitStep ==
  ASSUME Inv, NEW r \in Runs, NEW s \in Runs, NEW pair, audit[r] = "RUNNING",
         CommitRun(r, pair)
  PROVE  RowStep(s)
<1>1. run[r].status # "SUCCEEDED"
  BY DEF Inv, DatabasesAgree
<1> DEFINE status == IF job[r].outcome = "SUCCEEDED" THEN "SUCCEEDED" ELSE "FAILED"
<1>2. run' = [run EXCEPT ![r].status = status, ![r].result = job[r].result,
                         ![r].pair = pair]
  BY DEF CommitRun
<1>3. status # "none"
  OBVIOUS
<1> HIDE DEF status
<1> QED
  BY <1>1, <1>2, <1>3 DEF RowStep, Inv, TypeOK, RunRow

LEMMA RowsStep == Inv /\ [Next]_vars => \A r \in Runs : RowStep(r)
<1> SUFFICES ASSUME Inv, [Next]_vars, NEW s \in Runs PROVE RowStep(s)
  OBVIOUS
<1>1. ASSUME UNCHANGED run PROVE RowStep(s)
  BY <1>1 DEF RowStep
<1>2. ASSUME NEW old \in SUBSET Running, run' = Recover(old) PROVE RowStep(s)
  BY <1>2, RecoverStep DEF RowStep, Inv, TypeOK, RunRow
<1>3. ASSUME NEW e \in Emails, NEW r \in Runs, NEW old \in SUBSET Running,
             Analyze(e, r, old)
      PROVE  RowStep(s)
  <2>1. run[r].status = "none"
    BY <1>3 DEF Analyze, Inv, RowsFollowStages
  <2>2. s # r => run'[s] = Recover(old)[s]
    BY <1>3 DEF Analyze, Recover
  <2> QED
    BY <2>1, <2>2, RecoverStep DEF RowStep, Inv, TypeOK, RunRow
<1>4. ASSUME NEW r \in Runs, AcceptanceFails(r) \/ FailRun(r) \/ CheckRecording(r)
      PROVE  RowStep(s)
  BY <1>4, <1>1, SaveFailureStep DEF AcceptanceFails, FailRun, CheckRecording
<1>5. ASSUME NEW r \in Runs, ReportError(r) PROVE RowStep(s)
  BY <1>1, <1>5 DEF ReportError, Running, FailedRow, RowStep, Inv, TypeOK, RunRow
<1>6. ASSUME NEW r \in Runs, Commit(r) PROVE RowStep(s)
  BY <1>6, CommitStep DEF Commit, CommitRows
<1>7. CASE \/ \E old \in SUBSET Running : ReadMailbox(old)
           \/ Restart \/ CliRecovers
           \/ \E changed \in SUBSET (Emails \ Tasks), old \in SUBSET Running :
                \E brought \in [changed -> Imports] : ImportDataset(brought, old)
  BY <1>2, <1>7 DEF ReadMailbox, Restart, CliRecovers, ImportDataset
<1>8. CASE \E e \in Tasks, pair \in Pair : SelectPair(e, pair)
  BY <1>1, <1>8 DEF SelectPair
<1>9. CASE \E e \in Tasks, role \in Role, d \in Docs : ReplaceDocument(e, role, d)
  BY <1>1, <1>9 DEF ReplaceDocument
<1>10. CASE \E r \in Runs : \/ AcquirePermit(r) \/ RefuseBusy(r) \/ InitializeFails(r)
                            \/ CreateAudit(r)
                            \/ CreateFails(r) \/ Submit(r)
  BY <1>1, <1>10 DEF AcquirePermit, RefuseBusy, InitializeFails, CreateAudit,
                     CreateFails, Submit
<1>11. CASE \E r \in Runs : \/ ExtractDocuments(r) \/ FinishAnalysis(r)
                            \/ WorkerFails(r) \/ Release(r)
  BY <1>1, <1>11 DEF ExtractDocuments, FinishAnalysis, WorkerFails, Release
<1>12. CASE \/ BeginShutdown \/ Exit \/ Crash \/ CliInterrupts \/ CliRefused
            \/ \E r \in Runs : CrashInCommit(r)
            \/ UNCHANGED vars
  BY <1>1, <1>12
  DEF BeginShutdown, Exit, Crash, CliInterrupts, CliRefused, CrashInCommit, vars
<1> QED
  BY <1>3, <1>4, <1>5, <1>6, <1>7, <1>8, <1>9, <1>10, <1>11, <1>12
  DEF Next, RequestStep, WorkerStep

LEMMA SaveFailureStages ==
  ASSUME Inv, NEW r \in Runs, SaveFailure(r),
         \A s \in Runs : /\ pc'[s] = "new" <=> pc[s] = "new"
                         /\ pc'[s] \in {"inserted", "acquired"} => pc'[s] = pc[s]
  PROVE  RowsFollowStages'
<1> SUFFICES ASSUME NEW s \in Runs
             PROVE  /\ pc'[s] = "new" <=> run'[s].status = "none"
                    /\ pc'[s] \in {"new", "inserted", "acquired"} => audit'[s] = "none"
  BY DEF RowsFollowStages
<1>1. CASE UNCHANGED <<audit, run>>
  BY <1>1 DEF Inv, RowsFollowStages
<1>2. CASE /\ audit[r] = "RUNNING"
           /\ audit' = [audit EXCEPT ![r] = "FAILED"]
           /\ run' = [run EXCEPT ![r].status = "FAILED", ![r].result = job[r].result]
  <2>1. pc[r] \notin {"new", "inserted", "acquired"}
    BY <1>2 DEF Inv, RowsFollowStages
  <2> QED
    BY <1>2, <2>1 DEF Inv, RowsFollowStages, TypeOK, RunRow
<1> QED
  BY <1>1, <1>2 DEF SaveFailure

LEMMA RecoverStages ==
  ASSUME Inv, NEW old \in SUBSET Running, run' = Recover(old),
         UNCHANGED pc, audit' = audit \/ audit' = Interrupted
  PROVE  RowsFollowStages'
<1>1. \A s \in Runs : run'[s].status = "none" <=> run[s].status = "none"
  BY RecoverStep DEF Inv, TypeOK, RunRow
<1>2. \A s \in Runs : audit[s] = "none" => audit'[s] = "none"
  BY DEF Interrupted
<1> QED
  BY <1>1, <1>2 DEF Inv, RowsFollowStages

LEMMA StagesStep == Inv /\ [Next]_vars => RowsFollowStages'
<1> SUFFICES ASSUME Inv, [Next]_vars PROVE RowsFollowStages'
  OBVIOUS
<1> USE DEF Inv, RowsFollowStages
<1>1. ASSUME NEW e \in Emails, NEW r \in Runs, NEW old \in SUBSET Running,
             Analyze(e, r, old)
      PROVE  RowsFollowStages'
  <2>1. run'[r].status = "RUNNING" /\ \A s \in Runs \ {r} : run'[s] = Recover(old)[s]
    BY <1>1 DEF Analyze, Recover
  <2>2. \A s \in Runs \ {r} : run'[s].status = "none" <=> run[s].status = "none"
    BY <2>1, RecoverStep DEF TypeOK, RunRow
  <2> QED
    BY <1>1, <2>1, <2>2 DEF Analyze, TypeOK
<1>2. ASSUME NEW r \in Runs, AcquirePermit(r) \/ RefuseBusy(r) \/ InitializeFails(r)
      PROVE  RowsFollowStages'
  BY <1>2 DEF AcquirePermit, RefuseBusy, InitializeFails, InitializeOnce, Interrupted, TypeOK
<1>3. ASSUME NEW r \in Runs, CreateAudit(r) \/ CreateFails(r) \/ Submit(r)
      PROVE  RowsFollowStages'
  BY <1>3 DEF CreateAudit, CreateFails, Submit, TypeOK
<1>4. ASSUME NEW r \in Runs, AcceptanceFails(r) PROVE RowsFollowStages'
  BY <1>4, SaveFailureStages DEF AcceptanceFails, TypeOK
<1>5. ASSUME NEW r \in Runs, FailRun(r) PROVE RowsFollowStages'
  BY <1>5, SaveFailureStages DEF FailRun, TypeOK
<1>6. ASSUME NEW r \in Runs, CheckRecording(r) PROVE RowsFollowStages'
  BY <1>6, SaveFailureStages DEF CheckRecording
<1>7. ASSUME NEW r \in Runs, ReportError(r) PROVE RowsFollowStages'
  BY <1>7 DEF ReportError, Running, FailedRow, TypeOK, RunRow
<1>8. ASSUME NEW r \in Runs, ExtractDocuments(r) \/ FinishAnalysis(r)
                              \/ WorkerFails(r) \/ Release(r)
      PROVE  RowsFollowStages'
  BY <1>8 DEF ExtractDocuments, FinishAnalysis, WorkerFails, Release, TypeOK
<1>9. ASSUME NEW r \in Runs, Commit(r) PROVE RowsFollowStages'
  <2>1. /\ pc' = [pc EXCEPT ![r] = "done"] \/ pc' = [pc EXCEPT ![r] = "raised"]
        /\ pc[r] = "finished"
        /\ audit' = [audit EXCEPT ![r] = job[r].outcome]
    BY <1>9 DEF Commit
  <2>2. \A s \in Runs : run'[s].status = "none" <=> run[s].status = "none"
    <3>1. PICK pair : CommitRun(r, pair)
      BY <1>9 DEF Commit, CommitRows
    <3>2. run'[r].status # "none" /\ \A s \in Runs \ {r} : run'[s] = run[s]
      BY <3>1 DEF CommitRun, TypeOK, RunRow
    <3> QED
      BY <2>1, <3>2
  <2> QED
    BY <2>1, <2>2 DEF TypeOK
<1>10. CASE \/ \E old \in SUBSET Running : ReadMailbox(old)
            \/ Restart \/ CliRecovers
            \/ \E changed \in SUBSET (Emails \ Tasks), old \in SUBSET Running :
                 \E brought \in [changed -> Imports] : ImportDataset(brought, old)
  BY <1>10, RecoverStages DEF ReadMailbox, Restart, CliRecovers, ImportDataset
<1>11. CASE \E e \in Tasks, pair \in Pair : SelectPair(e, pair)
  BY <1>11 DEF SelectPair
<1>12. CASE \E e \in Tasks, role \in Role, d \in Docs : ReplaceDocument(e, role, d)
  BY <1>12 DEF ReplaceDocument
<1>13. CASE BeginShutdown \/ CliInterrupts \/ CliRefused \/ UNCHANGED vars
  BY <1>13 DEF BeginShutdown, CliInterrupts, CliRefused, Interrupted, vars
<1>14. CASE Exit \/ Crash
  BY <1>14 DEF Exit, Crash, ProcessEnds
<1>15. CASE \E r \in Runs : CrashInCommit(r)
  BY <1>15 DEF CrashInCommit, ProcessEnds, TypeOK
<1> QED
  BY <1>1, <1>2, <1>3, <1>4, <1>5, <1>6, <1>7, <1>8, <1>9, <1>10, <1>11, <1>12,
     <1>13, <1>14, <1>15
  DEF Next, RequestStep, WorkerStep

LEMMA SaveFailureAgrees ==
  ASSUME Inv, NEW r \in Runs, SaveFailure(r),
         \A s \in Runs : pc[s] = "lost" => pc'[s] = "lost"
  PROVE  DatabasesAgree'
<1> USE DEF Inv, DatabasesAgree
<1>1. CASE UNCHANGED <<audit, run>>
  BY <1>1
<1>2. CASE /\ audit[r] = "RUNNING"
           /\ audit' = [audit EXCEPT ![r] = "FAILED"]
           /\ run' = [run EXCEPT ![r].status = "FAILED", ![r].result = job[r].result]
  BY <1>2 DEF TypeOK, RunRow
<1> QED
  BY <1>1, <1>2 DEF SaveFailure

LEMMA RecoverAgrees ==
  ASSUME Inv, NEW old \in SUBSET Running, run' = Recover(old),
         UNCHANGED pc, audit' = audit \/ audit' = Interrupted
  PROVE  DatabasesAgree'
<1>1. \A s \in Runs : run'[s].status = "SUCCEEDED" <=> run[s].status = "SUCCEEDED"
  BY RecoverStep DEF Inv, TypeOK, RunRow
<1>2. \A s \in Runs : audit'[s] = "SUCCEEDED" <=> audit[s] = "SUCCEEDED"
  BY DEF Interrupted
<1> QED
  BY <1>1, <1>2 DEF Inv, DatabasesAgree

LEMMA AgreeStep == Inv /\ [Next]_vars => DatabasesAgree'
<1> SUFFICES ASSUME Inv, [Next]_vars PROVE DatabasesAgree'
  OBVIOUS
<1> USE DEF Inv, DatabasesAgree
<1>1. ASSUME NEW e \in Emails, NEW r \in Runs, NEW old \in SUBSET Running,
             Analyze(e, r, old)
      PROVE  DatabasesAgree'
  <2>1. audit[r] = "none" /\ run'[r].status = "RUNNING"
    BY <1>1 DEF Analyze, Recover, RowsFollowStages
  <2>2. \A s \in Runs \ {r} : run'[s].status = "SUCCEEDED" <=> run[s].status = "SUCCEEDED"
    BY <1>1, RecoverStep DEF Analyze, Recover, TypeOK, RunRow
  <2> QED
    BY <1>1, <2>1, <2>2 DEF Analyze, TypeOK
<1>2. ASSUME NEW r \in Runs, AcquirePermit(r) \/ RefuseBusy(r) \/ InitializeFails(r)
      PROVE  DatabasesAgree'
  BY <1>2 DEF AcquirePermit, RefuseBusy, InitializeFails, InitializeOnce, Interrupted, TypeOK
<1>3. ASSUME NEW r \in Runs, CreateAudit(r) PROVE DatabasesAgree'
  <2>1. audit[r] = "none"
    BY <1>3 DEF CreateAudit, RowsFollowStages
  <2> QED
    BY <1>3, <2>1 DEF CreateAudit, TypeOK
<1>4. ASSUME NEW r \in Runs, CreateFails(r) \/ Submit(r) PROVE DatabasesAgree'
  BY <1>4 DEF CreateFails, Submit, TypeOK
<1>5. ASSUME NEW r \in Runs, AcceptanceFails(r) PROVE DatabasesAgree'
  BY <1>5, SaveFailureAgrees DEF AcceptanceFails, TypeOK
<1>6. ASSUME NEW r \in Runs, FailRun(r) PROVE DatabasesAgree'
  BY <1>6, SaveFailureAgrees DEF FailRun, TypeOK
<1>7. ASSUME NEW r \in Runs, CheckRecording(r) PROVE DatabasesAgree'
  BY <1>7, SaveFailureAgrees DEF CheckRecording
<1>8. ASSUME NEW r \in Runs, ReportError(r) PROVE DatabasesAgree'
  BY <1>8 DEF ReportError, Running, FailedRow, TypeOK, RunRow
<1>9. ASSUME NEW r \in Runs, ExtractDocuments(r) \/ FinishAnalysis(r)
                              \/ WorkerFails(r) \/ Release(r)
      PROVE  DatabasesAgree'
  BY <1>9 DEF ExtractDocuments, FinishAnalysis, WorkerFails, Release, TypeOK
<1>10. ASSUME NEW r \in Runs, Commit(r) PROVE DatabasesAgree'
  <2>1. PICK pair : CommitRun(r, pair)
    BY <1>10 DEF Commit, CommitRows
  <2>2. /\ run'[r].status = "SUCCEEDED" <=> job[r].outcome = "SUCCEEDED"
        /\ \A s \in Runs \ {r} : run'[s] = run[s]
    BY <2>1 DEF CommitRun, TypeOK, RunRow
  <2>3. /\ audit' = [audit EXCEPT ![r] = job[r].outcome]
        /\ pc' = [pc EXCEPT ![r] = "done"] \/ pc' = [pc EXCEPT ![r] = "raised"]
    BY <1>10 DEF Commit
  <2> QED
    BY <2>2, <2>3 DEF TypeOK
<1>11. CASE \/ \E old \in SUBSET Running : ReadMailbox(old)
            \/ Restart \/ CliRecovers
            \/ \E changed \in SUBSET (Emails \ Tasks), old \in SUBSET Running :
                 \E brought \in [changed -> Imports] : ImportDataset(brought, old)
  BY <1>11, RecoverAgrees DEF ReadMailbox, Restart, CliRecovers, ImportDataset
<1>12. CASE \E e \in Tasks, pair \in Pair : SelectPair(e, pair)
  BY <1>12 DEF SelectPair
<1>13. CASE \E e \in Tasks, role \in Role, d \in Docs : ReplaceDocument(e, role, d)
  BY <1>13 DEF ReplaceDocument
<1>14. CASE BeginShutdown \/ CliInterrupts \/ CliRefused \/ UNCHANGED vars
  BY <1>14 DEF BeginShutdown, CliInterrupts, CliRefused, Interrupted, vars
<1>15. CASE Exit \/ Crash
  BY <1>15 DEF Exit, Crash, ProcessEnds
<1>16. CASE \E r \in Runs : CrashInCommit(r)
  BY <1>16 DEF CrashInCommit, ProcessEnds, TypeOK
<1> QED
  BY <1>1, <1>2, <1>3, <1>4, <1>5, <1>6, <1>7, <1>8, <1>9, <1>10, <1>11, <1>12,
     <1>13, <1>14, <1>15, <1>16
  DEF Next, RequestStep, WorkerStep

LEMMA CurrentStep == Inv /\ [Next]_vars => CurrentIsOwnSuccess'
<1> SUFFICES ASSUME Inv, [Next]_vars PROVE CurrentIsOwnSuccess'
  OBVIOUS
<1> USE DEF Inv, CurrentIsOwnSuccess
<1>1. \A r \in Runs : run[r].status = "SUCCEEDED" => run'[r] = run[r]
  BY RowsStep DEF RowStep
<1>2. ASSUME NEW e \in Emails, email[e].current # NoRun
      PROVE  run'[email[e].current] = run[email[e].current]
  BY <1>1, <1>2 DEF TypeOK, EmailRow, RunOrNone
\* An email changes in no way that matters, or loses its result, or its row is
\* written by a commit.
<1>3. ASSUME \A e \in Emails :
               \/ email'[e].current = NoRun
               \/ /\ email'[e].current = email[e].current
                  /\ email'[e].revision = email[e].revision
      PROVE  CurrentIsOwnSuccess'
  BY <1>2, <1>3
<1>4. ASSUME NEW e \in Emails, NEW r \in Runs, NEW old \in SUBSET Running,
             Analyze(e, r, old)
      PROVE  CurrentIsOwnSuccess'
  BY <1>3, <1>4 DEF Analyze, TypeOK, EmailRow
<1>5. ASSUME NEW e \in Tasks, NEW pair \in Pair, SelectPair(e, pair)
      PROVE  CurrentIsOwnSuccess'
  BY <1>3, <1>5 DEF SelectPair, Advance, TypeOK
<1>6. ASSUME NEW e \in Tasks, NEW role \in Role, NEW d \in Docs,
             ReplaceDocument(e, role, d)
      PROVE  CurrentIsOwnSuccess'
  BY <1>3, <1>6 DEF ReplaceDocument, Advance, TypeOK
<1>7. ASSUME NEW changed \in SUBSET (Emails \ Tasks), NEW old \in SUBSET Running,
             NEW brought \in [changed -> Imports], ImportDataset(brought, old)
      PROVE  CurrentIsOwnSuccess'
  <2>1. DOMAIN brought = changed
    OBVIOUS
  <2>2. email' = [e \in Emails |->
                   IF e \in changed
                   THEN [email[e] EXCEPT !.revision = @ + 1, !.docs = brought[e],
                                         !.current = NoRun, !.latest = NoRun]
                   ELSE email[e]]
    BY <1>7, <2>1 DEF ImportDataset
  <2>3. ASSUME NEW e \in changed PROVE email'[e].current = NoRun
    <3>1. email[e] \in EmailRow
      BY DEF TypeOK
    <3>2. email'[e] = [email[e] EXCEPT !.revision = @ + 1, !.docs = brought[e],
                                       !.current = NoRun, !.latest = NoRun]
      BY <2>2
    <3> QED
      BY <3>1, <3>2 DEF EmailRow
  <2>4. \A e \in Emails \ changed : email'[e] = email[e]
    BY <2>2
  <2> QED
    BY <1>3, <2>3, <2>4
<1>8. ASSUME NEW r \in Runs, Commit(r) PROVE CurrentIsOwnSuccess'
  <2>1. PICK pair : CommitRun(r, pair) /\ CommitEmail(r, pair)
    BY <1>8 DEF Commit, CommitRows
  <2>2. CASE UNCHANGED email
    BY <1>3, <2>2
  <2>3. CASE /\ job[r].outcome = "SUCCEEDED" /\ ~Stale(r)
             /\ email' = [email EXCEPT ![run[r].email] =
                             [PublishPair(r, pair) EXCEPT !.current = r]]
    <3>1. /\ run'[r].status = "SUCCEEDED"
          /\ run'[r].email = run[r].email
          /\ run'[r].revision = run[r].revision
      BY <2>1, <2>3 DEF CommitRun, TypeOK, RunRow
    <3>2. run[r].email \in Emails /\ email[run[r].email] \in EmailRow
      BY DEF TypeOK, RunRow
    <3>3. /\ email'[run[r].email].current = r
          /\ email'[run[r].email].revision = email[run[r].email].revision
      BY <2>3, <3>2 DEF PublishPair, TypeOK, EmailRow
    <3>4. \A e \in Emails \ {run[r].email} : email'[e] = email[e]
      BY <2>3 DEF TypeOK
    <3> QED
      BY <1>2, <2>3, <3>1, <3>2, <3>3, <3>4 DEF Stale
  <2> QED
    BY <2>1, <2>2, <2>3 DEF CommitEmail
<1>9. CASE UNCHANGED email
  BY <1>3, <1>9
<1>10. CASE \E r \in Runs : \/ AcquirePermit(r) \/ RefuseBusy(r) \/ InitializeFails(r)
                            \/ CreateAudit(r)
                            \/ CreateFails(r) \/ Submit(r) \/ AcceptanceFails(r)
                            \/ ReportError(r)
  BY <1>9, <1>10 DEF AcquirePermit, RefuseBusy, InitializeFails, CreateAudit, CreateFails, Submit,
                     AcceptanceFails, ReportError
<1>11. CASE \E r \in Runs : \/ ExtractDocuments(r) \/ FinishAnalysis(r) \/ FailRun(r)
                            \/ WorkerFails(r) \/ Release(r) \/ CheckRecording(r)
                            \/ CrashInCommit(r)
  BY <1>9, <1>11 DEF ExtractDocuments, FinishAnalysis, FailRun, WorkerFails, Release,
                     CheckRecording, CrashInCommit
<1>12. CASE \/ BeginShutdown \/ Exit \/ Crash \/ Restart \/ CliInterrupts \/ CliRecovers
            \/ CliRefused \/ UNCHANGED vars \/ \E old \in SUBSET Running : ReadMailbox(old)
  BY <1>9, <1>12 DEF BeginShutdown, Exit, Crash, Restart, CliInterrupts, CliRecovers,
                     CliRefused, ReadMailbox, vars
<1> QED
  BY <1>4, <1>5, <1>6, <1>7, <1>8, <1>10, <1>11, <1>12 DEF Next, RequestStep, WorkerStep

(***************************************************************************)
(* The invariant holds in every reachable state.                           *)
(***************************************************************************)
THEOREM Invariance == Spec => []Inv
<1>1. Init => Inv
  <2> SUFFICES ASSUME Init PROVE Inv
    OBVIOUS
  <2>1. CurrentIsOwnSuccess
    BY DEF Init, CurrentIsOwnSuccess
  <2> QED
    BY <2>1, InitType DEF Init, NoRow, Inv, RowsFollowStages, DatabasesAgree
<1>2. Inv /\ [Next]_vars => Inv'
  BY NextType, StagesStep, AgreeStep, CurrentStep DEF Inv
<1> QED
  BY <1>1, <1>2, PTL DEF Spec

(***************************************************************************)
(* The result an email shows always belongs to a run of this email and its *)
(* present revision that succeeded (MailboxWorkflow.commit).               *)
(***************************************************************************)
THEOREM CurrentCorrect == Spec => []CurrentIsOwnSuccess
  BY Invariance, PTL DEF Inv

(***************************************************************************)
(* Mailbox and audit database agree on every success, unless the process   *)
(* died between their two commits (AuditStore.save).                       *)
(***************************************************************************)
THEOREM DatabasesCorrect == Spec => []DatabasesAgree
  BY Invariance, PTL DEF Inv

(***************************************************************************)
(* No late failure, expiry, recovery or report touches the row of a run    *)
(* that has succeeded.                                                     *)
(***************************************************************************)
THEOREM SuccessCorrect == Spec => SuccessIsFinal
<1>1. Inv /\ [Next]_vars =>
        [\A r \in Runs : run[r].status = "SUCCEEDED" => run'[r] = run[r]]_vars
  BY RowsStep DEF RowStep
<1> QED
  BY <1>1, Invariance, PTL DEF Spec, SuccessIsFinal
-----------------------------------------------------------------------------
(***************************************************************************)
(* Permits.  PermitsBalance is inductive once the runs that hold a permit  *)
(* are known to be finitely many: its last two parts say which stages hold *)
(* one, so a permit is never taken or given back twice.                    *)
(***************************************************************************)
PermitInv == TypeOK /\ IsFiniteSet(held) /\ PermitsBalance

Holding == {"acquired", "created"} \cup WorkerStage
MayHold == {"acquired", "created", "raised", "done"} \cup WorkerStage

LEMMA GiveBackStep ==
  ASSUME PermitInv, NEW r \in held, GiveBack(r)
  PROVE  /\ IsFiniteSet(held')
         /\ permits' + Cardinality(held') = Capacity
<1>1. /\ IsFiniteSet(held \ {r})
      /\ Cardinality(held \ {r}) = Cardinality(held) - 1
  BY FS_RemoveElement DEF PermitInv
<1>2. Cardinality(held) \in Nat /\ permits \in Nat
  BY FS_CardinalityType DEF PermitInv, TypeOK
<1> QED
  BY <1>1, <1>2 DEF GiveBack, PermitInv, PermitsBalance

LEMMA PermitStep == PermitInv /\ [Next]_vars => IsFiniteSet(held') /\ PermitsBalance'
<1> SUFFICES ASSUME PermitInv, [Next]_vars
             PROVE  IsFiniteSet(held') /\ PermitsBalance'
  OBVIOUS
<1>1. held \subseteq Runs /\ pc \in [Runs -> Stage]
  BY DEF PermitInv, TypeOK
<1>2. CASE UNCHANGED <<permits, held, pc>>
  BY <1>2 DEF PermitInv, PermitsBalance
<1>3. CASE \/ \E old \in SUBSET Running : ReadMailbox(old)
           \/ \E e \in Tasks, pair \in Pair : SelectPair(e, pair)
           \/ \E e \in Tasks, role \in Role, d \in Docs : ReplaceDocument(e, role, d)
           \/ \E r \in Runs : CheckRecording(r)
           \/ BeginShutdown \/ Restart \/ CliInterrupts \/ CliRecovers \/ CliRefused
           \/ \E changed \in SUBSET (Emails \ Tasks), old \in SUBSET Running :
                \E brought \in [changed -> Imports] : ImportDataset(brought, old)
           \/ UNCHANGED vars
  BY <1>2, <1>3 DEF ReadMailbox, SelectPair, ReplaceDocument, CheckRecording,
                    BeginShutdown, Restart, CliInterrupts, CliRecovers, CliRefused,
                    ImportDataset, vars
<1>4. ASSUME NEW e \in Emails, NEW r \in Runs, NEW old \in SUBSET Running,
             Analyze(e, r, old)
      PROVE  IsFiniteSet(held') /\ PermitsBalance'
  <2>1. r \notin held
    BY <1>4 DEF Analyze, PermitInv, PermitsBalance, WorkerStage
  <2>2. UNCHANGED <<permits, held>> /\ pc' = [pc EXCEPT ![r] = "inserted"]
    BY <1>4 DEF Analyze
  <2> QED
    BY <1>1, <2>1, <2>2 DEF PermitInv, PermitsBalance, WorkerStage
<1>5. ASSUME NEW r \in Runs, AcquirePermit(r)
      PROVE  IsFiniteSet(held') /\ PermitsBalance'
  <2>1. r \notin held
    BY <1>5 DEF AcquirePermit, PermitInv, PermitsBalance, WorkerStage
  <2>2. /\ IsFiniteSet(held')
        /\ Cardinality(held') = Cardinality(held) + 1
    BY <1>5, <2>1, FS_AddElement DEF AcquirePermit, PermitInv
  <2>3. permits' + Cardinality(held') = Capacity
    <3>1. permits' = permits - 1 /\ permits \in Nat /\ Cardinality(held) \in Nat
      BY <1>5, FS_CardinalityType DEF AcquirePermit, PermitInv, TypeOK
    <3> QED
      BY <2>2, <3>1 DEF PermitInv, PermitsBalance
  <2>4. held' = held \cup {r} /\ pc' = [pc EXCEPT ![r] = "acquired"]
    BY <1>5 DEF AcquirePermit
  <2>5. \A s \in held' : pc'[s] \in {"acquired", "created", "raised", "done"} \cup WorkerStage
    BY <1>1, <2>4 DEF PermitInv, PermitsBalance
  <2>6. \A s \in Runs : pc'[s] \in {"acquired", "created"} \cup WorkerStage => s \in held'
    BY <1>1, <2>4 DEF PermitInv, PermitsBalance
  <2> QED
    BY <2>2, <2>3, <2>5, <2>6 DEF PermitsBalance
<1>6. ASSUME NEW r \in Runs, RefuseBusy(r) \/ InitializeFails(r)
      PROVE  IsFiniteSet(held') /\ PermitsBalance'
  <2>1. r \notin held
    BY <1>6 DEF RefuseBusy, InitializeFails, PermitInv, PermitsBalance, WorkerStage
  <2>2. UNCHANGED <<permits, held>> /\ pc' = [pc EXCEPT ![r] = "raised"]
    BY <1>6 DEF RefuseBusy, InitializeFails
  <2> QED
    BY <1>1, <2>1, <2>2 DEF PermitInv, PermitsBalance, WorkerStage
<1>7. ASSUME NEW r \in Runs, NEW from \in {"acquired", "created"},
             NEW to \in {"raised", "done"}, pc[r] = from, GiveBack(r),
             pc' = [pc EXCEPT ![r] = to]
      PROVE  IsFiniteSet(held') /\ PermitsBalance'
  <2>1. r \in held
    BY <1>7 DEF PermitInv, PermitsBalance
  <2>2. held' = held \ {r}
    BY <1>7 DEF GiveBack
  <2>3. \A s \in held' : pc'[s] \in {"acquired", "created", "raised", "done"} \cup WorkerStage
    BY <1>1, <1>7, <2>2 DEF PermitInv, PermitsBalance
  <2>4. \A s \in Runs : pc'[s] \in {"acquired", "created"} \cup WorkerStage => s \in held'
    BY <1>1, <1>7, <2>2 DEF PermitInv, PermitsBalance, WorkerStage
  <2> QED
    BY <2>1, <2>3, <2>4, <1>7, GiveBackStep DEF PermitsBalance
<1>8. CASE \E r \in Runs : CreateFails(r) \/ AcceptanceFails(r)
  BY <1>7, <1>8 DEF CreateFails, AcceptanceFails
<1>9. ASSUME NEW r \in Runs, Release(r)
      PROVE  IsFiniteSet(held') /\ PermitsBalance'
  <2>1. r \in held /\ pc[r] \in {"raised", "done"} /\ GiveBack(r) /\ UNCHANGED pc
    BY <1>9 DEF Release
  <2>2. \A s \in Runs : pc'[s] \in {"acquired", "created"} \cup WorkerStage => s \in held'
    BY <2>1 DEF PermitInv, PermitsBalance, WorkerStage, GiveBack
  <2>3. \A s \in held' : pc'[s] \in {"acquired", "created", "raised", "done"} \cup WorkerStage
    BY <2>1 DEF PermitInv, PermitsBalance, GiveBack
  <2> QED
    BY <2>1, <2>2, <2>3, GiveBackStep DEF PermitsBalance
\* The remaining steps of a run that holds a permit, and of one that may.
<1>10. ASSUME NEW r \in Runs, NEW to \in Stage,
              UNCHANGED <<permits, held>>, pc' = [pc EXCEPT ![r] = to],
              \/ pc[r] \in Holding /\ to \in MayHold
              \/ pc[r] = "raised" /\ to = "done"
       PROVE  IsFiniteSet(held') /\ PermitsBalance'
  <2>1. \A s \in held' : pc'[s] \in MayHold
    BY <1>1, <1>10 DEF PermitInv, PermitsBalance, MayHold
  <2>2. \A s \in Runs : pc'[s] \in Holding => s \in held'
    BY <1>1, <1>10 DEF PermitInv, PermitsBalance, Holding, WorkerStage
  <2> QED
    BY <1>10, <2>1, <2>2 DEF PermitInv, PermitsBalance, Holding, MayHold
<1>11. ASSUME NEW r \in Runs,
              \/ CreateAudit(r) \/ Submit(r) \/ ExtractDocuments(r) \/ FinishAnalysis(r)
              \/ Commit(r) \/ WorkerFails(r) \/ FailRun(r) \/ ReportError(r)
       PROVE  IsFiniteSet(held') /\ PermitsBalance'
  <2>1. UNCHANGED <<permits, held>>
    BY <1>11 DEF CreateAudit, Submit, ExtractDocuments, FinishAnalysis, Commit,
                 WorkerFails, FailRun, ReportError
  <2>2. \E to \in Stage :
          /\ pc' = [pc EXCEPT ![r] = to]
          /\ \/ pc[r] \in Holding /\ to \in MayHold
             \/ pc[r] = "raised" /\ to = "done"
    BY <1>11 DEF CreateAudit, Submit, ExtractDocuments, FinishAnalysis, Commit,
                 WorkerFails, FailRun, ReportError, Holding, MayHold, Stage, WorkerStage
  <2> QED
    BY <1>10, <2>1, <2>2
<1>12. CASE \/ Exit \/ Crash \/ \E r \in Runs : CrashInCommit(r)
  <2>1. ProcessEnds
    BY <1>12 DEF Exit, Crash, CrashInCommit
  <2>2. IsFiniteSet(held') /\ permits' + Cardinality(held') = Capacity
    BY <2>1, FS_EmptySet, SettingsAssumption DEF ProcessEnds
  <2>3. \A s \in Runs : pc'[s] \in {"new", "done", "lost"}
    BY <2>1 DEF ProcessEnds
  <2> QED
    BY <2>1, <2>2, <2>3 DEF ProcessEnds, PermitsBalance, WorkerStage
<1> QED
  BY <1>3, <1>4, <1>5, <1>6, <1>8, <1>9, <1>11, <1>12
  DEF Next, RequestStep, WorkerStep

(***************************************************************************)
(* RunService.run: every permit is free or held by exactly one run, on     *)
(* every path out of it, so no more runs are processed than the executor   *)
(* has threads.                                                            *)
(***************************************************************************)
THEOREM PermitsCorrect == Spec => []PermitsBalance
<1>1. Init => PermitInv
  <2> SUFFICES ASSUME Init PROVE PermitInv
    OBVIOUS
  <2>1. IsFiniteSet(held) /\ permits + Cardinality(held) = Capacity
    BY FS_EmptySet, SettingsAssumption DEF Init
  <2> QED
    BY <2>1, InitType DEF Init, PermitInv, PermitsBalance, WorkerStage
<1>2. PermitInv /\ [Next]_vars => PermitInv'
  BY NextType, PermitStep DEF PermitInv
<1>3. PermitInv => PermitsBalance
  BY DEF PermitInv
<1> QED
  BY <1>1, <1>2, <1>3, PTL DEF Spec
-----------------------------------------------------------------------------
(***************************************************************************)
(* What a step does to the rows.  A run keeps its row or is given up, an   *)
(* email keeps its row or gets a new revision without any run; only a      *)
(* request and the commit of a worker do anything else.                    *)
(***************************************************************************)
KeepsRow(s) ==
  \/ run'[s] = run[s]
  \/ /\ run[s].status \in {"RUNNING", "FAILED"}
     /\ run'[s].status = "FAILED"
     /\ run'[s].email = run[s].email
     /\ run'[s].revision = run[s].revision

KeepsOrRevises(e) ==
  \/ email'[e] = email[e]
  \/ /\ email'[e].revision = email[e].revision + 1
     /\ email'[e].current = NoRun
     /\ email'[e].latest = NoRun

Quiet == (\A s \in Runs : KeepsRow(s)) /\ (\A e \in Emails : KeepsOrRevises(e))

LEMMA RecoverKeeps ==
  ASSUME TypeOK, NEW old \in SUBSET Running, run' = Recover(old)
  PROVE  \A s \in Runs : KeepsRow(s)
<1> TAKE s \in Runs
<1>1. CASE s \in old
  <2>1. run'[s] = [run[s] EXCEPT !.status = "FAILED"] /\ run[s].status = "RUNNING"
    BY <1>1 DEF Recover, FailedRow, Running
  <2>2. run[s] \in RunRow
    BY DEF TypeOK
  <2> QED
    BY <2>1, <2>2 DEF KeepsRow, RunRow
<1>2. CASE s \notin old
  BY <1>2 DEF Recover, KeepsRow
<1> QED
  BY <1>1, <1>2

LEMMA SaveFailureKeepsRow ==
  ASSUME Inv, NEW r \in Runs, SaveFailure(r)
  PROVE  \A s \in Runs : KeepsRow(s)
<1>1. CASE UNCHANGED run
  BY <1>1 DEF KeepsRow
<1>2. CASE /\ audit[r] = "RUNNING"
           /\ run' = [run EXCEPT ![r].status = "FAILED", ![r].result = job[r].result]
  <2>1. run[r].status \in {"RUNNING", "FAILED"}
    BY <1>2 DEF Inv, RowsFollowStages, DatabasesAgree, TypeOK, RunRow
  <2> QED
    BY <1>2, <2>1 DEF KeepsRow, Inv, TypeOK, RunRow
<1> QED
  BY <1>1, <1>2 DEF SaveFailure

LEMMA AdvanceRevises ==
  ASSUME TypeOK, NEW e \in Emails, NEW docs, NEW pair, NEW selected,
         Advance(e, docs, pair, selected)
  PROVE  \A f \in Emails : KeepsOrRevises(f)
  BY DEF Advance, KeepsOrRevises, TypeOK, EmailRow

LEMMA ImportRevises ==
  ASSUME TypeOK, NEW changed \in SUBSET (Emails \ Tasks),
         NEW old \in SUBSET Running, NEW brought \in [changed -> Imports],
         ImportDataset(brought, old)
  PROVE  \A e \in Emails : KeepsOrRevises(e)
<1>1. DOMAIN brought = changed
  OBVIOUS
<1>2. email' = [e \in Emails |->
                 IF e \in changed
                 THEN [email[e] EXCEPT !.revision = @ + 1, !.docs = brought[e],
                                       !.current = NoRun, !.latest = NoRun]
                 ELSE email[e]]
  BY <1>1 DEF ImportDataset
<1>3. ASSUME NEW e \in changed PROVE KeepsOrRevises(e)
  <2>1. email[e] \in EmailRow
    BY DEF TypeOK
  <2>2. email'[e] = [email[e] EXCEPT !.revision = @ + 1, !.docs = brought[e],
                                     !.current = NoRun, !.latest = NoRun]
    BY <1>2
  <2> QED
    BY <2>1, <2>2 DEF EmailRow, KeepsOrRevises
<1>4. ASSUME NEW e \in Emails \ changed PROVE KeepsOrRevises(e)
  BY <1>2, <1>4 DEF KeepsOrRevises
<1> QED
  BY <1>3, <1>4

LEMMA StepKinds ==
  Inv /\ [Next]_vars =>
    \/ Quiet
    \/ \E e \in Emails, r \in Runs, old \in SUBSET Running : Analyze(e, r, old)
    \/ \E r \in Runs : Commit(r)
<1> SUFFICES ASSUME Inv, [Next]_vars,
                    ~\E e \in Emails, r \in Runs, old \in SUBSET Running :
                        Analyze(e, r, old),
                    ~\E r \in Runs : Commit(r)
             PROVE  Quiet
  OBVIOUS
<1> USE DEF Inv
<1>1. ASSUME UNCHANGED email PROVE \A e \in Emails : KeepsOrRevises(e)
  BY <1>1 DEF KeepsOrRevises
<1>2. ASSUME UNCHANGED run PROVE \A s \in Runs : KeepsRow(s)
  BY <1>2 DEF KeepsRow
<1>3. CASE \/ \E old \in SUBSET Running : ReadMailbox(old)
           \/ Restart \/ CliRecovers
  BY <1>1, <1>3, RecoverKeeps DEF ReadMailbox, Restart, CliRecovers, Quiet
<1>4. CASE \E e \in Tasks, pair \in Pair : SelectPair(e, pair)
  BY <1>2, <1>4, AdvanceRevises, EmailsAssumption DEF SelectPair, Quiet
<1>5. CASE \E e \in Tasks, role \in Role, d \in Docs : ReplaceDocument(e, role, d)
  BY <1>2, <1>5, AdvanceRevises, EmailsAssumption DEF ReplaceDocument, Quiet
<1>6. CASE \E changed \in SUBSET (Emails \ Tasks), old \in SUBSET Running :
             \E brought \in [changed -> Imports] : ImportDataset(brought, old)
  <2> PICK changed \in SUBSET (Emails \ Tasks), old \in SUBSET Running :
             \E brought \in [changed -> Imports] : ImportDataset(brought, old)
    BY <1>6
  <2> PICK brought \in [changed -> Imports] : ImportDataset(brought, old)
    OBVIOUS
  <2>1. run' = Recover(old)
    BY DEF ImportDataset
  <2> QED
    BY <2>1, RecoverKeeps, ImportRevises DEF Quiet
<1>7. CASE \E r \in Runs : AcceptanceFails(r) \/ FailRun(r) \/ CheckRecording(r)
  BY <1>1, <1>2, <1>7, SaveFailureKeepsRow
  DEF AcceptanceFails, FailRun, CheckRecording, Quiet
<1>8. ASSUME NEW r \in Runs, ReportError(r) PROVE Quiet
  <2>1. CASE UNCHANGED run
    BY <1>1, <1>2, <1>8, <2>1 DEF ReportError, Quiet
  <2>2. CASE r \in Running /\ run' = [run EXCEPT ![r] = FailedRow(r)]
    <3>1. r \in Running /\ run' = Recover({r})
      BY <2>2 DEF Recover, TypeOK
    <3> QED
      BY <1>1, <1>8, <3>1, RecoverKeeps DEF ReportError, Quiet
  <2> QED
    BY <1>8, <2>1, <2>2 DEF ReportError
<1>9. CASE \E r \in Runs : \/ AcquirePermit(r) \/ RefuseBusy(r) \/ InitializeFails(r)
                           \/ CreateAudit(r)
                           \/ CreateFails(r) \/ Submit(r)
  BY <1>1, <1>2, <1>9
  DEF AcquirePermit, RefuseBusy, InitializeFails, CreateAudit, CreateFails, Submit, Quiet
<1>10. CASE \E r \in Runs : \/ ExtractDocuments(r) \/ FinishAnalysis(r)
                            \/ WorkerFails(r) \/ Release(r) \/ CrashInCommit(r)
  BY <1>1, <1>2, <1>10
  DEF ExtractDocuments, FinishAnalysis, WorkerFails, Release, CrashInCommit, Quiet
<1>11. CASE \/ BeginShutdown \/ Exit \/ Crash \/ CliInterrupts \/ CliRefused
            \/ UNCHANGED vars
  BY <1>1, <1>2, <1>11
  DEF BeginShutdown, Exit, Crash, CliInterrupts, CliRefused, vars, Quiet
<1> QED
  BY <1>3, <1>4, <1>5, <1>6, <1>7, <1>8, <1>9, <1>10, <1>11
  DEF Next, RequestStep, WorkerStep
-----------------------------------------------------------------------------
(***************************************************************************)
(* What an email and its runs keep to one another.  A run that is RUNNING  *)
(* at the present revision is the latest one, and the pair, the documents  *)
(* and the selection it read when it was requested are still the email's:  *)
(* that is what lets the commit look only at revision and latest run.      *)
(***************************************************************************)
NotAhead ==
  \A r \in Runs : run[r].status # "none" =>
    run[r].revision <= email[run[r].email].revision

Waiting == {"inserted", "acquired", "created", "working", "closing", "finished"}

MatchesEmail(r, e) ==
  /\ email[e].latest = r
  /\ run[r].pair = email[e].pair
  /\ run[r].docs \subseteq email[e].docs
  /\ pc[r] \in Waiting => job[r].selected = email[e].selected

RunningMatches ==
  \A r \in Running :
    run[r].revision = email[run[r].email].revision => MatchesEmail(r, run[r].email)

RowInv == Inv /\ NotAhead /\ RunningMatches /\ CurrentUsesSelectedPair

LEMMA JobStep ==
  Inv /\ [Next]_vars =>
    \A s \in Runs : pc'[s] \in Waiting =>
      \/ pc[s] \in Waiting /\ job'[s].selected = job[s].selected
      \/ pc[s] = "new"
<1> SUFFICES ASSUME Inv, [Next]_vars, NEW s \in Runs, pc'[s] \in Waiting, pc[s] # "new"
             PROVE  pc[s] \in Waiting /\ job'[s].selected = job[s].selected
  OBVIOUS
<1> USE DEF Inv, TypeOK, Waiting
<1>1. ASSUME UNCHANGED <<pc, job>>
      PROVE  pc[s] \in Waiting /\ job'[s].selected = job[s].selected
  BY <1>1
<1>2. CASE \/ \E old \in SUBSET Running : ReadMailbox(old)
           \/ \E e \in Tasks, pair \in Pair : SelectPair(e, pair)
           \/ \E e \in Tasks, role \in Role, d \in Docs : ReplaceDocument(e, role, d)
           \/ \E r \in Runs : CheckRecording(r)
           \/ BeginShutdown \/ Restart \/ CliInterrupts \/ CliRecovers \/ CliRefused
           \/ \E changed \in SUBSET (Emails \ Tasks), old \in SUBSET Running :
                \E brought \in [changed -> Imports] : ImportDataset(brought, old)
           \/ UNCHANGED vars
  BY <1>1, <1>2 DEF ReadMailbox, SelectPair, ReplaceDocument, CheckRecording,
                    BeginShutdown, Restart, CliInterrupts, CliRecovers, CliRefused,
                    ImportDataset, vars
<1>3. CASE \E e \in Emails, r \in Runs, old \in SUBSET Running : Analyze(e, r, old)
  BY <1>3 DEF Analyze
<1>4. CASE \E r \in Runs : \/ AcquirePermit(r) \/ RefuseBusy(r) \/ InitializeFails(r)
                           \/ CreateAudit(r)
                           \/ CreateFails(r) \/ Submit(r) \/ AcceptanceFails(r)
                           \/ ReportError(r) \/ WorkerFails(r) \/ Release(r)
  BY <1>4 DEF AcquirePermit, RefuseBusy, InitializeFails, CreateAudit, CreateFails, Submit,
              AcceptanceFails, ReportError, WorkerFails, Release
<1>5. ASSUME NEW r \in Runs, Commit(r) \/ FailRun(r)
      PROVE  pc[s] \in Waiting /\ job'[s].selected = job[s].selected
  <2>1. pc'[r] \notin Waiting
    BY <1>5 DEF Commit, FailRun
  <2> QED
    BY <1>5, <2>1 DEF Commit, FailRun
<1>6. ASSUME NEW r \in Runs, ExtractDocuments(r) \/ FinishAnalysis(r)
      PROVE  pc[s] \in Waiting /\ job'[s].selected = job[s].selected
  <2>1. pc[r] \in Waiting
    BY <1>6 DEF ExtractDocuments, FinishAnalysis
  <2>2. job'[s].selected = job[s].selected
    <3>1. job[r] \in Job
      OBVIOUS
    <3>2. ASSUME ExtractDocuments(r) PROVE job'[s].selected = job[s].selected
      <4> DEFINE outcome(docs) == IF stopping THEN "INTERRUPTED"
                                  ELSE IF docs = "ok" THEN "SUCCEEDED" ELSE "FAILED"
      <4>1. PICK docs \in {"ok", "unreadable", "error"} :
              job' = [job EXCEPT ![r].docs = docs, ![r].outcome = outcome(docs)]
        BY <3>2 DEF ExtractDocuments
      <4> HIDE DEF outcome
      <4> QED
        BY <3>1, <4>1 DEF Job
    <3>3. ASSUME FinishAnalysis(r) PROVE job'[s].selected = job[s].selected
      <4> DEFINE outcome == IF job[r].docs = "error" THEN "FAILED" ELSE "SUCCEEDED"
      <4>1. CASE job' = [job EXCEPT ![r].docs = "ok"]
        BY <3>1, <4>1 DEF Job
      <4>2. CASE \E result \in {"other", "comparison"} :
                   job' = [job EXCEPT ![r].docs = "ok", ![r].result = result,
                                      ![r].outcome = outcome]
        <5> HIDE DEF outcome
        <5> QED
          BY <3>1, <4>2 DEF Job
      <4> QED
        BY <3>3, <4>1, <4>2 DEF FinishAnalysis
    <3> QED
      BY <1>6, <3>2, <3>3
  <2> QED
    BY <1>6, <2>1, <2>2 DEF ExtractDocuments, FinishAnalysis
<1>7. CASE Exit \/ Crash \/ \E r \in Runs : CrashInCommit(r)
  BY <1>7 DEF Exit, Crash, CrashInCommit, ProcessEnds
<1> QED
  BY <1>2, <1>3, <1>4, <1>5, <1>6, <1>7 DEF Next, RequestStep, WorkerStep

\* What a commit writes to the row of its run, and to its email.
Recorded(r, pair) ==
  /\ run[r].status \in {"RUNNING", "FAILED"}
  /\ run'[r].status \in {"SUCCEEDED", "FAILED"}
  /\ run'[r].status = "SUCCEEDED" <=> job[r].outcome = "SUCCEEDED"
  /\ run'[r].email = run[r].email
  /\ run'[r].revision = run[r].revision
  /\ run'[r].docs = run[r].docs
  /\ run'[r].pair = pair
  /\ \A s \in Runs \ {r} : run'[s] = run[s]

Published(r, e, pair) ==
  /\ job[r].outcome = "SUCCEEDED"
  /\ ~Stale(r)
  /\ \A f \in Emails \ {e} : email'[f] = email[f]
  /\ email'[e].current = r
  /\ email'[e].latest = email[e].latest
  /\ email'[e].revision = email[e].revision
  /\ email'[e].docs = email[e].docs
  /\ IF Chooses(r) THEN email'[e].pair = pair
     ELSE email'[e].pair = email[e].pair /\ email'[e].selected = email[e].selected

Choice(r, seen) == IF Chooses(r) THEN PairOf(r, seen) ELSE run[r].pair

LEMMA CommitFacts ==
  ASSUME Inv, NEW r \in Runs, Commit(r)
  PROVE  \E seen \in SUBSET run[r].docs :
           /\ Recorded(r, Choice(r, seen))
           /\ UNCHANGED email \/ Published(r, run[r].email, Choice(r, seen))
<1> USE DEF Inv
<1>1. PICK seen \in SUBSET run[r].docs : CommitRows(r, seen)
  BY DEF Commit, Named
<1> DEFINE pair == Choice(r, seen)
<1>2. CommitRun(r, pair) /\ CommitEmail(r, pair)
  BY <1>1 DEF CommitRows, Choice
<1> HIDE DEF pair
<1>3. Recorded(r, pair)
  <2>1. run[r].status \in {"RUNNING", "FAILED"} /\ run[r] \in RunRow
    BY DEF Commit, RowsFollowStages, DatabasesAgree, TypeOK, RunRow
  <2> QED
    BY <1>2, <2>1 DEF CommitRun, Recorded, TypeOK, RunRow
<1>4. ASSUME job[r].outcome = "SUCCEEDED", ~Stale(r)
      PROVE  Published(r, run[r].email, pair)
  <2> PICK e \in Emails : e = run[r].email
    BY DEF TypeOK, RunRow
  <2>1. email[e] \in EmailRow
    BY DEF TypeOK
  <2>2. email' = [email EXCEPT ![e] = [PublishPair(r, pair) EXCEPT !.current = r]]
    BY <1>2, <1>4 DEF CommitEmail
  <2>3. /\ email'[e] = [PublishPair(r, pair) EXCEPT !.current = r]
        /\ \A f \in Emails \ {e} : email'[f] = email[f]
    BY <2>2 DEF TypeOK
  <2> QED
    BY <1>4, <2>1, <2>3 DEF PublishPair, Published, EmailRow
<1>5. UNCHANGED email \/ Published(r, run[r].email, pair)
  BY <1>2, <1>4 DEF CommitEmail
<1> QED
  BY <1>3, <1>5 DEF pair

LEMMA NotAheadStep == Inv /\ NotAhead /\ [Next]_vars => NotAhead'
<1> SUFFICES ASSUME Inv, NotAhead, [Next]_vars, NEW r \in Runs,
                    run'[r].status # "none"
             PROVE  run'[r].revision <= email'[run'[r].email].revision
  BY DEF NotAhead
<1> USE DEF Inv
<1>1. \A e \in Emails : email[e] \in EmailRow /\ email[e].revision \in Nat
  BY DEF TypeOK, EmailRow
<1>2. \A e \in Emails : \/ email'[e].revision = email[e].revision
                        \/ email'[e].revision = email[e].revision + 1
  <2>1. CASE Quiet
    BY <2>1 DEF Quiet, KeepsOrRevises
  <2>2. CASE \E e \in Emails, s \in Runs, old \in SUBSET Running : Analyze(e, s, old)
    BY <1>1, <2>2 DEF Analyze, TypeOK, EmailRow
  <2>3. CASE \E s \in Runs : Commit(s)
    BY <2>3, CommitFacts DEF Published
  <2> QED
    BY <2>1, <2>2, <2>3, StepKinds
<1>3. CASE run[r].status # "none"
  <2>1. /\ run'[r].email = run[r].email
        /\ run'[r].revision = run[r].revision
        /\ run[r].email \in Emails /\ run[r].revision \in Nat
    BY <1>3, RowsStep DEF RowStep, TypeOK, RunRow
  <2> QED
    BY <1>1, <1>2, <1>3, <2>1 DEF NotAhead
<1>4. CASE run[r].status = "none"
  <2>1. ~Quiet
    BY <1>4 DEF Quiet, KeepsRow
  <2>2. ~\E s \in Runs : Commit(s)
    BY <1>4, CommitFacts DEF Recorded
  <2>3. PICK e \in Emails, s \in Runs, old \in SUBSET Running : Analyze(e, s, old)
    BY <2>1, <2>2, StepKinds
  <2>4. s = r
    BY <1>4, <2>3 DEF Analyze, Recover, Running
  <2>5. run'[r].email = e /\ run'[r].revision = email[e].revision
    BY <2>3, <2>4 DEF Analyze, Recover
  <2>6. email'[e].revision = email[e].revision
    BY <1>1, <2>3 DEF Analyze, TypeOK, EmailRow
  <2> QED
    BY <1>1, <2>5, <2>6
<1> QED
  BY <1>3, <1>4

LEMMA MatchesStep == RowInv /\ [Next]_vars => RunningMatches'
<1> SUFFICES ASSUME RowInv, [Next]_vars, NEW s \in Runs, run'[s].status = "RUNNING",
                    run'[s].revision = email'[run'[s].email].revision
             PROVE  MatchesEmail(s, run[s].email)'
  BY DEF RunningMatches, Running
<1> USE DEF RowInv, Inv
<1>1. \A r \in Runs : pc'[r] \in Waiting =>
        \/ pc[r] \in Waiting /\ job'[r].selected = job[r].selected
        \/ pc[r] = "new"
  BY JobStep
<1>2. ASSUME run'[s] = run[s], email'[run[s].email] = email[run[s].email]
      PROVE  MatchesEmail(s, run[s].email)'
  <2>1. pc[s] # "new"
    BY <1>2 DEF RowsFollowStages
  <2>2. MatchesEmail(s, run[s].email)
    BY <1>2 DEF RunningMatches, Running
  <2> QED
    BY <1>1, <1>2, <2>1, <2>2 DEF MatchesEmail
<1>3. run[s].email \in Emails /\ run[s].revision \in Nat
      /\ email[run[s].email].revision \in Nat
  BY DEF TypeOK, RunRow, EmailRow
<1>4. CASE Quiet
  <2>1. run'[s] = run[s]
    BY <1>4 DEF Quiet, KeepsRow
  <2>2. run[s].revision <= email[run[s].email].revision
    BY <2>1 DEF NotAhead
  <2>3. email'[run[s].email] = email[run[s].email]
    BY <1>3, <1>4, <2>1, <2>2 DEF Quiet, KeepsOrRevises
  <2> QED
    BY <1>2, <2>1, <2>3
<1>5. ASSUME NEW e \in Emails, NEW r \in Runs, NEW old \in SUBSET Running,
             Analyze(e, r, old)
      PROVE  MatchesEmail(s, run[s].email)'
  <2>1. /\ email' = [email EXCEPT ![e].latest = r]
        /\ job' = [job EXCEPT ![r].selected = email[e].selected]
    BY <1>5 DEF Analyze
  <2>2. /\ email'[e] = [email[e] EXCEPT !.latest = r]
        /\ \A f \in Emails \ {e} : email'[f] = email[f]
        /\ email[e] \in EmailRow
    BY <2>1 DEF TypeOK
  <2>3. /\ email'[e].latest = r
        /\ email'[e].pair = email[e].pair
        /\ email'[e].docs = email[e].docs
        /\ email'[e].selected = email[e].selected
        /\ email'[e].revision = email[e].revision
    BY <2>2 DEF EmailRow
  <2>4. CASE s = r
    <3>1. /\ run'[s].email = e
          /\ run'[s].pair = email[e].pair
          /\ run'[s].docs = AnalyzedDocs(e)
      BY <1>5, <2>4 DEF Analyze, Recover
    <3>2. AnalyzedDocs(e) \subseteq email[e].docs
      BY DEF AnalyzedDocs
    <3>3. job'[s].selected = email[e].selected
      BY <2>1, <2>4 DEF TypeOK, Job
    <3> QED
      BY <2>3, <2>4, <3>1, <3>2, <3>3 DEF MatchesEmail
  <2>5. CASE s # r
    <3>1. run'[s] = Recover(old)[s]
      BY <1>5, <2>5 DEF Analyze, Recover
    <3>2. s \in Running \ old /\ run'[s] = run[s]
      BY <3>1 DEF Recover, FailedRow, Running, TypeOK, RunRow
    <3>3. run[s].email # e
      <4> SUFFICES ASSUME run[s].email = e PROVE FALSE
        OBVIOUS
      <4>1. email[e].latest = s
        BY <2>3, <3>2 DEF RunningMatches, MatchesEmail, Running
      <4> QED
        BY <1>5, <3>2, <4>1 DEF Analyze, NotRunning
    <3> QED
      BY <1>2, <1>3, <2>2, <3>2, <3>3
  <2> QED
    BY <2>4, <2>5
<1>6. ASSUME NEW r \in Runs, Commit(r)
      PROVE  MatchesEmail(s, run[s].email)'
  <2>1. PICK pair : /\ Recorded(r, pair)
                    /\ UNCHANGED email \/ Published(r, run[r].email, pair)
    BY <1>6, CommitFacts
  <2>2. s # r /\ run'[s] = run[s]
    BY <2>1 DEF Recorded
  <2>3. ASSUME Published(r, run[r].email, pair) PROVE run[s].email # run[r].email
    <3> SUFFICES ASSUME run[s].email = run[r].email PROVE FALSE
      OBVIOUS
    <3>1. email[run[r].email].latest = r
      BY <2>3 DEF Published, Stale
    <3>2. run[s].revision = email[run[s].email].revision
      BY <2>2, <2>3 DEF Published
    <3>3. email[run[s].email].latest = s
      BY <2>2, <3>2 DEF RunningMatches, MatchesEmail, Running
    <3> QED
      BY <2>2, <3>1, <3>3
  <2>4. email'[run[s].email] = email[run[s].email]
    BY <1>3, <2>1, <2>3 DEF Published
  <2> QED
    BY <1>2, <2>2, <2>4
<1> QED
  BY <1>4, <1>5, <1>6, StepKinds

LEMMA UsesPairStep == RowInv /\ [Next]_vars => CurrentUsesSelectedPair'
<1> SUFFICES ASSUME RowInv, [Next]_vars, NEW e \in Tasks,
                    email'[e].current # NoRun
             PROVE  /\ run'[email'[e].current].pair = email'[e].pair
                    /\ run'[email'[e].current].docs \subseteq email'[e].docs
  BY DEF CurrentUsesSelectedPair
<1> USE DEF RowInv, Inv
<1> e \in Emails
  BY EmailsAssumption
\* The result shown before the step, still shown after it.
<1>1. ASSUME email'[e].current = email[e].current, email'[e].pair = email[e].pair,
             email'[e].docs = email[e].docs
      PROVE  /\ run'[email'[e].current].pair = email'[e].pair
             /\ run'[email'[e].current].docs \subseteq email'[e].docs
  <2>1. email[e].current \in Runs /\ run[email[e].current].status = "SUCCEEDED"
    BY <1>1 DEF CurrentIsOwnSuccess, TypeOK, EmailRow, RunOrNone
  <2>2. run'[email[e].current] = run[email[e].current]
    BY <2>1, RowsStep DEF RowStep
  <2> QED
    BY <1>1, <2>1, <2>2 DEF CurrentUsesSelectedPair
<1>2. CASE Quiet
  BY <1>1, <1>2 DEF Quiet, KeepsOrRevises
<1>3. CASE \E f \in Emails, r \in Runs, old \in SUBSET Running : Analyze(f, r, old)
  BY <1>1, <1>3 DEF Analyze, TypeOK, EmailRow
<1>4. ASSUME NEW r \in Runs, Commit(r)
      PROVE  /\ run'[email'[e].current].pair = email'[e].pair
             /\ run'[email'[e].current].docs \subseteq email'[e].docs
  <2>1. PICK seen : /\ Recorded(r, Choice(r, seen))
                    /\ UNCHANGED email \/ Published(r, run[r].email, Choice(r, seen))
    BY <1>4, CommitFacts
  <2>2. CASE email'[e] = email[e]
    BY <1>1, <2>2
  <2>3. CASE email'[e] # email[e]
    <3>1. Published(r, e, Choice(r, seen)) /\ e = run[r].email
      BY <2>1, <2>3 DEF Published
    <3>2. MatchesEmail(r, e)
      BY <3>1 DEF Published, Stale, RunningMatches, Running
    <3>3. email'[e].pair = Choice(r, seen)
      BY <3>1, <3>2 DEF Published, MatchesEmail, Choice
    <3> QED
      BY <2>1, <3>1, <3>2, <3>3 DEF Recorded, Published, MatchesEmail
  <2> QED
    BY <2>2, <2>3
<1> QED
  BY <1>2, <1>3, <1>4, StepKinds

(***************************************************************************)
(* What an email and its runs keep to one another holds in every state.    *)
(***************************************************************************)
THEOREM RowsInvariance == Spec => []RowInv
<1>1. Init => NotAhead /\ RunningMatches /\ CurrentUsesSelectedPair
  BY EmailsAssumption DEF Init, NoRow, Running, NotAhead, RunningMatches, CurrentUsesSelectedPair
<1>2. RowInv /\ Inv' /\ [Next]_vars => RowInv'
  BY NotAheadStep, MatchesStep, UsesPairStep DEF RowInv
<1> QED
  BY <1>1, <1>2, Invariance, PTL DEF Spec, RowInv

(***************************************************************************)
(* Store._check_not_running looks only at the latest run of an email, and  *)
(* that is enough: at most one run of the present revision is RUNNING.     *)
(***************************************************************************)
THEOREM RunningCorrect == Spec => []RunningIsLatest
<1>1. RowInv => RunningIsLatest
  BY DEF RowInv, RunningMatches, MatchesEmail, RunningIsLatest
<1> QED
  BY <1>1, RowsInvariance, PTL

(***************************************************************************)
(* MailboxWorkflow.commit: a task shows a result of exactly the pair it    *)
(* has selected, made from documents attached to it now.                   *)
(***************************************************************************)
THEOREM PairCorrect == Spec => []CurrentUsesSelectedPair
<1>1. RowInv => CurrentUsesSelectedPair
  BY DEF RowInv
<1> QED
  BY <1>1, RowsInvariance, PTL

(***************************************************************************)
(* Only a new revision clears the current result, and only the latest run, *)
(* RUNNING until this very step, replaces it.                              *)
(***************************************************************************)
THEOREM PublicationCorrect == Spec => OnlyLatestRunPublishes
<1>1. ASSUME Inv, [Next]_vars, NEW e \in Emails, email'[e].current # email[e].current
      PROVE  \/ /\ email'[e].revision = email[e].revision + 1
                /\ email'[e].current = NoRun
             \/ /\ email'[e].revision = email[e].revision
                /\ email'[e].current = email[e].latest
                /\ run[email[e].latest].status = "RUNNING"
                /\ run'[email[e].latest].status = "SUCCEEDED"
  <2>1. CASE Quiet
    BY <1>1, <2>1 DEF Quiet, KeepsOrRevises
  <2>2. CASE \E f \in Emails, r \in Runs, old \in SUBSET Running : Analyze(f, r, old)
    BY <1>1, <2>2 DEF Analyze, Inv, TypeOK, EmailRow
  <2>3. CASE \E r \in Runs : Commit(r)
    <3>1. PICK r \in Runs : Commit(r)
      BY <2>3
    <3>2. PICK pair : /\ Recorded(r, pair)
                      /\ UNCHANGED email \/ Published(r, run[r].email, pair)
      BY <1>1, <3>1, CommitFacts
    <3>3. Published(r, e, pair) /\ e = run[r].email
      BY <1>1, <3>2 DEF Published
    <3> QED
      BY <3>2, <3>3 DEF Recorded, Published, Stale
  <2> QED
    BY <1>1, <2>1, <2>2, <2>3, StepKinds
<1>2. Inv /\ [Next]_vars =>
        [\A e \in Emails : email'[e].current # email[e].current =>
           \/ /\ email'[e].revision = email[e].revision + 1
              /\ email'[e].current = NoRun
           \/ /\ email'[e].revision = email[e].revision
              /\ email'[e].current = email[e].latest
              /\ run[email[e].latest].status = "RUNNING"
              /\ run'[email[e].latest].status = "SUCCEEDED"]_vars
  BY <1>1
<1> QED
  BY <1>2, Invariance, PTL DEF Spec, OnlyLatestRunPublishes

(***************************************************************************)
(* An analysis never overrides the user: within a revision a pair he       *)
(* selected and a document he uploaded for a role stay as they are.        *)
(***************************************************************************)
THEOREM SelectionCorrect == Spec => SelectionSurvivesRuns
<1>1. ASSUME RowInv, [Next]_vars, NEW e \in Tasks, email'[e].revision = email[e].revision
      PROVE  /\ email[e].selected => email'[e].pair = email[e].pair
             /\ \A role \in Role : email[e].pair[role] # NoDoc =>
                  email'[e].pair[role] = email[e].pair[role]
  <2> USE DEF RowInv, Inv
  <2> e \in Emails
    BY EmailsAssumption
  <2> email[e].revision \in Nat
    BY <1>1 DEF TypeOK, EmailRow
  <2>1. CASE Quiet
    BY <1>1, <2>1 DEF Quiet, KeepsOrRevises
  <2>2. CASE \E f \in Emails, r \in Runs, old \in SUBSET Running : Analyze(f, r, old)
    BY <1>1, <2>2 DEF Analyze, TypeOK, EmailRow
  <2>3. CASE \E r \in Runs : Commit(r)
    <3>1. PICK r \in Runs : Commit(r)
      BY <2>3
    <3>2. PICK seen : /\ Recorded(r, Choice(r, seen))
                      /\ UNCHANGED email \/ Published(r, run[r].email, Choice(r, seen))
      BY <1>1, <3>1, CommitFacts
    <3>3. CASE email'[e].pair = email[e].pair
      BY <3>3
    <3>4. CASE email'[e].pair # email[e].pair
      <4>1. Published(r, e, Choice(r, seen)) /\ e = run[r].email
        BY <3>2, <3>4 DEF Published
      <4>2. Chooses(r) /\ email'[e].pair = PairOf(r, seen)
        BY <3>4, <4>1 DEF Published, Choice
      <4>3. MatchesEmail(r, e)
        BY <1>1, <4>1 DEF Published, Stale, RunningMatches, Running
      <4>4. ~email[e].selected
        BY <3>1, <4>2, <4>3 DEF Commit, Waiting, MatchesEmail, Chooses
      <4>5. \A role \in Role : email[e].pair[role] # NoDoc =>
              email'[e].pair[role] = email[e].pair[role]
        BY <4>2, <4>3 DEF PairOf, MatchesEmail
      <4> QED
        BY <4>4, <4>5
    <3> QED
      BY <3>3, <3>4
  <2> QED
    BY <1>1, <2>1, <2>2, <2>3, StepKinds
<1>2. RowInv /\ [Next]_vars =>
        [\A e \in Tasks : email'[e].revision = email[e].revision =>
           /\ email[e].selected => email'[e].pair = email[e].pair
           /\ \A role \in Role : email[e].pair[role] # NoDoc =>
                email'[e].pair[role] = email[e].pair[role]]_vars
  BY <1>1
<1> QED
  BY <1>2, RowsInvariance, PTL DEF Spec, SelectionSurvivesRuns
-----------------------------------------------------------------------------
(***************************************************************************)
(* Runs nobody is left to settle.  Before the audit store is initialized   *)
(* no thread is past the permit, so an audit run that is RUNNING then is   *)
(* an earlier process's; afterwards only the threads and the notes of the  *)
(* service leave one RUNNING.                                              *)
(***************************************************************************)
Unaccepted == {"new", "inserted", "raised", "done", "lost"}

MemoryInv ==
  /\ ~up => ~initialized
  /\ ~initialized => \A r \in Runs : /\ pc[r] \in Unaccepted
                                     /\ audit[r] = "RUNNING" => pc[r] \in {"done", "lost"}
  /\ initialized => \A r \in Runs : audit[r] = "RUNNING" =>
                      pc[r] \in {"created"} \cup WorkerStage \/ r \in recording
  /\ \A r \in Runs : pc[r] \in {"closing", "finished"} => job[r].outcome # "RUNNING"

RowsAlive == up => \A r \in Running : pc[r] # "lost"

LEMMA SaveFailureNotes ==
  ASSUME Inv, NEW r \in Runs, SaveFailure(r)
  PROVE  /\ audit'[r] = "RUNNING" => r \in recording'
         /\ \A s \in Runs \ {r} : /\ audit'[s] = audit[s]
                                  /\ s \in recording' <=> s \in recording
  BY DEF SaveFailure, Inv, TypeOK

LEMMA RequestRemembers ==
  ASSUME Inv, MemoryInv, NEW r \in Runs, RequestStep(r)
  PROVE  MemoryInv'
<1> USE DEF Inv, TypeOK, RowsFollowStages, MemoryInv, Unaccepted, WorkerStage
<1>1. CASE AcquirePermit(r) \/ RefuseBusy(r)
  BY <1>1 DEF AcquirePermit, RefuseBusy, InitializeOnce, Interrupted
<1>2. CASE InitializeFails(r)
  BY <1>2 DEF InitializeFails
<1>3. CASE CreateAudit(r)
  BY <1>3 DEF CreateAudit
<1>4. CASE CreateFails(r)
  BY <1>4 DEF CreateFails
<1>5. CASE Submit(r)
  BY <1>5 DEF Submit
<1>6. CASE AcceptanceFails(r)
  BY <1>6, SaveFailureNotes DEF AcceptanceFails
<1>7. CASE ReportError(r)
  BY <1>7 DEF ReportError
<1> QED
  BY <1>1, <1>2, <1>3, <1>4, <1>5, <1>6, <1>7 DEF RequestStep

LEMMA WorkerRemembers ==
  ASSUME Inv, MemoryInv, NEW r \in Runs, WorkerStep(r) \/ CheckRecording(r)
  PROVE  MemoryInv'
<1> USE DEF Inv, TypeOK, RowsFollowStages, MemoryInv, Unaccepted, WorkerStage, Job
<1>1. CASE ExtractDocuments(r)
  BY <1>1 DEF ExtractDocuments
<1>2. CASE FinishAnalysis(r)
  BY <1>2 DEF FinishAnalysis
<1>3. CASE Commit(r)
  BY <1>3 DEF Commit
<1>4. CASE WorkerFails(r)
  BY <1>4 DEF WorkerFails
<1>5. CASE FailRun(r)
  <2>1. /\ pc[r] \in {"failing", "failingDb"} /\ pc'[r] \in {"done", "raised"}
        /\ \A s \in Runs \ {r} : pc'[s] = pc[s] /\ job'[s] = job[s]
        /\ UNCHANGED <<initialized, up>>
    BY <1>5 DEF FailRun
  <2>2. initialized
    BY <2>1
  <2>3. /\ audit'[r] = "RUNNING" => r \in recording'
        /\ \A s \in Runs \ {r} : /\ audit'[s] = audit[s]
                                 /\ s \in recording' <=> s \in recording
    BY <1>5, SaveFailureNotes DEF FailRun
  <2> QED
    BY <2>1, <2>2, <2>3
<1>6. CASE Release(r)
  BY <1>6 DEF Release
<1>7. CASE CheckRecording(r)
  BY <1>7, SaveFailureNotes DEF CheckRecording
<1> QED
  BY <1>1, <1>2, <1>3, <1>4, <1>5, <1>6, <1>7 DEF WorkerStep

LEMMA MemoryStep == Inv /\ MemoryInv /\ [Next]_vars => MemoryInv'
<1> SUFFICES ASSUME Inv, MemoryInv, [Next]_vars PROVE MemoryInv'
  OBVIOUS
<1>1. CASE \E e \in Emails, r \in Runs, old \in SUBSET Running : Analyze(e, r, old)
  BY <1>1 DEF Analyze, Inv, TypeOK, RowsFollowStages, MemoryInv, Unaccepted, WorkerStage
<1>2. CASE \E r \in Runs : RequestStep(r) \/ WorkerStep(r) \/ CheckRecording(r)
  BY <1>2, RequestRemembers, WorkerRemembers
<1>3. CASE Exit \/ Crash \/ \E r \in Runs : CrashInCommit(r)
  <2>1. /\ up' = FALSE /\ initialized' = FALSE
        /\ pc' = [r \in Runs |-> IF pc[r] \in {"new", "done"} THEN pc[r] ELSE "lost"]
    BY <1>3 DEF Exit, Crash, CrashInCommit, ProcessEnds
  <2>2. \A r \in Runs : pc[r] = "new" => audit'[r] # "RUNNING"
    BY <1>3 DEF Exit, Crash, CrashInCommit, Inv, TypeOK, RowsFollowStages
  <2> QED
    BY <2>1, <2>2 DEF MemoryInv, Unaccepted
<1>4. CASE Restart
  BY <1>4, SettingsAssumption DEF Restart, Interrupted, Inv, TypeOK, MemoryInv
<1>5. CASE \/ \E old \in SUBSET Running : ReadMailbox(old)
           \/ \E e \in Tasks, pair \in Pair : SelectPair(e, pair)
           \/ \E e \in Tasks, role \in Role, d \in Docs : ReplaceDocument(e, role, d)
           \/ BeginShutdown \/ CliRecovers \/ CliRefused \/ UNCHANGED vars
           \/ \E changed \in SUBSET (Emails \ Tasks), old \in SUBSET Running :
                \E brought \in [changed -> Imports] : ImportDataset(brought, old)
  <2>1. UNCHANGED <<pc, audit, recording, initialized, up, job>>
    BY <1>5 DEF ReadMailbox, SelectPair, ReplaceDocument, BeginShutdown, CliRecovers,
                CliRefused, ImportDataset, vars
  <2> QED
    BY <2>1 DEF MemoryInv
<1>6. CASE CliInterrupts
  BY <1>6 DEF CliInterrupts, Interrupted, Inv, TypeOK, MemoryInv
<1> QED
  BY <1>1, <1>2, <1>3, <1>4, <1>5, <1>6 DEF Next

\* Only the end of the process loses a thread.
LEMMA NeverLostAlive ==
  ASSUME Inv, [Next]_vars, up', NEW s \in Runs, pc[s] # "lost"
  PROVE  pc'[s] # "lost"
<1> USE DEF Inv, TypeOK
<1>1. CASE \E r \in Runs : RequestStep(r)
  BY <1>1 DEF RequestStep, AcquirePermit, RefuseBusy, InitializeFails, CreateAudit,
              CreateFails, Submit, AcceptanceFails, ReportError
<1>2. CASE \E r \in Runs : WorkerStep(r) \/ CheckRecording(r)
  BY <1>2 DEF WorkerStep, ExtractDocuments, FinishAnalysis, Commit, WorkerFails,
              FailRun, Release, CheckRecording
<1>3. CASE Exit \/ Crash \/ \E r \in Runs : CrashInCommit(r)
  BY <1>3 DEF Exit, Crash, CrashInCommit, ProcessEnds
<1>4. CASE \E e \in Emails, r \in Runs, old \in SUBSET Running : Analyze(e, r, old)
  BY <1>4 DEF Analyze
<1>5. CASE UNCHANGED pc
  BY <1>5
<1> QED
  BY <1>1, <1>2, <1>3, <1>4, <1>5
  DEF Next, ReadMailbox, SelectPair, ReplaceDocument, BeginShutdown, Restart,
      CliInterrupts, CliRecovers, ImportDataset, CliRefused, vars

LEMMA RowsAliveStep == Inv /\ RowsAlive /\ [Next]_vars => RowsAlive'
<1> SUFFICES ASSUME Inv, RowsAlive, [Next]_vars, up', NEW s \in Running'
             PROVE  pc'[s] # "lost"
  BY DEF RowsAlive
<1>1. s \in Runs /\ run'[s].status = "RUNNING"
  BY DEF Running
<1>2. CASE Restart
  <2>1. run' = Recover(Running)
    BY <1>2 DEF Restart
  <2> QED
    BY <1>1, <2>1 DEF Recover, Running, FailedRow, Inv, TypeOK, RunRow
<1>3. CASE ~Restart
  <2>1. up
    BY <1>3 DEF Next, RequestStep, WorkerStep, ReadMailbox, Analyze, SelectPair,
         ReplaceDocument, AcquirePermit, RefuseBusy, InitializeFails, CreateAudit,
         CreateFails, Submit, AcceptanceFails, ReportError, ExtractDocuments,
         FinishAnalysis, Commit, WorkerFails, FailRun, Release, CheckRecording,
         BeginShutdown, Exit, Crash, CrashInCommit, CliInterrupts, CliRecovers,
         ImportDataset, CliRefused, vars
  <2>2. pc[s] # "lost" => pc'[s] # "lost"
    BY <1>1, NeverLostAlive
  <2>3. CASE Quiet
    BY <1>1, <2>1, <2>2, <2>3 DEF Quiet, KeepsRow, RowsAlive, Running
  <2>4. CASE \E e \in Emails, r \in Runs, old \in SUBSET Running : Analyze(e, r, old)
    <3>1. PICK e \in Emails, r \in Runs, old \in SUBSET Running : Analyze(e, r, old)
      BY <2>4
    <3>2. s = r \/ run'[s] = Recover(old)[s]
      BY <1>1, <3>1 DEF Analyze, Recover
    <3>3. s = r => pc'[s] = "inserted"
      BY <3>1 DEF Analyze, Inv, TypeOK
    <3>4. s # r => s \in Running
      BY <1>1, <3>2, RecoverStep DEF Running, Inv
    <3> QED
      BY <2>1, <2>2, <3>3, <3>4 DEF RowsAlive
  <2>5. CASE \E r \in Runs : Commit(r)
    <3>1. PICK r \in Runs : Commit(r)
      BY <2>5
    <3>2. PICK pair : CommitRun(r, pair)
      BY <3>1 DEF Commit, CommitRows
    <3>3. s # r /\ run'[s] = run[s]
      BY <1>1, <3>2 DEF CommitRun, Inv, TypeOK, RunRow
    <3> QED
      BY <1>1, <2>1, <2>2, <3>3 DEF RowsAlive, Running
  <2> QED
    BY <2>3, <2>4, <2>5, StepKinds
<1> QED
  BY <1>2, <1>3

(***************************************************************************)
(* RunService._fail and check_recording, AuditStore.initialize and         *)
(* recover_audit_runs: no RUNNING run is forgotten by a live backend, with *)
(* the extraction tools or without, whatever failed to be saved and        *)
(* whenever an earlier process died.                                       *)
(***************************************************************************)
THEOREM NothingIsForgotten == Spec => []NothingForgotten
<1>1. Init => MemoryInv /\ RowsAlive
  BY DEF Init, NoRow, MemoryInv, RowsAlive, Running, Unaccepted
<1>2. Inv /\ MemoryInv /\ RowsAlive /\ [Next]_vars => (MemoryInv /\ RowsAlive)'
  BY MemoryStep, RowsAliveStep
<1>3. MemoryInv /\ RowsAlive => NothingForgotten
  BY DEF MemoryInv, RowsAlive, NothingForgotten
<1> QED
  BY <1>1, <1>2, <1>3, Invariance, PTL DEF Spec
-----------------------------------------------------------------------------
(***************************************************************************)
(* Pairs.  A document uploaded for a role and a role read off a document   *)
(* may disagree, and then an analysis can put one document on both sides.  *)
(* That is the only way: the pair is attached and its sides are different  *)
(* as long as a new document is never uploaded for the role it does not    *)
(* have.                                                                   *)
(***************************************************************************)
Filing ==
  \A e \in Tasks, role \in Role :
    LET d == email'[e].pair[role] IN
    d \notin email[e].docs \cup {NoDoc} => DetectedRole[d] \in {role, "none"}

DocsRegistered == \A e \in Emails : email[e].docs \subseteq documents

\* What an analysis may still complete has no document under the other role.
NamedByRole ==
  \A e \in Tasks, role \in Role :
    ~email[e].selected /\ email[e].pair[role] # NoDoc =>
      DetectedRole[email[e].pair[role]] \in {role, "none"}

\* Whatever a task starts with or is given has the role it is filed under.
FiledByRole == NamedByRole /\ [][Filing]_vars

PairInv == DocsRegistered /\ PairAttached /\ NamedByRole

\* What a step does to the documents and the pair of a task.
KeepsPair(e) ==
  /\ email'[e].docs = email[e].docs /\ email'[e].pair = email[e].pair
  /\ email'[e].selected = email[e].selected

\* Every other step leaves the emails and the documents alone.
LEMMA ThreadsKeepEmails ==
  ASSUME NEW r \in Runs, RequestStep(r) \/ WorkerStep(r) \/ CheckRecording(r), ~Commit(r)
  PROVE  UNCHANGED <<email, documents>>
<1>1. CASE \/ AcquirePermit(r) \/ RefuseBusy(r) \/ InitializeFails(r)
           \/ CreateAudit(r) \/ CreateFails(r) \/ Submit(r)
  BY <1>1 DEF AcquirePermit, RefuseBusy, InitializeFails, CreateAudit, CreateFails, Submit
<1>2. CASE AcceptanceFails(r)
  BY <1>2 DEF AcceptanceFails
<1>3. CASE ReportError(r)
  BY <1>3 DEF ReportError
<1>4. CASE ExtractDocuments(r)
  BY <1>4 DEF ExtractDocuments
<1>5. CASE FinishAnalysis(r)
  BY <1>5 DEF FinishAnalysis
<1>6. CASE WorkerFails(r)
  BY <1>6 DEF WorkerFails
<1>7. CASE FailRun(r)
  BY <1>7 DEF FailRun
<1>8. CASE Release(r)
  BY <1>8 DEF Release
<1>9. CASE CheckRecording(r)
  BY <1>9 DEF CheckRecording
<1> QED
  BY <1>1, <1>2, <1>3, <1>4, <1>5, <1>6, <1>7, <1>8, <1>9 DEF RequestStep, WorkerStep

Elsewhere ==
  \/ \E old \in SUBSET Running : ReadMailbox(old)
  \/ \E r \in Runs : CrashInCommit(r)
  \/ BeginShutdown \/ Exit \/ Crash \/ Restart
  \/ CliInterrupts \/ CliRecovers \/ CliRefused \/ UNCHANGED vars

LEMMA ElsewhereKeepsEmails == Elsewhere => UNCHANGED <<email, documents>>
<1> SUFFICES ASSUME Elsewhere PROVE UNCHANGED <<email, documents>>
  OBVIOUS
<1>1. CASE \E old \in SUBSET Running : ReadMailbox(old)
  BY <1>1 DEF ReadMailbox
<1>2. CASE \E r \in Runs : CrashInCommit(r)
  BY <1>2 DEF CrashInCommit
<1>3. CASE BeginShutdown
  BY <1>3 DEF BeginShutdown
<1>4. CASE Exit \/ Crash
  BY <1>4 DEF Exit, Crash
<1>5. CASE Restart
  BY <1>5 DEF Restart
<1>6. CASE CliInterrupts \/ CliRecovers \/ CliRefused
  BY <1>6 DEF CliInterrupts, CliRecovers, CliRefused
<1>7. CASE UNCHANGED vars
  BY <1>7 DEF vars
<1> QED BY <1>1, <1>2, <1>3, <1>4, <1>5, <1>6, <1>7 DEF Elsewhere

LEMMA PairKinds ==
  ASSUME Inv, [Next]_vars, NEW e \in Tasks
  PROVE  \/ KeepsPair(e)
         \/ \E pair \in Pair : SelectPair(e, pair)
         \/ \E role \in Role, d \in Docs : ReplaceDocument(e, role, d)
         \/ \E r \in Runs : Commit(r)
<1> USE DEF Inv
<1>0. e \in Emails /\ email[e] \in EmailRow
  BY EmailsAssumption DEF TypeOK
<1>1. CASE email'[e] = email[e]
  BY <1>1 DEF KeepsPair
<1>2. CASE \E f \in Emails, r \in Runs, old \in SUBSET Running : Analyze(f, r, old)
  BY <1>0, <1>2 DEF Analyze, TypeOK, EmailRow, KeepsPair
<1>3. ASSUME NEW f \in Tasks, \/ \E pair \in Pair : SelectPair(f, pair)
                              \/ \E role \in Role, d \in Docs : ReplaceDocument(f, role, d)
      PROVE  f = e \/ email'[e] = email[e]
  BY <1>0, <1>3 DEF SelectPair, ReplaceDocument, Advance, TypeOK
<1>4. ASSUME NEW changed \in SUBSET (Emails \ Tasks), NEW old \in SUBSET Running,
             NEW brought \in [changed -> Imports], ImportDataset(brought, old)
      PROVE  email'[e] = email[e]
  <2>1. DOMAIN brought = changed /\ e \notin changed
    OBVIOUS
  <2> QED BY <1>0, <1>4, <2>1 DEF ImportDataset
<1>6. CASE Elsewhere
  BY <1>1, <1>6, ElsewhereKeepsEmails
<1>7. CASE \E f \in Tasks : \/ \E pair \in Pair : SelectPair(f, pair)
                            \/ \E role \in Role, d \in Docs : ReplaceDocument(f, role, d)
  BY <1>1, <1>3, <1>7
<1>8. CASE \E changed \in SUBSET (Emails \ Tasks), old \in SUBSET Running :
             \E brought \in [changed -> Imports] : ImportDataset(brought, old)
  BY <1>1, <1>4, <1>8
<1>9. CASE \E r \in Runs : RequestStep(r) \/ WorkerStep(r) \/ CheckRecording(r)
  BY <1>1, <1>9, ThreadsKeepEmails DEF WorkerStep
<1> HIDE DEF KeepsPair
<1> QED BY <1>2, <1>6, <1>7, <1>8, <1>9 DEF Next, Elsewhere

LEMMA RegisteredStep == Inv /\ DocsRegistered /\ [Next]_vars => DocsRegistered'
<1> SUFFICES ASSUME Inv, DocsRegistered, [Next]_vars, NEW e \in Emails
             PROVE  email'[e].docs \subseteq documents'
  BY DEF DocsRegistered
<1> USE DEF Inv
<1>1. email[e] \in EmailRow /\ email[e].docs \subseteq documents
  BY DEF TypeOK, DocsRegistered
<1>2. CASE UNCHANGED <<email, documents>>
  BY <1>1, <1>2
<1>3. CASE \E f \in Emails, r \in Runs, old \in SUBSET Running : Analyze(f, r, old)
  BY <1>1, <1>3 DEF Analyze, TypeOK, EmailRow
<1>4. CASE \E f \in Tasks : \E pair \in Pair : SelectPair(f, pair)
  BY <1>1, <1>4, EmailsAssumption DEF SelectPair, Advance, TypeOK, EmailRow
<1>5. CASE \E f \in Tasks : \E role \in Role, d \in Docs : ReplaceDocument(f, role, d)
  <2>1. PICK f \in Tasks, role \in Role, d \in Docs : ReplaceDocument(f, role, d)
    BY <1>5
  <2>2. email'[e] = email[e] \/ (e = f /\ email'[e].docs \subseteq email[e].docs \cup {d})
    BY <1>1, <2>1, EmailsAssumption DEF ReplaceDocument, Advance, TypeOK, EmailRow
  <2>3. documents' = documents \cup {d}
    BY <2>1 DEF ReplaceDocument
  <2> QED BY <1>1, <2>2, <2>3
<1>6. CASE \E changed \in SUBSET (Emails \ Tasks), old \in SUBSET Running :
             \E brought \in [changed -> Imports] : ImportDataset(brought, old)
  <2>1. PICK changed \in SUBSET (Emails \ Tasks), old \in SUBSET Running :
             \E brought \in [changed -> Imports] : ImportDataset(brought, old)
    BY <1>6
  <2>2. PICK brought \in [changed -> Imports] : ImportDataset(brought, old)
    BY <2>1
  <2>3. DOMAIN brought = changed
    OBVIOUS
  <2>4. CASE e \in changed
    BY <1>1, <2>2, <2>3, <2>4 DEF ImportDataset, EmailRow
  <2>5. CASE e \notin changed
    BY <1>1, <2>2, <2>3, <2>5 DEF ImportDataset
  <2> QED BY <2>4, <2>5
<1>7. CASE \E r \in Runs : Commit(r)
  <2>1. PICK r \in Runs : Commit(r)
    BY <1>7
  <2>2. documents' = documents
    BY <2>1 DEF Commit
  <2>3. email'[e] = email[e] \/ email'[e].docs = email[e].docs
    BY <2>1, CommitFacts DEF Published
  <2> QED BY <1>1, <2>2, <2>3
<1>9. CASE Elsewhere
  BY <1>2, <1>9, ElsewhereKeepsEmails
<1>10. CASE \E r \in Runs : RequestStep(r) \/ WorkerStep(r) \/ CheckRecording(r)
  BY <1>2, <1>7, <1>10, ThreadsKeepEmails
<1> QED BY <1>3, <1>4, <1>5, <1>6, <1>9, <1>10 DEF Next, Elsewhere

LEMMA DetectedPair ==
  ASSUME Inv, NEW r \in Runs, NEW seen \in SUBSET run[r].docs, NEW role \in Role
  PROVE  \/ PairOf(r, seen)[role] = run[r].pair[role]
         \/ /\ run[r].pair[role] = NoDoc
            /\ \/ PairOf(r, seen)[role] = NoDoc
               \/ /\ PairOf(r, seen)[role] \in run[r].docs
                  /\ DetectedRole[PairOf(r, seen)[role]] = role
<1> DEFINE options == {d \in seen : DetectedRole[d] = role}
<1>1. CASE Cardinality(options) = 1
  <2>1. options # {}
    BY <1>1, FS_EmptySet
  <2> QED
    BY <1>1, <2>1 DEF PairOf
<1>2. CASE Cardinality(options) # 1
  BY <1>2 DEF PairOf
<1> QED BY <1>1, <1>2

\* The pair of one task after a step.
GoodPair(docs, pair, selected) ==
  /\ \A role \in Role : pair[role] \in docs \cup {NoDoc}
  /\ pair["si"] = pair["bl"] => pair["si"] = NoDoc
  /\ ~selected => \A role \in Role :
       pair[role] # NoDoc => DetectedRole[pair[role]] \in {role, "none"}

LEMMA GoodPairs ==
  PairAttached /\ NamedByRole <=>
    \A e \in Tasks : GoodPair(email[e].docs, email[e].pair, email[e].selected)
  BY DEF PairAttached, NamedByRole, GoodPair

LEMMA PairStep ==
  RowInv /\ PairInv /\ [Next]_vars /\ Filing => PairInv'
<1> SUFFICES ASSUME RowInv, PairInv, [Next]_vars, Filing PROVE PairInv'
  OBVIOUS
<1> USE DEF RowInv
<1>1. DocsRegistered'
  BY RegisteredStep DEF PairInv
<1>2. ASSUME NEW e \in Tasks
      PROVE  GoodPair(email'[e].docs, email'[e].pair, email'[e].selected)
  <2>1. GoodPair(email[e].docs, email[e].pair, email[e].selected)
    BY GoodPairs DEF PairInv
  <2>2. e \in Emails /\ email[e] \in EmailRow
    BY EmailsAssumption DEF Inv, TypeOK
  <2>3. CASE KeepsPair(e)
    BY <2>1, <2>3 DEF KeepsPair
  <2>4. CASE \E pair \in Pair : SelectPair(e, pair)
    <3>1. PICK pair \in Pair : SelectPair(e, pair)
      BY <2>4
    <3>2. email'[e].docs = email[e].docs /\ email'[e].pair = pair /\ email'[e].selected = TRUE
      BY <2>2, <3>1 DEF SelectPair, Advance, Inv, TypeOK, EmailRow
    <3> QED
      BY <3>1, <3>2 DEF SelectPair, GoodPair
  <2>5. CASE \E role \in Role, d \in Docs : ReplaceDocument(e, role, d)
    <3>1. PICK role \in Role, d \in Docs : ReplaceDocument(e, role, d)
      BY <2>5
    <3> DEFINE old == email[e].pair[role]
    <3>2. /\ email'[e].docs = (email[e].docs \ {old}) \cup {d}
          /\ email'[e].pair = [email[e].pair EXCEPT ![role] = d]
          /\ email'[e].selected = email[e].selected
      BY <2>2, <3>1 DEF ReplaceDocument, Advance, Inv, TypeOK, EmailRow
    <3>3. d \notin email[e].docs \cup {NoDoc}
      BY <2>2, <3>1, NullAssumption DEF ReplaceDocument, PairInv, DocsRegistered
    <3>4. email[e].pair \in [Role -> DocOrNone]
      BY <2>2 DEF EmailRow, Pair
    <3>5. email'[e].pair[role] = d /\ \A other \in Role \ {role} :
            email'[e].pair[other] = email[e].pair[other]
      BY <3>2, <3>4
    <3>6. DetectedRole[d] \in {role, "none"}
      BY <3>3, <3>5 DEF Filing
    <3>7. \A other \in Role \ {role} :
            email[e].pair[other] # NoDoc => email[e].pair[other] # old
      BY <2>1 DEF GoodPair, Role
    <3>8. \A other \in Role : email'[e].pair[other] \in email'[e].docs \cup {NoDoc}
      BY <2>1, <3>2, <3>5, <3>7 DEF GoodPair
    <3>9. email'[e].pair["si"] # email'[e].pair["bl"]
      BY <2>1, <3>3, <3>5 DEF GoodPair, Role
    <3> QED
      BY <2>1, <3>2, <3>5, <3>6, <3>8, <3>9 DEF GoodPair
  <2>6. CASE \E r \in Runs : Commit(r)
    <3>1. PICK r \in Runs : Commit(r)
      BY <2>6
    <3>2. PICK seen \in SUBSET run[r].docs :
                 UNCHANGED email \/ Published(r, run[r].email, Choice(r, seen))
      BY <3>1, CommitFacts
    <3>3. CASE email'[e] = email[e]
      BY <2>1, <3>3
    <3>4. CASE email'[e] # email[e]
      <4>1. Published(r, e, Choice(r, seen)) /\ e = run[r].email
        BY <2>2, <3>2, <3>4 DEF Published
      <4>2. CASE ~Chooses(r)
        BY <2>1, <4>1, <4>2 DEF Published
      <4>3. CASE Chooses(r)
        <5>1. email'[e].pair = PairOf(r, seen) /\ email'[e].docs = email[e].docs
          BY <4>1, <4>3 DEF Published, Choice
        <5>2. MatchesEmail(r, e)
          BY <4>1 DEF Published, Stale, RunningMatches, Running
        <5>3. ~email[e].selected
          BY <3>1, <4>3, <5>2 DEF Commit, Waiting, MatchesEmail, Chooses
        <5>4. run[r].pair = email[e].pair /\ run[r].docs \subseteq email[e].docs
          BY <5>2 DEF MatchesEmail
        <5>5. \A role \in Role :
                \/ email'[e].pair[role] = email[e].pair[role]
                \/ email'[e].pair[role] = NoDoc
                \/ /\ email'[e].pair[role] \in email[e].docs
                   /\ DetectedRole[email'[e].pair[role]] = role
          BY <5>1, <5>4, DetectedPair
        <5>6. \A role \in Role : email'[e].pair[role] \in email'[e].docs \cup {NoDoc}
          BY <2>1, <5>1, <5>5 DEF GoodPair
        <5>7. \A role \in Role : email'[e].pair[role] # NoDoc =>
                DetectedRole[email'[e].pair[role]] \in {role, "none"}
          BY <2>1, <5>3, <5>5 DEF GoodPair
        <5>8. email'[e].pair["si"] = email'[e].pair["bl"] => email'[e].pair["si"] = NoDoc
          BY <2>1, <5>3, <5>5 DEF GoodPair, Role
        <5> QED
          BY <5>6, <5>7, <5>8 DEF GoodPair
      <4> QED
        BY <4>2, <4>3
    <3> QED
      BY <3>3, <3>4
  <2> QED
    BY <2>3, <2>4, <2>5, <2>6, PairKinds
<1>3. (\A e \in Tasks : GoodPair(email[e].docs, email[e].pair, email[e].selected))'
  BY <1>2
<1>4. (PairAttached /\ NamedByRole)'
  BY <1>3, GoodPairs, PTL
<1> QED
  BY <1>1, <1>4 DEF PairInv

(***************************************************************************)
(* TaskStore.select_pair, replace_document and MailboxWorkflow.commit:     *)
(* unless a document is uploaded for the role it does not have, a pair     *)
(* names attached documents, and the two roles different ones.  The code   *)
(* does not look at the role of an uploaded document: without the          *)
(* hypothesis the run MailboxMisfiled shows one document on both sides.    *)
(***************************************************************************)
THEOREM PairsAttached == Spec /\ FiledByRole => []PairAttached
<1>1. Init /\ NamedByRole => PairInv
  <2> SUFFICES ASSUME Init, NamedByRole PROVE PairInv
    OBVIOUS
  <2>1. DocsRegistered
    BY DEF Init, DocsRegistered
  <2>2. PICK first \in FirstPairs :
          \A e \in Emails : email[e].pair = first[e] /\ email[e].docs = FirstDocs[e]
    BY DEF Init
  <2>3. PairAttached
    BY <2>2, EmailsAssumption, PairsAssumption DEF PairAttached, Role
  <2> QED
    BY <2>1, <2>3 DEF PairInv
<1>2. RowInv /\ PairInv /\ [Next]_vars /\ [Filing]_vars => PairInv'
  <2>1. CASE UNCHANGED vars
    BY <2>1 DEF PairInv, DocsRegistered, PairAttached, NamedByRole, vars
  <2> QED
    BY <2>1, PairStep
<1>3. PairInv => PairAttached
  BY DEF PairInv
<1> QED
  BY <1>1, <1>2, <1>3, RowsInvariance, PTL DEF Spec, FiledByRole
-----------------------------------------------------------------------------
(***************************************************************************)
(* Baselines.  Samples have none; the attempts of one revision of a task   *)
(* all repeat what the first of them found.                                *)
(***************************************************************************)
SampleBase ==
  \A r \in Runs : run[r].status # "none" /\ run[r].email \notin Tasks =>
    run[r].base = NoRun

GoodBase(base, e, revision) ==
  base # NoRun => /\ run[base].status = "SUCCEEDED"
                  /\ run[base].result = "comparison"
                  /\ run[base].email = e
                  /\ run[base].revision < revision

BaseInv == Inv /\ SampleBase /\ BaselineFrozen

\* The answer of Baselines agrees with the attempts there are.
LEMMA BaselineAnswer ==
  ASSUME BaseInv, NEW e \in Emails,
         NEW base \in IF e \in Tasks THEN Baselines(e) ELSE {NoRun}
  PROVE  /\ base \in RunOrNone
         /\ GoodBase(base, e, email[e].revision)
         /\ \A s \in Attempts(e) : run[s].base = base
<1> USE DEF BaseInv, Inv
<1>1. CASE e \notin Tasks
  BY <1>1 DEF SampleBase, Attempts, GoodBase, RunOrNone
<1>2. CASE e \in Tasks /\ Attempts(e) # {}
  <2>1. PICK a \in Attempts(e) : base = run[a].base
    BY <1>2 DEF Baselines
  <2>2. a \in Runs /\ run[a].status # "none" /\ run[a].email = e
        /\ run[a].revision = email[e].revision
    BY <2>1 DEF Attempts
  <2>3. \A s \in Attempts(e) : run[s].base = base
    BY <2>1, <2>2 DEF BaselineFrozen, Attempts
  <2>4. GoodBase(base, e, email[e].revision)
    BY <2>1, <2>2 DEF BaselineFrozen, GoodBase
  <2>5. base \in RunOrNone
    BY <2>1, <2>2 DEF TypeOK, RunRow
  <2> QED
    BY <2>3, <2>4, <2>5
<1>3. CASE e \in Tasks /\ Attempts(e) = {}
  <2>1. base = NoRun \/ base \in Comparable(e)
    BY <1>3 DEF Baselines
  <2> QED
    BY <1>3, <2>1 DEF Comparable, GoodBase, RunOrNone
<1> QED
  BY <1>1, <1>2, <1>3

LEMMA BaselineStep == BaseInv /\ [Next]_vars => SampleBase' /\ BaselineFrozen'
<1> SUFFICES ASSUME BaseInv, [Next]_vars PROVE SampleBase' /\ BaselineFrozen'
  OBVIOUS
<1> USE DEF BaseInv, Inv
<1>1. \A s \in Runs : run[s].status # "none" =>
        /\ run'[s].status # "none"
        /\ run'[s].email = run[s].email
        /\ run'[s].revision = run[s].revision
        /\ run'[s].base = run[s].base
  BY RowsStep DEF RowStep
<1>2. ASSUME NEW base \in RunOrNone, NEW e, NEW revision, GoodBase(base, e, revision)
      PROVE  GoodBase(base, e, revision)'
  <2>1. CASE base = NoRun
    BY <2>1 DEF GoodBase
  <2>2. CASE base \in Runs
    <3>1. base # NoRun
      BY <2>2, NullAssumption
    <3>2. run'[base] = run[base]
      BY <1>2, <2>2, <3>1, RowsStep DEF RowStep, GoodBase
    <3> QED
      BY <1>2, <3>2 DEF GoodBase
  <2> QED
    BY <2>1, <2>2 DEF RunOrNone
\* A run that had a row before the step.
<1>3. ASSUME NEW r \in Runs, run[r].status # "none"
      PROVE  GoodBase(run[r].base, run[r].email, run[r].revision)'
  <2>1. GoodBase(run[r].base, run[r].email, run[r].revision)
    BY <1>3 DEF BaselineFrozen, GoodBase
  <2>2. run[r].base \in RunOrNone
    BY DEF TypeOK, RunRow
  <2> QED
    BY <1>1, <1>2, <1>3, <2>1, <2>2 DEF GoodBase
<1>4. CASE \A s \in Runs : run'[s].status # "none" => run[s].status # "none"
  <2>1. SampleBase'
    BY <1>1, <1>4 DEF SampleBase
  <2>2. \A r \in Runs : run'[r].status # "none" =>
          GoodBase(run[r].base, run[r].email, run[r].revision)'
    BY <1>3, <1>4
  <2>3. \A r, s \in Runs :
          /\ run'[r].status # "none" /\ run'[s].status # "none"
          /\ run'[s].email = run'[r].email /\ run'[s].revision = run'[r].revision
          => run'[s].base = run'[r].base
    BY <1>1, <1>4 DEF BaselineFrozen
  <2>4. BaselineFrozen'
    BY <2>2, <2>3 DEF BaselineFrozen, GoodBase
  <2> QED
    BY <2>1, <2>4
<1>5. ASSUME NEW e \in Emails, NEW r \in Runs, NEW old \in SUBSET Running,
             Analyze(e, r, old)
      PROVE  SampleBase' /\ BaselineFrozen'
  <2>1. PICK base \in IF e \in Tasks THEN Baselines(e) ELSE {NoRun} :
          run' = [Recover(old) EXCEPT ![r] =
                    [status |-> "RUNNING", email |-> e,
                     revision |-> email[e].revision, docs |-> AnalyzedDocs(e),
                     pair |-> email[e].pair, base |-> base, result |-> "none"]]
    BY <1>5 DEF Analyze
  <2>2. /\ run'[r].email = e
        /\ run'[r].revision = email[e].revision
        /\ run'[r].base = base
        /\ run[r].status = "none"
    BY <1>5, <2>1 DEF Recover, Analyze, RowsFollowStages
  <2>3. \A s \in Runs \ {r} : run'[s].status # "none" => run[s].status # "none"
    BY <2>1, RecoverStep DEF Recover, TypeOK, RunRow
  <2>4. /\ base \in RunOrNone
        /\ GoodBase(base, e, email[e].revision)
        /\ \A s \in Attempts(e) : run[s].base = base
    BY BaselineAnswer
  <2>5. SampleBase'
    <3>1. e \notin Tasks => base = NoRun
      BY <2>1
    <3> QED
      BY <1>1, <2>2, <2>3, <3>1 DEF SampleBase
  <2>6. \A s \in Runs : run'[s].status # "none" =>
          GoodBase(run[s].base, run[s].email, run[s].revision)'
    <3>1. GoodBase(run[r].base, run[r].email, run[r].revision)'
      BY <1>2, <2>2, <2>4 DEF GoodBase
    <3> QED
      BY <1>3, <2>3, <3>1
  <2>7. ASSUME NEW s \in Runs \ {r}, run'[s].status # "none",
               run'[s].email = e, run'[s].revision = email[e].revision
        PROVE  run'[s].base = base
    BY <1>1, <2>3, <2>4, <2>7 DEF Attempts
  <2>8. ASSUME NEW s \in Runs, NEW t \in Runs,
               run'[s].status # "none", run'[t].status # "none",
               run'[t].email = run'[s].email, run'[t].revision = run'[s].revision
        PROVE  run'[t].base = run'[s].base
    <3>1. CASE s = r \/ t = r
      BY <2>2, <2>7, <2>8, <3>1
    <3>2. CASE s # r /\ t # r
      BY <1>1, <2>3, <2>8, <3>2 DEF BaselineFrozen
    <3> QED
      BY <3>1, <3>2
  <2>9. BaselineFrozen'
    BY <2>6, <2>8 DEF BaselineFrozen, GoodBase
  <2> QED
    BY <2>5, <2>9
<1>6. CASE Quiet
  BY <1>4, <1>6 DEF Quiet, KeepsRow
<1>7. CASE \E r \in Runs : Commit(r)
  <2>1. \A s \in Runs : run'[s].status # "none" => run[s].status # "none"
    BY <1>7, CommitFacts DEF Recorded
  <2> QED
    BY <1>4, <2>1
<1> QED
  BY <1>5, <1>6, <1>7, StepKinds

(***************************************************************************)
(* _revision_baseline: reanalyzing a revision compares it with the same    *)
(* earlier success, whatever runs of older revisions finish in between.    *)
(***************************************************************************)
THEOREM BaselineCorrect == Spec => []BaselineFrozen
<1>1. Init => SampleBase /\ BaselineFrozen
  BY DEF Init, NoRow, SampleBase, BaselineFrozen
<1>2. BaseInv /\ Inv' /\ [Next]_vars => BaseInv'
  BY BaselineStep DEF BaseInv
<1>3. BaseInv => BaselineFrozen
  BY DEF BaseInv
<1> QED
  BY <1>1, <1>2, <1>3, Invariance, PTL DEF Spec, BaseInv
-----------------------------------------------------------------------------
(***************************************************************************)
(* MailboxRuns implements ResultBoard.  Every step of the mailbox is a     *)
(* step of the board: a request is Ask, the commit of a success is Publish *)
(* or Archive, and all the others Revise the emails they give a new        *)
(* revision, mostly none, and give up the runs they fail.                  *)
(***************************************************************************)
\* The row of a run is kept, but for a run that is given up.
KeepsOrFails(r) ==
  /\ run'[r].email = run[r].email /\ run'[r].revision = run[r].revision
  /\ \/ run'[r].status = run[r].status
     \/ run[r].status = "RUNNING" /\ run'[r].status = "FAILED"

SameOnBoard(e) ==
  /\ email'[e].revision = email[e].revision
  /\ email'[e].latest = email[e].latest
  /\ email'[e].current = email[e].current

NewRevision(e) ==
  /\ email'[e].revision = email[e].revision + 1
  /\ email'[e].latest = NoRun
  /\ email'[e].current = NoRun

LEMMA BoardStates ==
  ASSUME TypeOK, NEW r \in Runs
  PROVE  /\ BoardState(r) = "unused" <=> run[r].status = "none"
         /\ BoardState(r) = "open" <=> run[r].status = "RUNNING"
         /\ BoardState(r) = "closed" <=> run[r].status = "FAILED"
         /\ BoardState(r) = "succeeded" <=> run[r].status = "SUCCEEDED"
<1>1. run[r].status \in {"none", "RUNNING", "SUCCEEDED", "FAILED"}
  BY DEF TypeOK, RunRow
<1> QED
  BY <1>1 DEF BoardState

LEMMA BoardStateKept ==
  ASSUME TypeOK, NEW r \in Runs, run'[r].status = run[r].status
  PROVE  BoardState(r)' = BoardState(r)
<1>1. \/ run[r].status = "none" \/ run[r].status = "RUNNING"
      \/ run[r].status = "SUCCEEDED" \/ run[r].status = "FAILED"
  BY DEF TypeOK, RunRow
<1> QED
  BY <1>1 DEF BoardState

LEMMA ReviseStep ==
  ASSUME TypeOK, TypeOK', NEW changed \in SUBSET Emails,
         \A r \in Runs : KeepsOrFails(r),
         \A e \in changed : NewRevision(e),
         \A e \in Emails \ changed : SameOnBoard(e)
  PROVE  Board!Next
<1> PICK given : given = {r \in Runs : run[r].status = "RUNNING"
                                     /\ run'[r].status = "FAILED"}
  OBVIOUS
<1>1. given \in SUBSET Board!Open
  BY BoardStates DEF Board!Open
<1>2. ASSUME NEW r \in Runs
      PROVE  BoardState(r)' = IF r \in given THEN "closed" ELSE BoardState(r)
  <2>1. KeepsOrFails(r)
    OBVIOUS
  <2>2. CASE run'[r].status = run[r].status
    BY <2>2, BoardStateKept
  <2>3. CASE run[r].status = "RUNNING" /\ run'[r].status = "FAILED"
    BY <2>3 DEF BoardState
  <2> QED
    BY <2>1, <2>2, <2>3 DEF KeepsOrFails
<1>3. [r \in Runs |-> BoardState(r)]' = Board!Closing(given)
  BY <1>2 DEF Board!Closing
<1>4. ASSUME NEW r \in Runs
      PROVE  (IF run[r].status = "none" THEN {} ELSE {<<run[r].email, run[r].revision>>})'
             = IF run[r].status = "none" THEN {} ELSE {<<run[r].email, run[r].revision>>}
  BY DEF KeepsOrFails
<1>5. Board!Revise(changed, given)
  BY <1>3, <1>4 DEF Board!Revise, NewRevision, SameOnBoard
<1> QED
  BY <1>1, <1>5 DEF Board!Next

LEMMA GiveUpStep ==
  ASSUME TypeOK, TypeOK',
         \A r \in Runs : KeepsOrFails(r),
         \A e \in Emails : SameOnBoard(e)
  PROVE  Board!Next
<1>1. PICK changed \in SUBSET Emails : changed = {}
  OBVIOUS
<1>2. /\ \A e \in changed : NewRevision(e)
      /\ \A e \in Emails \ changed : SameOnBoard(e)
  BY <1>1
<1> QED
  BY <1>2, ReviseStep

LEMMA AskStep ==
  ASSUME Inv, Inv', NEW e \in Emails, NEW r \in Runs, NEW old \in SUBSET Running,
         Analyze(e, r, old)
  PROVE  Board!Next
<1> USE DEF Inv
<1>1. old \in SUBSET Board!Open /\ Board!Open = Running
  BY BoardStates DEF Board!Open, Running
<1>2. BoardState(r) = "unused"
  BY BoardStates DEF Analyze, RowsFollowStages
<1>3. ASSUME NEW s \in Runs
      PROVE  run'[s] = IF s = r THEN run'[r] ELSE Recover(old)[s]
  BY <1>3 DEF Analyze, Recover
<1>4. /\ run'[r].status = "RUNNING" /\ run'[r].email = e
      /\ run'[r].revision = email[e].revision
  BY DEF Analyze, Recover
<1>5. ASSUME NEW s \in Runs
      PROVE  BoardState(s)' = IF s = r THEN "open"
                              ELSE IF s \in old THEN "closed" ELSE BoardState(s)
  <2>1. CASE s = r
    BY <1>4, <2>1 DEF BoardState
  <2>2. CASE s # r /\ s \in old
    <3>1. run'[s].status = "FAILED"
      BY <1>3, <2>2 DEF Recover, FailedRow, TypeOK, RunRow
    <3> QED
      BY <2>2, <3>1 DEF BoardState
  <2>3. CASE s # r /\ s \notin old
    <3>1. run'[s] = run[s]
      BY <1>3, <2>3 DEF Recover
    <3> QED
      BY <2>3, <3>1, BoardStateKept
  <2> QED
    BY <2>1, <2>2, <2>3
<1>6. [s \in Runs |-> BoardState(s)]' = [Board!Closing(old) EXCEPT ![r] = "open"]
  BY <1>5 DEF Board!Closing
<1>7. ASSUME NEW s \in Runs \ {r}
      PROVE  /\ run'[s].status = "none" <=> run[s].status = "none"
             /\ run'[s].email = run[s].email
             /\ run'[s].revision = run[s].revision
  BY <1>3, RecoverStep DEF TypeOK, RunRow
<1>8. [s \in Runs |-> IF run[s].status = "none" THEN {}
                      ELSE {<<run[s].email, run[s].revision>>}]'
      = [[s \in Runs |-> IF run[s].status = "none" THEN {}
                         ELSE {<<run[s].email, run[s].revision>>}]
           EXCEPT ![r] = {<<e, email[e].revision>>}]
  BY <1>4, <1>7
<1>9. /\ \A f \in Emails : /\ email'[f].revision = email[f].revision
                           /\ email'[f].current = email[f].current
                           /\ email'[f].latest = IF f = e THEN r ELSE email[f].latest
  BY DEF Analyze, TypeOK, EmailRow
<1>10. email[e].latest \notin Running \ old
  BY DEF Analyze, NotRunning
<1>11. Board!Ask(e, r, old)
  <2>1. [s \in Runs |-> BoardState(s)][r] = "unused"
    BY <1>2
  <2>2. [f \in Emails |-> email[f].latest][e] \notin Board!Open \ old
    BY <1>1, <1>10
  <2>3. [f \in Emails |-> email[f].latest]'
        = [[f \in Emails |-> email[f].latest] EXCEPT ![e] = r]
    BY <1>9
  <2>4. UNCHANGED <<[f \in Emails |-> email[f].revision],
                    [f \in Emails |-> email[f].current]>>
    BY <1>9
  <2>5. [f \in Emails |-> email[f].revision][e] = email[e].revision
    OBVIOUS
  <2> QED
    BY <1>6, <1>8, <2>1, <2>2, <2>3, <2>4, <2>5 DEF Board!Ask
<1> QED
  BY <1>1, <1>11 DEF Board!Next

\* A failure that is saved finds the row RUNNING or already failed, never a
\* success: the audit run of a success is not RUNNING.
LEMMA SaveFailureKeeps ==
  ASSUME Inv, NEW r \in Runs, NEW s \in Runs, SaveFailure(r)
  PROVE  KeepsOrFails(s)
<1>1. CASE UNCHANGED run
  BY <1>1 DEF KeepsOrFails
<1>2. CASE /\ audit[r] = "RUNNING"
           /\ run' = [run EXCEPT ![r].status = "FAILED", ![r].result = job[r].result]
  <2>1. run[r].status \in {"RUNNING", "FAILED"}
    BY <1>2 DEF Inv, RowsFollowStages, DatabasesAgree, TypeOK, RunRow
  <2>2. CASE s = r
    BY <1>2, <2>1, <2>2 DEF KeepsOrFails, Inv, TypeOK, RunRow
  <2>3. CASE s # r
    BY <1>2, <2>3 DEF KeepsOrFails, Inv, TypeOK, RunRow
  <2> QED
    BY <2>2, <2>3
<1> QED
  BY <1>1, <1>2 DEF SaveFailure

LEMMA CommitOnBoard ==
  ASSUME Inv, Inv', NEW r \in Runs, Commit(r)
  PROVE  Board!Next
<1> USE DEF Inv
<1>1. PICK pair : CommitRun(r, pair) /\ CommitEmail(r, pair)
  BY DEF Commit, CommitRows
<1>2. run[r].status \in {"RUNNING", "FAILED"}
  BY DEF Commit, RowsFollowStages, DatabasesAgree, TypeOK, RunRow
<1> DEFINE status == IF job[r].outcome = "SUCCEEDED" THEN "SUCCEEDED" ELSE "FAILED"
<1>3. /\ run'[r].status = status
      /\ run'[r].email = run[r].email /\ run'[r].revision = run[r].revision
      /\ \A s \in Runs \ {r} : run'[s] = run[s]
  BY <1>1 DEF CommitRun, TypeOK, RunRow
<1>4. CASE job[r].outcome # "SUCCEEDED"
  <2>1. \A s \in Runs : KeepsOrFails(s)
    BY <1>2, <1>3, <1>4 DEF KeepsOrFails
  <2>2. \A e \in Emails : SameOnBoard(e)
    BY <1>1, <1>4 DEF CommitEmail, SameOnBoard
  <2> QED
    BY <2>1, <2>2, GiveUpStep
<1>5. ASSUME job[r].outcome = "SUCCEEDED"
      PROVE  /\ [s \in Runs |-> BoardState(s)]'
                = [[s \in Runs |-> BoardState(s)] EXCEPT ![r] = "succeeded"]
             /\ UNCHANGED [s \in Runs |-> IF run[s].status = "none" THEN {}
                                          ELSE {<<run[s].email, run[s].revision>>}]
  <2>1. \A s \in Runs : BoardState(s)' = IF s = r THEN "succeeded" ELSE BoardState(s)
    <3>1. BoardState(r)' = "succeeded"
      BY <1>3, <1>5 DEF BoardState
    <3>2. ASSUME NEW s \in Runs \ {r} PROVE BoardState(s)' = BoardState(s)
      BY <1>3, <3>2, BoardStateKept
    <3> QED
      BY <3>1, <3>2
  <2>2. \A s \in Runs :
          (IF run[s].status = "none" THEN {} ELSE {<<run[s].email, run[s].revision>>})'
          = IF run[s].status = "none" THEN {} ELSE {<<run[s].email, run[s].revision>>}
    BY <1>2, <1>3, <1>5
  <2> QED
    BY <2>1, <2>2
<1>6. BoardState(r) \in {"open", "closed"}
  BY <1>2, BoardStates
<1>7. CASE job[r].outcome = "SUCCEEDED" /\ Stale(r)
  <2>1. \A e \in Emails : SameOnBoard(e)
    BY <1>1, <1>7 DEF CommitEmail, SameOnBoard
  <2>2. UNCHANGED <<[e \in Emails |-> email[e].revision],
                    [e \in Emails |-> email[e].latest],
                    [e \in Emails |-> email[e].current]>>
    BY <2>1 DEF SameOnBoard
  <2>3. Board!Archive(r)
    BY <1>5, <1>6, <1>7, <2>2 DEF Board!Archive
  <2> QED
    BY <2>3 DEF Board!Next
<1>8. CASE job[r].outcome = "SUCCEEDED" /\ ~Stale(r)
  <2> PICK e \in Emails : e = run[r].email
    BY DEF TypeOK, RunRow
  <2>1. /\ run[r].status = "RUNNING"
        /\ email[e].latest = r
        /\ run[r].revision = email[e].revision
    BY <1>8 DEF Stale
  <2>2. email' = [email EXCEPT ![e] = [PublishPair(r, pair) EXCEPT !.current = r]]
    BY <1>1, <1>8 DEF CommitEmail
  <2>3. /\ email'[e].revision = email[e].revision
        /\ email'[e].latest = email[e].latest
        /\ email'[e].current = r
        /\ \A f \in Emails \ {e} : email'[f] = email[f]
    <3>1. email[e] \in EmailRow
      BY DEF TypeOK
    <3>2. email'[e] = [PublishPair(r, pair) EXCEPT !.current = r]
      BY <2>2 DEF TypeOK
    <3>3. \A f \in Emails \ {e} : email'[f] = email[f]
      BY <2>2 DEF TypeOK
    <3> QED
      BY <3>1, <3>2, <3>3 DEF PublishPair, EmailRow
  <2>4. UNCHANGED <<[f \in Emails |-> email[f].revision],
                    [f \in Emails |-> email[f].latest]>>
    BY <2>3
  <2>5. [f \in Emails |-> email[f].current]'
        = [[f \in Emails |-> email[f].current] EXCEPT ![e] = r]
    BY <2>3
  <2>6. /\ [s \in Runs |-> BoardState(s)][r] = "open"
        /\ [f \in Emails |-> email[f].latest][e] = r
    BY <2>1, BoardStates
  <2>7. [s \in Runs |-> IF run[s].status = "none" THEN {}
                        ELSE {<<run[s].email, run[s].revision>>}][r]
        = {<<e, [f \in Emails |-> email[f].revision][e]>>}
    BY <2>1
  <2>8. Board!Publish(e, r)
    BY <1>5, <1>8, <2>4, <2>5, <2>6, <2>7 DEF Board!Publish
  <2> QED
    BY <2>8 DEF Board!Next
<1> QED
  BY <1>4, <1>7, <1>8

LEMMA RevisionOnBoard ==
  ASSUME TypeOK, TypeOK', NEW changed \in SUBSET Emails,
         \A r \in Runs : KeepsOrFails(r),
         email' = [e \in Emails |-> IF e \in changed THEN email'[e] ELSE email[e]],
         \A e \in changed : NewRevision(e)
  PROVE  Board!Next
<1>1. \A e \in Emails \ changed : SameOnBoard(e)
  BY DEF SameOnBoard
<1> QED
  BY <1>1, ReviseStep

LEMMA AdvanceOnBoard ==
  ASSUME TypeOK, TypeOK', UNCHANGED run, NEW e \in Emails, NEW docs, NEW pair,
         NEW selected, Advance(e, docs, pair, selected)
  PROVE  Board!Next
<1>1. \A r \in Runs : KeepsOrFails(r)
  BY DEF KeepsOrFails
<1>2. email[e] \in EmailRow
  BY DEF TypeOK
<1>3. NewRevision(e)
  BY <1>2 DEF Advance, NewRevision, TypeOK, EmailRow
<1>4. PICK changed \in SUBSET Emails : changed = {e}
  OBVIOUS
<1>5. email' = [f \in Emails |-> IF f \in changed THEN email'[f] ELSE email[f]]
  BY <1>4 DEF Advance, TypeOK
<1> QED
  BY <1>1, <1>3, <1>4, <1>5, RevisionOnBoard

LEMMA ImportOnBoard ==
  ASSUME TypeOK, TypeOK', NEW changed \in SUBSET (Emails \ Tasks),
         NEW old \in SUBSET Running, NEW brought \in [changed -> Imports],
         ImportDataset(brought, old)
  PROVE  Board!Next
<1>1. DOMAIN brought = changed /\ changed \in SUBSET Emails
  OBVIOUS
<1>2. \A r \in Runs : KeepsOrFails(r)
  <2>1. run' = Recover(old)
    BY DEF ImportDataset
  <2> QED
    BY <2>1, RecoverStep DEF KeepsOrFails, Recover, FailedRow, Running, TypeOK, RunRow
<1>3. email' = [e \in Emails |->
                 IF e \in changed
                 THEN [email[e] EXCEPT !.revision = @ + 1, !.docs = brought[e],
                                       !.current = NoRun, !.latest = NoRun]
                 ELSE email[e]]
  BY <1>1 DEF ImportDataset
<1>4. ASSUME NEW e \in changed PROVE NewRevision(e)
  <2>1. email[e] \in EmailRow
    BY DEF TypeOK
  <2>2. email'[e] = [email[e] EXCEPT !.revision = @ + 1, !.docs = brought[e],
                                     !.current = NoRun, !.latest = NoRun]
    BY <1>3
  <2> QED
    BY <2>1, <2>2 DEF EmailRow, NewRevision
<1>5. email' = [e \in Emails |-> IF e \in changed THEN email'[e] ELSE email[e]]
  BY <1>3
<1> QED
  BY <1>1, <1>2, <1>4, <1>5, RevisionOnBoard

LEMMA StepOnBoard == Inv /\ Inv' /\ [Next]_vars => [Board!Next]_Board!board
<1> SUFFICES ASSUME Inv, Inv', [Next]_vars PROVE [Board!Next]_Board!board
  OBVIOUS
<1> USE DEF Inv
<1>1. ASSUME NEW old \in SUBSET Running, run' = Recover(old), UNCHANGED email
      PROVE  Board!Next
  <2>1. \A r \in Runs : KeepsOrFails(r)
    BY <1>1, RecoverStep DEF KeepsOrFails, Recover, FailedRow, Running, TypeOK, RunRow
  <2>2. \A e \in Emails : SameOnBoard(e)
    BY <1>1 DEF SameOnBoard
  <2> QED
    BY <2>1, <2>2, GiveUpStep
<1>2. ASSUME UNCHANGED <<run, email>> PROVE UNCHANGED Board!board
  BY <1>2 DEF Board!board, BoardState
<1>3. ASSUME NEW r \in Runs, AcceptanceFails(r) \/ FailRun(r) \/ CheckRecording(r)
      PROVE  [Board!Next]_Board!board
  <2>1. CASE UNCHANGED <<run, email>>
    BY <2>1, <1>2
  <2>2. CASE SaveFailure(r) /\ UNCHANGED email
    <3>1. \A s \in Runs : KeepsOrFails(s)
      BY <2>2, SaveFailureKeeps
    <3>2. \A e \in Emails : SameOnBoard(e)
      BY <2>2 DEF SameOnBoard
    <3> QED
      BY <3>1, <3>2, GiveUpStep
  <2> QED
    BY <1>3, <2>1, <2>2 DEF AcceptanceFails, FailRun, CheckRecording
<1>4. ASSUME NEW r \in Runs, ReportError(r) PROVE [Board!Next]_Board!board
  <2>1. CASE UNCHANGED run
    BY <1>2, <1>4, <2>1 DEF ReportError
  <2>2. CASE r \in Running /\ run' = [run EXCEPT ![r] = FailedRow(r)]
    <3>1. \A s \in Runs : KeepsOrFails(s)
      BY <2>2 DEF KeepsOrFails, FailedRow, Running, TypeOK, RunRow
    <3>2. \A e \in Emails : SameOnBoard(e)
      BY <1>4 DEF ReportError, SameOnBoard
    <3> QED
      BY <3>1, <3>2, GiveUpStep
  <2> QED
    BY <1>4, <2>1, <2>2 DEF ReportError
<1>5. CASE \E e \in Emails, r \in Runs, old \in SUBSET Running : Analyze(e, r, old)
  BY <1>5, AskStep
<1>6. CASE \E r \in Runs : Commit(r)
  BY <1>6, CommitOnBoard
<1>7. CASE \E e \in Tasks, pair \in Pair : SelectPair(e, pair)
  <2>1. PICK e \in Tasks, pair \in Pair : SelectPair(e, pair)
    BY <1>7
  <2>2. e \in Emails
    BY EmailsAssumption
  <2> QED
    BY <2>1, <2>2, AdvanceOnBoard DEF SelectPair
<1>8. CASE \E e \in Tasks, role \in Role, d \in Docs : ReplaceDocument(e, role, d)
  <2>1. PICK e \in Tasks, role \in Role, d \in Docs : ReplaceDocument(e, role, d)
    BY <1>8
  <2>2. e \in Emails
    BY EmailsAssumption
  <2>3. PICK docs, pair, selected : Advance(e, docs, pair, selected)
    BY <2>1 DEF ReplaceDocument
  <2> QED
    BY <2>1, <2>2, <2>3, AdvanceOnBoard DEF ReplaceDocument
<1>9. CASE \E changed \in SUBSET (Emails \ Tasks), old \in SUBSET Running :
             \E brought \in [changed -> Imports] : ImportDataset(brought, old)
  BY <1>9, ImportOnBoard
<1>10. CASE \/ \E old \in SUBSET Running : ReadMailbox(old)
            \/ Restart \/ CliRecovers
  <2>1. Running \in SUBSET Running
    OBVIOUS
  <2> QED
    BY <1>1, <1>10, <2>1 DEF ReadMailbox, Restart, CliRecovers
<1>11. CASE \E r \in Runs : \/ AcquirePermit(r) \/ RefuseBusy(r) \/ InitializeFails(r)
                            \/ CreateAudit(r)
                            \/ CreateFails(r) \/ Submit(r)
  <2>1. UNCHANGED <<run, email>>
    BY <1>11 DEF AcquirePermit, RefuseBusy, InitializeFails, CreateAudit, CreateFails, Submit
  <2> QED
    BY <1>2, <2>1
<1>12. CASE \E r \in Runs : \/ ExtractDocuments(r) \/ FinishAnalysis(r)
                            \/ WorkerFails(r) \/ Release(r) \/ CrashInCommit(r)
  <2>1. UNCHANGED <<run, email>>
    BY <1>12 DEF ExtractDocuments, FinishAnalysis, WorkerFails, Release, CrashInCommit
  <2> QED
    BY <1>2, <2>1
<1>13. CASE \/ BeginShutdown \/ Exit \/ Crash \/ CliInterrupts \/ CliRefused
            \/ UNCHANGED vars
  <2>1. UNCHANGED <<run, email>>
    BY <1>13 DEF BeginShutdown, Exit, Crash, CliInterrupts, CliRefused, vars
  <2> QED
    BY <1>2, <2>1
<1> QED
  BY <1>3, <1>4, <1>5, <1>6, <1>7, <1>8, <1>9, <1>10, <1>11, <1>12, <1>13
  DEF Next, RequestStep, WorkerStep

(***************************************************************************)
(* The mailbox, its worker threads, their failures, the end of the process *)
(* and the import command implement the result board: what an email shows  *)
(* is always what its latest run, open at the present revision, published. *)
(***************************************************************************)
THEOREM BoardImplemented == Spec => ImplementsBoard
<1>1. Init => Board!Init
  <2> SUFFICES ASSUME Init PROVE Board!Init
    OBVIOUS
  <2>1. \A r \in Runs : run[r].status = "none" /\ BoardState(r) = "unused"
    BY DEF Init, NoRow, BoardState
  <2>2. \A e \in Emails : /\ email[e].revision = 1 /\ email[e].latest = NoRun
                          /\ email[e].current = NoRun
    BY DEF Init
  <2> QED
    BY <2>1, <2>2 DEF Board!Init
<1> QED
  BY <1>1, StepOnBoard, Invariance, PTL DEF Spec, ImplementsBoard, Board!Spec
=============================================================================
