------------------------------ MODULE LocalApi ------------------------------
(***************************************************************************)
(* The requests that reach the review desk of TaskReview over HTTP: what   *)
(* is checked of each, in which order and with which answer, what an       *)
(* accepted one does, and what a page is told afterwards.                  *)
(*                                                                         *)
(*   build_task_router                                     app/api/tasks.py*)
(*   build_router                                        app/api/samples.py*)
(*   create_app, Settings                     app/main.py, app/config.py   *)
(*   GeminiRiskProvider.explain                             app/ai/risk.py *)
(*   analyze, detail, _summary                                app/store.py *)
(*   task_detail, task_run_detail                        app/task_store.py *)
(*                                                                         *)
(* An analysis takes time: it is started by a request and ends later, see  *)
(* latest.  One that a new revision overtakes leaves the model with its    *)
(* revision.  A refused request changes nothing.                           *)
(***************************************************************************)
EXTENDS TaskReview

CONSTANTS
  AppEnv,          \* app_env of the settings
  BriefingNotes    \* the fields Gemini's notes may be about, note by note

ASSUME NotesAssumption == BriefingNotes \subseteq Seq(Fields)

VARIABLE latest    \* the task's latest run, if it is not of an older revision

\* alive while the worker may still commit: an expiry does not stop it.
LatestRow == [run : Runs \cup {NoRun}, alive : BOOLEAN,
              status : {"NONE", "RUNNING", "SUCCEEDED", "FAILED"}]
NoLatest == [run |-> NoRun, alive |-> FALSE, status |-> "NONE"]
-----------------------------------------------------------------------------
Reads == {"detail", "history", "content"}
Changes == {"analyze", "pair", "upload", "review", "complete", "generate", "update"}
Op == Reads \cup Changes \cup {"risk"}

\* What may be wrong with the form of a request: a missing, unknown or badly
\* typed member; a text of spaces; two lines where one is asked for; a scope
\* that is not acknowledged; another content type, members sent twice, a name
\* with a directory, a file that is too large or of another format.
Flaw == {"shape", "blank", "lines", "scope", "media", "parts", "name", "large", "format"}

\* grounds says what a review refers to; the members its kind of request does
\* not have are not looked at.
Request == [op : Op, to : {"task", "sample", "nothing"},
            origin : {"none", "allowed", "other"},
            flaws : SUBSET Flaw, grounds : SUBSET {"evidence", "provenance"},
            revision : Nat, run : Runs \cup {NoRun}, draft : Nat,
            pair : Pair, role : Role, act : Action]

\* An evidence for what a source says, a provenance for what it does not.
Grounds(act) == IF act.kind = "SUPPLY_INFORMATION" THEN {"provenance"} ELSE {"evidence"}

\* What the request's model refuses before the route sees it.
Malformed(q) ==
  \/ "shape" \in q.flaws
  \/ q.op = "review" /\ q.grounds # Grounds(q.act)
  \/ q.op = "complete" /\ "scope" \in q.flaws
  \/ q.op = "update" /\ {"blank", "lines"} \cap q.flaws # {}

FullAppEnvs == {"development", "demo"}

\* The first of a sequence of checks that fails names the answer.
Broken(checks, i) == ~checks[i][1] /\ \A j \in 1 .. (i - 1) : checks[j][1]
FirstFailure(checks) ==
  IF \A i \in DOMAIN checks : checks[i][1] THEN "OK"
  ELSE checks[CHOOSE i \in DOMAIN checks : Broken(checks, i)][2]

SampleOps == {"detail", "content", "analyze", "generate", "update"}

\* What is common to the routes: whether they exist, the body, the origin of
\* what is not a read, the record and its kind.  A sample can be read, asked
\* for an analysis and for an amendment; the first only succeeds.
Received(q) ==
  <<<<AppEnv \in FullAppEnvs, "NOT_FOUND">>,
    <<q.op = "upload" \/ ~Malformed(q), "invalid_request">>,
    <<q.op \in Reads \/ q.origin # "other", "origin_denied">>,
    <<q.to \in CASE q.op \in SampleOps -> {"task", "sample"} [] OTHER -> {"task"},
      "not_found">>,
    <<q.to = "task" \/ q.op \notin {"analyze", "generate", "update"}, "sample_read_only">>>>

\* The form of an upload is looked at after the task was found.
Uploaded(q) ==
  <<<<"media" \notin q.flaws, "multipart_required">>,
    <<{"shape", "parts"} \cap q.flaws = {}, "invalid_form">>,
    <<"name" \notin q.flaws, "unsafe_filename">>,
    <<"large" \notin q.flaws, "RESOURCE_LIMIT">>,
    <<"format" \notin q.flaws, "FORMAT_MISMATCH">>>>

PairChecks(q) ==
  <<<<q.pair["si"] = NoDoc \/ q.pair["si"] # q.pair["bl"], "invalid_pair">>,
    <<\A role \in Role : q.pair[role] \in Listed(task.docs) \cup {NoDoc}, "invalid_pair">>>>

SlipReviewChecks(q) ==
  LET result == runs[task.current].result
      fields == {field \in result.fields : field.key = q.act.field}
      roles == {role \in Role : [id |-> q.act.doc, role |-> role] \in Listed(result.docs)}
      compared == Listed(runs[task.current].docs) \cap {task.pair["si"], task.pair["bl"]}
  IN IF ~IsCurrent(task.current) THEN <<<<FALSE, "stale_review">>>>
     ELSE <<<<task.current \notin completions, "completed_run_read_only">>,
            <<q.act.doc \in compared, "stale_review">>,
            <<\E field \in fields, role \in roles :
                Allowed(q.act.kind, field[role], q.act.doc, q.act.value), "invalid_review">>>>

ReviewChecks(q) ==
  LET result == runs[q.run].result
      fields == {field \in result.fields : field.key = q.act.field}
      roles == {role \in Role : [id |-> q.act.doc, role |-> role] \in Listed(result.docs)}
      compared == Listed(runs[q.run].docs) \cap {task.pair["si"], task.pair["bl"]}
  IN IF ~IsCurrent(q.run) THEN <<<<FALSE, "stale_review">>>>
     ELSE <<<<q.run \notin completions, "completed_run_read_only">>,
            <<q.act.doc \in compared, "stale_review">>,
            <<\E field \in fields, role \in roles :
                Allowed(q.act.kind, field[role], q.act.doc, q.act.value), "invalid_review">>>>

\* An acknowledged run is acknowledged again without being looked at.
CompletionChecks(q) ==
  <<<<IsCurrent(q.run), "stale_completion">>,
    <<q.run \in completions \/ (q.run \in Saved /\ IsEligible(q.run)), "completion_blocked">>>>

IssueChecks(q, found) ==
  <<<<IsCurrent(q.run), "stale_amendment">>,
    <<q.run \notin completions, "completed_run_read_only">>,
    <<q.run \in Saved /\ ReviewedResult(q.run).category = "BL_COMPARISON",
      "amendment_not_available">>,
    <<found # {}, "no_actionable_items">>,
    <<q.op = "generate" \/ (draft.id = q.draft /\ draft.run = q.run
                             /\ draft.revision = q.revision /\ draft.facts = found),
      "stale_amendment">>>>
AmendmentChecks(q) == IssueChecks(q, IF IsCurrent(q.run) THEN Facts(q.run) ELSE {})

\* What is explained: the machine's discrepancies of the current analysis,
\* whatever was reviewed since.
Explained == IF task.current \in Saved THEN runs[task.current].result.defects ELSE {}

Route(q) ==
  CASE q.op = "analyze" -> <<<<latest.status # "RUNNING", "analysis_running">>>>
    [] q.op = "pair" -> PairChecks(q)
    [] q.op = "upload" ->
         <<<<Len(task.docs) < DocLimit \/ task.pair[q.role] \in Listed(task.docs),
             "attachment_limit">>>>
    [] q.op = "review" -> ReviewChecks(q)
    [] q.op = "complete" -> CompletionChecks(q)
    [] q.op \in {"generate", "update"} -> AmendmentChecks(q)
    [] q.op = "risk" -> <<<<Explained # {}, "no_discrepancy">>>>
    [] q.op = "history" -> <<<<q.run \in Saved, "not_found">>>>
    [] OTHER -> <<>>

Before(q) ==
  Received(q) \o (IF q.op = "upload" THEN Uploaded(q) ELSE <<>>)
    \o <<<<q.op \in Reads \/ q.revision = task.revision, "stale_revision">>>>

\* What was found on the way to the route, or by the route itself.
Refusal(found, q) == IF found = "OK" THEN FirstFailure(Route(q)) ELSE found
Problem(q) == Refusal(FirstFailure(Before(q)), q)

\* The HTTP status of an answer.  An error of the database becomes
\* AUDIT_SAVE_FAILED, one of Gemini keeps its own.
Conflicts == {"stale_revision", "stale_review", "stale_completion", "stale_amendment",
  "completed_run_read_only", "completion_blocked", "amendment_not_available",
  "no_actionable_items", "no_discrepancy", "analysis_running", "sample_read_only"}
AnswerCode == Conflicts \cup {"OK", "invalid_pair", "attachment_limit", "unsafe_filename",
  "origin_denied", "NOT_FOUND", "not_found", "RESOURCE_LIMIT", "multipart_required",
  "FORMAT_MISMATCH", "invalid_request", "invalid_form", "invalid_review",
  "AI_INVALID_RESPONSE", "AUDIT_SAVE_FAILED", "AI_NOT_CONFIGURED"}
Status(code) ==
  CASE code = "OK" -> 200
    [] code \in {"invalid_pair", "attachment_limit", "unsafe_filename"} -> 400
    [] code = "origin_denied" -> 403
    [] code \in {"NOT_FOUND", "not_found"} -> 404
    [] code \in Conflicts -> 409
    [] code = "RESOURCE_LIMIT" -> 413
    [] code \in {"multipart_required", "FORMAT_MISMATCH"} -> 415
    [] code \in {"invalid_request", "invalid_form", "invalid_review"} -> 422
    [] code = "AI_INVALID_RESPONSE" -> 502
    [] code \in {"AUDIT_SAVE_FAILED", "AI_NOT_CONFIGURED"} -> 503
-----------------------------------------------------------------------------
\* A step of the desk; a new revision has no latest run.
Desk(step) ==
  /\ step
  /\ latest' = IF task'.revision # task.revision THEN NoLatest ELSE latest

\* The worker ends without an answer and the row stays as it is.
SlipStartRun ==
  /\ Runs \ (Saved \cup {latest.run}) # {}
  /\ latest' = [run |-> CHOOSE r \in Runs \ Saved : r # latest.run,
                alive |-> FALSE, status |-> "RUNNING"]
  /\ UNCHANGED vars

\* store.analyze.  The id is a fresh one.
StartRun ==
  /\ Runs \ (Saved \cup {latest.run}) # {}
  /\ latest' = [run |-> CHOOSE r \in Runs \ Saved : r # latest.run,
                alive |-> TRUE, status |-> "RUNNING"]
  /\ UNCHANGED vars

Unchanged == UNCHANGED vars /\ UNCHANGED latest

\* What an accepted request does in its transaction; a draft is then generated
\* outside of it.
Perform(q, client) ==
  \/ q.op = "analyze" /\ StartRun
  \/ q.op = "pair" /\ IF task.selected /\ q.pair = task.pair THEN Unchanged
                      ELSE Desk(SelectPair(q.pair))
  \/ q.op = "upload" /\ \E d \in Docs : Desk(ReplaceDocument(q.role, d))
  \/ q.op = "review" /\ Desk(RecordReview(q.act.doc, q.act.field, q.act.kind, q.act.value))
  \/ q.op = "complete" /\ IF q.run \in completions THEN Unchanged ELSE Desk(RecordCompletion)
  \/ q.op = "generate" /\ Desk(AskDraft(client))
  \/ q.op = "update" /\ Desk(UpdateDraft)
  \/ q.op \in Reads \cup {"risk"} /\ Unchanged

\* The worker of the latest run answers; a late answer rewrites an expired row.
RunSucceeds ==
  /\ latest.alive
  /\ latest' = [latest EXCEPT !.alive = FALSE, !.status = "SUCCEEDED"]
  /\ \/ SaveOther(latest.run, FALSE)
     \/ \E reading \in [Listed(task.docs) -> UNION {Readings[d] : d \in Docs}] :
          /\ \A d \in Listed(task.docs) : reading[d] \in Readings[d]
          /\ SaveComparison(latest.run, reading)

RunFails ==
  /\ latest.alive
  /\ latest' = [latest EXCEPT !.alive = FALSE, !.status = "FAILED"]
  /\ UNCHANGED vars

\* _recover_expired, in any read that comes later than the deadline.
RunExpires ==
  /\ latest.status = "RUNNING"
  /\ latest' = [latest EXCEPT !.status = "FAILED"]
  /\ UNCHANGED vars
-----------------------------------------------------------------------------
\* What a page is told of the task.  run and its reviewed result are the
\* current analysis', status the latest run's; open says whether an issue is
\* left that an amendment could name, draft is 0 without a draft to show.
View == [revision : Nat, pair : Pair, run : Runs \cup {NoRun},
         status : {"NONE", "RUNNING", "SUCCEEDED", "FAILED"},
         compared : BOOLEAN, ready : BOOLEAN, done : BOOLEAN, open : BOOLEAN,
         defects : SUBSET Fields, draft : Nat, past : BOOLEAN]
NoView == [revision |-> 0, pair |-> [role \in Role |-> NoDoc], run |-> NoRun,
           status |-> "NONE", compared |-> FALSE, ready |-> FALSE, done |-> FALSE,
           open |-> FALSE, defects |-> {}, draft |-> 0, past |-> FALSE]

Told(r, reviewed, revision, pair, status, shown, past) ==
  [revision |-> revision, pair |-> pair, run |-> r, status |-> status,
   compared |-> reviewed.fields # {}, ready |-> IsEligible(r),
   done |-> r \in completions,
   open |-> reviewed.defects # {} \/ reviewed.reqs # {}
              \/ WithFinding(reviewed.fields, "NEEDS_REVIEW") # {},
   defects |-> reviewed.defects, draft |-> shown, past |-> past]

ViewOf(r, revision, pair, status, shown, past) ==
  IF r \notin Saved
  THEN [NoView EXCEPT !.revision = revision, !.pair = pair, !.status = status]
  ELSE Told(r, ReviewedResult(r), revision, pair, status, shown, past)

\* task_detail
Snapshot == ViewOf(task.current, task.revision, task.pair, latest.status, ShownDraft.id, FALSE)

\* task_run_detail: a saved analysis as its revision had it, with its reviews.
RunSnapshot(r) ==
  ViewOf(r, runs[r].revision, runs[r].pair, "SUCCEEDED", 0,
         task.current # r \/ task.revision # runs[r].revision)

\* explain: an answer with other fields than those it was asked about is none.
Acceptable(notes, asked) ==
  /\ Listed(notes) = asked
  /\ Len(notes) = Cardinality(asked)
=============================================================================
