----------------------------- MODULE TaskReview -----------------------------
(***************************************************************************)
(* The review desk of one local task: its sources and their pair, the      *)
(* analyses saved for it, what reviewers confirm, correct or supply, the   *)
(* acknowledgment of a finished check and the draft of an amendment email, *)
(* several clients at once.                                                *)
(*                                                                         *)
(*   clone_task, create_custom_task, select_pair, replace_document,        *)
(*   record_review, record_completion, _amendment_context,                 *)
(*   generate_amendment_draft, update_amendment_draft   app/task_store.py  *)
(*   MailboxWorkflow.finish, commit            app/documents/workflow.py   *)
(*   _amendment_draft, _public_run                          app/store.py   *)
(*                                                                         *)
(* How an analysis runs, fails and is overtaken is MailboxRuns' subject;   *)
(* here it is one step that saves a result and makes it current.  Every    *)
(* request carries the revision and the run its page was showing; one that *)
(* is refused changes nothing and is not a step, so that an action below   *)
(* has the current ones.  A generated draft is two transactions with the   *)
(* provider's answer between them.  A clock that never runs back orders    *)
(* the review events of a run by their insertion.                          *)
(*                                                                         *)
(* Operators named Slip... are not part of the model, see MailboxRuns.     *)
(***************************************************************************)
EXTENDS FieldComparison, FiniteSets

CONSTANTS
  Runs, NoRun,   \* run ids
  Clients,       \* those who ask for a generated draft
  FirstTasks,    \* the tasks a clone or a custom email may give
  Readings,      \* what an analysis may read off each document
  Printed,       \* the values the text units of each document contain
  DocLimit,      \* the number of attachments a task may have
  MaxRevision,   \* bound of the model on task.revision
  MaxWork        \* bound of the model on review events and generated drafts

Pair == [Role -> DocOrNone]
TaskRow == [revision : Nat \ {0}, docs : Seq(Docs), pair : Pair,
            selected : BOOLEAN, current : Runs \cup {NoRun}]

ASSUME RunsAssumption == NoRun \notin Runs /\ IsFiniteSet(Runs)
ASSUME SourcesAssumption ==
  /\ FirstTasks \subseteq TaskRow
  /\ \A t \in FirstTasks :
       /\ t.current = NoRun
       /\ \A i, j \in DOMAIN t.docs : t.docs[i] = t.docs[j] => i = j
  /\ Readings \in [Docs -> SUBSET Reading]
  /\ \A d \in Docs : \A reading \in Readings[d] :
       \A f \in Fields : ~reading.values[f].supplied
  /\ Printed \in [Docs -> SUBSET Values]
ASSUME BoundsAssumption == {DocLimit, MaxRevision, MaxWork} \subseteq Nat

VARIABLES
  task,         \* the task's row of table emails
  documents,    \* the ids in table documents
  runs,         \* table runs, as far as the analyses succeeded
  reviews,      \* table review_events, by run
  completions,  \* run_id of table completion_acknowledgments
  draft,        \* the task's row of table amendment_drafts
  calls         \* what each client's generation knows while the provider answers

sources == <<task, documents, runs>>
vars == <<task, documents, runs, reviews, completions, draft, calls>>

\* A row is saved when the analysis succeeded; at orders the rows by
\* finished_at, base is baseline_run_id, delta revision_delta.
Deltas == [resolved : SUBSET Fields, persisting : SUBSET Fields,
           new : SUBSET Fields, uncertain : SUBSET Fields]
RunRow == [saved : BOOLEAN, revision : Nat, at : Nat, docs : Seq(Docs), pair : Pair,
           base : Runs \cup {NoRun}, result : Result, delta : Deltas]

DraftRow == [id : Nat, run : Runs \cup {NoRun}, revision : Nat,
             facts : SUBSET Item, edited : BOOLEAN]

\* Events are kept by run, in their order; a run is acknowledged at most once.
ReviewEvents == [Runs -> Seq(Action)]
Acknowledgments == SUBSET Runs

Call == [asking : BOOLEAN, run : Runs \cup {NoRun}, revision : Nat, facts : SUBSET Item]

TypeOK ==
  /\ task \in TaskRow
  /\ documents \in SUBSET Docs
  /\ runs \in [Runs -> RunRow]
  /\ reviews \in ReviewEvents
  /\ completions \in Acknowledgments
  /\ draft \in DraftRow
  /\ calls \in [Clients -> Call]
-----------------------------------------------------------------------------
NoDelta == [resolved |-> {}, persisting |-> {}, new |-> {}, uncertain |-> {}]
NotSaved == [saved |-> FALSE, revision |-> 0, at |-> 0, docs |-> <<>>,
             pair |-> [role \in Role |-> NoDoc], base |-> NoRun,
             result |-> NotCompared(FALSE), delta |-> NoDelta]
NoDraft == [id |-> 0, run |-> NoRun, revision |-> 0, facts |-> {}, edited |-> FALSE]
NoCall == [asking |-> FALSE, run |-> NoRun, revision |-> 0, facts |-> {}]

Listed(docs) == {docs[i] : i \in DOMAIN docs}
Saved == {r \in Runs : runs[r].saved}

\* A request about run r names the current analysis of the current revision.
IsCurrent(r) ==
  /\ r \in Saved
  /\ r = task.current
  /\ runs[r].revision = task.revision

ReviewedResult(r) == Overlay(runs[r].result, reviews[r])
SlipIsEligible(r) == Progress(runs[r].result, reviews[r]).pending = {}

IsEligible(r) ==
  \E reviewed \in {ReviewedResult(r)} :
    Eligible(reviewed, reviews[r], runs[r].docs, runs[r].pair)
Facts(r) == IssueItems(ReviewedResult(r))

\* _public_run: the state a page shows for a run.
ShownState(r) ==
  IF r \in completions /\ IsEligible(r) THEN "CHECK_COMPLETE"
  ELSE ReviewedResult(r).workflow

\* _amendment_draft: the draft a page shows, if any.
ShownDraft ==
  IF /\ draft.run \in Saved \ completions
     /\ draft.run = task.current /\ draft.revision = task.revision
     /\ draft.facts = Facts(draft.run)
  THEN draft ELSE NoDraft

\* get_document: any document the task ever had, also one that was replaced since.
Opens(d) == d \in documents

\* The rows of review_events and the drafts, for the bound only.
Work == Cardinality({p \in Runs \X (1..MaxWork) : p[2] \in DOMAIN reviews[p[1]]}) + draft.id

Init ==
  /\ task \in FirstTasks
  /\ documents = Listed(task.docs)
  /\ runs = [r \in Runs |-> NotSaved]
  /\ reviews = [r \in Runs |-> <<>>]
  /\ completions = {}
  /\ draft = NoDraft
  /\ calls = [c \in Clients |-> NoCall]
-----------------------------------------------------------------------------
Advance(docs, pair, selected) ==
  /\ task.revision < MaxRevision
  /\ task' = [task EXCEPT !.revision = @ + 1, !.docs = docs, !.pair = pair,
                          !.selected = selected, !.current = NoRun]
  /\ UNCHANGED <<runs, reviews, completions, draft, calls>>

SelectPair(pair) ==
  /\ pair["si"] = NoDoc \/ pair["si"] # pair["bl"]
  /\ \A role \in Role : pair[role] \in Listed(task.docs) \cup {NoDoc}
  /\ ~(task.selected /\ pair = task.pair)
  /\ Advance(task.docs, pair, TRUE)
  /\ UNCHANGED documents

\* The documents of a task without d, which it has at most once.
Without(docs, d) ==
  IF d \notin Listed(docs) THEN docs
  ELSE LET place == CHOOSE i \in DOMAIN docs : docs[i] = d
       IN [i \in 1..(Len(docs) - 1) |-> IF i < place THEN docs[i] ELSE docs[i + 1]]

\* The other role keeps its document, the replaced one leaves the task.
ReplaceDocument(role, d) ==
  /\ d \in Docs \ documents
  /\ Len(task.docs) < DocLimit \/ task.pair[role] \in Listed(task.docs)
  /\ documents' = documents \cup {d}
  /\ Advance(Append(Without(task.docs, task.pair[role]), d),
             [task.pair EXCEPT ![role] = d], task.selected)
-----------------------------------------------------------------------------
\* The roles finish() tells compare() about: all of them once the user chose a
\* pair, else those that have a document.
KnownPair ==
  [role \in {r \in Role : task.selected \/ task.pair[r] # NoDoc} |-> task.pair[role]]

\* commit() completes a pair nobody chose when one document has the role.
CompletedPair(result) ==
  [role \in Role |->
     IF task.selected \/ task.pair[role] # NoDoc THEN task.pair[role]
     ELSE TheOnly({d \in Listed(task.docs) :
                     [id |-> d, role |-> role] \in Listed(result.docs)})]

Comparable(r) == runs[r].result.category = "BL_COMPARISON"

\* _revision_baseline: what the first analysis of the revision found, else the
\* latest comparable analysis of the latest earlier revision that has one.
Earlier == {r \in Saved : runs[r].revision < task.revision /\ Comparable(r)}
Baseline ==
  LET same == {r \in Saved : runs[r].revision = task.revision}
      newest == {r \in Earlier : \A q \in Earlier :
                   \/ runs[q].revision < runs[r].revision
                   \/ runs[q].revision = runs[r].revision /\ runs[q].at <= runs[r].at}
  IN IF same # {} THEN runs[CHOOSE r \in same : TRUE].base
     ELSE IF newest # {} THEN CHOOSE r \in newest : TRUE ELSE NoRun

DeltaTo(result, base) ==
  IF base = NoRun THEN NoDelta ELSE Delta(result, runs[base].result)

SlipSave(r, result, base) ==
  LET pair == CompletedPair(result)
  IN /\ runs' = [runs EXCEPT ![r] =
          [saved |-> TRUE, revision |-> task.revision,
           at |-> Cardinality(Saved), docs |-> task.docs,
           pair |-> task.pair, base |-> base, result |-> result,
           delta |-> DeltaTo(result, base)]]
     /\ task' = [task EXCEPT !.pair = pair, !.current = r,
          !.selected = @ \/ NoDoc \notin {pair[role] : role \in Role}]
     /\ UNCHANGED <<documents, reviews, completions, draft, calls>>

Save(r, result, base) ==
  LET pair == CompletedPair(result)
  IN /\ runs' = [runs EXCEPT ![r] =
          [saved |-> TRUE, revision |-> task.revision,
           at |-> Cardinality(Saved), docs |-> task.docs,
           pair |-> pair, base |-> base, result |-> result,
           delta |-> DeltaTo(result, base)]]
     /\ task' = [task EXCEPT !.pair = pair, !.current = r,
          !.selected = @ \/ NoDoc \notin {pair[role] : role \in Role}]
     /\ UNCHANGED <<documents, reviews, completions, draft, calls>>

\* Analyzing the task at its current revision: a result that compares nothing,
\* with a category or without one, or the comparison of what was read.
SaveOther(r, unclear) ==
  /\ r \in Runs \ Saved
  /\ Save(r, NotCompared(unclear), Baseline)

SaveComparison(r, reading) ==
  /\ r \in Runs \ Saved
  /\ Save(r, Compare(task.docs, reading, KnownPair), Baseline)
-----------------------------------------------------------------------------
\* Which actions the machine's side of the field allows, and with which value.
\* A candidate is confirmed as it stands, a correction of text must be printed
\* in the source, and only for an unusable value is one supplied from elsewhere:
\* nothing looks at that value again, so it is left out.
Allowed(kind, machine, d, value) ==
  \/ /\ kind = "CONFIRM_CANDIDATE"
     /\ machine.method = "gemini_vision"
     /\ machine.state # "MISSING"
     /\ value = machine.norm
  \/ /\ kind = "CORRECT_EXTRACTION"
     /\ value \in IF machine.method = "gemini_vision" THEN Values ELSE Printed[d]
  \/ /\ kind = "SUPPLY_INFORMATION"
     /\ machine.state # "PRESENT"
     /\ value = NoValue

SlipRecordReview(d, f, kind, value) ==
  LET r == task.current
      result == runs[r].result
  IN /\ IsCurrent(r)
     /\ Work < MaxWork
     /\ d \in Listed(runs[r].docs) \cap {task.pair["si"], task.pair["bl"]}
     /\ \E field \in result.fields, role \in Role :
          /\ field.key = f
          /\ [id |-> d, role |-> role] \in Listed(result.docs)
          /\ Allowed(kind, field[role], d, value)
     /\ reviews' = [reviews EXCEPT ![r] =
          Append(@, [doc |-> d, field |-> f, kind |-> kind, value |-> value])]
     /\ UNCHANGED <<sources, completions, draft, calls>>

RecordReview(d, f, kind, value) ==
  LET r == task.current
      result == runs[r].result
  IN /\ IsCurrent(r)
     /\ r \notin completions
     /\ Work < MaxWork
     /\ d \in Listed(runs[r].docs) \cap {task.pair["si"], task.pair["bl"]}
     /\ \E field \in result.fields, role \in Role :
          /\ field.key = f
          /\ [id |-> d, role |-> role] \in Listed(result.docs)
          /\ Allowed(kind, field[role], d, value)
     /\ reviews' = [reviews EXCEPT ![r] =
          Append(@, [doc |-> d, field |-> f, kind |-> kind, value |-> value])]
     /\ UNCHANGED <<sources, completions, draft, calls>>

SlipRecordCompletion ==
  /\ IsCurrent(task.current)
  /\ task.current \notin completions
  /\ IsEligible(task.current)
  /\ completions' = completions \cup {task.revision}
  /\ UNCHANGED <<sources, reviews, draft, calls>>

RecordCompletion ==
  /\ IsCurrent(task.current)
  /\ task.current \notin completions
  /\ IsEligible(task.current)
  /\ completions' = completions \cup {task.current}
  /\ UNCHANGED <<sources, reviews, draft, calls>>
-----------------------------------------------------------------------------
\* _amendment_context
Drafting(r, revision) ==
  /\ revision = task.revision
  /\ IsCurrent(r)
  /\ r \notin completions
  /\ ReviewedResult(r).category = "BL_COMPARISON"
  /\ Facts(r) # {}

AskDraft(c) ==
  /\ ~calls[c].asking
  /\ Work < MaxWork
  /\ Drafting(task.current, task.revision)
  /\ calls' = [calls EXCEPT ![c] = [asking |-> TRUE, run |-> task.current,
                     revision |-> task.revision, facts |-> Facts(task.current)]]
  /\ UNCHANGED <<sources, reviews, completions, draft>>

\* The wording arrives and the findings are those it was asked for.  The row
\* is replaced, whatever wording it holds.
SaveDraft(c) ==
  LET call == calls[c]
  IN /\ call.asking
     /\ Work < MaxWork
     /\ Drafting(call.run, call.revision)
     /\ Facts(call.run) = call.facts
     /\ draft' = [id |-> draft.id + 1, run |-> call.run, revision |-> call.revision,
                  facts |-> Facts(call.run), edited |-> FALSE]
     /\ calls' = [calls EXCEPT ![c] = NoCall]
     /\ UNCHANGED <<sources, reviews, completions>>

\* The provider failed, or the second transaction refused.
GiveUpDraft(c) ==
  /\ calls[c].asking
  /\ calls' = [calls EXCEPT ![c] = NoCall]
  /\ UNCHANGED <<sources, reviews, completions, draft>>

SlipUpdateDraft ==
  /\ draft.id # 0
  /\ Drafting(draft.run, draft.revision)
  /\ draft' = [draft EXCEPT !.edited = TRUE, !.facts = Facts(draft.run)]
  /\ UNCHANGED <<sources, reviews, completions, calls>>

\* A page that holds the id of the stored draft saves its wording.
UpdateDraft ==
  /\ draft.id # 0
  /\ Drafting(draft.run, draft.revision)
  /\ Facts(draft.run) = draft.facts
  /\ draft' = [draft EXCEPT !.edited = TRUE, !.facts = Facts(draft.run)]
  /\ UNCHANGED <<sources, reviews, completions, calls>>
-----------------------------------------------------------------------------
Next ==
  \/ \E pair \in Pair : SelectPair(pair)
  \/ \E role \in Role, d \in Docs : ReplaceDocument(role, d)
  \/ \E r \in Runs, unclear \in BOOLEAN : SaveOther(r, unclear)
  \/ \E r \in Runs :
       \E reading \in [Listed(task.docs) -> UNION {Readings[d] : d \in Docs}] :
         /\ \A d \in Listed(task.docs) : reading[d] \in Readings[d]
         /\ SaveComparison(r, reading)
  \/ \E d \in Docs, f \in Fields, kind \in {"CONFIRM_CANDIDATE", "CORRECT_EXTRACTION",
                                          "SUPPLY_INFORMATION"}, value \in Values \cup {NoValue} :
       RecordReview(d, f, kind, value)
  \/ RecordCompletion
  \/ \E c \in Clients : AskDraft(c) \/ SaveDraft(c) \/ GiveUpDraft(c)
  \/ UpdateDraft

Spec == Init /\ [][Next]_vars
-----------------------------------------------------------------------------
\* Every review event is about one of the two documents its run compared, and
\* only a saved run has any: reviewers of an analysis that publishes a pair
\* while it is current, of a task whose pair is chosen again and of a replaced
\* document never leave an action the overlay could not place; and the document
\* can be opened from the history of the task for as long as the event is shown.
ReviewsOnComparedPair ==
  \A r \in Runs : \A i \in DOMAIN reviews[r] :
    /\ r \in Saved
    /\ reviews[r][i].doc \in {runs[r].pair["si"], runs[r].pair["bl"]}
    /\ Opens(reviews[r][i].doc)

\* PRD F06: an acknowledged check has both sources, and each field is read,
\* confirmed and equal on both sides, with no value from outside a source and
\* nothing left to review; pages show it as complete from then on.
CompletedChecksHold ==
  \A r \in completions :
    LET reviewed == ReviewedResult(r)
    IN /\ \A role \in Role : runs[r].pair[role] \in Listed(runs[r].docs)
       /\ Keys(reviewed.fields) = Fields
       /\ \A field \in reviewed.fields :
            /\ \A role \in Role : Settled(field[role]) /\ ~field[role].supplied
            /\ field.si.norm = field.bl.norm
       /\ reviewed.reqs = {}
       /\ ShownState(r) = "CHECK_COMPLETE"

\* The two progress counters and the overlay walk the fields together but
\* decide apart: what is counted as pending is what the reviewed result still
\* shows as a candidate to confirm.
PendingIsShown ==
  \A r \in Saved :
    LET reviewed == ReviewedResult(r)
    IN Progress(runs[r].result, reviews[r]).pending =
         {<<p[1].key, p[2]>> : p \in
            {q \in reviewed.fields \X Role : Mandatory(q[1][q[2]])}}

\* A field counts as checked only with both sides confirmed, and what the
\* coverage, the defects and the findings of a reviewed result say is one story.
FindingsAreConfirmed ==
  \A r \in Saved :
    LET reviewed == ReviewedResult(r)
        settled == {field \in reviewed.fields : \A role \in Role : Settled(field[role])}
    IN /\ reviewed.checked = Keys(settled)
       /\ reviewed.defects = Keys({field \in settled : field.si.norm # field.bl.norm})
       /\ \A field \in settled :
            field.finding = IF field.key \in reviewed.defects THEN "MISMATCH" ELSE "MATCH"

\* A discrepancy of the baseline is accounted for in every later comparison:
\* gone with a confirmed match, still there, or uncertain; and uncertainty is
\* never a resolved discrepancy.
DeltaAccounts ==
  \A r \in Saved : (runs[r].base # NoRun /\ Comparable(r)) =>
    LET delta == runs[r].delta
        old == runs[runs[r].base].result
    IN /\ runs[r].base \in Saved /\ runs[runs[r].base].revision < runs[r].revision
       /\ old.defects \subseteq delta.resolved \cup delta.persisting \cup delta.uncertain
       /\ delta.persisting \cup delta.new = runs[r].result.defects
       /\ delta.resolved \subseteq runs[r].result.checked \ runs[r].result.defects

\* README: supplied information does not increase coverage, resolve a finding
\* or lift a review requirement, whatever was reviewed before it.
SuppliedInformationResolvesNothing ==
  [][\A r \in Saved :
       (/\ Len(reviews'[r]) = Len(reviews[r]) + 1
        /\ reviews'[r][Len(reviews'[r])].kind = "SUPPLY_INFORMATION") =>
          /\ ReviewedResult(r)'.checked \subseteq ReviewedResult(r).checked
          /\ ReviewedResult(r).reqs \subseteq ReviewedResult(r)'.reqs]_vars

\* PRD F09 and AC33: the provider's answer is saved only for the run, revision
\* and findings it was asked about while they are current and not acknowledged;
\* a user's wording only on the draft a page shows at that moment, though
\* reviews went on while an older one was open, and the facts stay locked.
DraftsAreAboutOpenFacts ==
  [][/\ draft'.id # draft.id =>
          /\ draft'.run = task.current /\ draft'.revision = task.revision
          /\ draft'.run \notin completions
          /\ draft'.facts = Facts(task.current)
     /\ (draft'.edited /\ draft' # draft) =>
          ShownDraft = draft /\ draft'.id = draft.id /\ draft'.facts = draft.facts]_vars

\* README: the acknowledgment stands for one exact run.  The desk keeps the
\* ledger of CheckLedger: an analysis is open while something blocks it.
Ledger == INSTANCE CheckLedger WITH
            current <- task.current,
            open <- task.current \in Saved /\ ~IsEligible(task.current),
            done <- completions
LedgerKept == Ledger!Spec

\* PRD, invariant 5: correcting a source value triggers recomparison.  The
\* latest correction of a value of the compared document, detected in the role
\* it was chosen for, is the value the reviewed result compares.
CorrectionsApply ==
  \A r \in Saved : \A i \in DOMAIN reviews[r] : \A role \in Role :
    LET act == reviews[r][i]
    IN (/\ act = Latest(reviews[r], act.doc, act.field)
        /\ act.kind = "CORRECT_EXTRACTION"
        /\ act.doc = runs[r].pair[role]
        /\ [id |-> act.doc, role |-> role] \in Listed(runs[r].result.docs))
         => \E field \in ReviewedResult(r).fields :
              field.key = act.field /\ field[role].norm = act.value

\* The docstring of build_issue_items: AI candidates are not treated as facts.
\* No value of an amendment's issue list is one that awaits confirmation.
NoCandidateAsFact ==
  \A r \in Saved : \A item \in Facts(r), field \in ReviewedResult(r).fields :
    item.field = field.key =>
      /\ item.si # NoValue => ~field.si.needs
      /\ item.bl # NoValue => ~field.bl.needs
=============================================================================
