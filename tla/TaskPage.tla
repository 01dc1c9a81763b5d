------------------------------ MODULE TaskPage ------------------------------
(***************************************************************************)
(* A page that shows one local task, the requests its panels make of the   *)
(* LocalApi, another client of the same task, and the analysis the page    *)
(* starts and follows until its result is presented.                       *)
(*                                                                         *)
(*   useAnalysis                        frontend/src/mailbox/useAnalysis.ts*)
(*   request, useResource                       frontend/src/mailbox/api.ts*)
(*   Workspace, TaskWorkspace, ReviewControls, SupplyControls,             *)
(*   CompletionPanel                    frontend/src/pages/Workspace.tsx   *)
(*   TaskSources, RiskBriefing, AmendmentEmail  frontend/src/components/   *)
(*                                                                         *)
(* A panel has one request at a time.  It is performed, answered with what *)
(* the task looks like in a second transaction, and the answer reaches the *)
(* page, unless the page has given it up: after 45 seconds, or because it  *)
(* left.  The server goes on with a request its page has given up.         *)
(*                                                                         *)
(* The controls of a value are built again for another field, and the form *)
(* of the sources for another revision or pair, while a request of the old *)
(* ones is under way: a second slot stands for that of the new ones.       *)
(*                                                                         *)
(* What a request says besides the revision and the run on the page, which *)
(* value is reviewed, which source is sent, is chosen when it is served:   *)
(* nothing looks at it earlier.                                            *)
(***************************************************************************)
EXTENDS LocalApi

CONSTANTS
  Page,           \* the page's name among the Clients of TaskReview
  Choices,        \* bound of the model: the pairs that forms choose
  Budgets         \* bound of the model: how often the user and the other
                  \* client may act, functions of {"user", "rival"}

ASSUME PageAssumption ==
  /\ Page \in Clients /\ Choices \subseteq Pair
  /\ Budgets \subseteq [{"user", "rival"} -> Nat]

VARIABLES
  page,      \* the state of the components of the page
  slots,     \* the request of each panel of the page
  strays,    \* the requests of panels that are gone and that still have an effect
  budget     \* what is left of the budget

server == <<vars, latest>>
allVars == <<vars, latest, page, slots, strays, budget>>

Panel ==
  {"analysis", "sources", "resent", "review", "supply", "complete", "email", "risk"}
Form == {"sources", "resent"}             \* TaskSources, and the one built since
Deciding == {"review", "supply", "complete"}  \* ReviewControls, SupplyControls, CompletionPanel
Changing == {"pair", "upload"}
Briefing == [revision : Nat, run : Runs \cup {NoRun}, fields : SUBSET Fields]
NoBriefing == [revision |-> 0, run |-> NoRun, fields |-> {}]

\* shown is what the page showed at the click; mounted says whether the panel
\* that made the request is still on the page; an answer has a code and with
\* it the view, or the notes, of the task.
Slot == [at : {"idle", "sent", "asking", "performed", "answered", "waiting"},
         op : Op, shown : View, draft : Nat, mounted : BOOLEAN,
         code : AnswerCode, view : View, notes : Briefing]
Idle == [at |-> "idle", op |-> "detail", shown |-> NoView, draft |-> 0, mounted |-> TRUE,
         code |-> "OK", view |-> NoView, notes |-> NoBriefing]

Stray == [op : Op, shown : View, draft : Nat, at : {"sent", "performed"}, then : BOOLEAN]

\* opened is the analysis a page shows by its id, follows whether it was loaded
\* while its run was RUNNING; draft is the draft the email panel holds, confirming
\* says whether the dialog of the completion is open.
PageRow == [view : View, opened : Runs \cup {NoRun}, follows : BOOLEAN,
            phase : {"idle", "running", "preparing", "revealed", "failed"},
            locked : BOOLEAN, pending : View, conflict : BOOLEAN,
            briefing : Briefing, draft : Nat, confirming : BOOLEAN]

PageTypeOK ==
  /\ TypeOK /\ latest \in LatestRow
  /\ page \in PageRow
  /\ slots \in [Panel -> Slot]
  /\ strays \in SUBSET Stray
  /\ budget \in [{"user", "rival"} -> Nat]
-----------------------------------------------------------------------------
\* A page that has just loaded the task, or one analysis of it.
Loaded(view, r) ==
  [view |-> view, opened |-> r, follows |-> view.status = "RUNNING", phase |-> "idle",
   locked |-> FALSE, pending |-> NoView, conflict |-> FALSE, briefing |-> NoBriefing,
   draft |-> view.draft, confirming |-> FALSE]

\* CloneTask and the form for a custom task open the page of what they created.
PageInit ==
  /\ Init
  /\ latest = NoLatest
  /\ page = Loaded(Snapshot, NoRun)
  /\ slots = [p \in Panel |-> Idle]
  /\ strays = {}
  /\ budget \in Budgets

Busy == page.phase \in {"running", "preparing"}
Processing == Busy \/ (page.phase # "failed" /\ page.view.status = "RUNNING")
Controls == page.opened = NoRun /\ ~page.view.past

\* setTask.  The sources form is built again for another revision or pair, the
\* briefing for another revision.
SameForm(view) == view.revision = page.view.revision /\ view.pair = page.view.pair
SlipShow(pg, view) == [pg EXCEPT !.view = view, !.conflict = @ /\ SameForm(view)]

Show(pg, view) ==
  [pg EXCEPT !.view = view,
     !.conflict = @ /\ SameForm(view),
     !.briefing = IF view.revision = page.view.revision THEN @ ELSE NoBriefing]

Rebuilt(slot, view) ==
  [p \in Panel |->
     CASE p \in Form /\ ~SameForm(view) -> [slot[p] EXCEPT !.mounted = FALSE]
       [] p = "risk" /\ view.revision # page.view.revision -> Idle
       [] OTHER -> slot[p]]

Asked(op) ==
  [Idle EXCEPT !.at = "sent", !.op = op, !.shown = page.view, !.draft = page.draft]

Click(p, op) ==
  /\ budget["user"] > 0
  /\ slots[p].at = "idle"
  /\ budget' = [budget EXCEPT !["user"] = @ - 1]
  /\ slots' = [slots EXCEPT ![p] = Asked(op)]
  /\ UNCHANGED <<server, strays>>

\* analyze(source), with the other slots as given.
SlipAnalyze(source, slot) ==
  /\ page' = [Show(page, source) EXCEPT !.phase = "running", !.locked = TRUE]
  /\ slots' = [Rebuilt(slot, source) EXCEPT !["analysis"] =
                 [Idle EXCEPT !.at = "sent", !.op = "analyze", !.shown = source]]

Analyze(source, slot) ==
  IF page.locked THEN page' = page /\ slots' = slot
  ELSE /\ page' = [Show(page, source) EXCEPT !.phase = "running", !.locked = TRUE]
       /\ slots' = [Rebuilt(slot, source) EXCEPT !["analysis"] =
                      [Idle EXCEPT !.at = "sent", !.op = "analyze", !.shown = source]]

Reanalyze ==
  /\ budget["user"] > 0
  /\ Controls /\ ~Processing /\ ~page.locked
  /\ Analyze(page.view, slots)
  /\ budget' = [budget EXCEPT !["user"] = @ - 1]
  /\ UNCHANGED <<server, strays>>

\* The form on the page is not itself saving.
SaveSources ==
  /\ Controls /\ ~Processing
  /\ \A p \in Form : slots[p].at = "idle" \/ ~slots[p].mounted
  /\ \E op \in Changing :
       \/ Click("sources", op)
       \/ slots["sources"].at # "idle" /\ Click("resent", op)
  /\ page' = [page EXCEPT !.conflict = FALSE]

Decide ==
  /\ Controls /\ page.view.compared /\ ~page.view.done
  /\ \/ Click("review", "review")
     \/ slots["review"].at # "idle" /\ Click("supply", "review")
  /\ UNCHANGED page

\* The dialog opens when the analysis on the page is ready, or is cancelled.
Confirm ==
  /\ Controls /\ slots["complete"].at = "idle"
  /\ \/ page.view.ready /\ ~page.view.done /\ page' = [page EXCEPT !.confirming = TRUE]
     \/ page.confirming /\ page' = [page EXCEPT !.confirming = FALSE]
  /\ UNCHANGED <<server, slots, strays, budget>>

\* What the page shows may have changed since the dialog was opened.
Complete ==
  /\ Controls /\ page.confirming /\ page.view.run # NoRun
  /\ Click("complete", "complete")
  /\ UNCHANGED page

\* Generate, or save the wording of the draft the panel holds.
Draft ==
  /\ Controls /\ page.view.open /\ ~page.view.done
  /\ \/ Click("email", "generate")
     \/ page.draft # 0 /\ Click("email", "update")
  /\ UNCHANGED page

\* close: the panel holds the draft the page shows again.
CloseDraft ==
  /\ Controls /\ page.view.open /\ ~page.view.done
  /\ slots["email"].at = "idle"
  /\ page' = [page EXCEPT !.draft = page.view.draft]
  /\ UNCHANGED <<server, slots, strays, budget>>

Explain ==
  /\ ~page.view.past /\ page.view.defects # {}
  /\ Click("risk", "risk")
  /\ UNCHANGED page
-----------------------------------------------------------------------------
\* The requests a slot or a stray may turn out to be.
Plain(op, shown, d) ==
  [op |-> op, to |-> "task", origin |-> "allowed", flaws |-> {}, grounds |-> {},
   revision |-> shown.revision, run |-> shown.run, draft |-> d, pair |-> shown.pair,
   role |-> "si", act |-> CHOOSE act \in Action : TRUE]

Sent(op, shown, d) ==
  LET plain == Plain(op, shown, d)
      listed == Listed(task.docs) \cup {NoDoc}
      acts == {act \in Action :
                 act.doc \in {shown.pair["si"], shown.pair["bl"]} /\
                 (act.value = NoValue <=> act.kind = "SUPPLY_INFORMATION")}
  IN CASE op = "review" ->
            {[plain EXCEPT !.act = act, !.grounds = Grounds(act)] : act \in acts}
       [] op = "pair" ->
            {[plain EXCEPT !.pair = pair] : pair \in
               {other \in Choices \cap [Role -> listed] :
                  /\ other # shown.pair
                  /\ other["si"] # other["bl"] \/ other["si"] = NoDoc}}
       [] op = "upload" -> {[plain EXCEPT !.role = role] : role \in Role}
       [] OTHER -> {plain}

Answer(p, code, view, notes) ==
  slots' = [slots EXCEPT ![p] = [@ EXCEPT !.at = "answered", !.shown = NoView, !.draft = 0,
                                          !.code = code, !.view = view, !.notes = notes]]

\* What Gemini is asked to explain, and of which analysis.
AskedNotes == [revision |-> task.revision, run |-> task.current, fields |-> Explained]

\* The transaction of a request, or its refusal.  A request that fails with the
\* database, before the commit or after it, is one the page loses.
Serve(p) ==
  /\ slots[p].at = "sent"
  /\ \E q \in Sent(slots[p].op, slots[p].shown, slots[p].draft) :
       \E problem \in {Problem(q)} :
         IF problem = "OK"
         THEN /\ Perform(q, Page)
              /\ slots' = [slots EXCEPT
                   ![p].at = IF q.op \in {"generate", "risk"} THEN "asking" ELSE "performed",
                   ![p].notes = IF q.op = "risk" THEN AskedNotes ELSE NoBriefing]
         ELSE UNCHANGED server /\ Answer(p, problem, NoView, NoBriefing)
  /\ UNCHANGED <<page, strays, budget>>

\* Gemini's wording is saved, or the answer is that it was not.
DraftAnswered ==
  /\ slots["email"].at = "asking"
  /\ \/ /\ Desk(SaveDraft(Page))
        /\ slots' = [slots EXCEPT !["email"].at = "performed"]
     \/ /\ Desk(GiveUpDraft(Page))
        /\ \E code \in {"AI_INVALID_RESPONSE", "stale_amendment"} :
             Answer("email", code, NoView, NoBriefing)
  /\ UNCHANGED <<page, strays, budget>>

\* Notes that are not exactly about what was asked are no answer.
BriefingAnswered ==
  /\ slots["risk"].at = "asking"
  /\ \E asked \in {slots["risk"].notes}, notes \in BriefingNotes :
       IF Acceptable(notes, asked.fields)
       THEN Answer("risk", "OK", NoView, [asked EXCEPT !.fields = Listed(notes)])
       ELSE Answer("risk", "AI_INVALID_RESPONSE", NoView, NoBriefing)
  /\ UNCHANGED <<server, page, strays, budget>>

\* task_detail after the commit.
Detail(p) ==
  /\ slots[p].at = "performed"
  /\ \E view \in {Snapshot} : Answer(p, "OK", view, NoBriefing)
  /\ UNCHANGED <<server, page, strays, budget>>

-----------------------------------------------------------------------------
SlipReplace(pg, view) ==
  page' = [Show(pg, view) EXCEPT !.pending = NoView, !.locked = FALSE]

\* replaceTask: also what waits to be presented goes, and with it the timer.
Replace(pg, view) ==
  page' = [Show(pg, view) EXCEPT !.pending = NoView]

Answered(p, op) == slots[p].at = "answered" /\ slots[p].op \in op

\* The dialog of the completion is closed whatever the answer is.
Closed(p, pg) == [pg EXCEPT !.confirming = @ /\ p # "complete"]

\* A decision was saved: the page shows the task of the answer.
ReceiveDecision(p) ==
  /\ Answered(p, {"review", "complete"})
  /\ IF slots[p].code = "OK"
     THEN /\ Replace(Closed(p, page), slots[p].view)
          /\ slots' = [Rebuilt(slots, slots[p].view) EXCEPT ![p] = Idle]
     ELSE page' = Closed(p, page) /\ slots' = [slots EXCEPT ![p] = Idle]
  /\ UNCHANGED <<server, strays, budget>>

\* The draft of the answer may already be gone, and then the rest of the
\* answer is not shown.
ReceiveDraft ==
  /\ Answered("email", {"generate", "update"})
  /\ LET view == slots["email"].view
     IN IF slots["email"].code # "OK"
        THEN page' = page /\ slots' = [slots EXCEPT !["email"] = Idle]
        ELSE IF view.draft = 0
        THEN page' = [page EXCEPT !.draft = 0] /\ slots' = [slots EXCEPT !["email"] = Idle]
        ELSE /\ page' = [Show(page, view) EXCEPT !.pending = NoView, !.draft = view.draft]
             /\ slots' = [Rebuilt(slots, view) EXCEPT !["email"] = Idle]
  /\ UNCHANGED <<server, strays, budget>>

ReceiveBriefing ==
  /\ Answered("risk", {"risk"})
  /\ page' = IF slots["risk"].code = "OK"
             THEN [page EXCEPT !.briefing = slots["risk"].notes] ELSE page
  /\ slots' = [slots EXCEPT !["risk"] = Idle]
  /\ UNCHANGED <<server, strays, budget>>

\* Saved sources are analyzed unless an analysis is already under way; a
\* conflict is shown by the form that asked.
ReceiveSources(p) ==
  /\ Answered(p, Changing)
  /\ LET rest == [slots EXCEPT ![p] = Idle]
     IN IF slots[p].code = "OK" THEN Analyze(slots[p].view, rest)
        ELSE /\ page' = [page EXCEPT !.conflict =
                  IF slots[p].mounted THEN Status(slots[p].code) = 409 ELSE @]
             /\ slots' = rest
  /\ UNCHANGED <<server, strays, budget>>

\* The answer to the start of an analysis, or to a poll: it is followed while
\* it is RUNNING, a failure shows, a result waits to be presented.
ReceiveAnalysis ==
  /\ Answered("analysis", {"analyze", "detail"})
  /\ LET view == slots["analysis"].view
         rest == [Rebuilt(slots, view) EXCEPT !["analysis"] = Idle]
     IN CASE slots["analysis"].code # "OK" ->
               /\ page' = [page EXCEPT !.phase = "failed", !.locked = FALSE]
               /\ slots' = [slots EXCEPT !["analysis"] = Idle]
          [] slots["analysis"].code = "OK" /\ view.status = "RUNNING" ->
               /\ page' = Show(page, view)
               /\ slots' = [rest EXCEPT !["analysis"].at = "waiting"]
          [] slots["analysis"].code = "OK" /\ view.status \in {"NONE", "FAILED"} ->
               /\ page' = [Show(page, view) EXCEPT !.phase = "failed", !.locked = FALSE]
               /\ slots' = rest
          [] slots["analysis"].code = "OK" /\ view.status = "SUCCEEDED" ->
               /\ page' = [page EXCEPT !.phase = "preparing", !.pending = view]
               /\ slots' = [slots EXCEPT !["analysis"] = Idle]
  /\ UNCHANGED <<server, strays, budget>>

\* A second later the hook asks again.
Poll ==
  /\ slots["analysis"].at = "waiting"
  /\ slots' = [slots EXCEPT !["analysis"] = [Idle EXCEPT !.at = "sent"]]
  /\ UNCHANGED <<server, page, strays, budget>>

\* At once, after the rest of four seconds, or when the user prefers less
\* motion.
Reveal ==
  /\ page.phase = "preparing" /\ page.pending # NoView
  /\ page' = [Show(page, page.pending) EXCEPT !.pending = NoView, !.locked = FALSE,
                                              !.phase = "revealed"]
  /\ slots' = Rebuilt(slots, page.pending)
  /\ UNCHANGED <<server, strays, budget>>
-----------------------------------------------------------------------------
\* A request keeps the stage its panel had reached.
SlipStrayOf(p, then) ==
  LET slot == slots[p]
      follows == then /\ p \in Form /\ slot.code = "OK"
      stray == [op |-> slot.op, shown |-> slot.shown, draft |-> slot.draft,
                at |-> slot.at, then |-> then /\ p \in Form]
  IN CASE slot.at = "sent" /\ slot.op \notin Reads \cup {"risk"} -> {stray}
       [] slot.at = "performed" /\ follows -> {stray}
       [] slot.at = "answered" /\ follows ->
            {[stray EXCEPT !.op = "analyze", !.shown = slot.view, !.then = FALSE]}
       [] OTHER -> {}

\* What goes on without the page: a request not yet served and, when then is
\* set, the analysis that follows saved sources.
StrayOf(p, then) ==
  LET slot == slots[p]
      follows == then /\ p \in Form /\ slot.code = "OK"
      stray == [op |-> slot.op, shown |-> slot.shown, draft |-> slot.draft,
                at |-> "sent", then |-> then /\ p \in Form]
  IN CASE slot.at = "sent" /\ slot.op \notin Reads \cup {"risk"} -> {stray}
       [] slot.at = "performed" /\ follows -> {[stray EXCEPT !.at = "performed"]}
       [] slot.at = "answered" /\ follows ->
            {[stray EXCEPT !.op = "analyze", !.shown = slot.view, !.then = FALSE]}
       [] OTHER -> {}

\* 45 seconds are over, the answer does not arrive, or it is that the database
\* failed: the panel shows a failure.
Lost(p) ==
  /\ slots[p].at \in {"sent", "asking", "performed"}
  /\ slots' = [slots EXCEPT ![p] = Idle]
  /\ strays' = strays \cup StrayOf(p, FALSE)
  /\ page' = IF p = "analysis" THEN [page EXCEPT !.phase = "failed", !.locked = FALSE]
             ELSE Closed(p, page)
  /\ UNCHANGED <<server, budget>>

\* The page is loaded again, by itself while it shows a RUNNING analysis it
\* does not follow, or opened on a version; the old components' closures live
\* on, with the lock as it is.
Load(r) ==
  /\ page' = Loaded(IF r = NoRun THEN Snapshot ELSE RunSnapshot(r), r)
  /\ slots' = [p \in Panel |-> Idle]
  /\ strays' = strays \cup UNION {StrayOf(p, ~page.locked) : p \in Panel}
  /\ UNCHANGED server

LoadAgain == page.follows /\ Load(page.opened) /\ UNCHANGED budget

Leave ==
  /\ budget["user"] > 0
  /\ \E r \in Saved \cup {NoRun} : Load(r)
  /\ budget' = [budget EXCEPT !["user"] = @ - 1]

\* A stray request is served; nobody waits for its answer, but an analysis may
\* follow.  Refused, or lost with the page's process, it has no effect.
ServeStray(stray) ==
  /\ stray.at = "sent"
  /\ \E q \in Sent(stray.op, stray.shown, stray.draft) :
       Problem(q) = "OK" /\ Perform(q, Page)
  /\ strays' = (strays \ {stray})
       \cup (IF stray.then THEN {[stray EXCEPT !.at = "performed"]} ELSE {})
  /\ UNCHANGED <<page, slots, budget>>

StrayFollows(stray) ==
  /\ stray.at = "performed"
  /\ strays' = (strays \ {stray}) \cup
       {[op |-> "analyze", shown |-> Snapshot, draft |-> 0, at |-> "sent", then |-> FALSE]}
  /\ UNCHANGED <<server, page, slots, budget>>

StrayDropped(stray) ==
  /\ strays' = strays \ {stray}
  /\ UNCHANGED <<server, page, slots, budget>>

\* A generation whose page is gone ends like any other.
DraftEnds ==
  /\ \E c \in Clients :
       /\ c # Page \/ slots["email"].at # "asking"
       /\ Desk(SaveDraft(c)) \/ Desk(GiveUpDraft(c))
  /\ UNCHANGED <<page, slots, strays, budget>>

\* The other client: requests about what the task is now, and requests the
\* API refuses whatever the task is.
Proper(shown) == UNION {Sent(op, shown, draft.id) : op \in Changes}
Flawed == {<<"upload", flaw>> : flaw \in {"shape", "parts", "media", "name", "large", "format"}}
            \cup {<<"update", "blank">>, <<"update", "lines">>, <<"complete", "scope">>}
Unwelcome ==
  {[op |-> "review", to |-> "task", origin |-> "allowed"],
   [op |-> "analyze", to |-> "task", origin |-> "other"],
   [op |-> "generate", to |-> "sample", origin |-> "allowed"],
   [op |-> "complete", to |-> "nothing", origin |-> "allowed"]}
Garbled(shown) ==
  {[Plain(pair[1], shown, draft.id) EXCEPT !.flaws = {pair[2]}] : pair \in Flawed}
    \cup {[Plain(row.op, shown, draft.id) EXCEPT !.to = row.to, !.origin = row.origin] :
            row \in Unwelcome}

Rival ==
  /\ budget["rival"] > 0
  /\ \E shown \in {Snapshot}, c \in Clients : \E q \in Proper(shown) \cup Garbled(shown) :
       /\ (c = Page) # (q.op = "generate")
       /\ Problem(q) = "OK"
       /\ Perform(q, c)
  /\ budget' = [budget EXCEPT !["rival"] = @ - 1]
  /\ UNCHANGED <<page, slots, strays>>

RunEnds ==
  /\ RunSucceeds \/ RunFails
  /\ UNCHANGED <<page, slots, strays, budget>>

RunIsLate == RunExpires /\ UNCHANGED <<page, slots, strays, budget>>
-----------------------------------------------------------------------------
\* What the page itself does to end the analysis it follows.
Observe ==
  \/ Serve("analysis") \/ Detail("analysis") \/ ReceiveAnalysis \/ Lost("analysis") \/ Poll

PageNext ==
  \/ Reanalyze \/ SaveSources \/ Decide \/ Confirm \/ Complete \/ Draft \/ CloseDraft \/ Explain
  \/ \E p \in Panel : Serve(p) \/ Detail(p) \/ Lost(p)
  \/ DraftAnswered \/ BriefingAnswered
  \/ \E p \in Deciding : ReceiveDecision(p)
  \/ \E p \in Form : ReceiveSources(p)
  \/ ReceiveDraft \/ ReceiveBriefing \/ ReceiveAnalysis
  \/ Poll \/ Reveal
  \/ LoadAgain \/ Leave
  \/ \E stray \in strays : ServeStray(stray) \/ StrayFollows(stray) \/ StrayDropped(stray)
  \/ DraftEnds \/ Rival \/ RunEnds \/ RunIsLate

\* The hook's timers and the 45 seconds run, a worker ends by its deadline;
\* nobody has to click and no other client has to act.
PageSpec ==
  /\ PageInit /\ [][PageNext]_allVars
  /\ WF_allVars(Observe) /\ WF_allVars(Reveal) /\ WF_allVars(RunEnds)
-----------------------------------------------------------------------------
\* A decision of the page, a review, an acknowledgment or a saved wording, is
\* taken about the revision and the analysis the page was showing at the click,
\* which is still the current one and not acknowledged, whatever other clients
\* and late answers did to the page meanwhile; no other analysis is touched.
DecisionsAreAboutTheShown ==
  [][\A p \in Deciding \cup {"email"} :
       (slots[p].at = "sent" /\ slots'[p].at \in {"asking", "performed"}) =>
          LET shown == slots[p].shown
          IN /\ shown.run = task.current /\ shown.revision = task.revision
             /\ p # "complete" => shown.run \notin completions
             /\ \A r \in Runs \ {shown.run} :
                  reviews'[r] = reviews[r] /\ (r \in completions' <=> r \in completions)]_allVars

\* The ref locked and the phase say the same: an analysis is observed, by one
\* request at a time, or its result waits to be presented, or did so when a saved
\* decision took it away (Stuck, below).  Decisions, saved sources and late answers
\* never release the lock early nor start a second analysis.
LockIsHeld ==
  /\ page.locked <=> Busy
  /\ page.phase = "running" <=> slots["analysis"].at # "idle"

\* What the page says beside the result is true of it.  "The source revision
\* changed", and the notes on the discrepancies are about an analysis of the
\* revision shown and name exactly what the machine found in it.
NoticesAreOfTheShown ==
  /\ page.conflict => page.view.revision < task.revision
  /\ page.briefing # NoBriefing =>
       /\ page.briefing.revision = page.view.revision
       /\ page.briefing.run \in Saved
       /\ runs[page.briefing.run].revision = page.view.revision
       /\ page.briefing.fields = runs[page.briefing.run].result.defects

\* Neither a worker that is late, nor lost answers or a database that fails
\* keep the page busy.  Left out is the one case where the hook cannot come
\* free: a decision was saved while the result waited to be presented.
Stuck == page.phase = "preparing" /\ page.pending = NoView
PageComesFree == Busy ~> (~Busy \/ Stuck)
=============================================================================
