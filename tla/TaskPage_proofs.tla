--------------------------- MODULE TaskPage_proofs ---------------------------
(***************************************************************************)
(* What the page of a task, its requests and the other clients keep, for   *)
(* any fields, documents, runs, clients and any number of clicks.          *)
(*                                                                         *)
(* HookInv follows the one request of the hook useAnalysis: which states   *)
(* of the page it goes with, and that its answers say what has become of   *)
(* the latest run, so that each of them is one of the four the hook knows. *)
(***************************************************************************)
EXTENDS TaskPage, TaskReview_proofs, SequenceTheorems, TLAPS

RunStatus == {"NONE", "RUNNING", "SUCCEEDED", "FAILED"}

IsPage(p) ==
  p = [view |-> p.view, opened |-> p.opened, follows |-> p.follows, phase |-> p.phase,
       locked |-> p.locked, pending |-> p.pending, conflict |-> p.conflict,
       briefing |-> p.briefing, draft |-> p.draft, confirming |-> p.confirming]
IsSlot(s) ==
  s = [at |-> s.at, op |-> s.op, shown |-> s.shown, draft |-> s.draft,
       mounted |-> s.mounted, code |-> s.code, view |-> s.view, notes |-> s.notes]
AreSlots(ss) == ss = [p \in Panel |-> ss[p]] /\ \A p \in Panel : IsSlot(ss[p])

\* What each panel asks.
OpsOf == [p \in Panel |->
  CASE p = "analysis" -> {"analyze", "detail"} [] p \in Form -> Changing
    [] p \in {"review", "supply"} -> {"review"} [] p = "complete" -> {"complete"}
    [] p = "email" -> {"generate", "update"} [] OTHER -> {"risk"}]

\* A slot that is not idle asks what its panel may ask.
Asking(p, s) == s.at # "idle" => s.op \in OpsOf[p]

\* The lock, the phase and the request of the hook go together.
Held(pg, ss) ==
  /\ IsPage(pg) /\ AreSlots(ss)
  /\ \A p \in Panel : Asking(p, ss[p])
  /\ ss["analysis"].view.status \in RunStatus
  /\ pg.locked \in BOOLEAN
  /\ pg.locked <=> pg.phase \in {"running", "preparing"}
  /\ pg.phase = "running" <=> ss["analysis"].at # "idle"

LatestInv ==
  /\ latest = [run |-> latest.run, alive |-> latest.alive, status |-> latest.status]
  /\ latest.status \in RunStatus

HookInv == Held(page, slots) /\ LatestInv

LEMMA PanelNames ==
  /\ Panel = {"analysis", "email", "risk"} \cup Form \cup Deciding
  /\ "analysis" \notin Form /\ "email" \notin Form /\ "risk" \notin Form
  /\ "complete" \in Deciding
  /\ "analysis" \in Panel /\ "sources" \in Panel /\ "resent" \in Panel
  /\ "review" \in Panel /\ "supply" \in Panel
  /\ "complete" \in Panel /\ "email" \in Panel /\ "risk" \in Panel
  /\ OpsOf["analysis"] = {"analyze", "detail"} /\ OpsOf["sources"] = Changing
  /\ OpsOf["resent"] = Changing
  /\ OpsOf["review"] = {"review"} /\ OpsOf["supply"] = {"review"}
  /\ OpsOf["complete"] = {"complete"}
  /\ OpsOf["email"] = {"generate", "update"} /\ OpsOf["risk"] = {"risk"}
PROOF BY DEF Panel, OpsOf, Form, Deciding

LEMMA FormNames ==
  ASSUME NEW p \in Form
  PROVE  /\ p \in Panel /\ p \notin {"analysis", "email", "risk"} \cup Deciding
         /\ OpsOf[p] = Changing
PROOF BY PanelNames DEF Form, Deciding

LEMMA DecidingNames ==
  ASSUME NEW p \in Deciding
  PROVE  /\ p \in Panel /\ p \notin {"analysis", "email", "risk"} \cup Form
         /\ OpsOf[p] \subseteq {"review", "complete"}
PROOF BY PanelNames DEF Form, Deciding

LEMMA SlotIdle == IsSlot(Idle) /\ Idle.at = "idle" /\ Idle.view.status \in RunStatus
PROOF BY DEF IsSlot, Idle, NoView, RunStatus

\* A panel that has just asked.
Asks(op, shown, held) ==
  [Idle EXCEPT !.at = "sent", !.op = op, !.shown = shown, !.draft = held]
AsksAbout(op, shown) == [Idle EXCEPT !.at = "sent", !.op = op, !.shown = shown]

LEMMA SlotAsks ==
  ASSUME NEW op, NEW shown, NEW held
  PROVE  \A s \in {Asks(op, shown, held), AsksAbout(op, shown)} :
           IsSlot(s) /\ s.at = "sent" /\ s.op = op /\ s.view.status \in RunStatus
PROOF
<1>1. PICK a : a = [Idle EXCEPT !.at = "sent"]
  OBVIOUS
<1>2. PICK b : b = [a EXCEPT !.op = op]
  OBVIOUS
<1>3. PICK c : c = [b EXCEPT !.shown = shown]
  OBVIOUS
<1>4. PICK d : d = [c EXCEPT !.draft = held]
  OBVIOUS
<1>5. IsSlot(a) /\ a.at = "sent" /\ a.view = Idle.view
  BY <1>1, SlotIdle DEF IsSlot
<1>6. IsSlot(b) /\ b.at = "sent" /\ b.op = op /\ b.view = Idle.view
  BY <1>2, <1>5 DEF IsSlot
<1>7. IsSlot(c) /\ c.at = "sent" /\ c.op = op /\ c.view = Idle.view
  BY <1>3, <1>6 DEF IsSlot
<1>8. IsSlot(d) /\ d.at = "sent" /\ d.op = op /\ d.view = Idle.view
  BY <1>4, <1>7 DEF IsSlot
<1>9. d = Asks(op, shown, held)
  BY <1>1, <1>2, <1>3, <1>4 DEF Asks
<1>10. c = AsksAbout(op, shown)
  BY <1>1, <1>2, <1>3 DEF AsksAbout
<1> QED BY <1>7, <1>8, <1>9, <1>10, SlotIdle

\* A panel that is answered; the answer is about what it had asked.
Answers(s, code, view, notes) ==
  [s EXCEPT !.at = "answered", !.shown = NoView, !.draft = 0,
            !.code = code, !.view = view, !.notes = notes]

LEMMA AnswersIs ==
  ASSUME NEW s, IsSlot(s), NEW code, NEW view, NEW notes
  PROVE  Answers(s, code, view, notes) =
           [at |-> "answered", op |-> s.op, shown |-> NoView, draft |-> 0,
            mounted |-> s.mounted, code |-> code, view |-> view, notes |-> notes]
PROOF
<1>1. PICK a : a = [s EXCEPT !.at = "answered"]
  OBVIOUS
<1>2. PICK b : b = [a EXCEPT !.shown = NoView]
  OBVIOUS
<1>3. PICK c : c = [b EXCEPT !.draft = 0]
  OBVIOUS
<1>4. PICK d : d = [c EXCEPT !.code = code]
  OBVIOUS
<1>5. PICK e : e = [d EXCEPT !.view = view]
  OBVIOUS
<1>6. PICK f : f = [e EXCEPT !.notes = notes]
  OBVIOUS
<1>7. a = [at |-> "answered", op |-> s.op, shown |-> s.shown, draft |-> s.draft,
           mounted |-> s.mounted, code |-> s.code, view |-> s.view, notes |-> s.notes]
  BY <1>1 DEF IsSlot
<1>8. c = [at |-> "answered", op |-> s.op, shown |-> NoView, draft |-> 0,
           mounted |-> s.mounted, code |-> s.code, view |-> s.view, notes |-> s.notes]
  BY <1>2, <1>3, <1>7
<1>9. f = [at |-> "answered", op |-> s.op, shown |-> NoView, draft |-> 0,
           mounted |-> s.mounted, code |-> code, view |-> view, notes |-> notes]
  BY <1>4, <1>5, <1>6, <1>8
<1> QED BY <1>1, <1>2, <1>3, <1>4, <1>5, <1>6, <1>9 DEF Answers

LEMMA SlotAnswered ==
  ASSUME NEW s, IsSlot(s), NEW code, NEW view, NEW notes
  PROVE  LET t == Answers(s, code, view, notes)
         IN IsSlot(t) /\ t.at = "answered" /\ t.op = s.op /\ t.view = view
PROOF BY AnswersIs DEF IsSlot

\* A change of one slot.
LEMMA SlotChanged ==
  ASSUME AreSlots(slots), NEW p \in Panel, NEW s, IsSlot(s), NEW ss,
         ss = [slots EXCEPT ![p] = s]
  PROVE  AreSlots(ss) /\ ss[p] = s /\ \A other \in Panel : other # p => ss[other] = slots[other]
PROOF BY DEF AreSlots

LEMMA ShowKeeps ==
  ASSUME NEW pg, IsPage(pg), NEW view
  PROVE  /\ IsPage(Show(pg, view)) /\ Show(pg, view).phase = pg.phase
         /\ Show(pg, view).locked = pg.locked /\ Show(pg, view).pending = pg.pending
         /\ Show(pg, view).view = view
PROOF
<1>1. PICK c : c = (pg.conflict /\ SameForm(view))
  OBVIOUS
<1>2. PICK b : b = IF view.revision = page.view.revision THEN pg.briefing ELSE NoBriefing
  OBVIOUS
<1>3. Show(pg, view) = [pg EXCEPT !.view = view, !.conflict = c, !.briefing = b]
  BY <1>1, <1>2 DEF Show
<1> QED BY <1>3 DEF IsPage

LEMMA RebuiltKeeps ==
  ASSUME NEW ss, AreSlots(ss), NEW view
  PROVE  /\ AreSlots(Rebuilt(ss, view))
         /\ \A p \in Panel : \/ Rebuilt(ss, view)[p] = ss[p]
                             \/ p \in Form /\ Rebuilt(ss, view)[p].at = ss[p].at
                                  /\ Rebuilt(ss, view)[p].op = ss[p].op
                             \/ p = "risk" /\ Rebuilt(ss, view)[p] = Idle
PROOF
<1> DEFINE rs == Rebuilt(ss, view)
<1>1. rs = [p \in Panel |->
        CASE p \in Form /\ ~SameForm(view) -> [ss[p] EXCEPT !.mounted = FALSE]
          [] p = "risk" /\ view.revision # page.view.revision -> Idle
          [] OTHER -> ss[p]]
  BY DEF Rebuilt
<1> HIDE DEF rs
<1>2. ASSUME NEW p \in Panel
      PROVE  /\ IsSlot(rs[p])
             /\ \/ rs[p] = ss[p]
                \/ p \in Form /\ rs[p].at = ss[p].at /\ rs[p].op = ss[p].op
                \/ p = "risk" /\ rs[p] = Idle
  <2>1. IsSlot(ss[p])
    BY DEF AreSlots
  <2>2. CASE p \in Form /\ ~SameForm(view)
    <3>1. rs[p] = [ss[p] EXCEPT !.mounted = FALSE]
      BY <1>1, <2>2, FormNames
    <3> QED BY <2>1, <2>2, <3>1 DEF IsSlot
  <2>3. CASE p = "risk" /\ view.revision # page.view.revision
    <3>1. rs[p] = Idle
      BY <1>1, <2>3
    <3> QED BY <2>3, <3>1, SlotIdle
  <2>4. CASE ~(p \in Form /\ ~SameForm(view)) /\ ~(p = "risk" /\ view.revision # page.view.revision)
    <3>1. rs[p] = ss[p]
      BY <1>1, <2>4
    <3> QED BY <2>1, <3>1
  <2> QED BY <2>2, <2>3, <2>4
<1>3. rs = [p \in Panel |-> rs[p]]
  BY <1>1
<1> QED BY <1>2, <1>3 DEF AreSlots, rs

\* One slot changes and the page does not.
LEMMA SlotSet ==
  ASSUME NEW pg, NEW ss, Held(pg, ss), NEW p \in Panel, NEW s, IsSlot(s), Asking(p, s),
         p = "analysis" => s.view.status \in RunStatus /\ (s.at = "idle" <=> ss[p].at = "idle")
  PROVE  Held(pg, [ss EXCEPT ![p] = s])
PROOF
<1> DEFINE new == [ss EXCEPT ![p] = s]
<1>1. new = [q \in Panel |-> IF q = p THEN s ELSE ss[q]]
  BY DEF Held, AreSlots
<1> HIDE DEF new
<1>2. AreSlots(new) /\ \A q \in Panel : Asking(q, new[q])
  BY <1>1 DEF Held, AreSlots
<1>3. /\ new["analysis"].view.status \in RunStatus
      /\ new["analysis"].at = "idle" <=> ss["analysis"].at = "idle"
  BY <1>1, PanelNames DEF Held
<1>4. Held(pg, new)
  BY <1>2, <1>3 DEF Held
<1> QED BY <1>4 DEF new

LEMMA SlotFreed ==
  ASSUME NEW pg, NEW ss, Held(pg, ss), NEW p \in Panel, p # "analysis"
  PROVE  Held(pg, [ss EXCEPT ![p] = Idle])
BY SlotSet, SlotIdle DEF Asking

\* The page changes in other parts than the phase and the lock.
LEMMA PageSet ==
  ASSUME NEW pg, NEW ss, Held(pg, ss), NEW new, IsPage(new),
         new.phase = pg.phase, new.locked = pg.locked
  PROVE  Held(new, ss)
BY DEF Held

LEMMA RebuiltHeld ==
  ASSUME NEW pg, NEW ss, Held(pg, ss), NEW view
  PROVE  Held(pg, Rebuilt(ss, view))
PROOF
<1>1. /\ AreSlots(Rebuilt(ss, view))
      /\ \A p \in Panel : \/ Rebuilt(ss, view)[p] = ss[p]
                          \/ p \in Form /\ Rebuilt(ss, view)[p].at = ss[p].at
                               /\ Rebuilt(ss, view)[p].op = ss[p].op
                          \/ p = "risk" /\ Rebuilt(ss, view)[p] = Idle
  BY RebuiltKeeps DEF Held
<1>2. \A p \in Panel : Asking(p, Rebuilt(ss, view)[p])
  BY <1>1, SlotIdle DEF Held, Asking
<1>3. Rebuilt(ss, view)["analysis"] = ss["analysis"]
  BY <1>1, PanelNames
<1> QED BY <1>1, <1>2, <1>3 DEF Held

\* The hook ends: no request, and the page says how it ended.
LEMMA HookFreed ==
  ASSUME NEW pg, NEW ss, Held(pg, ss), NEW new, IsPage(new),
         \/ new.phase \in {"failed", "revealed", "idle"} /\ ~new.locked /\ new.locked \in BOOLEAN
         \/ new.phase = "preparing" /\ new.locked = TRUE
  PROVE  Held(new, [ss EXCEPT !["analysis"] = Idle])
PROOF
<1> DEFINE next == [ss EXCEPT !["analysis"] = Idle]
<1>1. next = [q \in Panel |-> IF q = "analysis" THEN Idle ELSE ss[q]]
  BY DEF Held, AreSlots
<1> HIDE DEF next
<1>2. AreSlots(next) /\ (\A q \in Panel : Asking(q, next[q]))
  BY <1>1, SlotIdle DEF Held, AreSlots, Asking
<1>3. next["analysis"] = Idle
  BY <1>1, PanelNames
<1>4. Held(new, next)
  BY <1>2, <1>3, SlotIdle DEF Held
<1> QED BY <1>4 DEF next

\* The hook starts, or goes on.
LEMMA HookBusy ==
  ASSUME NEW pg, NEW ss, Held(pg, ss), NEW new, IsPage(new), NEW s,
         new.phase = "running", new.locked = TRUE,
         IsSlot(s), s.at # "idle", s.op \in OpsOf["analysis"], s.view.status \in RunStatus
  PROVE  Held(new, [ss EXCEPT !["analysis"] = s])
PROOF
<1> DEFINE next == [ss EXCEPT !["analysis"] = s]
<1>1. next = [q \in Panel |-> IF q = "analysis" THEN s ELSE ss[q]]
  BY DEF Held, AreSlots
<1> HIDE DEF next
<1>2. AreSlots(next) /\ (\A q \in Panel : Asking(q, next[q]))
  BY <1>1 DEF Held, AreSlots, Asking
<1>3. next["analysis"] = s
  BY <1>1, PanelNames
<1>4. Held(new, next)
  BY <1>2, <1>3 DEF Held
<1> QED BY <1>4 DEF next
-----------------------------------------------------------------------------
LEMMA Snapped == LatestInv => Snapshot.status \in RunStatus
PROOF
<1>2. ASSUME NEW reviewed PROVE Told(task.current, reviewed, task.revision, task.pair,
                                     latest.status, ShownDraft.id, FALSE).status = latest.status
  BY DEF Told
<1>3. [NoView EXCEPT !.revision = task.revision, !.pair = task.pair,
                     !.status = latest.status].status = latest.status
  BY DEF NoView
<1> QED BY <1>2, <1>3 DEF Snapshot, ViewOf, LatestInv

LEMMA LatestStep ==
  ASSUME LatestInv,
         latest' \in {latest, NoLatest} \/ StartRun \/ RunSucceeds \/ RunFails \/ RunExpires
  PROVE  LatestInv'
PROOF
<1>1. ASSUME latest' = latest PROVE LatestInv'
  BY <1>1 DEF LatestInv
<1>2. ASSUME latest' = NoLatest PROVE LatestInv'
  BY <1>2 DEF LatestInv, NoLatest, RunStatus
<1>4. ASSUME StartRun PROVE LatestInv'
  BY <1>4 DEF StartRun, LatestInv, RunStatus
<1>5. ASSUME RunSucceeds PROVE LatestInv'
  BY <1>5 DEF RunSucceeds, LatestInv, RunStatus
<1>6. ASSUME RunFails PROVE LatestInv'
  BY <1>6 DEF RunFails, LatestInv, RunStatus
<1>7. ASSUME RunExpires PROVE LatestInv'
  BY <1>7 DEF RunExpires, LatestInv, RunStatus
<1> QED BY <1>1, <1>2, <1>4, <1>5, <1>6, <1>7

\* An accepted request changes the latest run as its transaction does.
LEMMA PerformMoves ==
  ASSUME NEW q, NEW client, Perform(q, client)
  PROVE  latest' \in {latest, NoLatest} \/ StartRun
PROOF
<1>1. CASE q.op = "analyze" /\ StartRun
  BY <1>1
<1>2. CASE q.op = "pair" /\ IF task.selected /\ q.pair = task.pair THEN Unchanged
                            ELSE Desk(SelectPair(q.pair))
  BY <1>2 DEF Unchanged, Desk
<1>3. CASE q.op = "upload" /\ \E d \in Docs : Desk(ReplaceDocument(q.role, d))
  BY <1>3 DEF Desk
<1>4. CASE /\ q.op = "review"
           /\ Desk(RecordReview(q.act.doc, q.act.field, q.act.kind, q.act.value))
  BY <1>4 DEF Desk
<1>5. CASE q.op = "complete" /\ IF q.run \in completions THEN Unchanged
                                ELSE Desk(RecordCompletion)
  BY <1>5 DEF Unchanged, Desk
<1>6. CASE \/ q.op = "generate" /\ Desk(AskDraft(client))
           \/ q.op = "update" /\ Desk(UpdateDraft)
  BY <1>6 DEF Desk
<1>7. CASE q.op \in Reads \cup {"risk"} /\ Unchanged
  BY <1>7 DEF Unchanged
<1> QED BY <1>1, <1>2, <1>3, <1>4, <1>5, <1>6, <1>7, ZenonT(30) DEF Perform

LEMMA PerformLatest ==
  ASSUME LatestInv, NEW q, NEW client, Perform(q, client)
  PROVE  LatestInv'
PROOF BY PerformMoves, LatestStep
-----------------------------------------------------------------------------
LEMMA HookStarts == PageInit => HookInv
PROOF
<1> SUFFICES ASSUME PageInit PROVE HookInv
  OBVIOUS
<1>1. LatestInv
  BY DEF PageInit, LatestInv, NoLatest, RunStatus
<1>2. IsPage(page) /\ page.phase = "idle" /\ page.locked = FALSE
  BY DEF PageInit, Loaded, IsPage
<1>3. AreSlots(slots) /\ \A p \in Panel : slots[p] = Idle
  BY SlotIdle DEF PageInit, AreSlots
<1>4. Held(page, slots)
  BY <1>2, <1>3, SlotIdle, PanelNames DEF Held, Asking
<1> QED BY <1>1, <1>4 DEF HookInv

LEMMA LoadHeld ==
  ASSUME NEW r, Load(r)
  PROVE  Held(page', slots')
PROOF
<1>1. PICK view : page' = Loaded(view, r)
  BY DEF Load
<1>2. IsPage(page') /\ page'.phase = "idle" /\ page'.locked = FALSE
  BY <1>1 DEF Loaded, IsPage
<1>3. AreSlots(slots') /\ \A p \in Panel : slots'[p] = Idle
  BY SlotIdle DEF Load, AreSlots
<1> QED BY <1>2, <1>3, SlotIdle, PanelNames DEF Held, Asking

\* A panel other than the hook's asks.
LEMMA ClickHeld ==
  ASSUME Held(page, slots), NEW p \in Panel, p # "analysis", NEW op \in OpsOf[p], Click(p, op)
  PROVE  Held(page, slots')
PROOF
<1>1. IsSlot(Asked(op)) /\ Asking(p, Asked(op))
  <2>1. Asked(op) = Asks(op, page.view, page.draft)
    BY DEF Asked, Asks
  <2> QED BY <2>1, SlotAsks DEF Asking
<1> QED BY <1>1, SlotSet DEF Click

LEMMA AnalyzeHeld ==
  ASSUME NEW source, NEW rest, Held(page, rest), Analyze(source, rest)
  PROVE  Held(page', slots')
PROOF
<1>1. CASE page.locked
  BY <1>1 DEF Analyze
<1>2. CASE ~page.locked
  <2> DEFINE shown == Show(page, source)
             again == Rebuilt(rest, source)
             asked == [Idle EXCEPT !.at = "sent", !.op = "analyze", !.shown = source]
  <2>1. page' = [shown EXCEPT !.phase = "running", !.locked = TRUE]
        /\ slots' = [again EXCEPT !["analysis"] = asked]
    BY <1>2 DEF Analyze
  <2>2. IsPage(shown)
    BY ShowKeeps DEF Held
  <2>3. Held(page, again)
    BY RebuiltHeld
  <2>4. /\ IsSlot(asked) /\ asked.at # "idle" /\ asked.op \in OpsOf["analysis"]
        /\ asked.view.status \in RunStatus
    <3>1. asked = AsksAbout("analyze", source)
      BY DEF AsksAbout
    <3> HIDE DEF asked
    <3> QED BY <3>1, SlotAsks, PanelNames
  <2> HIDE DEF shown, again, asked
  <2>5. IsPage(page') /\ page'.phase = "running" /\ page'.locked = TRUE
    BY <2>1, <2>2 DEF IsPage
  <2> QED BY <2>1, <2>3, <2>4, <2>5, HookBusy
<1> QED BY <1>1, <1>2

LEMMA AnswerHeld ==
  ASSUME Held(page, slots), NEW p \in Panel, slots[p].at # "idle", NEW code, NEW view,
         view.status \in RunStatus, NEW notes, Answer(p, code, view, notes)
  PROVE  Held(page, slots')
PROOF
<1> DEFINE t == Answers(slots[p], code, view, notes)
<1>1. slots' = [slots EXCEPT ![p] = t]
  BY DEF Answer, Answers
<1>2. IsSlot(slots[p]) /\ Asking(p, slots[p])
  BY DEF Held, AreSlots
<1>3. IsSlot(t) /\ t.at = "answered" /\ t.op = slots[p].op /\ t.view = view
  BY <1>2, SlotAnswered
<1> HIDE DEF t
<1>4. Asking(p, t)
  BY <1>2, <1>3 DEF Asking
<1> QED BY <1>1, <1>3, <1>4, SlotSet

\* A slot goes on to another stage.
LEMMA StageHeld ==
  ASSUME Held(page, slots), NEW p \in Panel, slots[p].at # "idle", NEW at, at # "idle", NEW notes,
         slots' = [slots EXCEPT ![p] = [@ EXCEPT !.at = at, !.notes = notes]]
  PROVE  Held(page, slots')
PROOF
<1>1. PICK a : a = [slots[p] EXCEPT !.at = at]
  OBVIOUS
<1>2. PICK b : b = [a EXCEPT !.notes = notes]
  OBVIOUS
<1>3. IsSlot(slots[p]) /\ Asking(p, slots[p])
  BY DEF Held, AreSlots
<1>4. IsSlot(a) /\ a.at = at /\ a.op = slots[p].op /\ a.view = slots[p].view
  BY <1>1, <1>3 DEF IsSlot
<1>5. IsSlot(b) /\ b.at = at /\ b.op = slots[p].op /\ b.view = slots[p].view
  BY <1>2, <1>4 DEF IsSlot
<1>7. slots' = [slots EXCEPT ![p] = b]
  BY <1>1, <1>2
<1>8. Asking(p, b)
  BY <1>3, <1>5 DEF Asking
<1>9. p = "analysis" => b.view.status \in RunStatus
  BY <1>5 DEF Held
<1>10. b.at = "idle" <=> slots[p].at = "idle"
  BY <1>5
<1>11. IsSlot(b)
  BY <1>5
<1>12. Held(page, [slots EXCEPT ![p] = b])
  <2> HIDE DEF IsSlot
  <2> QED BY <1>8, <1>9, <1>10, <1>11, SlotSet
<1> QED BY <1>7, <1>12

LEMMA MovedHeld ==
  ASSUME Held(page, slots), NEW p \in Panel, slots[p].at # "idle", NEW at, at # "idle",
         slots' = [slots EXCEPT ![p].at = at]
  PROVE  Held(page, slots')
PROOF
<1>1. PICK b : b = [slots[p] EXCEPT !.at = at]
  OBVIOUS
<1>2. IsSlot(slots[p]) /\ Asking(p, slots[p])
  BY DEF Held, AreSlots
<1>3. IsSlot(b) /\ b.at = at /\ b.op = slots[p].op /\ b.view = slots[p].view
  BY <1>1, <1>2 DEF IsSlot
<1>4. slots' = [slots EXCEPT ![p] = b]
  BY <1>1
<1>5. IsSlot(b) /\ Asking(p, b) /\ b.at # "idle"
  BY <1>2, <1>3 DEF Asking
<1>6. p = "analysis" => b.view.status \in RunStatus /\ (b.at = "idle" <=> slots[p].at = "idle")
  BY <1>3 DEF Held
<1>7. Held(page, [slots EXCEPT ![p] = b])
  BY <1>5, <1>6, SlotSet
<1> QED BY <1>4, <1>7

\* A panel of the page asks.
LEMMA ClicksHeld ==
  ASSUME HookInv, \/ Reanalyze \/ SaveSources \/ Decide \/ Confirm \/ Complete
                  \/ Draft \/ CloseDraft \/ Explain
  PROVE  Held(page', slots') /\ UNCHANGED latest
PROOF
<1> USE DEF HookInv
<1>1. ASSUME Reanalyze PROVE Held(page', slots') /\ UNCHANGED latest
  BY <1>1, AnalyzeHeld DEF Reanalyze, server
<1>2. ASSUME SaveSources PROVE Held(page', slots') /\ UNCHANGED latest
  <2>1. PICK p \in Form, op \in Changing : Click(p, op)
    BY <1>2 DEF SaveSources, Form
  <2>2. Held(page, slots')
    BY <2>1, ClickHeld, FormNames
  <2>3. page' = [page EXCEPT !.conflict = FALSE]
    BY <1>2 DEF SaveSources
  <2>4. IsPage(page') /\ page'.phase = page.phase /\ page'.locked = page.locked
    BY <2>3 DEF Held, IsPage
  <2> QED BY <2>1, <2>2, <2>4, PageSet DEF Click, server
<1>3. ASSUME NEW p \in Panel, p # "analysis", NEW op \in OpsOf[p], Click(p, op), UNCHANGED page
      PROVE  Held(page', slots') /\ UNCHANGED latest
  BY <1>3, ClickHeld DEF Click, server
<1>4. ASSUME Decide \/ Complete \/ Draft \/ Explain
      PROVE  \E p \in Panel \ {"analysis"} : \E op \in OpsOf[p] : Click(p, op) /\ UNCHANGED page
  BY <1>4, PanelNames DEF Decide, Complete, Draft, Explain
<1>5. ASSUME Confirm \/ CloseDraft PROVE Held(page', slots') /\ UNCHANGED latest
  <2>1. \/ \E b : page' = [page EXCEPT !.confirming = b]
        \/ page' = [page EXCEPT !.draft = page.view.draft]
    BY <1>5 DEF Confirm, CloseDraft
  <2>2. IsPage(page') /\ page'.phase = page.phase /\ page'.locked = page.locked
    BY <2>1 DEF Held, IsPage
  <2>3. UNCHANGED <<server, slots>>
    BY <1>5 DEF Confirm, CloseDraft
  <2> QED BY <2>2, <2>3, PageSet DEF server
<1> QED BY <1>1, <1>2, <1>3, <1>4, <1>5

\* A request is performed or refused.
LEMMA ServeHeld ==
  ASSUME HookInv, NEW p \in Panel, Serve(p)
  PROVE  HookInv'
PROOF
<1> USE DEF HookInv
<1>1. PICK q \in Sent(slots[p].op, slots[p].shown, slots[p].draft) :
        IF Problem(q) = "OK"
        THEN /\ Perform(q, Page)
             /\ slots' = [slots EXCEPT
                  ![p].at = IF q.op \in {"generate", "risk"} THEN "asking" ELSE "performed",
                  ![p].notes = IF q.op = "risk" THEN AskedNotes ELSE NoBriefing]
        ELSE UNCHANGED server /\ Answer(p, Problem(q), NoView, NoBriefing)
  BY DEF Serve
<1>2. slots[p].at = "sent" /\ page' = page
  BY DEF Serve
<1>3. CASE Problem(q) = "OK"
  <2>1. PICK at : at = IF q.op \in {"generate", "risk"} THEN "asking" ELSE "performed"
    OBVIOUS
  <2>2. PICK notes : notes = IF q.op = "risk" THEN AskedNotes ELSE NoBriefing
    OBVIOUS
  <2>3. slots' = [slots EXCEPT ![p].at = at, ![p].notes = notes]
    BY <1>1, <1>3, <2>1, <2>2
  <2>4. slots' = [slots EXCEPT ![p] = [@ EXCEPT !.at = at, !.notes = notes]]
    BY <2>3 DEF Held, AreSlots
  <2>5. Held(page, slots')
    BY <1>2, <2>1, <2>4, StageHeld
  <2>6. LatestInv'
    BY <1>1, <1>3, PerformLatest
  <2> QED BY <1>2, <2>5, <2>6 DEF Held
<1>4. CASE Problem(q) # "OK"
  <2>1. UNCHANGED server /\ Answer(p, Problem(q), NoView, NoBriefing)
    BY <1>1, <1>4
  <2>2. NoView.status \in RunStatus
    BY DEF NoView, RunStatus
  <2>3. Held(page, slots')
    BY <1>2, <2>1, <2>2, AnswerHeld
  <2>4. LatestInv'
    BY <2>1, LatestStep DEF server
  <2> QED BY <1>2, <2>3, <2>4 DEF Held
<1> QED BY <1>3, <1>4

\* Answers come, from the task or from Gemini.
LEMMA AnsweredHeld ==
  ASSUME HookInv, \/ \E p \in Panel : Detail(p)
                  \/ DraftAnswered \/ BriefingAnswered
  PROVE  Held(page', slots') /\ LatestInv'
PROOF
<1> USE DEF HookInv
<1>1. NoView.status \in RunStatus
  BY DEF NoView, RunStatus
<1>2. ASSUME NEW p \in Panel, Detail(p) PROVE Held(page', slots') /\ LatestInv'
  <2>1. Answer(p, "OK", Snapshot, NoBriefing) /\ slots[p].at # "idle" /\ UNCHANGED <<server, page>>
    BY <1>2 DEF Detail
  <2>2. Held(page, slots')
    BY <2>1, AnswerHeld, Snapped
  <2> QED BY <2>1, <2>2, LatestStep DEF server
<1>3. ASSUME DraftAnswered PROVE Held(page', slots') /\ LatestInv'
  <2>1. slots["email"].at = "asking" /\ page' = page
    BY <1>3 DEF DraftAnswered
  <2>2. CASE Desk(SaveDraft(Page)) /\ slots' = [slots EXCEPT !["email"].at = "performed"]
    <3>1. Held(page, slots')
      BY <2>1, <2>2, MovedHeld, PanelNames
    <3>2. LatestInv'
      BY <2>2, LatestStep DEF Desk
    <3> QED BY <2>1, <3>1, <3>2
  <2>3. CASE /\ Desk(GiveUpDraft(Page))
             /\ \E code \in {"AI_INVALID_RESPONSE", "stale_amendment"} :
                  Answer("email", code, NoView, NoBriefing)
    <3>1. PICK code : Answer("email", code, NoView, NoBriefing)
      BY <2>3
    <3>2. Held(page, slots')
      BY <2>1, <3>1, <1>1, AnswerHeld, PanelNames
    <3>3. LatestInv'
      BY <2>3, LatestStep DEF Desk
    <3> QED BY <2>1, <3>2, <3>3
  <2> QED BY <1>3, <2>2, <2>3 DEF DraftAnswered
<1>4. ASSUME BriefingAnswered PROVE Held(page', slots') /\ LatestInv'
  <2>1. slots["risk"].at = "asking" /\ UNCHANGED <<server, page>>
    BY <1>4 DEF BriefingAnswered
  <2>2. \E code, notes : Answer("risk", code, NoView, notes)
    BY <1>4 DEF BriefingAnswered
  <2>3. Held(page, slots')
    BY <2>1, <2>2, <1>1, AnswerHeld, PanelNames
  <2> QED BY <2>1, <2>3, LatestStep DEF server
<1> QED BY <1>2, <1>3, <1>4

\* The page takes the answers of its panels.
LEMMA ClosedIs ==
  ASSUME NEW pg, IsPage(pg), NEW p
  PROVE  Closed(p, pg) = [view |-> pg.view, opened |-> pg.opened, follows |-> pg.follows,
                          phase |-> pg.phase, locked |-> pg.locked, pending |-> pg.pending,
                          conflict |-> pg.conflict, briefing |-> pg.briefing,
                          draft |-> pg.draft, confirming |-> (pg.confirming /\ p # "complete")]
PROOF
<1>1. PICK b : b = (pg.confirming /\ p # "complete")
  OBVIOUS
<1>2. Closed(p, pg) = [pg EXCEPT !.confirming = b]
  BY <1>1 DEF Closed
<1>3. Closed(p, pg) = [view |-> pg.view, opened |-> pg.opened, follows |-> pg.follows,
                       phase |-> pg.phase, locked |-> pg.locked, pending |-> pg.pending,
                       conflict |-> pg.conflict, briefing |-> pg.briefing,
                       draft |-> pg.draft, confirming |-> b]
  BY <1>2 DEF IsPage
<1> QED BY <1>1, <1>3

LEMMA ClosedHeld ==
  ASSUME NEW ss, NEW pg, Held(pg, ss), NEW p
  PROVE  Held(Closed(p, pg), ss)
PROOF
<1>1. IsPage(pg)
  BY DEF Held
<1>2. /\ IsPage(Closed(p, pg)) /\ Closed(p, pg).phase = pg.phase
      /\ Closed(p, pg).locked = pg.locked
  BY <1>1, ClosedIs DEF IsPage
<1> QED BY <1>2, PageSet

LEMMA ReplaceHeld ==
  ASSUME NEW view, NEW ss, NEW pg, Held(pg, ss), NEW p \in Panel, p # "analysis",
         NEW new, new = [Show(pg, view) EXCEPT !.pending = NoView]
  PROVE  Held(new, [Rebuilt(ss, view) EXCEPT ![p] = Idle])
PROOF
<1>1. Held(pg, [Rebuilt(ss, view) EXCEPT ![p] = Idle])
  BY RebuiltHeld, SlotFreed
<1>2. IsPage(Show(pg, view)) /\ Show(pg, view).phase = pg.phase
      /\ Show(pg, view).locked = pg.locked
  BY ShowKeeps DEF Held
<1>3. IsPage(new) /\ new.phase = pg.phase /\ new.locked = pg.locked
  BY <1>2 DEF IsPage
<1> QED BY <1>1, <1>3, PageSet

LEMMA ReceivesHeld ==
  ASSUME HookInv, \/ \E p \in Deciding : ReceiveDecision(p)
                  \/ ReceiveDraft \/ ReceiveBriefing
                  \/ \E p \in Form : ReceiveSources(p)
  PROVE  Held(page', slots') /\ UNCHANGED latest
PROOF
<1> USE DEF HookInv
<1>1. ASSUME NEW p \in Panel, p # "analysis", slots' = [slots EXCEPT ![p] = Idle],
             IsPage(page'), page'.phase = page.phase, page'.locked = page.locked
      PROVE  Held(page', slots')
  BY <1>1, SlotFreed, PageSet
<1>2. ASSUME NEW p \in Deciding, ReceiveDecision(p)
      PROVE  Held(page', slots') /\ UNCHANGED latest
  <2>1. Held(Closed(p, page), slots) /\ p \in Panel /\ p # "analysis" /\ UNCHANGED latest
    BY <1>2, ClosedHeld, DecidingNames DEF ReceiveDecision, server
  <2>2. CASE slots[p].code = "OK"
    BY <1>2, <2>1, <2>2, ReplaceHeld DEF ReceiveDecision, Replace
  <2>3. CASE slots[p].code # "OK"
    BY <1>2, <2>1, <2>3, SlotFreed DEF ReceiveDecision
  <2> QED BY <2>1, <2>2, <2>3
<1>3. ASSUME ReceiveDraft PROVE Held(page', slots') /\ UNCHANGED latest
  <2>1. CASE slots["email"].code # "OK"
    BY <1>3, <2>1, SlotFreed, PanelNames DEF ReceiveDraft, server
  <2>2. CASE slots["email"].code = "OK" /\ slots["email"].view.draft = 0
    <3>1. /\ page' = [page EXCEPT !.draft = 0] /\ slots' = [slots EXCEPT !["email"] = Idle]
          /\ UNCHANGED server
      BY <1>3, <2>2 DEF ReceiveDraft
    <3>2. IsPage(page') /\ page'.phase = page.phase /\ page'.locked = page.locked
      BY <3>1 DEF Held, IsPage
    <3> QED BY <3>1, <3>2, <1>1, PanelNames DEF server
  <2>3. CASE slots["email"].code = "OK" /\ slots["email"].view.draft # 0
    <3>1. PICK view : view = slots["email"].view
      OBVIOUS
    <3>2. PICK mid : mid = [Show(page, view) EXCEPT !.pending = NoView]
      OBVIOUS
    <3>3. /\ page' = [mid EXCEPT !.draft = view.draft]
          /\ slots' = [Rebuilt(slots, view) EXCEPT !["email"] = Idle]
          /\ UNCHANGED server
      BY <1>3, <2>3, <3>1, <3>2 DEF ReceiveDraft
    <3>4. Held(mid, slots')
      BY <3>2, <3>3, ReplaceHeld, PanelNames
    <3>5. IsPage(page') /\ page'.phase = mid.phase /\ page'.locked = mid.locked
      BY <3>3, <3>4 DEF Held, IsPage
    <3> QED BY <3>3, <3>4, <3>5, PageSet DEF server
  <2> QED BY <2>1, <2>2, <2>3
<1>4. ASSUME ReceiveBriefing PROVE Held(page', slots') /\ UNCHANGED latest
  <2>1. PICK notes : page' = IF slots["risk"].code = "OK" THEN [page EXCEPT !.briefing = notes]
                             ELSE page
    BY <1>4 DEF ReceiveBriefing
  <2>2. IsPage(page') /\ page'.phase = page.phase /\ page'.locked = page.locked
    BY <2>1 DEF Held, IsPage
  <2> QED BY <1>4, <1>1, <2>2, PanelNames DEF ReceiveBriefing, server
<1>5. ASSUME NEW p \in Form, ReceiveSources(p) PROVE Held(page', slots') /\ UNCHANGED latest
  <2>1. Held(page, [slots EXCEPT ![p] = Idle])
    BY SlotFreed, FormNames
  <2>2. CASE slots[p].code = "OK"
    BY <1>5, <2>1, <2>2, AnalyzeHeld DEF ReceiveSources, server
  <2>3. CASE slots[p].code # "OK"
    <3>1. PICK conflict : page' = [page EXCEPT !.conflict = conflict]
      BY <1>5, <2>3 DEF ReceiveSources
    <3>2. IsPage(page') /\ page'.phase = page.phase /\ page'.locked = page.locked
      BY <3>1 DEF Held, IsPage
    <3> QED BY <1>5, <2>3, <1>1, <3>2, FormNames DEF ReceiveSources, server
  <2> QED BY <2>2, <2>3
<1> QED BY <1>2, <1>3, <1>4, <1>5

\* What the hook does with the answer to its own request.
LEMMA HookRuns ==
  ASSUME NEW at, at # "idle"
  PROVE  LET s == [Idle EXCEPT !.at = at]
         IN IsSlot(s) /\ s.at # "idle" /\ s.op \in OpsOf["analysis"] /\ s.view.status \in RunStatus
PROOF
<1>1. PICK s : s = [Idle EXCEPT !.at = at]
  OBVIOUS
<1>2. IsSlot(s) /\ s.at = at /\ s.op = Idle.op /\ s.view = Idle.view
  BY <1>1, SlotIdle DEF IsSlot
<1>3. Idle.op = "detail"
  BY DEF Idle
<1> QED BY <1>1, <1>2, <1>3, SlotIdle, PanelNames

LEMMA PollHeld ==
  ASSUME HookInv, Poll
  PROVE  Held(page', slots') /\ UNCHANGED latest
PROOF
<1>1. page.phase = "running" /\ page.locked = TRUE /\ IsPage(page) /\ Held(page, slots)
  BY PanelNames DEF HookInv, Held, Poll
<1>2. slots' = [slots EXCEPT !["analysis"] = [Idle EXCEPT !.at = "sent"]] /\ UNCHANGED <<server, page>>
  BY DEF Poll
<1>3. Held(page, slots')
  <2>1. PICK s : s = [Idle EXCEPT !.at = "sent"]
    OBVIOUS
  <2>2. /\ IsSlot(s) /\ s.at # "idle" /\ s.op \in OpsOf["analysis"]
        /\ s.view.status \in RunStatus
    BY <2>1, HookRuns
  <2> QED BY <1>1, <1>2, <2>1, <2>2, HookBusy
<1> QED BY <1>2, <1>3 DEF server

LEMMA ReceiveAnalysisHeld ==
  ASSUME HookInv, ReceiveAnalysis
  PROVE  Held(page', slots') /\ UNCHANGED latest
PROOF
<1> DEFINE view == slots["analysis"].view
           again == Rebuilt(slots, view)
           shown == Show(page, view)
<1>1. page.phase = "running" /\ page.locked = TRUE /\ IsPage(page) /\ Held(page, slots)
  BY PanelNames DEF HookInv, Held, ReceiveAnalysis, Answered
<1>2. Held(page, again) /\ IsPage(shown) /\ shown.phase = "running" /\ shown.locked = TRUE
  BY <1>1, RebuiltHeld, ShowKeeps
<1>3. UNCHANGED latest
  BY DEF ReceiveAnalysis, server
<1>4. view.status \in RunStatus
  BY <1>1 DEF Held
<1>5. CASE slots["analysis"].code # "OK"
  <2>1. /\ page' = [page EXCEPT !.phase = "failed", !.locked = FALSE]
        /\ slots' = [slots EXCEPT !["analysis"] = Idle]
    BY <1>5 DEF ReceiveAnalysis
  <2>2. IsPage(page') /\ page'.phase = "failed" /\ page'.locked = FALSE
    BY <1>1, <2>1 DEF IsPage
  <2> QED BY <1>1, <1>3, <2>1, <2>2, HookFreed
<1>6. CASE slots["analysis"].code = "OK" /\ view.status = "RUNNING"
  <2>1. PICK s : s = [Idle EXCEPT !.at = "waiting"]
    OBVIOUS
  <2>2. /\ IsSlot(s) /\ s.at # "idle" /\ s.op \in OpsOf["analysis"]
        /\ s.view.status \in RunStatus
    BY <2>1, HookRuns
  <2>3. page' = shown /\ slots' = [[again EXCEPT !["analysis"] = Idle] EXCEPT !["analysis"].at = "waiting"]
    BY <1>6 DEF ReceiveAnalysis
  <2> HIDE DEF view, again, shown
  <2>4. slots' = [again EXCEPT !["analysis"] = s]
    BY <2>1, <2>3, <1>2, PanelNames DEF Held, AreSlots
  <2>5. Held(shown, [again EXCEPT !["analysis"] = s])
    BY <1>2, <2>2, HookBusy
  <2> QED BY <1>3, <2>3, <2>4, <2>5
<1>7. CASE slots["analysis"].code = "OK" /\ view.status \in {"NONE", "FAILED"}
  <2>1. /\ page' = [shown EXCEPT !.phase = "failed", !.locked = FALSE]
        /\ slots' = [again EXCEPT !["analysis"] = Idle]
    BY <1>7 DEF ReceiveAnalysis
  <2> HIDE DEF view, again, shown
  <2>2. IsPage(page') /\ page'.phase = "failed" /\ page'.locked = FALSE
    BY <1>2, <2>1 DEF IsPage
  <2> QED BY <1>2, <1>3, <2>1, <2>2, HookFreed
<1>8. CASE slots["analysis"].code = "OK" /\ view.status = "SUCCEEDED"
  <2>1. /\ page' = [page EXCEPT !.phase = "preparing", !.pending = view]
        /\ slots' = [slots EXCEPT !["analysis"] = Idle]
    BY <1>8 DEF ReceiveAnalysis
  <2> HIDE DEF view, again, shown
  <2>2. IsPage(page') /\ page'.phase = "preparing" /\ page'.locked = TRUE
    BY <1>1, <2>1 DEF IsPage
  <2> QED BY <1>1, <1>3, <2>1, <2>2, HookFreed
<1> QED BY <1>4, <1>5, <1>6, <1>7, <1>8 DEF RunStatus

LEMMA RevealHeld ==
  ASSUME HookInv, Reveal
  PROVE  Held(page', slots') /\ UNCHANGED latest
PROOF
<1>1. PICK view : view = page.pending
  OBVIOUS
<1>2. Held(page, Rebuilt(slots, view)) /\ IsPage(Show(page, view))
  BY RebuiltHeld, ShowKeeps DEF HookInv, Held
<1>3. page.phase = "preparing"
  BY DEF Reveal
<1>4. PICK shown : shown = Show(page, view)
  OBVIOUS
<1>5. PICK mid : mid = [shown EXCEPT !.pending = NoView]
  OBVIOUS
<1>6. PICK free : free = [mid EXCEPT !.locked = FALSE]
  OBVIOUS
<1>7. page' = [free EXCEPT !.phase = "revealed"] /\ slots' = Rebuilt(slots, view)
  BY <1>1, <1>4, <1>5, <1>6 DEF Reveal
<1>8. IsPage(mid)
  BY <1>2, <1>4, <1>5 DEF IsPage
<1>9. IsPage(free) /\ free.locked = FALSE
  BY <1>6, <1>8 DEF IsPage
<1>10. IsPage(page') /\ page'.locked = FALSE /\ page'.phase = "revealed"
  BY <1>7, <1>9 DEF IsPage
<1>11. Held(page', slots')
  BY <1>2, <1>3, <1>7, <1>10 DEF Held
<1> QED BY <1>11 DEF Reveal, server

LEMMA LostHeld ==
  ASSUME HookInv, NEW p \in Panel, Lost(p)
  PROVE  Held(page', slots') /\ UNCHANGED latest
PROOF
<1>1. CASE p = "analysis"
  <2>1. IsPage(page) /\ Held(page, slots)
    BY DEF HookInv, Held
  <2>2. /\ page' = [page EXCEPT !.phase = "failed", !.locked = FALSE]
        /\ slots' = [slots EXCEPT !["analysis"] = Idle]
    BY <1>1 DEF Lost
  <2>3. IsPage(page') /\ page'.phase = "failed" /\ page'.locked = FALSE
    BY <2>1, <2>2 DEF IsPage
  <2>4. Held(page', [slots EXCEPT !["analysis"] = Idle])
    BY <2>1, <2>3, HookFreed
  <2>5. UNCHANGED latest
    BY DEF Lost, server
  <2> QED BY <2>2, <2>4, <2>5
<1>2. CASE p # "analysis"
  BY <1>2, SlotFreed, ClosedHeld DEF Lost, server, HookInv
<1> QED BY <1>1, <1>2
-----------------------------------------------------------------------------
LEMMA HookStep ==
  ASSUME HookInv, PageNext \/ UNCHANGED allVars
  PROVE  HookInv'
PROOF
<1>1. ASSUME Held(page', slots') /\ LatestInv' PROVE HookInv'
  BY <1>1 DEF HookInv, Held
<1>2. ASSUME Held(page', slots') /\ UNCHANGED latest PROVE HookInv'
  BY <1>1, <1>2, LatestStep DEF HookInv
<1>3. ASSUME UNCHANGED <<page, slots>>, LatestInv' PROVE HookInv'
  BY <1>1, <1>3 DEF HookInv
<1>4. ASSUME \/ Reanalyze \/ SaveSources \/ Decide \/ Confirm \/ Complete
             \/ Draft \/ CloseDraft \/ Explain
      PROVE  HookInv'
  BY <1>2, <1>4, ClicksHeld
<1>5. ASSUME NEW p \in Panel, Serve(p) PROVE HookInv'
  BY <1>5, ServeHeld
<1>6. ASSUME (\E p \in Panel : Detail(p)) \/ DraftAnswered \/ BriefingAnswered PROVE HookInv'
  BY <1>1, <1>6, AnsweredHeld
<1>7. ASSUME NEW p \in Panel, Lost(p) PROVE HookInv'
  BY <1>2, <1>7, LostHeld
<1>8. ASSUME \/ \E p \in Deciding : ReceiveDecision(p)
             \/ ReceiveDraft \/ ReceiveBriefing
             \/ \E p \in Form : ReceiveSources(p)
      PROVE  HookInv'
  BY <1>2, <1>8, ReceivesHeld
<1>9. ASSUME ReceiveAnalysis \/ Poll \/ Reveal PROVE HookInv'
  BY <1>2, <1>9, ReceiveAnalysisHeld, PollHeld, RevealHeld
<1>10. ASSUME LoadAgain \/ Leave PROVE HookInv'
  <2>1. PICK r : Load(r)
    BY <1>10 DEF LoadAgain, Leave
  <2> QED BY <1>2, <2>1, LoadHeld DEF Load, server
<1>11. ASSUME NEW stray, ServeStray(stray) \/ StrayFollows(stray) \/ StrayDropped(stray)
       PROVE  HookInv'
  <2>1. UNCHANGED <<page, slots>>
    BY <1>11 DEF ServeStray, StrayFollows, StrayDropped
  <2>2. LatestInv'
    <3>1. CASE ServeStray(stray)
      BY <3>1, PerformLatest DEF ServeStray, HookInv
    <3>2. CASE StrayFollows(stray) \/ StrayDropped(stray)
      BY <3>2, LatestStep DEF StrayFollows, StrayDropped, HookInv, server
    <3> QED BY <1>11, <3>1, <3>2
  <2> QED BY <1>3, <2>1, <2>2
<1>12. ASSUME DraftEnds PROVE HookInv'
  <2>1. latest' \in {latest, NoLatest} /\ UNCHANGED <<page, slots>>
    BY <1>12 DEF DraftEnds, Desk
  <2> QED BY <1>3, <2>1, LatestStep DEF HookInv
<1>13. ASSUME Rival PROVE HookInv'
  <2>1. UNCHANGED <<page, slots>>
    BY <1>13 DEF Rival
  <2>2. PICK q, c : Perform(q, c)
    BY <1>13 DEF Rival
  <2> QED BY <1>3, <2>1, <2>2, PerformLatest DEF HookInv
<1>14. ASSUME RunEnds \/ RunIsLate PROVE HookInv'
  BY <1>3, <1>14, LatestStep DEF RunEnds, RunIsLate, HookInv
<1>15. ASSUME UNCHANGED allVars PROVE HookInv'
  BY <1>2, <1>15 DEF HookInv, allVars
<1> QED BY <1>4, <1>5, <1>6, <1>7, <1>8, <1>9, <1>10, <1>11, <1>12, <1>13, <1>14, <1>15 DEF PageNext

\* The ref locked of useAnalysis, its phase and its one request agree, whatever
\* the other panels, the other client, late runs and lost answers do.
THEOREM LockHeld == PageSpec => []LockIsHeld
PROOF
<1>1. HookInv => LockIsHeld
  BY DEF HookInv, Held, LockIsHeld, Busy
<1> QED BY <1>1, HookStarts, HookStep, PTL DEF PageSpec
-----------------------------------------------------------------------------
\* A request that is not refused passed every check.
LEMMA AllPassed ==
  ASSUME NEW checks, NEW n \in Nat, DOMAIN checks = 1 .. n,
         \A i \in 1 .. n : checks[i][1] \in BOOLEAN /\ checks[i][2] # "OK",
         FirstFailure(checks) = "OK"
  PROVE  \A i \in 1 .. n : checks[i][1]
PROOF
<1> SUFFICES ASSUME NEW bad \in 1 .. n, ~checks[bad][1] PROVE FALSE
  OBVIOUS
<1> DEFINE failed == {i \in 1 .. n : ~checks[i][1]}
<1>1. PICK first \in failed : \A i \in failed : first <= i
  <2>1. failed # {} /\ failed \in SUBSET Nat
    OBVIOUS
  <2> HIDE DEF failed
  <2> QED BY <2>1, SmallestMember
<1>2. Broken(checks, first)
  BY <1>1 DEF Broken
<1>3. FirstFailure(checks) = checks[CHOOSE i \in DOMAIN checks : Broken(checks, i)][2]
  BY DEF FirstFailure
<1>4. (CHOOSE i \in DOMAIN checks : Broken(checks, i)) \in 1 .. n
  BY <1>1, <1>2
<1> QED BY <1>3, <1>4

LEMMA OnePasses ==
  ASSUME NEW b1 \in BOOLEAN, NEW c1, c1 # "OK",
         FirstFailure(<<<<b1, c1>>>>) = "OK"
  PROVE  b1
PROOF
<1> DEFINE checks == <<<<b1, c1>>>>
<1>1. /\ DOMAIN checks = 1 .. 1
      /\ checks[1][1] = b1 /\ checks[1][2] = c1
  OBVIOUS
<1>2. FirstFailure(checks) = "OK"
  OBVIOUS
<1> HIDE DEF checks
<1>3. \A i \in 1 .. 1 : checks[i][1] \in BOOLEAN /\ checks[i][2] # "OK"
  <2> SUFFICES ASSUME NEW i \in 1 .. 1 PROVE checks[i][1] \in BOOLEAN /\ checks[i][2] # "OK"
    OBVIOUS
  <2>1. i = 1
    OBVIOUS
  <2> QED BY <1>1, <2>1
<1>4. \A i \in 1 .. 1 : checks[i][1]
  BY <1>1, <1>2, <1>3, AllPassed
<1>5. 1 \in 1 .. 1
  OBVIOUS
<1> QED BY <1>1, <1>4, <1>5

LEMMA TwoPass ==
  ASSUME NEW b1 \in BOOLEAN, NEW c1, c1 # "OK",
         NEW b2 \in BOOLEAN, NEW c2, c2 # "OK",
         FirstFailure(<<<<b1, c1>>, <<b2, c2>>>>) = "OK"
  PROVE  b1 /\ b2
PROOF
<1> DEFINE checks == <<<<b1, c1>>, <<b2, c2>>>>
<1>1. /\ DOMAIN checks = 1 .. 2
      /\ checks[1][1] = b1 /\ checks[1][2] = c1
      /\ checks[2][1] = b2 /\ checks[2][2] = c2
  OBVIOUS
<1>2. FirstFailure(checks) = "OK"
  OBVIOUS
<1> HIDE DEF checks
<1>3. \A i \in 1 .. 2 : checks[i][1] \in BOOLEAN /\ checks[i][2] # "OK"
  <2> SUFFICES ASSUME NEW i \in 1 .. 2 PROVE checks[i][1] \in BOOLEAN /\ checks[i][2] # "OK"
    OBVIOUS
  <2>1. i = 1 \/ i = 2
    OBVIOUS
  <2> QED BY <1>1, <2>1
<1>4. \A i \in 1 .. 2 : checks[i][1]
  BY <1>1, <1>2, <1>3, AllPassed
<1>5. 1 \in 1 .. 2 /\ 2 \in 1 .. 2
  OBVIOUS
<1> QED BY <1>1, <1>4, <1>5

LEMMA ThreePass ==
  ASSUME NEW b1 \in BOOLEAN, NEW c1, c1 # "OK",
         NEW b2 \in BOOLEAN, NEW c2, c2 # "OK",
         NEW b3 \in BOOLEAN, NEW c3, c3 # "OK",
         FirstFailure(<<<<b1, c1>>, <<b2, c2>>, <<b3, c3>>>>) = "OK"
  PROVE  b1 /\ b2 /\ b3
PROOF
<1> DEFINE checks == <<<<b1, c1>>, <<b2, c2>>, <<b3, c3>>>>
<1>1. /\ DOMAIN checks = 1 .. 3
      /\ checks[1][1] = b1 /\ checks[1][2] = c1
      /\ checks[2][1] = b2 /\ checks[2][2] = c2
      /\ checks[3][1] = b3 /\ checks[3][2] = c3
  OBVIOUS
<1>2. FirstFailure(checks) = "OK"
  OBVIOUS
<1> HIDE DEF checks
<1>3. \A i \in 1 .. 3 : checks[i][1] \in BOOLEAN /\ checks[i][2] # "OK"
  <2> SUFFICES ASSUME NEW i \in 1 .. 3 PROVE checks[i][1] \in BOOLEAN /\ checks[i][2] # "OK"
    OBVIOUS
  <2>1. i = 1 \/ i = 2 \/ i = 3
    OBVIOUS
  <2> QED BY <1>1, <2>1
<1>4. \A i \in 1 .. 3 : checks[i][1]
  BY <1>1, <1>2, <1>3, AllPassed
<1>5. 1 \in 1 .. 3 /\ 2 \in 1 .. 3 /\ 3 \in 1 .. 3
  OBVIOUS
<1> QED BY <1>1, <1>4, <1>5

LEMMA FivePass ==
  ASSUME NEW b1 \in BOOLEAN, NEW c1, c1 # "OK",
         NEW b2 \in BOOLEAN, NEW c2, c2 # "OK",
         NEW b3 \in BOOLEAN, NEW c3, c3 # "OK",
         NEW b4 \in BOOLEAN, NEW c4, c4 # "OK",
         NEW b5 \in BOOLEAN, NEW c5, c5 # "OK",
         FirstFailure(<<<<b1, c1>>, <<b2, c2>>, <<b3, c3>>, <<b4, c4>>, <<b5, c5>>>>) = "OK"
  PROVE  b1 /\ b2 /\ b3 /\ b4 /\ b5
PROOF
<1> DEFINE checks == <<<<b1, c1>>, <<b2, c2>>, <<b3, c3>>, <<b4, c4>>, <<b5, c5>>>>
<1>1. /\ DOMAIN checks = 1 .. 5
      /\ checks[1][1] = b1 /\ checks[1][2] = c1
      /\ checks[2][1] = b2 /\ checks[2][2] = c2
      /\ checks[3][1] = b3 /\ checks[3][2] = c3
      /\ checks[4][1] = b4 /\ checks[4][2] = c4
      /\ checks[5][1] = b5 /\ checks[5][2] = c5
  OBVIOUS
<1>2. FirstFailure(checks) = "OK"
  OBVIOUS
<1> HIDE DEF checks
<1>3. \A i \in 1 .. 5 : checks[i][1] \in BOOLEAN /\ checks[i][2] # "OK"
  <2> SUFFICES ASSUME NEW i \in 1 .. 5 PROVE checks[i][1] \in BOOLEAN /\ checks[i][2] # "OK"
    OBVIOUS
  <2>1. i = 1 \/ i = 2 \/ i = 3 \/ i = 4 \/ i = 5
    OBVIOUS
  <2> QED BY <1>1, <2>1
<1>4. \A i \in 1 .. 5 : checks[i][1]
  BY <1>1, <1>2, <1>3, AllPassed
<1>5. 1 \in 1 .. 5 /\ 2 \in 1 .. 5 /\ 3 \in 1 .. 5 /\ 4 \in 1 .. 5 /\ 5 \in 1 .. 5
  OBVIOUS
<1> QED BY <1>1, <1>4, <1>5

\* A request that is no upload: what comes before its route.
LEMMA RevisionPasses ==
  ASSUME NEW q, q.op \notin Reads, q.op # "upload", Problem(q) = "OK"
  PROVE  /\ q.revision = task.revision /\ FirstFailure(Route(q)) = "OK"
         /\ ~Malformed(q)
PROOF
<1>1. FirstFailure(Before(q)) = "OK" /\ FirstFailure(Route(q)) = "OK"
  BY DEF Problem, Refusal
<1> DEFINE last == <<q.op \in Reads \/ q.revision = task.revision, "stale_revision">>
           received == Received(q)
           elements == {received[i] : i \in 1 .. 5} \cup {last}
<1>2. /\ received \in Seq(elements) /\ Len(received) = 5
      /\ \A i \in 1 .. 5 : received[i][1] \in BOOLEAN /\ received[i][2] # "OK"
  BY DEF Received
<1>3. Before(q) = (received \o <<>>) \o <<last>>
  BY DEF Before
<1>4. last \in elements /\ last[1] \in BOOLEAN /\ last[2] # "OK"
  OBVIOUS
<1>5. last[1] => q.revision = task.revision
  OBVIOUS
<1>12. received[2][1] => ~Malformed(q)
  BY DEF Received
<1> HIDE DEF last, received, elements
<1>6. Before(q) = received \o <<last>>
  BY <1>2, <1>3, ConcatEmptySeq
<1>7. <<last>> \in Seq(elements) /\ Len(<<last>>) = 1 /\ <<last>>[1] = last
  BY <1>4
<1>8. /\ Before(q) \in Seq(elements) /\ Len(Before(q)) = 6
      /\ \A i \in 1 .. 6 : Before(q)[i] = IF i <= 5 THEN received[i] ELSE <<last>>[i - 5]
  <2>1. /\ received \o <<last>> \in Seq(elements)
        /\ Len(received \o <<last>>) = Len(received) + Len(<<last>>)
        /\ \A i \in 1 .. Len(received) + Len(<<last>>) : (received \o <<last>>)[i] =
             IF i <= Len(received) THEN received[i] ELSE <<last>>[i - Len(received)]
    BY <1>2, <1>7, ConcatProperties
  <2>2. Len(received) = 5 /\ Len(<<last>>) = 1 /\ 5 + 1 = 6
    BY <1>2, <1>7
  <2> QED BY <1>6, <2>1, <2>2
<1>9. Before(q)[6] = last /\ DOMAIN Before(q) = 1 .. 6
  BY <1>7, <1>8
<1>10. \A i \in 1 .. 6 : Before(q)[i][1] \in BOOLEAN /\ Before(q)[i][2] # "OK"
  <2> SUFFICES ASSUME NEW i \in 1 .. 6
               PROVE  Before(q)[i][1] \in BOOLEAN /\ Before(q)[i][2] # "OK"
    OBVIOUS
  <2>1. CASE i = 6
    BY <1>4, <1>9, <2>1
  <2>2. CASE i \in 1 .. 5
    BY <1>2, <1>8, <2>2
  <2> QED BY <2>1, <2>2
<1>13. Before(q)[2] = received[2]
  BY <1>8
<1>11. Before(q)[6][1] /\ Before(q)[2][1]
  <2>1. 6 \in Nat /\ 6 \in 1 .. 6 /\ 2 \in 1 .. 6
    OBVIOUS
  <2>2. \A i \in 1 .. 6 : Before(q)[i][1]
    BY <1>1, <1>9, <1>10, <2>1, AllPassed
  <2> QED BY <2>1, <2>2
<1> QED BY <1>1, <1>5, <1>9, <1>11, <1>12, <1>13

Decisions == {"review", "complete", "generate", "update"}

\* A decision is accepted about the current analysis of the current revision.
LEMMA Accepted ==
  ASSUME NEW q, q.op \in Decisions, Problem(q) = "OK"
  PROVE  /\ q.revision = task.revision /\ q.run = task.current
         /\ q.op # "complete" => q.run \notin completions
PROOF
<1>1. q.revision = task.revision /\ FirstFailure(Route(q)) = "OK"
  BY RevisionPasses DEF Decisions, Reads
<1>2. IsCurrent(q.run) \in BOOLEAN /\ (IsCurrent(q.run) => q.run = task.current)
  BY DEF IsCurrent
<1>3. CASE q.op = "review"
  <2>1. FirstFailure(ReviewChecks(q)) = "OK"
    BY <1>1, <1>3 DEF Route
  <2>2. CASE ~IsCurrent(q.run)
    <3>1. ReviewChecks(q) = <<<<FALSE, "stale_review">>>>
      BY <2>2 DEF ReviewChecks
    <3> QED BY <2>1, <3>1, OnePasses
  <2>3. CASE IsCurrent(q.run)
    <3>1. PICK b1 \in BOOLEAN : b1 = (q.run \notin completions)
      OBVIOUS
    <3> DEFINE compared == Listed(runs[q.run].docs) \cap {task.pair["si"], task.pair["bl"]}
    <3> HIDE DEF compared
    <3> DEFINE b2 == q.act.doc \in compared
    <3>2. b2 \in BOOLEAN
      OBVIOUS
    <3> HIDE DEF b2
    <3>3. PICK b3 \in BOOLEAN : b3 =
            (\E field \in {field \in runs[q.run].result.fields : field.key = q.act.field},
                role \in {role \in Role :
                           [id |-> q.act.doc, role |-> role] \in Listed(runs[q.run].result.docs)} :
               Allowed(q.act.kind, field[role], q.act.doc, q.act.value))
      OBVIOUS
    <3>4. ReviewChecks(q) = <<<<b1, "completed_run_read_only">>, <<b2, "stale_review">>,
                              <<b3, "invalid_review">>>>
      BY <2>3, <3>1, <3>3 DEF ReviewChecks, compared, b2
    <3>5. b1
      BY <2>1, <3>2, <3>4, ThreePass
    <3> QED BY <1>1, <1>2, <2>3, <3>1, <3>5
  <2> QED BY <2>2, <2>3
<1>4. CASE q.op = "complete"
  <2>1. FirstFailure(CompletionChecks(q)) = "OK"
    BY <1>1, <1>4 DEF Route
  <2>2. PICK b1 \in BOOLEAN : b1 = IsCurrent(q.run)
    BY <1>2
  <2>3. \E b2 \in BOOLEAN :
          CompletionChecks(q) = <<<<b1, "stale_completion">>, <<b2, "completion_blocked">>>>
    BY <2>2 DEF CompletionChecks
  <2>4. b1
    BY <2>1, <2>3, TwoPass
  <2> QED BY <1>1, <1>2, <1>4, <2>2, <2>4
<1>5. CASE q.op \in {"generate", "update"}
  <2>1. FirstFailure(AmendmentChecks(q)) = "OK"
    BY <1>1, <1>5 DEF Route
  <2>2. PICK b1 \in BOOLEAN : b1 = IsCurrent(q.run)
    BY <1>2
  <2>3. PICK b2 \in BOOLEAN : b2 = (q.run \notin completions)
    OBVIOUS
  <2>4. \E b3, b4, b5 \in BOOLEAN :
          AmendmentChecks(q) =
            <<<<b1, "stale_amendment">>, <<b2, "completed_run_read_only">>,
              <<b3, "amendment_not_available">>, <<b4, "no_actionable_items">>,
              <<b5, "stale_amendment">>>>
    BY <2>2, <2>3 DEF AmendmentChecks, IssueChecks
  <2>5. b1 /\ b2
    BY <2>1, <2>4, FivePass
  <2> QED BY <1>1, <1>2, <2>2, <2>3, <2>5
<1> QED BY <1>3, <1>4, <1>5 DEF Decisions

\* A request names what its page showed at the click.
LEMMA SentIsAbout ==
  ASSUME NEW op, NEW shown, NEW held, NEW q \in Sent(op, shown, held)
  PROVE  q.op = op /\ q.revision = shown.revision /\ q.run = shown.run
PROOF
<1>1. PICK plain : plain = Plain(op, shown, held)
  OBVIOUS
<1>2. /\ plain.op = op /\ plain.revision = shown.revision /\ plain.run = shown.run
      /\ plain = [op |-> plain.op, to |-> plain.to, origin |-> plain.origin,
                  flaws |-> plain.flaws, grounds |-> plain.grounds,
                  revision |-> plain.revision, run |-> plain.run, draft |-> plain.draft,
                  pair |-> plain.pair, role |-> plain.role, act |-> plain.act]
  BY <1>1 DEF Plain
<1>3. CASE op = "review"
  <2>1. \E act, grounds : q = [plain EXCEPT !.act = act, !.grounds = grounds]
    BY <1>1, <1>3 DEF Sent
  <2> QED BY <1>2, <2>1
<1>4. CASE op = "pair"
  <2>1. \E pair : q = [plain EXCEPT !.pair = pair]
    BY <1>1, <1>4 DEF Sent
  <2> QED BY <1>2, <2>1
<1>5. CASE op = "upload"
  <2>1. \E role : q = [plain EXCEPT !.role = role]
    BY <1>1, <1>5 DEF Sent
  <2> QED BY <1>2, <2>1
<1>6. CASE op \notin {"review", "pair", "upload"}
  <2>1. q = plain
    BY <1>1, <1>6 DEF Sent
  <2> QED BY <1>2, <2>1
<1> QED BY <1>3, <1>4, <1>5, <1>6

\* A decision is recorded with the current analysis and leaves the others alone.
LEMMA DecisionIsLocal ==
  ASSUME DOMAIN reviews = Runs, NEW q, q.op \in Decisions, NEW client, Perform(q, client)
  PROVE  \A r \in Runs \ {task.current} :
           reviews'[r] = reviews[r] /\ (r \in completions' <=> r \in completions)
PROOF
<1>1. CASE q.op = "review"
  <2>1. RecordReview(q.act.doc, q.act.field, q.act.kind, q.act.value)
    BY <1>1 DEF Perform, Desk, Reads
  <2>2. PICK events : reviews' = [reviews EXCEPT ![task.current] = events]
    BY <2>1 DEF RecordReview
  <2>3. completions' = completions
    BY <2>1 DEF RecordReview
  <2> QED BY <2>2, <2>3
<1>2. CASE q.op = "complete"
  <2>1. Unchanged \/ RecordCompletion
    BY <1>2 DEF Perform, Desk, Reads
  <2> QED BY <2>1 DEF Unchanged, vars, RecordCompletion
<1>3. CASE q.op \in {"generate", "update"}
  <2>1. AskDraft(client) \/ UpdateDraft
    BY <1>3 DEF Perform, Desk, Reads
  <2> QED BY <2>1 DEF AskDraft, UpdateDraft
<1> QED BY <1>1, <1>2, <1>3 DEF Decisions

\* The events are those of the runs, whatever is served.
EventsOfRuns == DOMAIN reviews = Runs

LEMMA PerformEvents ==
  ASSUME EventsOfRuns, NEW q, NEW client, Perform(q, client)
  PROVE  EventsOfRuns'
PROOF
<1>1. ASSUME UNCHANGED reviews PROVE EventsOfRuns'
  BY <1>1 DEF EventsOfRuns
<1>2. ASSUME NEW d, NEW f, NEW kind, NEW value, RecordReview(d, f, kind, value)
      PROVE  EventsOfRuns'
  BY <1>2 DEF RecordReview, EventsOfRuns
<1>3. CASE q.op = "analyze" /\ StartRun
  BY <1>1, <1>3 DEF StartRun, vars
<1>4. CASE q.op = "pair" /\ IF task.selected /\ q.pair = task.pair THEN Unchanged
                             ELSE Desk(SelectPair(q.pair))
  BY <1>1, <1>4 DEF Unchanged, vars, Desk, SelectPair, Advance
<1>5. CASE q.op = "upload" /\ \E d \in Docs : Desk(ReplaceDocument(q.role, d))
  BY <1>1, <1>5 DEF Desk, ReplaceDocument, Advance
<1>6. CASE /\ q.op = "review"
           /\ Desk(RecordReview(q.act.doc, q.act.field, q.act.kind, q.act.value))
  BY <1>2, <1>6 DEF Desk
<1>7. CASE q.op = "complete" /\ IF q.run \in completions THEN Unchanged
                                 ELSE Desk(RecordCompletion)
  BY <1>1, <1>7 DEF Unchanged, vars, Desk, RecordCompletion
<1>8. CASE \/ q.op = "generate" /\ Desk(AskDraft(client))
           \/ q.op = "update" /\ Desk(UpdateDraft)
  BY <1>1, <1>8 DEF Desk, AskDraft, UpdateDraft
<1>9. CASE q.op \in Reads \cup {"risk"} /\ Unchanged
  BY <1>1, <1>9 DEF Unchanged, vars
<1> QED BY <1>3, <1>4, <1>5, <1>6, <1>7, <1>8, <1>9 DEF Perform

LEMMA EventsStep ==
  ASSUME EventsOfRuns, PageNext \/ UNCHANGED allVars
  PROVE  EventsOfRuns'
PROOF
<1>1. ASSUME UNCHANGED reviews PROVE EventsOfRuns'
  BY <1>1 DEF EventsOfRuns
<1>2. ASSUME UNCHANGED server PROVE EventsOfRuns'
  BY <1>1, <1>2 DEF server, vars
<1>3. ASSUME \/ Reanalyze \/ SaveSources \/ Decide \/ Confirm \/ Complete
             \/ Draft \/ CloseDraft \/ Explain
      PROVE  EventsOfRuns'
  BY <1>2, <1>3
     DEF Reanalyze, SaveSources, Decide, Confirm, Complete, Draft, CloseDraft, Explain, Click
<1>4. ASSUME NEW p \in Panel, Serve(p) PROVE EventsOfRuns'
  <2>1. UNCHANGED server \/ \E q : Perform(q, Page)
    BY <1>4 DEF Serve
  <2> QED BY <1>2, <2>1, PerformEvents
<1>5. ASSUME NEW p \in Panel, Detail(p) \/ Lost(p) PROVE EventsOfRuns'
  BY <1>2, <1>5 DEF Detail, Lost
<1>6. ASSUME NEW c, Desk(SaveDraft(c)) \/ Desk(GiveUpDraft(c)) PROVE EventsOfRuns'
  BY <1>1, <1>6 DEF Desk, SaveDraft, GiveUpDraft
<1>7. ASSUME DraftAnswered \/ DraftEnds PROVE EventsOfRuns'
  BY <1>6, <1>7 DEF DraftAnswered, DraftEnds
<1>8. ASSUME \/ BriefingAnswered \/ \E p \in Deciding : ReceiveDecision(p)
             \/ ReceiveDraft \/ ReceiveBriefing
             \/ \E p \in Form : ReceiveSources(p)
             \/ ReceiveAnalysis
             \/ Poll \/ Reveal
      PROVE  EventsOfRuns'
  BY <1>2, <1>8 DEF BriefingAnswered, ReceiveDecision, ReceiveDraft, ReceiveBriefing,
                    ReceiveSources, ReceiveAnalysis, Poll, Reveal
<1>9. ASSUME LoadAgain \/ Leave PROVE EventsOfRuns'
  BY <1>2, <1>9 DEF LoadAgain, Leave, Load
<1>10. ASSUME NEW stray, ServeStray(stray) PROVE EventsOfRuns'
  BY <1>10, PerformEvents DEF ServeStray
<1>11. ASSUME NEW stray, StrayFollows(stray) \/ StrayDropped(stray) PROVE EventsOfRuns'
  BY <1>2, <1>11 DEF StrayFollows, StrayDropped
<1>12. ASSUME Rival PROVE EventsOfRuns'
  BY <1>12, PerformEvents DEF Rival
<1>13. ASSUME RunEnds PROVE EventsOfRuns'
  BY <1>1, <1>13 DEF RunEnds, RunSucceeds, RunFails, SaveOther, SaveComparison, Save, vars
<1>14. ASSUME RunIsLate PROVE EventsOfRuns'
  BY <1>1, <1>14 DEF RunIsLate, RunExpires, vars
<1>15. ASSUME UNCHANGED allVars PROVE EventsOfRuns'
  BY <1>1, <1>15 DEF allVars, vars
<1> QED BY <1>3, <1>4, <1>5, <1>7, <1>8, <1>9, <1>10, <1>11, <1>12, <1>13, <1>14, <1>15 DEF PageNext

\* Only when it is served does what a panel asked reach the server.
LEMMA OnlyServed ==
  ASSUME HookInv, PageNext \/ UNCHANGED allVars, NEW p \in Deciding \cup {"email"},
         slots[p].at = "sent", slots'[p].at \in {"asking", "performed"}
  PROVE  Serve(p)
PROOF
<1> DEFINE Gone(s) == s.at \notin {"asking", "performed"}
<1>1. /\ AreSlots(slots) /\ p \in Panel /\ p \notin ({"analysis", "risk"} \cup Form)
      /\ "analysis" \in Panel /\ slots = [other \in Panel |-> slots[other]]
  BY PanelNames, DecidingNames, FormNames DEF HookInv, Held, AreSlots
<1>2. ASSUME slots'[p] = slots[p] PROVE FALSE
  BY <1>2
<1>3. ASSUME NEW other \in Panel, NEW s, Gone(s), slots' = [slots EXCEPT ![other] = s] PROVE FALSE
  BY <1>1, <1>3
<1>4. ASSUME NEW other \in Panel, NEW s, other # p, slots' = [slots EXCEPT ![other] = s] PROVE FALSE
  BY <1>1, <1>2, <1>4
<1>5. ASSUME NEW view, NEW rest, AreSlots(rest), rest[p] = slots[p] \/ Gone(rest[p])
      PROVE  /\ AreSlots(Rebuilt(rest, view))
             /\ Rebuilt(rest, view)[p] = slots[p] \/ Gone(Rebuilt(rest, view)[p])
  BY <1>1, <1>5, RebuiltKeeps
<1>6. Gone(Idle)
  BY SlotIdle
<1>7. ASSUME NEW view, NEW other \in Panel, NEW s, Gone(s) \/ other # p,
             slots' = [Rebuilt(slots, view) EXCEPT ![other] = s]
      PROVE  FALSE
  <2>1. AreSlots(Rebuilt(slots, view)) /\ (Rebuilt(slots, view)[p] = slots[p] \/ Gone(Rebuilt(slots, view)[p]))
    BY <1>1, <1>5
  <2>2. slots'[p] = IF p = other THEN s ELSE Rebuilt(slots, view)[p]
    BY <1>1, <1>7, <2>1 DEF AreSlots
  <2> QED BY <1>7, <2>1, <2>2
<1>8. ASSUME NEW source, NEW rest, AreSlots(rest), rest[p] = slots[p] \/ Gone(rest[p]),
             Analyze(source, rest)
      PROVE  FALSE
  <2>1. CASE slots' = rest
    BY <1>8, <2>1
  <2>2. CASE \E s : slots' = [Rebuilt(rest, source) EXCEPT !["analysis"] = s]
    <3>1. /\ AreSlots(Rebuilt(rest, source))
          /\ Rebuilt(rest, source)[p] = slots[p] \/ Gone(Rebuilt(rest, source)[p])
      BY <1>5, <1>8
    <3>2. slots'[p] = Rebuilt(rest, source)[p]
      BY <1>1, <2>2, <3>1 DEF AreSlots
    <3> QED BY <3>1, <3>2
  <2> QED BY <1>8, <2>1, <2>2 DEF Analyze
<1>10. ASSUME Reanalyze PROVE FALSE
  BY <1>1, <1>8, <1>10 DEF Reanalyze
<1>11. ASSUME NEW other \in Panel, NEW op, Click(other, op) PROVE FALSE
  <2>1. Asked(op) = Asks(op, page.view, page.draft)
    BY DEF Asked, Asks
  <2>2. Gone(Asked(op))
    BY <2>1, SlotAsks
  <2> QED BY <1>3, <1>11, <2>2 DEF Click
<1>12. ASSUME \/ SaveSources \/ Decide \/ Confirm \/ Complete \/ Draft \/ CloseDraft
              \/ Explain
       PROVE  FALSE
  BY <1>2, <1>11, <1>12, PanelNames
     DEF SaveSources, Decide, Confirm, Complete, Draft, CloseDraft, Explain
<1>13. ASSUME NEW other \in Panel, NEW code, NEW view, NEW notes, Answer(other, code, view, notes)
       PROVE  FALSE
  <2>1. slots' = [slots EXCEPT ![other] = Answers(slots[other], code, view, notes)]
    BY <1>13 DEF Answer, Answers
  <2>2. Gone(Answers(slots[other], code, view, notes))
    BY <1>1, SlotAnswered DEF AreSlots
  <2> QED BY <1>3, <2>1, <2>2
<1>14. ASSUME NEW other \in Panel, other # p, Serve(other) PROVE FALSE
  <2> DEFINE at(q) == IF q.op \in {"generate", "risk"} THEN "asking" ELSE "performed"
             notes(q) == IF q.op = "risk" THEN AskedNotes ELSE NoBriefing
  <2>1. PICK q : slots' = [slots EXCEPT ![other].at = at(q), ![other].notes = notes(q)]
    <3> HIDE DEF at, notes
    <3>1. PICK q : \/ slots' = [slots EXCEPT ![other].at = at(q), ![other].notes = notes(q)]
                   \/ Answer(other, Problem(q), NoView, NoBriefing)
      BY <1>14 DEF Serve, at, notes
    <3> QED BY <1>13, <3>1
  <2>2. DOMAIN slots = Panel /\ p \in Panel /\ p # other
    BY <1>1, <1>14
  <2>3. slots'[p] = slots[p]
    BY <2>1, <2>2
  <2> QED BY <1>2, <2>3
<1>15. ASSUME NEW other \in Panel, Detail(other) PROVE FALSE
  BY <1>13, <1>15 DEF Detail
<1>16. ASSUME NEW other \in Panel, Lost(other) PROVE FALSE
  BY <1>3, <1>6, <1>16 DEF Lost
<1>17. ASSUME DraftAnswered \/ BriefingAnswered PROVE FALSE
  <2>1. slots' = [slots EXCEPT !["email"].at = "performed"] /\ slots["email"].at = "asking"
    BY <1>13, <1>17, PanelNames DEF DraftAnswered, BriefingAnswered
  <2>2. DOMAIN slots = Panel /\ p \in Panel /\ p # "email"
    BY <1>1, <2>1
  <2>3. slots'[p] = slots[p]
    BY <2>1, <2>2
  <2> QED BY <1>2, <2>3
<1>18. ASSUME NEW other \in Deciding, ReceiveDecision(other) PROVE FALSE
  <2>1. \/ slots' = [slots EXCEPT ![other] = Idle]
        \/ \E view : slots' = [Rebuilt(slots, view) EXCEPT ![other] = Idle]
    BY <1>18 DEF ReceiveDecision
  <2> QED BY <1>3, <1>6, <1>7, <1>18, <2>1, DecidingNames
<1>19. ASSUME ReceiveDraft \/ ReceiveBriefing PROVE FALSE
  <2>1. \E other \in Panel :
          \/ slots' = [slots EXCEPT ![other] = Idle]
          \/ \E view : slots' = [Rebuilt(slots, view) EXCEPT ![other] = Idle]
    BY <1>19, PanelNames DEF ReceiveDraft, ReceiveBriefing
  <2> QED BY <1>3, <1>6, <1>7, <2>1
<1>20. ASSUME NEW other \in Form, ReceiveSources(other) PROVE FALSE
  <2> DEFINE rest == [slots EXCEPT ![other] = Idle]
  <2>1. slots' = rest \/ Analyze(slots[other].view, rest)
    BY <1>20 DEF ReceiveSources
  <2>2. AreSlots(rest) /\ rest[p] = slots[p]
    BY <1>1, SlotIdle, FormNames DEF AreSlots
  <2> HIDE DEF rest
  <2> QED BY <1>2, <1>8, <2>1, <2>2
<1>21. ASSUME ReceiveAnalysis PROVE FALSE
  <2> DEFINE view == slots["analysis"].view
             rest == [Rebuilt(slots, view) EXCEPT !["analysis"] = Idle]
  <2>1. \/ slots' = [slots EXCEPT !["analysis"] = Idle]
        \/ slots' = rest \/ slots' = [rest EXCEPT !["analysis"].at = "waiting"]
    <3>1. view.status \in RunStatus
      BY DEF HookInv, Held
    <3>2. CASE slots["analysis"].code # "OK"
      BY <1>21, <3>2 DEF ReceiveAnalysis
    <3>3. CASE slots["analysis"].code = "OK" /\ view.status = "RUNNING"
      BY <1>21, <3>3 DEF ReceiveAnalysis
    <3>4. CASE slots["analysis"].code = "OK" /\ view.status \in {"NONE", "FAILED"}
      BY <1>21, <3>4 DEF ReceiveAnalysis
    <3>5. CASE slots["analysis"].code = "OK" /\ view.status = "SUCCEEDED"
      BY <1>21, <3>5 DEF ReceiveAnalysis
    <3> QED BY <3>1, <3>2, <3>3, <3>4, <3>5 DEF RunStatus
  <2>2. CASE slots' = [slots EXCEPT !["analysis"] = Idle]
    BY <1>1, <1>4, <2>2
  <2>3. CASE slots' = rest
    BY <1>1, <1>7, <2>3
  <2>4. CASE slots' = [rest EXCEPT !["analysis"].at = "waiting"]
    <3>1. AreSlots(Rebuilt(slots, view)) /\ (Rebuilt(slots, view)[p] = slots[p] \/ Gone(Rebuilt(slots, view)[p]))
      BY <1>1, <1>5
    <3>2. slots'[p] = Rebuilt(slots, view)[p]
      BY <1>1, <2>4, <3>1 DEF AreSlots
    <3> QED BY <3>1, <3>2
  <2> QED BY <2>1, <2>2, <2>3, <2>4
<1>22. ASSUME Poll PROVE FALSE
  BY <1>1, <1>4, <1>22 DEF Poll
<1>23. ASSUME Reveal PROVE FALSE
  <2>1. PICK view : slots' = Rebuilt(slots, view)
    BY <1>23 DEF Reveal
  <2>2. AreSlots(Rebuilt(slots, view)) /\ (Rebuilt(slots, view)[p] = slots[p] \/ Gone(Rebuilt(slots, view)[p]))
    BY <1>1, <1>5
  <2> QED BY <2>1, <2>2
<1>24. ASSUME LoadAgain \/ Leave PROVE FALSE
  <2>1. slots'[p] = Idle
    BY <1>1, <1>24 DEF LoadAgain, Leave, Load
  <2> QED BY <1>6, <2>1
<1>25. ASSUME \/ \E stray \in strays : ServeStray(stray) \/ StrayFollows(stray) \/ StrayDropped(stray)
              \/ DraftEnds \/ Rival \/ RunEnds \/ RunIsLate \/ UNCHANGED allVars
       PROVE  FALSE
  BY <1>2, <1>25 DEF ServeStray, StrayFollows, StrayDropped, DraftEnds, Rival, RunEnds, RunIsLate, allVars
<1>26. \E other \in Panel : Serve(other)
  BY <1>10, <1>12, <1>15, <1>16, <1>17, <1>18, <1>19, <1>20, <1>21, <1>22, <1>23, <1>24, <1>25
     DEF PageNext
<1> QED BY <1>14, <1>26

\* A review, an acknowledgment or a wording is taken about the analysis and the
\* revision the page showed at the click, which are current, and about no other.
THEOREM DecisionsShown == PageSpec => DecisionsAreAboutTheShown
PROOF
<1> DEFINE HookAndEvents == HookInv /\ EventsOfRuns
           About(shown, p) ==
             /\ shown.run = task.current /\ shown.revision = task.revision
             /\ p # "complete" => shown.run \notin completions
             /\ \A r \in Runs \ {shown.run} :
                  reviews'[r] = reviews[r] /\ (r \in completions' <=> r \in completions)
           Decided == \A p \in Deciding \cup {"email"} :
             (slots[p].at = "sent" /\ slots'[p].at \in {"asking", "performed"}) =>
                LET shown == slots[p].shown
                IN /\ shown.run = task.current /\ shown.revision = task.revision
                   /\ p # "complete" => shown.run \notin completions
                   /\ \A r \in Runs \ {shown.run} :
                        reviews'[r] = reviews[r] /\ (r \in completions' <=> r \in completions)
<1>1. PageInit => HookAndEvents
  BY HookStarts DEF PageInit, Init, EventsOfRuns
<1>2. HookAndEvents /\ [PageNext]_allVars => HookAndEvents'
  BY HookStep, EventsStep
<1>3. ASSUME HookAndEvents, [PageNext]_allVars PROVE Decided
  <2> SUFFICES ASSUME NEW p \in Deciding \cup {"email"}, slots[p].at = "sent",
                      slots'[p].at \in {"asking", "performed"}
               PROVE  About(slots[p].shown, p)
    OBVIOUS
  <2>1. Serve(p)
    BY <1>3, OnlyServed
  <2>2. slots[p].op \in Decisions /\ (p # "complete" => slots[p].op # "complete")
    BY <1>3, PanelNames DEF HookInv, Held, Asking, Decisions, Deciding
  <2>3. PICK q \in Sent(slots[p].op, slots[p].shown, slots[p].draft) :
          IF Problem(q) = "OK" THEN Perform(q, Page)
          ELSE Answer(p, Problem(q), NoView, NoBriefing)
    BY <2>1 DEF Serve
  <2>4. q.op = slots[p].op /\ q.revision = slots[p].shown.revision /\ q.run = slots[p].shown.run
    BY <2>2, <2>3, SentIsAbout
  <2>5. Problem(q) = "OK"
    <3> SUFFICES ASSUME Answer(p, Problem(q), NoView, NoBriefing) PROVE FALSE
      BY <2>3
    <3>1. slots' = [slots EXCEPT ![p] = Answers(slots[p], Problem(q), NoView, NoBriefing)]
      BY DEF Answer, Answers
    <3>2. IsSlot(slots[p]) /\ p \in Panel /\ slots = [other \in Panel |-> slots[other]]
      BY <1>3, PanelNames, DecidingNames DEF HookInv, Held, AreSlots
    <3>3. Answers(slots[p], Problem(q), NoView, NoBriefing).at = "answered"
      BY <3>2, SlotAnswered
    <3> QED BY <3>1, <3>2, <3>3
  <2>6. q.revision = task.revision /\ q.run = task.current
        /\ (q.op # "complete" => q.run \notin completions)
    BY <2>2, <2>4, <2>5, Accepted
  <2>7. \A r \in Runs \ {task.current} :
          reviews'[r] = reviews[r] /\ (r \in completions' <=> r \in completions)
    BY <1>3, <2>2, <2>3, <2>4, <2>5, DecisionIsLocal DEF EventsOfRuns
  <2> QED BY <2>2, <2>4, <2>6, <2>7
<1>4. HookAndEvents /\ [PageNext]_allVars => [Decided]_allVars
  BY <1>3
<1> HIDE DEF HookAndEvents
<1> QED BY <1>1, <1>2, <1>4, PTL DEF PageSpec, DecisionsAreAboutTheShown
-----------------------------------------------------------------------------
\* A request the desk's steps can be taken for.
Proposed(q, client) ==
  /\ q.op = "pair" => q.pair \in Pair
  /\ q.op = "upload" => q.role \in Role
  /\ q.op = "review" => q.act \in Action
  /\ client \in Clients

LEMMA PerformIsDesk ==
  ASSUME NEW q, NEW client, Perform(q, client), Proposed(q, client)
  PROVE  [Next]_vars
PROOF
<1>1. CASE q.op = "analyze" /\ StartRun
  BY <1>1 DEF StartRun
<1>2. CASE q.op = "pair" /\ IF task.selected /\ q.pair = task.pair THEN Unchanged
                             ELSE Desk(SelectPair(q.pair))
  BY <1>2 DEF Unchanged, Desk, Next, Proposed
<1>3. CASE q.op = "upload" /\ \E d \in Docs : Desk(ReplaceDocument(q.role, d))
  BY <1>3 DEF Desk, Next, Proposed
<1>4. CASE /\ q.op = "review"
           /\ Desk(RecordReview(q.act.doc, q.act.field, q.act.kind, q.act.value))
  <2>1. /\ q.act.doc \in Docs /\ q.act.field \in Fields
        /\ q.act.kind \in {"CONFIRM_CANDIDATE", "CORRECT_EXTRACTION", "SUPPLY_INFORMATION"}
        /\ q.act.value \in Values \cup {NoValue}
    BY <1>4 DEF Proposed, Action
  <2> QED BY <1>4, <2>1 DEF Desk, Next
<1>5. CASE q.op = "complete" /\ IF q.run \in completions THEN Unchanged
                                 ELSE Desk(RecordCompletion)
  BY <1>5 DEF Unchanged, Desk, Next
<1>6. CASE \/ q.op = "generate" /\ Desk(AskDraft(client))
           \/ q.op = "update" /\ Desk(UpdateDraft)
  BY <1>6 DEF Desk, Next, Proposed
<1>7. CASE q.op \in Reads \cup {"risk"} /\ Unchanged
  BY <1>7 DEF Unchanged
<1> QED BY <1>1, <1>2, <1>3, <1>4, <1>5, <1>6, <1>7 DEF Perform

LEMMA SentProposed ==
  ASSUME NEW op, NEW shown, NEW held, NEW q \in Sent(op, shown, held), NEW client \in Clients
  PROVE  Proposed(q, client)
PROOF
<1>1. PICK plain : plain = Plain(op, shown, held)
  OBVIOUS
<1>2. /\ plain.op = op
      /\ plain = [op |-> plain.op, to |-> plain.to, origin |-> plain.origin,
                  flaws |-> plain.flaws, grounds |-> plain.grounds,
                  revision |-> plain.revision, run |-> plain.run, draft |-> plain.draft,
                  pair |-> plain.pair, role |-> plain.role, act |-> plain.act]
  BY <1>1 DEF Plain
<1>3. CASE op = "review"
  <2>1. \E act \in Action : \E grounds : q = [plain EXCEPT !.act = act, !.grounds = grounds]
    BY <1>1, <1>3 DEF Sent
  <2>2. q.op = "review" /\ q.act \in Action
    BY <1>2, <1>3, <2>1
  <2> QED BY <2>2 DEF Proposed
<1>4. CASE op = "pair"
  <2>1. \E pair \in Choices : q = [plain EXCEPT !.pair = pair]
    BY <1>1, <1>4 DEF Sent
  <2>2. q.op = "pair" /\ q.pair \in Pair
    BY <1>2, <1>4, <2>1, PageAssumption
  <2> QED BY <2>2 DEF Proposed
<1>5. CASE op = "upload"
  <2>1. \E role \in Role : q = [plain EXCEPT !.role = role]
    BY <1>1, <1>5 DEF Sent
  <2>2. q.op = "upload" /\ q.role \in Role
    BY <1>2, <1>5, <2>1
  <2> QED BY <2>2 DEF Proposed
<1>6. CASE op \notin {"review", "pair", "upload"}
  <2>1. q = plain
    BY <1>1, <1>6 DEF Sent
  <2> QED BY <1>2, <1>6, <2>1 DEF Proposed
<1> QED BY <1>3, <1>4, <1>5, <1>6

\* What the API refuses whatever the task is, never reaches the desk as a review.
LEMMA GarbledProposed ==
  ASSUME NEW shown, NEW q \in Garbled(shown), Problem(q) = "OK", NEW client \in Clients
  PROVE  Proposed(q, client)
PROOF
<1>1. CASE \E pair \in Flawed : q = [Plain(pair[1], shown, draft.id) EXCEPT !.flaws = {pair[2]}]
  <2>1. PICK pair \in Flawed : q = [Plain(pair[1], shown, draft.id) EXCEPT !.flaws = {pair[2]}]
    BY <1>1
  <2>2. pair[1] \in {"upload", "update", "complete"}
    BY DEF Flawed
  <2>3. q.op = pair[1] /\ q.role = "si"
    BY <2>1 DEF Plain
  <2> QED BY <2>2, <2>3 DEF Proposed, Role
<1>2. CASE \E row \in Unwelcome :
             q = [Plain(row.op, shown, draft.id) EXCEPT !.to = row.to, !.origin = row.origin]
  <2>1. PICK row \in Unwelcome :
          q = [Plain(row.op, shown, draft.id) EXCEPT !.to = row.to, !.origin = row.origin]
    BY <1>2
  <2>2. row.op \in {"review", "analyze", "generate", "complete"}
    BY DEF Unwelcome
  <2>3. q.op = row.op /\ q.grounds = {}
    BY <2>1 DEF Plain
  <2>4. q.op # "review"
    <3> SUFFICES ASSUME q.op = "review" PROVE FALSE
      OBVIOUS
    <3>1. Malformed(q)
      BY <2>3 DEF Malformed, Grounds
    <3> QED BY <3>1, RevisionPasses DEF Reads
  <2> QED BY <2>2, <2>3, <2>4 DEF Proposed
<1> QED BY <1>1, <1>2 DEF Garbled

LEMMA PageStepIsDesk ==
  ASSUME PageNext \/ UNCHANGED allVars
  PROVE  [Next]_vars
PROOF
<1>1. ASSUME UNCHANGED server PROVE [Next]_vars
  BY <1>1 DEF server
<1>2. ASSUME \/ Reanalyze \/ SaveSources \/ Decide \/ Confirm \/ Complete
             \/ Draft \/ CloseDraft \/ Explain
      PROVE  [Next]_vars
  BY <1>1, <1>2
     DEF Reanalyze, SaveSources, Decide, Confirm, Complete, Draft, CloseDraft, Explain, Click
<1>3. ASSUME NEW p \in Panel, Serve(p) PROVE [Next]_vars
  <2>1. UNCHANGED server \/ \E q \in Sent(slots[p].op, slots[p].shown, slots[p].draft) :
                              Perform(q, Page)
    BY <1>3 DEF Serve
  <2> QED BY <1>1, <2>1, PerformIsDesk, SentProposed, PageAssumption
<1>4. ASSUME NEW p \in Panel, Detail(p) \/ Lost(p) PROVE [Next]_vars
  BY <1>1, <1>4 DEF Detail, Lost
<1>5. ASSUME NEW c \in Clients, Desk(SaveDraft(c)) \/ Desk(GiveUpDraft(c)) PROVE [Next]_vars
  BY <1>5 DEF Desk, Next
<1>6. ASSUME DraftAnswered \/ DraftEnds PROVE [Next]_vars
  BY <1>5, <1>6, PageAssumption DEF DraftAnswered, DraftEnds
<1>7. ASSUME \/ BriefingAnswered \/ \E p \in Deciding : ReceiveDecision(p)
             \/ ReceiveDraft \/ ReceiveBriefing
             \/ \E p \in Form : ReceiveSources(p)
             \/ ReceiveAnalysis
             \/ Poll \/ Reveal \/ LoadAgain \/ Leave
      PROVE  [Next]_vars
  BY <1>1, <1>7 DEF BriefingAnswered, ReceiveDecision, ReceiveDraft, ReceiveBriefing,
                    ReceiveSources, ReceiveAnalysis, Poll, Reveal, LoadAgain, Leave, Load
<1>8. ASSUME NEW stray, ServeStray(stray) PROVE [Next]_vars
  BY <1>8, PerformIsDesk, SentProposed, PageAssumption DEF ServeStray
<1>9. ASSUME NEW stray, StrayFollows(stray) \/ StrayDropped(stray) PROVE [Next]_vars
  BY <1>1, <1>9 DEF StrayFollows, StrayDropped
<1>10. ASSUME Rival PROVE [Next]_vars
  <2> DEFINE shown == Snapshot
  <2>1. PICK c \in Clients, q \in Proper(shown) \cup Garbled(shown) :
          Problem(q) = "OK" /\ Perform(q, c)
    BY <1>10 DEF Rival
  <2> HIDE DEF shown
  <2>2. CASE q \in Proper(shown)
    <3>1. PICK op \in Changes : q \in Sent(op, shown, draft.id)
      BY <2>2 DEF Proper
    <3> QED BY <2>1, <3>1, PerformIsDesk, SentProposed
  <2>3. CASE q \in Garbled(shown)
    BY <2>1, <2>3, PerformIsDesk, GarbledProposed
  <2> QED BY <2>1, <2>2, <2>3
<1>11. ASSUME RunSucceeds PROVE [Next]_vars
  <2>1. CASE SaveOther(latest.run, FALSE)
    BY <2>1 DEF SaveOther, Next
  <2>2. CASE \E reading \in [Listed(task.docs) -> UNION {Readings[d] : d \in Docs}] :
               /\ \A d \in Listed(task.docs) : reading[d] \in Readings[d]
               /\ SaveComparison(latest.run, reading)
    <3>1. latest.run \in Runs
      BY <2>2 DEF SaveComparison
    <3> QED BY <2>2, <3>1 DEF Next
  <2> QED BY <1>11, <2>1, <2>2 DEF RunSucceeds
<1>12. ASSUME RunEnds \/ RunIsLate PROVE [Next]_vars
  BY <1>11, <1>12 DEF RunEnds, RunFails, RunIsLate, RunExpires
<1>13. ASSUME UNCHANGED allVars PROVE [Next]_vars
  BY <1>1, <1>13 DEF allVars, server
<1> QED BY <1>2, <1>3, <1>4, <1>6, <1>7, <1>8, <1>9, <1>10, <1>12, <1>13 DEF PageNext

\* Every step of the page, of its requests and of the other client is a step of
\* the review desk or leaves it alone: the API accepts nothing the desk would
\* not do, whatever the page was showing when it asked.
THEOREM PageIsADesk == PageSpec => Spec
PROOF
<1>1. PageInit => Init
  BY DEF PageInit
<1>2. [PageNext]_allVars => [Next]_vars
  BY PageStepIsDesk
<1> QED BY <1>1, <1>2, PTL DEF PageSpec, Spec

\* So what the desk keeps holds while pages race, answers are lost and runs
\* are late: no accepted request leaves an acknowledged check incomplete, an
\* event on a document that was not compared, or a finding nobody confirmed.
THEOREM PageKeepsTheDesk ==
  PageSpec => [](CompletedChecksHold /\ ReviewsOnComparedPair /\ FindingsAreConfirmed)
PROOF BY PageIsADesk, CompletionCorrect, ReviewsCorrect, FindingsCorrect, PTL
-----------------------------------------------------------------------------
(***************************************************************************)
(* Notices.  What a page shows and what its panels wait for is about       *)
(* revisions the task had; the form of the sources and the notes on the    *)
(* discrepancies are about the revision shown, or they are given up.  The  *)
(* operators take the revision and the rows of the runs, now and rows, so  *)
(* that they can be carried over a step of the desk.                       *)
(***************************************************************************)
Upto(view, now) == view.revision \in 0 .. now

\* Notes are those on the discrepancies of an analysis of the revision.
Sound(notes, revision, rows) ==
  /\ notes = [revision |-> notes.revision, run |-> notes.run, fields |-> notes.fields]
  /\ notes.revision = revision /\ notes.run \in Runs /\ rows[notes.run].saved
  /\ rows[notes.run].revision = revision /\ notes.fields = rows[notes.run].result.defects

PageFits(pg, now, rows) ==
  /\ Upto(pg.view, now) /\ Upto(pg.pending, now)
  /\ pg.opened = NoRun \/ (pg.opened \in Runs /\ rows[pg.opened].saved)
  /\ pg.conflict => pg.view.revision < now
  /\ pg.briefing # NoBriefing => Sound(pg.briefing, pg.view.revision, rows)

SourcesFit(s, revision, now) ==
  s.mounted => /\ s.at = "sent" => s.shown.revision = revision
               /\ (s.at = "answered" /\ Status(s.code) = 409) => revision < now
RiskFits(s, revision, rows) ==
  /\ s.at # "performed"
  /\ s.at = "sent" => s.shown.revision = revision
  /\ s.at = "asking" \/ (s.at = "answered" /\ s.code = "OK") => Sound(s.notes, revision, rows)
SlotFits(p, s, revision, now, rows) ==
  /\ Upto(s.shown, now) /\ Upto(s.view, now)
  /\ p \in Form => SourcesFit(s, revision, now)
  /\ p = "risk" => RiskFits(s, revision, rows)
Fits(pg, ss, now, rows) ==
  /\ PageFits(pg, now, rows)
  /\ \A p \in Panel : SlotFits(p, ss[p], pg.view.revision, now, rows)

\* The analyses are of revisions the task had, the current one of the present one.
RowsFresh ==
  /\ \A r \in Saved : runs[r].revision \in 0 .. task.revision
  /\ task.current \in Saved => runs[task.current].revision = task.revision

NoticeInv ==
  /\ HookInv /\ TypeOK /\ RowsFresh
  /\ Fits(page, slots, task.revision, runs)

\* The revision grows and saved analyses stay.
Grown ==
  /\ task.revision \in Nat /\ task'.revision \in Nat /\ task.revision <= task'.revision
  /\ \A r \in Runs : runs[r].saved => runs'[r] = runs[r]

LEMMA DeskGrows ==
  ASSUME TypeOK, RowsFresh, [Next]_vars
  PROVE  Grown /\ RowsFresh'
PROOF
<1>1. /\ task \in TaskRow /\ task.revision \in Nat /\ runs \in [Runs -> RunRow]
      /\ NoRun \notin Runs
  BY RunsAssumption DEF TypeOK, TaskRow
<1>2. ASSUME UNCHANGED <<task, runs>> PROVE Grown /\ RowsFresh'
  BY <1>1, <1>2 DEF Grown, RowsFresh, Saved
<1>3. ASSUME NEW docs, NEW pair, NEW selected, Advance(docs, pair, selected)
      PROVE  Grown /\ RowsFresh'
  <2>1. task'.revision = task.revision + 1 /\ task'.current = NoRun /\ runs' = runs
    BY <1>1, <1>3 DEF Advance, TaskRow
  <2> QED BY <1>1, <2>1 DEF Grown, RowsFresh, Saved
<1>4. ASSUME NEW r \in Runs \ Saved, NEW result, NEW base, Save(r, result, base)
      PROVE  Grown /\ RowsFresh'
  <2> DEFINE row == [saved |-> TRUE, revision |-> task.revision, at |-> Cardinality(Saved),
                     docs |-> task.docs, pair |-> CompletedPair(result), base |-> base,
                     result |-> result, delta |-> DeltaTo(result, base)]
  <2>1. runs' = [runs EXCEPT ![r] = row] /\ row.saved = TRUE /\ row.revision = task.revision
    BY <1>4 DEF Save
  <2> HIDE DEF row
  <2>2. task'.revision = task.revision /\ task'.current = r
    BY <1>1, <1>4 DEF Save, TaskRow
  <2>3. /\ \A q \in Runs : runs'[q] = IF q = r THEN row ELSE runs[q]
        /\ \A q \in Saved : runs'[q] = runs[q]
    BY <1>1, <2>1 DEF Saved
  <2>4. Grown
    BY <1>1, <2>2, <2>3 DEF Grown, Saved
  <2>5. \A q \in Saved' : q \in Saved \/ q = r
    BY <2>3 DEF Saved
  <2>6. RowsFresh'
    BY <1>1, <2>1, <2>2, <2>3, <2>5 DEF RowsFresh
  <2> QED BY <2>4, <2>6
<1>5. ASSUME NEW pair, SelectPair(pair) PROVE Grown /\ RowsFresh'
  BY <1>3, <1>5 DEF SelectPair
<1>6. ASSUME NEW role, NEW d, ReplaceDocument(role, d) PROVE Grown /\ RowsFresh'
  BY <1>3, <1>6 DEF ReplaceDocument
<1>7. ASSUME NEW r, NEW unclear, SaveOther(r, unclear) PROVE Grown /\ RowsFresh'
  BY <1>4, <1>7 DEF SaveOther
<1>8. ASSUME NEW r, NEW reading, SaveComparison(r, reading) PROVE Grown /\ RowsFresh'
  BY <1>4, <1>8 DEF SaveComparison
<1>9. ASSUME \/ \E d, f, kind, value : RecordReview(d, f, kind, value)
             \/ RecordCompletion \/ UpdateDraft
             \/ \E c \in Clients : AskDraft(c) \/ SaveDraft(c) \/ GiveUpDraft(c)
             \/ UNCHANGED vars
      PROVE  Grown /\ RowsFresh'
  <2>1. UNCHANGED <<task, runs>>
    BY <1>9 DEF RecordReview, RecordCompletion, UpdateDraft, AskDraft, SaveDraft, GiveUpDraft,
                sources, vars
  <2> QED BY <1>2, <2>1
<1> QED BY <1>5, <1>6, <1>7, <1>8, <1>9 DEF Next

LEMMA FitsLater ==
  ASSUME NEW pg, NEW ss, NEW now \in Nat, NEW rows, Fits(pg, ss, now, rows),
         NEW later \in Nat, now <= later, NEW newer,
         \A r \in Runs : rows[r].saved => newer[r] = rows[r]
  PROVE  Fits(pg, ss, later, newer)
PROOF
<1>1. \A view : Upto(view, now) => Upto(view, later)
  BY DEF Upto
<1>2. \A notes, revision : Sound(notes, revision, rows) => Sound(notes, revision, newer)
  BY DEF Sound
<1>3. pg.view.revision \in Nat
  BY DEF Fits, PageFits, Upto
<1>4. PageFits(pg, later, newer)
  <2>1. pg.conflict => pg.view.revision < later
    BY <1>3 DEF Fits, PageFits
  <2> QED BY <1>1, <1>2, <2>1 DEF Fits, PageFits
<1>5. ASSUME NEW p \in Panel PROVE SlotFits(p, ss[p], pg.view.revision, later, newer)
  <2>1. SlotFits(p, ss[p], pg.view.revision, now, rows)
    BY DEF Fits
  <2>2. p \in Form => SourcesFit(ss[p], pg.view.revision, later)
    <3>1. pg.view.revision < now => pg.view.revision < later
      BY <1>3
    <3> QED BY <2>1, <3>1 DEF SlotFits, SourcesFit
  <2>3. p = "risk" => RiskFits(ss[p], pg.view.revision, newer)
    BY <1>2, <2>1 DEF SlotFits, RiskFits
  <2> QED BY <1>1, <2>1, <2>2, <2>3 DEF SlotFits
<1> QED BY <1>4, <1>5 DEF Fits

LEMMA IdleFits ==
  ASSUME NEW p, NEW revision, NEW now \in Nat, NEW rows
  PROVE  SlotFits(p, Idle, revision, now, rows)
PROOF
<1>1. Idle.shown = NoView /\ Idle.view = NoView /\ NoView.revision = 0 /\ Idle.at = "idle"
  BY DEF Idle, NoView
<1> QED BY <1>1 DEF SlotFits, Upto, SourcesFit, RiskFits

\* One slot changes and the page does not.
LEMMA SlotSetFits ==
  ASSUME NEW pg, NEW ss, NEW now, NEW rows, Fits(pg, ss, now, rows), AreSlots(ss),
         NEW p \in Panel, NEW s, SlotFits(p, s, pg.view.revision, now, rows)
  PROVE  Fits(pg, [ss EXCEPT ![p] = s], now, rows)
PROOF
<1>1. [ss EXCEPT ![p] = s] = [q \in Panel |-> IF q = p THEN s ELSE ss[q]]
  BY DEF AreSlots
<1> QED BY <1>1 DEF Fits

\* The page changes in what no notice is about.
LEMMA PageSetFits ==
  ASSUME NEW pg, NEW ss, NEW now, NEW rows, Fits(pg, ss, now, rows), NEW new,
         new.view = pg.view, Upto(new.pending, now), new.opened = pg.opened,
         new.conflict = pg.conflict \/ ~new.conflict, new.briefing = pg.briefing
  PROVE  Fits(new, ss, now, rows)
PROOF
<1>1. PageFits(new, now, rows)
  BY DEF Fits, PageFits
<1> QED BY <1>1 DEF Fits

\* setTask: what is about another revision is given up.
LEMMA ShowFits ==
  ASSUME NEW ss, NEW now, NEW rows, NEW pg, Fits(pg, ss, now, rows), AreSlots(ss), IsPage(pg),
         pg.view = page.view, now \in Nat, NEW view, Upto(view, now)
  PROVE  Fits(Show(pg, view), Rebuilt(ss, view), now, rows)
PROOF
<1>1. PICK c : c = (pg.conflict /\ SameForm(view))
  OBVIOUS
<1>2. PICK b : b = IF view.revision = page.view.revision THEN pg.briefing ELSE NoBriefing
  OBVIOUS
<1>3. Show(pg, view) = [pg EXCEPT !.view = view, !.conflict = c, !.briefing = b]
  BY <1>1, <1>2 DEF Show
<1>4. PICK new : new = Show(pg, view)
  OBVIOUS
<1>5. /\ new.view = view /\ new.conflict = c /\ new.briefing = b
      /\ new.pending = pg.pending /\ new.opened = pg.opened
  BY <1>3, <1>4 DEF IsPage
<1>6. PageFits(new, now, rows)
  <2>1. c => view.revision < now
    BY <1>1 DEF SameForm, Fits, PageFits
  <2>2. b # NoBriefing => Sound(b, view.revision, rows)
    BY <1>2 DEF Fits, PageFits
  <2> QED BY <1>5, <2>1, <2>2 DEF Fits, PageFits
<1>7. PICK rs : rs = Rebuilt(ss, view)
  OBVIOUS
<1>8. ASSUME NEW p \in Panel PROVE SlotFits(p, rs[p], view.revision, now, rows)
  <2>1. /\ IsSlot(ss[p]) /\ SlotFits(p, ss[p], page.view.revision, now, rows)
    BY DEF AreSlots, Fits
  <2>2. CASE p \in Form /\ ~SameForm(view)
    <3>1. rs[p] = [ss[p] EXCEPT !.mounted = FALSE]
      BY <1>7, <2>2, FormNames DEF Rebuilt
    <3>2. rs[p].shown = ss[p].shown /\ rs[p].view = ss[p].view /\ ~rs[p].mounted
      BY <2>1, <3>1 DEF IsSlot
    <3> QED BY <2>1, <2>2, <3>2, FormNames DEF SlotFits, SourcesFit
  <2>3. CASE p = "risk" /\ view.revision # page.view.revision
    <3>1. rs[p] = Idle
      BY <1>7, <2>3 DEF Rebuilt
    <3> QED BY <3>1, IdleFits
  <2>4. CASE ~(p \in Form /\ ~SameForm(view)) /\ ~(p = "risk" /\ view.revision # page.view.revision)
    <3>1. rs[p] = ss[p]
      BY <1>7, <2>4 DEF Rebuilt
    <3>2. p \in Form \cup {"risk"} => view.revision = page.view.revision
      BY <2>4 DEF SameForm
    <3> QED BY <2>1, <3>1, <3>2 DEF SlotFits
  <2> QED BY <2>2, <2>3, <2>4
<1> QED BY <1>4, <1>5, <1>6, <1>7, <1>8 DEF Fits

LEMMA ViewOfRevision ==
  ASSUME NEW r, NEW revision, NEW pair, NEW status, NEW shown, NEW past
  PROVE  ViewOf(r, revision, pair, status, shown, past).revision = revision
PROOF
<1>1. \A reviewed : Told(r, reviewed, revision, pair, status, shown, past).revision = revision
  BY DEF Told
<1>2. [NoView EXCEPT !.revision = revision, !.pair = pair, !.status = status].revision = revision
  BY DEF NoView
<1> QED BY <1>1, <1>2 DEF ViewOf

LEMMA AnalyzeFits ==
  ASSUME NEW rest, NEW now \in Nat, NEW rows, Fits(page, rest, now, rows), AreSlots(rest),
         IsPage(page), NEW source, Upto(source, now), Analyze(source, rest)
  PROVE  Fits(page', slots', now, rows)
PROOF
<1>1. CASE page.locked
  BY <1>1 DEF Analyze
<1>2. CASE ~page.locked
  <2> DEFINE shown == Show(page, source)
             again == Rebuilt(rest, source)
             asked == AsksAbout("analyze", source)
  <2>1. page' = [shown EXCEPT !.phase = "running", !.locked = TRUE]
        /\ slots' = [again EXCEPT !["analysis"] = asked]
    BY <1>2 DEF Analyze, AsksAbout
  <2>2. IsPage(shown) /\ AreSlots(again)
    BY ShowKeeps, RebuiltKeeps
  <2>3. Fits(shown, again, now, rows)
    BY ShowFits
  <2>4. Upto(asked.shown, now) /\ Upto(asked.view, now)
    <3>1. asked.shown = source /\ asked.view = NoView /\ NoView.revision = 0
      BY DEF AsksAbout, Idle, NoView
    <3> QED BY <3>1 DEF Upto
  <2> HIDE DEF shown, again, asked
  <2>5. Fits(page', again, now, rows)
    <3>1. /\ page'.view = shown.view /\ page'.pending = shown.pending
          /\ page'.opened = shown.opened /\ page'.conflict = shown.conflict
          /\ page'.briefing = shown.briefing
      BY <2>1, <2>2 DEF IsPage
    <3>2. Upto(page'.pending, now)
      BY <2>3, <3>1 DEF Fits, PageFits
    <3> QED BY <2>3, <3>1, <3>2, PageSetFits
  <2>6. SlotFits("analysis", asked, page'.view.revision, now, rows)
    BY <2>4, PanelNames DEF SlotFits
  <2> QED BY <2>1, <2>2, <2>5, <2>6, SlotSetFits, PanelNames
<1> QED BY <1>1, <1>2

LEMMA LoadFits ==
  ASSUME TypeOK, RowsFresh, NEW r, r = NoRun \/ r \in Saved, Load(r)
  PROVE  Fits(page', slots', task.revision, runs)
PROOF
<1>1. task.revision \in Nat /\ NoRun \notin Runs
  BY RunsAssumption DEF TypeOK, TaskRow
<1>2. PICK view : page' = Loaded(view, r) /\ Upto(view, task.revision)
  <2>1. Snapshot.revision = task.revision
    <3>1. PICK shown : shown = ShownDraft.id
      OBVIOUS
    <3>2. PICK past \in BOOLEAN : past = FALSE
      OBVIOUS
    <3>3. Snapshot = ViewOf(task.current, task.revision, task.pair, latest.status, shown, past)
      BY <3>1, <3>2 DEF Snapshot
    <3> QED BY <3>3, ViewOfRevision
  <2>2. RunSnapshot(r).revision = runs[r].revision
    BY ViewOfRevision DEF RunSnapshot
  <2>3. r # NoRun => runs[r].revision \in 0 .. task.revision
    BY DEF RowsFresh
  <2> QED BY <1>1, <2>1, <2>2, <2>3 DEF Load, Upto
<1>3. /\ page'.view = view /\ page'.pending = NoView /\ page'.opened = r
      /\ page'.conflict = FALSE /\ page'.briefing = NoBriefing /\ NoView.revision = 0
  BY <1>2 DEF Loaded, NoView
<1>4. PageFits(page', task.revision, runs)
  BY <1>1, <1>2, <1>3 DEF PageFits, Upto, Saved
<1>5. \A p \in Panel : slots'[p] = Idle
  BY DEF Load
<1> QED BY <1>1, <1>4, <1>5, IdleFits DEF Fits

LEMMA ClickFits ==
  ASSUME NoticeInv, NEW p \in Panel, NEW op, Click(p, op)
  PROVE  Fits(page, slots', task.revision, runs)
PROOF
<1>1. task.revision \in Nat /\ AreSlots(slots) /\ Upto(page.view, task.revision)
  BY DEF NoticeInv, TypeOK, TaskRow, HookInv, Held, Fits, PageFits
<1>2. /\ Asked(op).at = "sent" /\ Asked(op).shown = page.view /\ Asked(op).view = NoView
      /\ NoView.revision = 0
  BY DEF Asked, Idle, NoView
<1>3. SlotFits(p, Asked(op), page.view.revision, task.revision, runs)
  BY <1>1, <1>2 DEF SlotFits, Upto, SourcesFit, RiskFits
<1> QED BY <1>1, <1>3, SlotSetFits DEF Click, NoticeInv

LEMMA ClicksFit ==
  ASSUME NoticeInv, \/ Reanalyze \/ SaveSources \/ Decide \/ Confirm \/ Complete
                    \/ Draft \/ CloseDraft \/ Explain
  PROVE  Fits(page', slots', task.revision, runs)
PROOF
<1>1. /\ task.revision \in Nat /\ AreSlots(slots) /\ IsPage(page)
      /\ Upto(page.view, task.revision) /\ Fits(page, slots, task.revision, runs)
  BY DEF NoticeInv, TypeOK, TaskRow, HookInv, Held, Fits, PageFits
<1>2. CASE Reanalyze
  BY <1>1, <1>2, AnalyzeFits DEF Reanalyze
<1>3. CASE SaveSources
  <2>1. Fits(page, slots', task.revision, runs)
    BY <1>3, ClickFits, PanelNames DEF SaveSources
  <2>2. /\ page'.view = page.view /\ page'.pending = page.pending /\ page'.opened = page.opened
        /\ page'.conflict = FALSE /\ page'.briefing = page.briefing
    BY <1>1, <1>3 DEF SaveSources, IsPage
  <2>3. Upto(page'.pending, task.revision)
    BY <2>1, <2>2 DEF Fits, PageFits
  <2> QED BY <2>1, <2>2, <2>3, PageSetFits
<1>4. CASE Decide \/ Complete \/ Draft \/ Explain
  <2>1. \E p \in Panel, op \in Op : Click(p, op)
    BY <1>4, PanelNames DEF Decide, Complete, Draft, Explain, Op, Changes
  <2>2. page' = page
    BY <1>4 DEF Decide, Complete, Draft, Explain
  <2> QED BY <2>1, <2>2, ClickFits
<1>5. CASE Confirm \/ CloseDraft
  <2>1. \/ \E b : page' = [page EXCEPT !.confirming = b]
        \/ page' = [page EXCEPT !.draft = page.view.draft]
    BY <1>5 DEF Confirm, CloseDraft
  <2>2. /\ page'.view = page.view /\ page'.pending = page.pending /\ page'.opened = page.opened
        /\ page'.conflict = page.conflict /\ page'.briefing = page.briefing
    BY <1>1, <2>1 DEF IsPage
  <2>3. Upto(page'.pending, task.revision) /\ slots' = slots
    BY <1>1, <1>5, <2>2 DEF Fits, PageFits, Confirm, CloseDraft
  <2> QED BY <1>1, <2>2, <2>3, PageSetFits
<1> QED BY <1>2, <1>3, <1>4, <1>5

\* An answer with what it may say to its panel.
LEMMA AnswerFits ==
  ASSUME NEW now \in Nat, NEW rows, Fits(page, slots, now, rows), AreSlots(slots),
         NEW p \in Panel, NEW code, NEW view, NEW notes, Upto(view, now),
         p \in Form /\ slots[p].mounted /\ Status(code) = 409 => page.view.revision < now,
         p = "risk" /\ code = "OK" => Sound(notes, page.view.revision, rows),
         Answer(p, code, view, notes)
  PROVE  Fits(page, slots', now, rows)
PROOF
<1> DEFINE t == Answers(slots[p], code, view, notes)
<1>1. slots' = [slots EXCEPT ![p] = t]
  BY DEF Answer, Answers
<1>2. t = [at |-> "answered", op |-> slots[p].op, shown |-> NoView, draft |-> 0,
           mounted |-> slots[p].mounted, code |-> code, view |-> view, notes |-> notes]
  BY AnswersIs DEF AreSlots
<1> HIDE DEF t
<1>3. /\ t.at = "answered" /\ t.shown = NoView /\ t.mounted = slots[p].mounted
      /\ t.code = code /\ t.view = view /\ t.notes = notes /\ NoView.revision = 0
  BY <1>2 DEF NoView
<1>4. SlotFits(p, t, page.view.revision, now, rows)
  BY <1>3 DEF SlotFits, Upto, SourcesFit, RiskFits
<1> QED BY <1>1, <1>4, SlotSetFits

\* The answer of a sequence of checks is that of one of them that fails.
LEMMA FailureOf ==
  ASSUME NEW S, NEW checks \in Seq(S), FirstFailure(checks) # "OK"
  PROVE  \E check \in S : ~check[1] /\ FirstFailure(checks) = check[2]
PROOF
<1> DEFINE failed == {i \in DOMAIN checks : ~checks[i][1]}
<1>1. DOMAIN checks \in SUBSET Nat /\ \A i \in DOMAIN checks : checks[i] \in S /\ i \in 1 .. Len(checks)
  OBVIOUS
<1>2. failed # {}
  BY DEF FirstFailure
<1>3. PICK first \in failed : \A i \in failed : first <= i
  <2>1. failed \in SUBSET Nat
    BY <1>1
  <2> HIDE DEF failed
  <2> QED BY <1>2, <2>1, SmallestMember
<1>4. Broken(checks, first) /\ first \in DOMAIN checks
  <2>1. \A j \in 1 .. (first - 1) : j \in DOMAIN checks /\ ~(first <= j)
    BY <1>1, <1>3
  <2> QED BY <1>3, <2>1 DEF Broken
<1>5. PICK i \in DOMAIN checks : Broken(checks, i) /\ FirstFailure(checks) = checks[i][2]
  <2>1. FirstFailure(checks) = checks[CHOOSE i \in DOMAIN checks : Broken(checks, i)][2]
    BY <1>2 DEF FirstFailure
  <2> QED BY <1>4, <2>1
<1> QED BY <1>1, <1>5 DEF Broken

\* The answers that are no conflict.
Harmless == {"NOT_FOUND", "not_found", "invalid_pair", "attachment_limit", "unsafe_filename",
             "origin_denied", "RESOURCE_LIMIT", "multipart_required", "FORMAT_MISMATCH",
             "invalid_request", "invalid_form", "OK"}
LEMMA HarmlessCodes == \A code \in Harmless : Status(code) # 409
PROOF
<1> SUFFICES ASSUME NEW code \in Harmless PROVE Status(code) # 409
  OBVIOUS
<1>1. CASE code \in {"NOT_FOUND", "not_found"}
  BY <1>1 DEF Status, Conflicts
<1>2. CASE code \in {"invalid_pair", "attachment_limit", "unsafe_filename"}
  BY <1>2 DEF Status, Conflicts
<1>3. CASE code = "origin_denied"
  BY <1>3 DEF Status, Conflicts
<1>4. CASE code = "RESOURCE_LIMIT"
  BY <1>4 DEF Status, Conflicts
<1>5. CASE code \in {"multipart_required", "FORMAT_MISMATCH"}
  BY <1>5 DEF Status, Conflicts
<1>6. CASE code \in {"invalid_request", "invalid_form"}
  BY <1>6 DEF Status, Conflicts
<1>7. CASE code = "OK"
  BY <1>7 DEF Status, Conflicts
<1> QED BY <1>1, <1>2, <1>3, <1>4, <1>5, <1>6, <1>7 DEF Harmless

LEMMA FiveChecks ==
  ASSUME NEW S, NEW a \in S, NEW b \in S, NEW c \in S, NEW d \in S, NEW e \in S
  PROVE  <<a, b, c, d, e>> \in Seq(S)
PROOF OBVIOUS

\* A set of checks that has those before the route of a request.
HasBefore(q, S) ==
  /\ \A b \in BOOLEAN, code \in Harmless : <<b, code>> \in S
  /\ \E b5 \in BOOLEAN :
       /\ b5 = (q.to = "task" \/ q.op \notin {"analyze", "generate", "update"})
       /\ <<b5, "sample_read_only">> \in S
  /\ \E b6 \in BOOLEAN :
       /\ b6 = (q.op \in Reads \/ q.revision = task.revision)
       /\ <<b6, "stale_revision">> \in S

LEMMA BeforeChecks ==
  ASSUME NEW q, NEW S, HasBefore(q, S)
  PROVE  Before(q) \in Seq(S)
PROOF
<1> USE DEF HasBefore
<1>7. PICK b5 \in BOOLEAN :
        /\ b5 = (q.to = "task" \/ q.op \notin {"analyze", "generate", "update"})
        /\ <<b5, "sample_read_only">> \in S
  OBVIOUS
<1>8. PICK b6 \in BOOLEAN :
        /\ b6 = (q.op \in Reads \/ q.revision = task.revision)
        /\ <<b6, "stale_revision">> \in S
  OBVIOUS
<1>9. \A b \in BOOLEAN, code \in Harmless : <<b, code>> \in S
  OBVIOUS
<1> HIDE DEF HasBefore
<1>1. Received(q) \in Seq(S)
  <2>1. PICK served, good : served = FullAppEnvs
          /\ good = CASE q.op \in SampleOps -> {"task", "sample"} [] OTHER -> {"task"}
    OBVIOUS
  <2>2. PICK b1 \in BOOLEAN : b1 = (AppEnv \in served)
    <3>1. (AppEnv \in served) = TRUE \/ (AppEnv \in served) = FALSE
      OBVIOUS
    <3> QED BY <3>1
  <2>3. PICK b2 \in BOOLEAN : b2 = (q.op = "upload" \/ ~Malformed(q))
    OBVIOUS
  <2>4. PICK b3 \in BOOLEAN : b3 = (q.op \in Reads \/ q.origin # "other")
    OBVIOUS
  <2>5. PICK b4 \in BOOLEAN : b4 = (q.to \in good)
    <3>1. (q.to \in good) = TRUE \/ (q.to \in good) = FALSE
      OBVIOUS
    <3> QED BY <3>1
  <2>6. Received(q) = <<<<b1, "NOT_FOUND">>, <<b2, "invalid_request">>, <<b3, "origin_denied">>,
                        <<b4, "not_found">>, <<b5, "sample_read_only">>>>
    BY <1>7, <2>1, <2>2, <2>3, <2>4, <2>5 DEF Received
  <2>7. /\ <<b1, "NOT_FOUND">> \in S /\ <<b2, "invalid_request">> \in S
        /\ <<b3, "origin_denied">> \in S /\ <<b4, "not_found">> \in S
    BY <1>9 DEF Harmless
  <2> QED BY <1>7, <2>6, <2>7, FiveChecks
<1>2. Uploaded(q) \in Seq(S)
  <2>1. PICK b1, b2, b3, b4, c5 \in BOOLEAN :
          Uploaded(q) = <<<<b1, "multipart_required">>, <<b2, "invalid_form">>,
                          <<b3, "unsafe_filename">>, <<b4, "RESOURCE_LIMIT">>,
                          <<c5, "FORMAT_MISMATCH">>>>
    BY DEF Uploaded
  <2>2. /\ <<b1, "multipart_required">> \in S /\ <<b2, "invalid_form">> \in S
        /\ <<b3, "unsafe_filename">> \in S /\ <<b4, "RESOURCE_LIMIT">> \in S
        /\ <<c5, "FORMAT_MISMATCH">> \in S
    BY <1>9 DEF Harmless
  <2> QED BY <2>1, <2>2, FiveChecks
<1> DEFINE form == IF q.op = "upload" THEN Uploaded(q) ELSE <<>>
           last == <<<<q.op \in Reads \/ q.revision = task.revision, "stale_revision">>>>
<1>3. form \in Seq(S)
  BY <1>2
<1>4. last \in Seq(S)
  <2>1. last = <<<<b6, "stale_revision">>>>
    BY <1>8
  <2> HIDE DEF last
  <2> QED BY <1>8, <2>1
<1>5. Before(q) = (Received(q) \o form) \o last
  BY DEF Before
<1> HIDE DEF form, last
<1>6. Received(q) \o form \in Seq(S)
  BY <1>1, <1>3, ConcatProperties
<1> QED BY <1>4, <1>5, <1>6, ConcatProperties

LEMMA ProblemOf ==
  ASSUME NEW q, NEW S, NEW codes, "OK" \in codes,
         \A check \in S : ~check[1] => check[2] \in codes,
         Before(q) \in Seq(S), Route(q) \in Seq(S)
  PROVE  Problem(q) \in codes
PROOF
<1>1. ASSUME NEW checks \in Seq(S) PROVE FirstFailure(checks) \in codes
  BY FailureOf
<1>2. Problem(q) = IF FirstFailure(Before(q)) = "OK" THEN FirstFailure(Route(q))
                   ELSE FirstFailure(Before(q))
  BY DEF Problem, Refusal
<1> QED BY <1>1, <1>2

\* The only conflict of a change of the sources: another change was first.
LEMMA OnlyStale ==
  ASSUME NEW q, q.op \in Changing, Status(Problem(q)) = 409
  PROVE  q.revision # task.revision
PROOF
<1> SUFFICES ASSUME q.revision = task.revision PROVE FALSE
  OBVIOUS
<1> DEFINE codes == Harmless \cup {"sample_read_only", "stale_revision"}
           S == {check \in BOOLEAN \X codes : check[1] \/ check[2] \in Harmless}
<1>1. \A b \in BOOLEAN, code \in codes : b \/ code \in Harmless => <<b, code>> \in S
  OBVIOUS
<1>2. \A check \in S : ~check[1] => check[2] \in Harmless
  OBVIOUS
<1>3. \A b \in BOOLEAN, code \in Harmless : <<b, code>> \in S
  BY <1>1
<1>4. \E b5 \in BOOLEAN :
        /\ b5 = (q.to = "task" \/ q.op \notin {"analyze", "generate", "update"})
        /\ <<b5, "sample_read_only">> \in S
  <2>1. PICK b5 \in BOOLEAN : b5 = (q.to = "task" \/ q.op \notin {"analyze", "generate", "update"})
    OBVIOUS
  <2>2. b5
    BY <2>1 DEF Changing
  <2> QED BY <1>1, <2>1, <2>2
<1>5. \E b6 \in BOOLEAN :
        /\ b6 = (q.op \in Reads \/ q.revision = task.revision)
        /\ <<b6, "stale_revision">> \in S
  <2>1. PICK b6 \in BOOLEAN : b6 = (q.op \in Reads \/ q.revision = task.revision)
    OBVIOUS
  <2>2. b6
    BY <2>1
  <2> QED BY <1>1, <2>1, <2>2
<1> HIDE DEF S, codes
<1>7. Before(q) \in Seq(S)
  <2>1. HasBefore(q, S)
    BY <1>3, <1>4, <1>5 DEF HasBefore
  <2> QED BY <2>1, BeforeChecks
<1>8. Route(q) \in Seq(S)
  <2>1. CASE q.op = "pair"
    <3>1. Route(q) = PairChecks(q)
      BY <2>1 DEF Route
    <3>2. \E b1, b2 \in BOOLEAN : PairChecks(q) = <<<<b1, "invalid_pair">>, <<b2, "invalid_pair">>>>
      BY DEF PairChecks
    <3>3. \A b \in BOOLEAN : <<b, "invalid_pair">> \in S
      BY <1>3 DEF Harmless
    <3> QED BY <3>1, <3>2, <3>3
  <2>2. CASE q.op = "upload"
    <3>1. \E b \in BOOLEAN : Route(q) = <<<<b, "attachment_limit">>>>
      BY <2>2 DEF Route
    <3>2. \A b \in BOOLEAN : <<b, "attachment_limit">> \in S
      BY <1>3 DEF Harmless
    <3> QED BY <3>1, <3>2
  <2> QED BY <2>1, <2>2 DEF Changing
<1>9. Problem(q) \in Harmless
  BY <1>2, <1>7, <1>8, ProblemOf DEF Harmless
<1> QED BY <1>9, HarmlessCodes

\* What is asked of Gemini is sound: the current analysis is of the revision.
LEMMA AskedNotesSound ==
  ASSUME RowsFresh, NEW q, q.op = "risk", Problem(q) = "OK"
  PROVE  Sound(AskedNotes, q.revision, runs)
PROOF
<1>1. q.revision = task.revision /\ FirstFailure(Route(q)) = "OK"
  BY RevisionPasses DEF Reads
<1>2. PICK b \in BOOLEAN : b = (Explained # {})
  <2>1. (Explained # {}) = TRUE \/ (Explained # {}) = FALSE
    OBVIOUS
  <2> QED BY <2>1
<1>3. Route(q) = <<<<b, "no_discrepancy">>>>
  BY <1>2 DEF Route
<1>4. b
  BY <1>1, <1>3, OnePasses
<1>5. task.current \in Saved /\ Explained = runs[task.current].result.defects
  BY <1>2, <1>4 DEF Explained
<1>6. /\ AskedNotes.revision = task.revision /\ AskedNotes.run = task.current
      /\ AskedNotes.fields = runs[task.current].result.defects
  BY <1>5 DEF AskedNotes
<1>7. AskedNotes = [revision |-> AskedNotes.revision, run |-> AskedNotes.run,
                    fields |-> AskedNotes.fields]
  BY DEF AskedNotes
<1> QED BY <1>1, <1>5, <1>6, <1>7 DEF Sound, RowsFresh, Saved

\* A slot goes on while its request is performed.
LEMMA StageFits ==
  ASSUME NEW now \in Nat, NEW rows, Fits(page, slots, now, rows), AreSlots(slots),
         NEW p \in Panel, NEW at \in {"asking", "performed"}, NEW notes,
         p = "risk" => at = "asking" /\ Sound(notes, page.view.revision, rows),
         slots' = [slots EXCEPT ![p] = [@ EXCEPT !.at = at, !.notes = notes]]
  PROVE  Fits(page, slots', now, rows)
PROOF
<1>1. PICK a : a = [slots[p] EXCEPT !.at = at]
  OBVIOUS
<1>2. PICK b : b = [a EXCEPT !.notes = notes]
  OBVIOUS
<1>3. IsSlot(slots[p]) /\ SlotFits(p, slots[p], page.view.revision, now, rows)
  BY DEF AreSlots, Fits
<1>4. IsSlot(a) /\ a.at = at /\ a.shown = slots[p].shown /\ a.view = slots[p].view
  BY <1>1, <1>3 DEF IsSlot
<1>5. b.at = at /\ b.shown = slots[p].shown /\ b.view = slots[p].view /\ b.notes = notes
  BY <1>2, <1>4 DEF IsSlot
<1>6. slots' = [slots EXCEPT ![p] = b]
  BY <1>1, <1>2
<1>7. SlotFits(p, b, page.view.revision, now, rows)
  BY <1>3, <1>5 DEF SlotFits, SourcesFit, RiskFits
<1>8. Fits(page, [slots EXCEPT ![p] = b], now, rows)
  BY <1>7, SlotSetFits
<1> QED BY <1>6, <1>8

LEMMA ServeFits ==
  ASSUME NoticeInv, Grown, NEW p \in Panel, Serve(p)
  PROVE  Fits(page, slots', task'.revision, runs')
PROOF
<1>1. /\ AreSlots(slots) /\ IsPage(page) /\ Fits(page, slots, task.revision, runs)
      /\ slots[p].at = "sent" /\ (p = "risk" <=> slots[p].op = "risk")
      /\ ((p \in Form) <=> slots[p].op \in Changing)
  BY PanelNames DEF NoticeInv, HookInv, Held, Asking, Serve, Panel, Changing, Form, Deciding
<1>2. /\ task.revision \in Nat /\ task'.revision \in Nat
      /\ Fits(page, slots, task'.revision, runs')
  BY <1>1, FitsLater DEF NoticeInv, Grown
<1>3. PICK q \in Sent(slots[p].op, slots[p].shown, slots[p].draft) :
        IF Problem(q) = "OK"
        THEN /\ Perform(q, Page)
             /\ slots' = [slots EXCEPT
                  ![p].at = IF q.op \in {"generate", "risk"} THEN "asking" ELSE "performed",
                  ![p].notes = IF q.op = "risk" THEN AskedNotes ELSE NoBriefing]
        ELSE UNCHANGED server /\ Answer(p, Problem(q), NoView, NoBriefing)
  BY DEF Serve
<1>4. q.op = slots[p].op /\ q.revision = slots[p].shown.revision
  BY <1>3, SentIsAbout
<1>5. Upto(slots[p].shown, task.revision)
  BY <1>1 DEF Fits, SlotFits
<1>6. CASE Problem(q) = "OK"
  <2> DEFINE at == IF q.op \in {"generate", "risk"} THEN "asking" ELSE "performed"
             notes == IF q.op = "risk" THEN AskedNotes ELSE NoBriefing
  <2>1. slots' = [slots EXCEPT ![p] = [@ EXCEPT !.at = at, !.notes = notes]]
    BY <1>3, <1>6
  <2>2. at \in {"asking", "performed"}
    OBVIOUS
  <2>3. p = "risk" => at = "asking" /\ Sound(notes, page.view.revision, runs')
    <3> SUFFICES ASSUME p = "risk" PROVE at = "asking" /\ Sound(notes, page.view.revision, runs')
      OBVIOUS
    <3>1. q.op = "risk" /\ at = "asking" /\ notes = AskedNotes
      BY <1>1, <1>4
    <3>2. Sound(AskedNotes, q.revision, runs)
      BY <1>6, <3>1, AskedNotesSound DEF NoticeInv
    <3>3. q.revision = page.view.revision
      BY <1>1, <1>4 DEF Fits, SlotFits, RiskFits
    <3>4. Sound(AskedNotes, page.view.revision, runs')
      BY <3>2, <3>3 DEF Sound, Grown
    <3> QED BY <3>1, <3>4
  <2> HIDE DEF at, notes
  <2> QED BY <1>1, <1>2, <2>1, <2>2, <2>3, StageFits
<1>7. CASE Problem(q) # "OK"
  <2>1. UNCHANGED server /\ Answer(p, Problem(q), NoView, NoBriefing)
    BY <1>3, <1>7
  <2>2. task' = task /\ runs' = runs
    BY <2>1 DEF server, vars
  <2>3. p \in Form /\ slots[p].mounted /\ Status(Problem(q)) = 409
          => page.view.revision < task.revision
    <3> SUFFICES ASSUME p \in Form, slots[p].mounted, Status(Problem(q)) = 409
                 PROVE  page.view.revision < task.revision
      OBVIOUS
    <3>1. q.revision # task.revision
      BY <1>1, <1>4, OnlyStale
    <3>2. slots[p].shown.revision = page.view.revision
      BY <1>1 DEF Fits, SlotFits, SourcesFit
    <3> QED BY <1>2, <1>4, <1>5, <3>1, <3>2 DEF Upto
  <2>4. Upto(NoView, task.revision)
    BY <1>2 DEF Upto, NoView
  <2>5. Fits(page, slots', task.revision, runs)
    BY <1>1, <1>2, <1>7, <2>1, <2>3, <2>4, AnswerFits
  <2> QED BY <2>2, <2>5
<1> QED BY <1>6, <1>7

\* Gemini answers, or the second transaction of a request does.
LEMMA AnsweredFits ==
  ASSUME NoticeInv, Grown, NEW p \in Panel, Detail(p) \/ DraftAnswered \/ BriefingAnswered
  PROVE  Fits(page, slots', task'.revision, runs')
PROOF
<1>1. /\ AreSlots(slots) /\ IsPage(page) /\ Fits(page, slots, task.revision, runs)
  BY DEF NoticeInv, HookInv, Held
<1>2. /\ task.revision \in Nat /\ task'.revision \in Nat
      /\ Fits(page, slots, task'.revision, runs')
  BY <1>1, FitsLater DEF NoticeInv, Grown
<1>3. Upto(NoView, task'.revision) /\ Upto(NoView, task.revision)
  BY <1>2 DEF Upto, NoView
<1>4. CASE Detail(p)
  <2>1. slots[p].at = "performed" /\ p # "risk" /\ UNCHANGED server
    BY <1>1, <1>4 DEF Detail, Fits, SlotFits, RiskFits
  <2>2. task' = task /\ runs' = runs
    BY <2>1 DEF server, vars
  <2>3. PICK view : view = Snapshot
    OBVIOUS
  <2>4. view.revision = task.revision
    <3>1. PICK shown, past : shown = ShownDraft.id /\ past = FALSE
      OBVIOUS
    <3>3. Snapshot = ViewOf(task.current, task.revision, task.pair, latest.status, shown, past)
      BY <3>1 DEF Snapshot
    <3> QED BY <2>3, <3>3, ViewOfRevision
  <2>5. Upto(view, task.revision) /\ Status("OK") # 409
    BY <1>2, <2>4, HarmlessCodes DEF Upto, Harmless
  <2>6. Answer(p, "OK", view, NoBriefing)
    BY <1>4, <2>3 DEF Detail
  <2>7. Fits(page, slots', task.revision, runs)
    BY <1>1, <1>2, <2>1, <2>5, <2>6, AnswerFits
  <2> QED BY <2>2, <2>7
<1>5. CASE DraftAnswered
  <2>1. CASE slots' = [slots EXCEPT !["email"].at = "performed"]
    <3>1. PICK a : a = [slots["email"] EXCEPT !.at = "performed"]
      OBVIOUS
    <3>2. IsSlot(slots["email"]) /\ SlotFits("email", slots["email"], page.view.revision, task'.revision, runs')
      BY <1>1, <1>2, PanelNames DEF AreSlots, Fits
    <3>3. a.shown = slots["email"].shown /\ a.view = slots["email"].view
      BY <3>1, <3>2 DEF IsSlot
    <3>4. SlotFits("email", a, page.view.revision, task'.revision, runs')
      BY <3>2, <3>3, PanelNames DEF SlotFits
    <3>5. slots' = [slots EXCEPT !["email"] = a]
      BY <2>1, <3>1
    <3> QED BY <1>1, <1>2, <3>4, <3>5, SlotSetFits, PanelNames
  <2>2. CASE \E code : Answer("email", code, NoView, NoBriefing)
    BY <1>1, <1>2, <1>3, <2>2, AnswerFits, PanelNames
  <2> QED BY <1>5, <2>1, <2>2 DEF DraftAnswered
<1>6. CASE BriefingAnswered
  <2>1. task' = task /\ runs' = runs
    BY <1>6 DEF BriefingAnswered, server, vars
  <2>2. PICK asked, notes : asked = slots["risk"].notes /\
          IF Acceptable(notes, asked.fields)
          THEN Answer("risk", "OK", NoView, [asked EXCEPT !.fields = Listed(notes)])
          ELSE Answer("risk", "AI_INVALID_RESPONSE", NoView, NoBriefing)
    BY <1>6 DEF BriefingAnswered
  <2>3. CASE Acceptable(notes, asked.fields)
    <3>1. PICK told : told = [asked EXCEPT !.fields = Listed(notes)]
      OBVIOUS
    <3>2. Listed(notes) = asked.fields
      BY <2>3 DEF Acceptable
    <3>4. Sound(asked, page.view.revision, runs)
      BY <1>1, <1>6, <2>2, PanelNames DEF BriefingAnswered, Fits, SlotFits, RiskFits
    <3>3. told = asked
      BY <3>1, <3>2, <3>4 DEF Sound
    <3>5. Answer("risk", "OK", NoView, told)
      BY <2>2, <2>3, <3>1
    <3>6. Fits(page, slots', task.revision, runs)
      BY <1>1, <1>2, <1>3, <3>3, <3>4, <3>5, AnswerFits, PanelNames
    <3> QED BY <2>1, <3>6
  <2>4. CASE ~Acceptable(notes, asked.fields)
    <3>1. Answer("risk", "AI_INVALID_RESPONSE", NoView, NoBriefing)
      BY <2>2, <2>4
    <3>2. Fits(page, slots', task.revision, runs)
      BY <1>1, <1>2, <1>3, <3>1, AnswerFits, PanelNames
    <3> QED BY <2>1, <3>2
  <2> QED BY <2>3, <2>4
<1> QED BY <1>4, <1>5, <1>6

\* A panel ends and the page, or the page with its dialog closed, shows what the
\* panel was told.
LEMMA TakenFits ==
  ASSUME NEW now \in Nat, NEW rows, NEW pg, Fits(pg, slots, now, rows), AreSlots(slots),
         IsPage(pg), pg.view = page.view,
         NEW view, Upto(view, now), NEW p \in Panel, NEW s,
         SlotFits(p, s, view.revision, now, rows),
         NEW new, Upto(new.pending, now), new.view = view, new.opened = pg.opened,
         new.conflict = Show(pg, view).conflict, new.briefing = Show(pg, view).briefing
  PROVE  Fits(new, [Rebuilt(slots, view) EXCEPT ![p] = s], now, rows)
PROOF
<1>1. PICK shown, again : shown = Show(pg, view) /\ again = Rebuilt(slots, view)
  OBVIOUS
<1>2. Fits(shown, again, now, rows) /\ AreSlots(again)
  BY <1>1, ShowFits, RebuiltKeeps
<1>3. shown.view = view /\ shown.opened = pg.opened
  BY <1>1 DEF Show, IsPage
<1>4. Fits(new, again, now, rows)
  BY <1>1, <1>2, <1>3, PageSetFits
<1> QED BY <1>1, <1>2, <1>4, SlotSetFits

LEMMA FreedFits ==
  ASSUME NEW pg, NEW now \in Nat, NEW rows, NEW ss, Fits(pg, ss, now, rows), AreSlots(ss),
         NEW p \in Panel
  PROVE  Fits(pg, [ss EXCEPT ![p] = Idle], now, rows)
PROOF BY IdleFits, SlotSetFits

LEMMA ReceivesFit ==
  ASSUME NoticeInv,
         \/ \E p \in Deciding : ReceiveDecision(p)
         \/ ReceiveDraft \/ ReceiveBriefing
         \/ \E p \in Form : ReceiveSources(p)
  PROVE  Fits(page', slots', task.revision, runs)
PROOF
<1>1. /\ AreSlots(slots) /\ IsPage(page) /\ Fits(page, slots, task.revision, runs)
      /\ task.revision \in Nat
  BY DEF NoticeInv, HookInv, Held, TypeOK, TaskRow
<1>2. Upto(NoView, task.revision)
  BY <1>1 DEF Upto, NoView
<1>3. \A p \in Panel : Upto(slots[p].view, task.revision)
  BY <1>1 DEF Fits, SlotFits
<1>4. ASSUME NEW p \in Panel, page' = page, slots' = [slots EXCEPT ![p] = Idle]
      PROVE  Fits(page', slots', task.revision, runs)
  BY <1>1, <1>4, FreedFits
<1>5. ASSUME NEW pg, IsPage(pg), Fits(pg, slots, task.revision, runs), pg.view = page.view,
             NEW p \in Panel, NEW view, Upto(view, task.revision), NEW held,
             \/ page' = [Show(pg, view) EXCEPT !.pending = NoView]
             \/ page' = [Show(pg, view) EXCEPT !.pending = NoView, !.draft = held],
             slots' = [Rebuilt(slots, view) EXCEPT ![p] = Idle]
      PROVE  Fits(page', slots', task.revision, runs)
  <2>1. PICK shown : shown = Show(pg, view)
    OBVIOUS
  <2>2. IsPage(shown) /\ shown.view = view /\ shown.opened = pg.opened
    <3>1. IsPage(shown) /\ shown.view = view
      BY <1>5, <2>1, ShowKeeps
    <3>2. shown.opened = pg.opened
      BY <1>5, <2>1 DEF Show, IsPage
    <3> QED BY <3>1, <3>2
  <2>3. /\ page'.pending = NoView /\ page'.view = view /\ page'.opened = pg.opened
        /\ page'.conflict = shown.conflict /\ page'.briefing = shown.briefing
    BY <1>5, <2>1, <2>2 DEF IsPage
  <2>4. SlotFits(p, Idle, view.revision, task.revision, runs)
    BY <1>1, IdleFits
  <2>5. Upto(page'.pending, task.revision)
    BY <1>2, <2>3
  <2>6. Fits(page', [Rebuilt(slots, view) EXCEPT ![p] = Idle], task.revision, runs)
    BY <1>1, <1>5, <2>1, <2>3, <2>4, <2>5, TakenFits
  <2> QED BY <1>5, <2>6
<1>6. ASSUME NEW p \in Deciding, ReceiveDecision(p)
      PROVE  Fits(page', slots', task.revision, runs)
  <2>1. PICK pg : pg = Closed(p, page)
    OBVIOUS
  <2>2. /\ IsPage(pg) /\ pg.view = page.view /\ pg.pending = page.pending
        /\ pg.opened = page.opened /\ pg.conflict = page.conflict
        /\ pg.briefing = page.briefing
    BY <1>1, <2>1, ClosedIs DEF IsPage
  <2>3. Upto(pg.pending, task.revision)
    BY <1>1, <2>2 DEF Fits, PageFits
  <2>4. Fits(pg, slots, task.revision, runs)
    BY <1>1, <2>2, <2>3, PageSetFits
  <2>5. p \in Panel
    BY <1>6, DecidingNames
  <2>6. CASE slots[p].code = "OK"
    <3>1. /\ page' = [Show(pg, slots[p].view) EXCEPT !.pending = NoView]
          /\ slots' = [Rebuilt(slots, slots[p].view) EXCEPT ![p] = Idle]
      BY <1>6, <2>1, <2>6 DEF ReceiveDecision, Replace
    <3>2. PICK view : view = slots[p].view
      OBVIOUS
    <3>3. Upto(view, task.revision)
      BY <1>3, <2>5, <3>2
    <3> QED BY <1>5, <2>2, <2>4, <2>5, <3>1, <3>2, <3>3
  <2>7. CASE slots[p].code # "OK"
    BY <1>1, <1>6, <2>1, <2>4, <2>5, <2>7, FreedFits DEF ReceiveDecision
  <2> QED BY <2>6, <2>7
<1>7. CASE ReceiveDraft
  <2> DEFINE view == slots["email"].view
  <2>1. \/ page' = page /\ slots' = [slots EXCEPT !["email"] = Idle]
        \/ page' = [page EXCEPT !.draft = 0] /\ slots' = [slots EXCEPT !["email"] = Idle]
        \/ /\ page' = [Show(page, view) EXCEPT !.pending = NoView, !.draft = view.draft]
           /\ slots' = [Rebuilt(slots, view) EXCEPT !["email"] = Idle]
    BY <1>7 DEF ReceiveDraft
  <2>2. CASE page' = [page EXCEPT !.draft = 0] /\ slots' = [slots EXCEPT !["email"] = Idle]
    <3>1. /\ page'.view = page.view /\ page'.pending = page.pending
          /\ page'.opened = page.opened /\ page'.conflict = page.conflict
          /\ page'.briefing = page.briefing
      BY <1>1, <2>2 DEF IsPage
    <3>2. Upto(page'.pending, task.revision)
      BY <1>1, <3>1 DEF Fits, PageFits
    <3>3. Fits(page', slots, task.revision, runs)
      BY <1>1, <3>1, <3>2, PageSetFits
    <3> QED BY <1>1, <2>2, <3>3, FreedFits, PanelNames
  <2>3. CASE /\ page' = [Show(page, view) EXCEPT !.pending = NoView, !.draft = view.draft]
             /\ slots' = [Rebuilt(slots, view) EXCEPT !["email"] = Idle]
    BY <1>1, <1>3, <1>5, <2>3, PanelNames
  <2> QED BY <1>4, <2>1, <2>2, <2>3, PanelNames
<1>8. CASE ReceiveBriefing
  <2>1. Fits(page, slots', task.revision, runs)
    BY <1>1, <1>8, FreedFits, PanelNames DEF ReceiveBriefing
  <2>2. CASE slots["risk"].code = "OK"
    <3>1. Sound(slots["risk"].notes, page.view.revision, runs)
      BY <1>1, <1>8, <2>2, PanelNames DEF ReceiveBriefing, Answered, Fits, SlotFits, RiskFits
    <3>2. page' = [page EXCEPT !.briefing = slots["risk"].notes]
      BY <1>8, <2>2 DEF ReceiveBriefing
    <3>3. /\ page'.view = page.view /\ page'.pending = page.pending
          /\ page'.opened = page.opened /\ page'.conflict = page.conflict
          /\ page'.briefing = slots["risk"].notes
      BY <1>1, <3>2 DEF IsPage
    <3>4. PageFits(page', task.revision, runs)
      BY <2>1, <3>1, <3>3 DEF Fits, PageFits
    <3> QED BY <2>1, <3>3, <3>4 DEF Fits
  <2>3. CASE slots["risk"].code # "OK"
    BY <1>8, <2>1, <2>3 DEF ReceiveBriefing
  <2> QED BY <2>2, <2>3
<1>9. ASSUME NEW p \in Form, ReceiveSources(p)
      PROVE  Fits(page', slots', task.revision, runs)
  <2> DEFINE rest == [slots EXCEPT ![p] = Idle]
  <2>1. Fits(page, rest, task.revision, runs) /\ AreSlots(rest)
    BY <1>1, FreedFits, SlotIdle, FormNames DEF AreSlots
  <2>2. CASE slots[p].code = "OK"
    <3>1. Analyze(slots[p].view, rest)
      BY <1>9, <2>2 DEF ReceiveSources
    <3> HIDE DEF rest
    <3> QED BY <1>1, <1>3, <2>1, <3>1, AnalyzeFits, FormNames
  <2>3. CASE slots[p].code # "OK"
    <3>1. PICK c : c = IF slots[p].mounted THEN Status(slots[p].code) = 409 ELSE page.conflict
      OBVIOUS
    <3>2. page' = [page EXCEPT !.conflict = c] /\ slots' = rest
      BY <1>9, <2>3, <3>1 DEF ReceiveSources
    <3>3. /\ page'.view = page.view /\ page'.pending = page.pending
          /\ page'.opened = page.opened /\ page'.conflict = c
          /\ page'.briefing = page.briefing
      BY <1>1, <3>2 DEF IsPage
    <3>4. c => page.view.revision < task.revision
      BY <1>1, <1>9, <3>1, FormNames
         DEF ReceiveSources, Answered, Fits, PageFits, SlotFits, SourcesFit
    <3>5. PageFits(page', task.revision, runs)
      BY <1>1, <3>3, <3>4 DEF Fits, PageFits
    <3> QED BY <2>1, <3>2, <3>3, <3>5 DEF Fits
  <2> QED BY <2>2, <2>3
<1> QED BY <1>6, <1>7, <1>8, <1>9

\* The hook goes on.
LEMMA HookFits ==
  ASSUME NoticeInv, ReceiveAnalysis \/ Poll \/ Reveal
  PROVE  Fits(page', slots', task.revision, runs)
PROOF
<1>1. /\ AreSlots(slots) /\ IsPage(page) /\ Fits(page, slots, task.revision, runs)
      /\ task.revision \in Nat
  BY DEF NoticeInv, HookInv, Held, TypeOK, TaskRow
<1>2. Upto(NoView, task.revision)
  BY <1>1 DEF Upto, NoView
<1>3. Upto(slots["analysis"].view, task.revision) /\ Upto(page.pending, task.revision)
  BY <1>1, PanelNames DEF Fits, SlotFits, PageFits
<1>4. CASE ReceiveAnalysis
  <2> DEFINE view == slots["analysis"].view
             rest == [Rebuilt(slots, view) EXCEPT !["analysis"] = Idle]
  <2>1. view.status \in RunStatus
    BY DEF NoticeInv, HookInv, Held
  <2>2. CASE \/ slots["analysis"].code # "OK"
             \/ slots["analysis"].code = "OK" /\ view.status = "SUCCEEDED"
    <3>1. /\ slots' = [slots EXCEPT !["analysis"] = Idle]
          /\ \/ page' = [page EXCEPT !.phase = "failed", !.locked = FALSE]
             \/ page' = [page EXCEPT !.phase = "preparing", !.pending = view]
      BY <1>4, <2>2 DEF ReceiveAnalysis
    <3>2. /\ page'.view = page.view /\ page'.pending \in {page.pending, view}
          /\ page'.opened = page.opened /\ page'.conflict = page.conflict
          /\ page'.briefing = page.briefing
      BY <1>1, <3>1 DEF IsPage
    <3>3. Upto(page'.pending, task.revision)
      BY <1>3, <3>2
    <3>4. Fits(page', slots, task.revision, runs)
      BY <1>1, <3>2, <3>3, PageSetFits
    <3> QED BY <1>1, <3>1, <3>4, FreedFits, PanelNames
  <2>3. CASE slots["analysis"].code = "OK" /\ view.status \in {"RUNNING", "NONE", "FAILED"}
    <3>1. /\ slots' \in {rest, [rest EXCEPT !["analysis"].at = "waiting"]}
          /\ \/ page' = Show(page, view)
             \/ page' = [Show(page, view) EXCEPT !.phase = "failed", !.locked = FALSE]
      BY <1>4, <2>3 DEF ReceiveAnalysis
    <3>2. PICK shown : shown = Show(page, view)
      OBVIOUS
    <3>3. IsPage(shown) /\ shown.view = view /\ shown.pending = page.pending
      BY <1>1, <3>2, ShowKeeps
    <3>4. shown.opened = page.opened
      BY <1>1, <3>2 DEF Show, IsPage
    <3>5. /\ page'.pending = page.pending /\ page'.view = view /\ page'.opened = page.opened
          /\ page'.conflict = shown.conflict /\ page'.briefing = shown.briefing
      BY <3>1, <3>2, <3>3, <3>4 DEF IsPage
    <3>6. Fits(page', rest, task.revision, runs)
      <4>1. SlotFits("analysis", Idle, view.revision, task.revision, runs)
        BY <1>1, IdleFits
      <4>2. Upto(page'.pending, task.revision) /\ Upto(view, task.revision)
        BY <1>3, <3>5
      <4> HIDE DEF view
      <4> QED BY <1>1, <3>2, <3>5, <4>1, <4>2, TakenFits, PanelNames
    <3>7. AreSlots(rest) /\ rest["analysis"] = Idle
      <4>1. AreSlots(Rebuilt(slots, view))
        BY <1>1, RebuiltKeeps
      <4> QED BY <4>1, SlotIdle, PanelNames DEF AreSlots
    <3>8. CASE slots' = [rest EXCEPT !["analysis"].at = "waiting"]
      <4>1. PICK s : s = [Idle EXCEPT !.at = "waiting"]
        OBVIOUS
      <4>2. s.shown = NoView /\ s.view = NoView
        BY <4>1 DEF Idle
      <4>3. SlotFits("analysis", s, page'.view.revision, task.revision, runs)
        BY <1>2, <4>2, PanelNames DEF SlotFits
      <4>4. slots' = [rest EXCEPT !["analysis"] = s]
        BY <3>7, <3>8, <4>1
      <4> HIDE DEF rest
      <4>5. Fits(page', [rest EXCEPT !["analysis"] = s], task.revision, runs)
        BY <3>6, <3>7, <4>3, SlotSetFits, PanelNames
      <4> QED BY <4>4, <4>5
    <3> QED BY <3>1, <3>6, <3>8
  <2> QED BY <2>1, <2>2, <2>3 DEF RunStatus
<1>5. CASE Poll
  <2>1. PICK s : s = [Idle EXCEPT !.at = "sent"]
    OBVIOUS
  <2>2. s.shown = NoView /\ s.view = NoView
    BY <2>1 DEF Idle
  <2>3. SlotFits("analysis", s, page.view.revision, task.revision, runs)
    BY <1>2, <2>2, PanelNames DEF SlotFits
  <2>4. page' = page /\ slots' = [slots EXCEPT !["analysis"] = s]
    BY <1>5, <2>1 DEF Poll
  <2> QED BY <1>1, <2>3, <2>4, SlotSetFits, PanelNames
<1>6. CASE Reveal
  <2>1. PICK view : view = page.pending
    OBVIOUS
  <2>2. PICK shown : shown = Show(page, view)
    OBVIOUS
  <2>3. /\ page' = [shown EXCEPT !.pending = NoView, !.locked = FALSE, !.phase = "revealed"]
        /\ slots' = Rebuilt(slots, view)
    BY <1>6, <2>1, <2>2 DEF Reveal
  <2>4. IsPage(shown) /\ shown.view = view
    BY <1>1, <2>2, ShowKeeps
  <2>5. Fits(shown, slots', task.revision, runs)
    BY <1>1, <1>3, <2>1, <2>2, <2>3, ShowFits
  <2>6. /\ page'.pending = NoView /\ page'.view = shown.view /\ page'.opened = shown.opened
        /\ page'.conflict = shown.conflict /\ page'.briefing = shown.briefing
    BY <2>3, <2>4 DEF IsPage
  <2>7. Upto(page'.pending, task.revision)
    BY <1>2, <2>6
  <2> QED BY <2>5, <2>6, <2>7, PageSetFits
<1> QED BY <1>4, <1>5, <1>6

LEMMA LostFits ==
  ASSUME NoticeInv, NEW p \in Panel, Lost(p)
  PROVE  Fits(page', slots', task.revision, runs)
PROOF
<1>1. /\ AreSlots(slots) /\ IsPage(page) /\ Fits(page, slots, task.revision, runs)
      /\ task.revision \in Nat
  BY DEF NoticeInv, HookInv, Held, TypeOK, TaskRow
<1>2. /\ page'.view = page.view /\ page'.pending = page.pending
      /\ page'.opened = page.opened /\ page'.conflict = page.conflict
      /\ page'.briefing = page.briefing
  BY <1>1, ClosedIs DEF Lost, IsPage
<1>3. Upto(page'.pending, task.revision)
  BY <1>1, <1>2 DEF Fits, PageFits
<1>4. Fits(page', slots, task.revision, runs)
  BY <1>1, <1>2, <1>3, PageSetFits
<1> QED BY <1>1, <1>4, FreedFits DEF Lost

LEMMA NoticeStarts == PageInit => NoticeInv
PROOF
<1> SUFFICES ASSUME PageInit PROVE NoticeInv
  OBVIOUS
<1>1. HookInv /\ TypeOK
  BY HookStarts, DeskInit DEF PageInit, DeskInv
<1>2. Saved = {} /\ task.current = NoRun /\ task.revision \in Nat
  BY <1>1, NotSavedType, FirstTask DEF PageInit, Init, Saved, TypeOK, TaskRow
<1>3. RowsFresh
  BY <1>2 DEF RowsFresh
<1>4. PICK view : view = Snapshot
  OBVIOUS
<1>5. view.revision = task.revision
  <2>1. PICK shown, past : shown = ShownDraft.id /\ past = FALSE
    OBVIOUS
  <2>2. Snapshot = ViewOf(task.current, task.revision, task.pair, latest.status, shown, past)
    BY <2>1 DEF Snapshot
  <2> QED BY <1>4, <2>2, ViewOfRevision
<1>6. /\ page.view = view /\ page.pending = NoView /\ page.opened = NoRun
      /\ page.conflict = FALSE /\ page.briefing = NoBriefing /\ NoView.revision = 0
  BY <1>4 DEF PageInit, Loaded, NoView
<1>7. PageFits(page, task.revision, runs)
  BY <1>2, <1>5, <1>6 DEF PageFits, Upto
<1>8. \A p \in Panel : slots[p] = Idle
  BY DEF PageInit
<1>9. Fits(page, slots, task.revision, runs)
  BY <1>2, <1>7, <1>8, IdleFits DEF Fits
<1> QED BY <1>1, <1>3, <1>9 DEF NoticeInv

LEMMA NoticeStep ==
  ASSUME NoticeInv, TypeOK', PageNext \/ UNCHANGED allVars
  PROVE  NoticeInv'
PROOF
<1>1. Grown /\ RowsFresh' /\ HookInv'
  BY PageStepIsDesk, DeskGrows, HookStep DEF NoticeInv
<1> SUFFICES Fits(page', slots', task'.revision, runs')
  BY <1>1 DEF NoticeInv
<1>2. Fits(page, slots, task.revision, runs) /\ task.revision \in Nat /\ task'.revision \in Nat
  BY <1>1 DEF NoticeInv, Grown
<1> DEFINE Goal == Fits(page', slots', task'.revision, runs')
<1>3. ASSUME UNCHANGED server, Fits(page', slots', task.revision, runs) PROVE Goal
  BY <1>3 DEF server, vars
<1>4. ASSUME UNCHANGED <<page, slots>> PROVE Goal
  <2>1. Fits(page, slots, task'.revision, runs')
    BY <1>1, <1>2, FitsLater DEF Grown
  <2> QED BY <1>4, <2>1
<1> HIDE DEF Goal
<1>5. ASSUME \/ Reanalyze \/ SaveSources \/ Decide \/ Confirm \/ Complete
             \/ Draft \/ CloseDraft \/ Explain
      PROVE  Goal
  <2>1. UNCHANGED server
    BY <1>5
       DEF Reanalyze, SaveSources, Decide, Confirm, Complete, Draft, CloseDraft, Explain, Click
  <2> QED BY <1>3, <1>5, <2>1, ClicksFit
<1>6. ASSUME NEW p \in Panel, Serve(p) PROVE Goal
  BY <1>1, <1>6, ServeFits DEF Serve, Goal
<1>7. ASSUME NEW p \in Panel, Detail(p) \/ DraftAnswered \/ BriefingAnswered PROVE Goal
  BY <1>1, <1>7, AnsweredFits DEF Detail, DraftAnswered, BriefingAnswered, Goal
<1>8. ASSUME NEW p \in Panel, Lost(p) PROVE Goal
  BY <1>3, <1>8, LostFits DEF Lost
<1>9. ASSUME \/ \E p \in Deciding : ReceiveDecision(p)
             \/ ReceiveDraft \/ ReceiveBriefing
             \/ \E p \in Form : ReceiveSources(p)
      PROVE  Goal
  BY <1>3, <1>9, ReceivesFit DEF ReceiveDecision, ReceiveDraft, ReceiveBriefing, ReceiveSources
<1>10. ASSUME ReceiveAnalysis \/ Poll \/ Reveal PROVE Goal
  BY <1>3, <1>10, HookFits DEF ReceiveAnalysis, Poll, Reveal
<1>11. ASSUME LoadAgain \/ Leave PROVE Goal
  <2>1. PICK r : Load(r) /\ (r = NoRun \/ r \in Saved)
    <3>1. page.opened = NoRun \/ page.opened \in Saved
      BY <1>2 DEF Fits, PageFits, Saved
    <3> QED BY <1>11, <3>1 DEF LoadAgain, Leave
  <2> QED BY <1>3, <2>1, LoadFits DEF Load, NoticeInv
<1>12. ASSUME \/ \E stray \in strays : ServeStray(stray) \/ StrayFollows(stray) \/ StrayDropped(stray)
              \/ DraftEnds \/ Rival \/ RunEnds \/ RunIsLate \/ UNCHANGED allVars
       PROVE  Goal
  BY <1>4, <1>12 DEF ServeStray, StrayFollows, StrayDropped, DraftEnds, Rival, RunEnds,
                     RunIsLate, allVars
<1>13. "email" \in Panel
  BY PanelNames
<1> QED BY <1>5, <1>6, <1>7, <1>8, <1>9, <1>10, <1>11, <1>12, <1>13 DEF PageNext, Goal

LEMMA NoticeInvariance == PageSpec => []NoticeInv
PROOF
<1>1. NoticeInv /\ TypeOK' /\ [PageNext]_allVars => NoticeInv'
  BY NoticeStep
<1>2. PageSpec => []TypeOK
  BY PageIsADesk, DeskTypeCorrect, PTL
<1> QED BY <1>1, <1>2, NoticeStarts, PTL DEF PageSpec

\* What a page says beside the result is about the revision shown: a conflict of
\* the form with a later revision, and notes that name what the machine found in
\* an analysis of it; late answers and the other client included.
THEOREM NoticesShown == PageSpec => []NoticesAreOfTheShown
PROOF
<1>1. NoticeInv => NoticesAreOfTheShown
  BY DEF NoticeInv, Fits, PageFits, Sound, NoticesAreOfTheShown, Saved
<1> QED BY <1>1, NoticeInvariance, PTL
-----------------------------------------------------------------------------
(***************************************************************************)
(* Types of the page.                                                      *)
(***************************************************************************)
LEMMA NoViewType == NoView \in View
PROOF
<1>1. [role \in Role |-> NoDoc] \in Pair
  BY DEF Pair, DocOrNone
<1> QED BY <1>1 DEF NoView, View

LEMMA ViewOfType ==
  ASSUME DeskInv, NEW r, NEW revision \in Nat, NEW pair \in Pair, NEW status \in RunStatus,
         NEW shown \in Nat, NEW past \in BOOLEAN
  PROVE  ViewOf(r, revision, pair, status, shown, past) \in View
PROOF
<1>1. CASE r \notin Saved
  <2>1. ViewOf(r, revision, pair, status, shown, past) =
          [NoView EXCEPT !.revision = revision, !.pair = pair, !.status = status]
    BY <1>1 DEF ViewOf
  <2> QED BY <2>1, NoViewType DEF View, RunStatus
<1>2. CASE r \in Saved
  <2>1. PICK reviewed : reviewed = ReviewedResult(r)
    OBVIOUS
  <2>2. reviewed.defects \subseteq Fields /\ r \in Runs
    BY <1>2, <2>1, ReviewedType DEF DeskInv, Result, Saved
  <2>3. PICK b1, b2, b3, b4 \in BOOLEAN :
          /\ b1 = (reviewed.fields # {}) /\ b2 = IsEligible(r) /\ b3 = (r \in completions)
          /\ b4 = (reviewed.defects # {} \/ reviewed.reqs # {}
                     \/ WithFinding(reviewed.fields, "NEEDS_REVIEW") # {})
    <3>1. \A x, y : (x # y) = TRUE \/ (x # y) = FALSE
      OBVIOUS
    <3>2. \E b1 \in BOOLEAN : b1 = (reviewed.fields # {})
      BY <3>1
    <3>3. \E b2 \in BOOLEAN : b2 = IsEligible(r)
      <4>1. IsEligible(r) \in BOOLEAN
        BY DEF IsEligible
      <4> QED BY <4>1
    <3>4. \E b3 \in BOOLEAN : b3 = (r \in completions)
      <4>1. (r \in completions) = TRUE \/ (r \in completions) = FALSE
        OBVIOUS
      <4> QED BY <4>1
    <3>5. \E b4 \in BOOLEAN :
            b4 = (reviewed.defects # {} \/ reviewed.reqs # {}
                    \/ WithFinding(reviewed.fields, "NEEDS_REVIEW") # {})
      <4>1. PICK found : found = WithFinding(reviewed.fields, "NEEDS_REVIEW")
        OBVIOUS
      <4>2. \E b4 \in BOOLEAN : b4 = (reviewed.defects # {} \/ reviewed.reqs # {} \/ found # {})
        OBVIOUS
      <4> QED BY <4>1, <4>2
    <3> QED BY <3>2, <3>3, <3>4, <3>5
  <2>4. ViewOf(r, revision, pair, status, shown, past) =
          [revision |-> revision, pair |-> pair, run |-> r, status |-> status,
           compared |-> b1, ready |-> b2, done |-> b3, open |-> b4,
           defects |-> reviewed.defects, draft |-> shown, past |-> past]
    BY <1>2, <2>1, <2>3 DEF ViewOf, Told
  <2> QED BY <2>2, <2>4 DEF View, RunStatus
<1> QED BY <1>1, <1>2

LEMMA SnapshotType ==
  ASSUME DeskInv, latest \in LatestRow
  PROVE  Snapshot \in View /\ \A r \in Saved : RunSnapshot(r) \in View
PROOF
<1>1. /\ task.revision \in Nat /\ task.pair \in Pair /\ draft.id \in Nat
      /\ latest.status \in RunStatus
      /\ \A r \in Saved : runs[r].revision \in Nat /\ runs[r].pair \in Pair
  BY DEF DeskInv, TypeOK, TaskRow, DraftRow, LatestRow, RunStatus, Saved, RunRow
<1>2. ShownDraft.id \in Nat
  BY <1>1 DEF ShownDraft, NoDraft
<1>3. Snapshot \in View
  <2>1. PICK past \in BOOLEAN : past = FALSE
    OBVIOUS
  <2>2. Snapshot = ViewOf(task.current, task.revision, task.pair, latest.status, ShownDraft.id, past)
    BY <2>1 DEF Snapshot
  <2> HIDE DEF ShownDraft
  <2> QED BY <1>1, <1>2, <2>2, ViewOfType
<1>4. ASSUME NEW r \in Saved PROVE RunSnapshot(r) \in View
  <2>1. PICK past \in BOOLEAN : past = (task.current # r \/ task.revision # runs[r].revision)
    OBVIOUS
  <2>2. RunSnapshot(r) = ViewOf(r, runs[r].revision, runs[r].pair, "SUCCEEDED", 0, past)
    BY <2>1 DEF RunSnapshot
  <2> QED BY <1>1, <2>2, ViewOfType DEF RunStatus
<1> QED BY <1>3, <1>4

LEMMA IdleType == Idle \in Slot /\ NoBriefing \in Briefing
PROOF
<1>1. NoBriefing \in Briefing
  BY DEF NoBriefing, Briefing
<1>2. "detail" \in Op
  BY DEF Op, Reads
<1>3. PICK b \in BOOLEAN : b = TRUE
  OBVIOUS
<1>4. Idle = [at |-> "idle", op |-> "detail", shown |-> NoView, draft |-> 0, mounted |-> b,
              code |-> "OK", view |-> NoView, notes |-> NoBriefing]
  BY <1>3 DEF Idle
<1>5. 0 \in Nat /\ "OK" \in AnswerCode
  BY DEF AnswerCode
<1> QED BY <1>1, <1>2, <1>4, <1>5, NoViewType DEF Slot

LEMMA AsksType ==
  ASSUME NEW op \in Op, NEW shown \in View, NEW held \in Nat
  PROVE  Asks(op, shown, held) \in Slot /\ AsksAbout(op, shown) \in Slot
PROOF BY IdleType DEF Asks, AsksAbout, Slot

LEMMA AnswersType ==
  ASSUME NEW s \in Slot, NEW code \in AnswerCode, NEW view \in View, NEW notes \in Briefing
  PROVE  Answers(s, code, view, notes) \in Slot
PROOF
<1>1. Answers(s, code, view, notes) =
        [at |-> "answered", op |-> s.op, shown |-> NoView, draft |-> 0,
         mounted |-> s.mounted, code |-> code, view |-> view, notes |-> notes]
  BY AnswersIs DEF Slot, IsSlot
<1> QED BY <1>1, NoViewType DEF Slot

LEMMA ShowType ==
  ASSUME NEW pg \in PageRow, NEW view \in View
  PROVE  Show(pg, view) \in PageRow
PROOF
<1>1. PICK c \in BOOLEAN : c = (pg.conflict /\ SameForm(view))
  BY DEF PageRow, SameForm
<1>2. PICK b \in Briefing :
        b = IF view.revision = page.view.revision THEN pg.briefing ELSE NoBriefing
  BY IdleType DEF PageRow
<1>3. Show(pg, view) = [pg EXCEPT !.view = view, !.conflict = c, !.briefing = b]
  BY <1>1, <1>2 DEF Show
<1> QED BY <1>3 DEF PageRow

LEMMA ClosedType ==
  ASSUME NEW pg \in PageRow, NEW p
  PROVE  Closed(p, pg) \in PageRow
PROOF
<1>1. PICK b \in BOOLEAN : b = (pg.confirming /\ p # "complete")
  BY DEF PageRow
<1>2. Closed(p, pg) = [pg EXCEPT !.confirming = b]
  BY <1>1 DEF Closed
<1> QED BY <1>2 DEF PageRow

LEMMA RebuiltType ==
  ASSUME NEW ss \in [Panel -> Slot], NEW view
  PROVE  Rebuilt(ss, view) \in [Panel -> Slot]
PROOF
<1>1. PICK rs : rs = Rebuilt(ss, view)
  OBVIOUS
<1>2. rs = [p \in Panel |->
        CASE p \in Form /\ ~SameForm(view) -> [ss[p] EXCEPT !.mounted = FALSE]
          [] p = "risk" /\ view.revision # page.view.revision -> Idle
          [] OTHER -> ss[p]]
  BY <1>1 DEF Rebuilt
<1>3. ASSUME NEW p \in Panel PROVE rs[p] \in Slot
  <2>1. CASE p \in Form /\ ~SameForm(view)
    <3>1. rs[p] = [ss[p] EXCEPT !.mounted = FALSE]
      BY <1>2, <2>1, FormNames
    <3> QED BY <3>1 DEF Slot
  <2>2. CASE p = "risk" /\ view.revision # page.view.revision
    <3>1. rs[p] = Idle
      BY <1>2, <2>2
    <3> QED BY <3>1, IdleType
  <2>3. CASE ~(p \in Form /\ ~SameForm(view)) /\ ~(p = "risk" /\ view.revision # page.view.revision)
    <3>1. rs[p] = ss[p]
      BY <1>2, <2>3
    <3> QED BY <3>1
  <2> QED BY <2>1, <2>2, <2>3
<1> QED BY <1>1, <1>2, <1>3

LEMMA LoadedType ==
  ASSUME NEW view \in View, NEW r \in Runs \cup {NoRun}
  PROVE  Loaded(view, r) \in PageRow
PROOF
<1>1. PICK b \in BOOLEAN : b = (view.status = "RUNNING")
  OBVIOUS
<1> QED BY <1>1, NoViewType, IdleType DEF Loaded, PageRow, View

\* What goes on without the page.
LEMMA StrayType ==
  ASSUME slots \in [Panel -> Slot], NEW p \in Panel, NEW then \in BOOLEAN
  PROVE  StrayOf(p, then) \subseteq Stray
PROOF
<1>1. PICK slot \in Slot : slot = slots[p]
  OBVIOUS
<1>2. PICK follows \in BOOLEAN : follows = (then /\ p \in Form /\ slot.code = "OK")
  OBVIOUS
<1>3. PICK b \in BOOLEAN : b = (then /\ p \in Form)
  OBVIOUS
<1> DEFINE stray == [op |-> slot.op, shown |-> slot.shown, draft |-> slot.draft,
                     at |-> "sent", then |-> b]
<1>4. stray \in Stray
  BY DEF Slot, Stray
<1>5. [stray EXCEPT !.at = "performed"] \in Stray
  BY <1>4 DEF Stray
<1>6. [stray EXCEPT !.op = "analyze", !.shown = slot.view, !.then = FALSE] \in Stray
  <2>1. "analyze" \in Op /\ slot.view \in View
    BY DEF Op, Changes, Slot
  <2> QED BY <1>4, <2>1 DEF Stray
<1>7. StrayOf(p, then) \in {{stray}, {[stray EXCEPT !.at = "performed"]},
        {[stray EXCEPT !.op = "analyze", !.shown = slot.view, !.then = FALSE]}, {}}
  BY <1>1, <1>2, <1>3 DEF StrayOf
<1> HIDE DEF stray
<1> QED BY <1>4, <1>5, <1>6, <1>7

LEMMA LatestType ==
  ASSUME latest \in LatestRow,
         latest' \in {latest, NoLatest} \/ StartRun \/ RunSucceeds \/ RunFails \/ RunExpires
  PROVE  latest' \in LatestRow
PROOF
<1>1. CASE latest' \in {latest, NoLatest}
  <2>1. NoLatest \in LatestRow
    BY DEF NoLatest, LatestRow
  <2> QED BY <1>1, <2>1
<1>2. CASE StartRun
  <2>1. \E r \in Runs \ Saved : r # latest.run
    BY <1>2 DEF StartRun
  <2>2. (CHOOSE r \in Runs \ Saved : r # latest.run) \in Runs
    BY <2>1
  <2> QED BY <1>2, <2>2 DEF StartRun, LatestRow
<1>3. CASE RunSucceeds
  BY <1>3 DEF RunSucceeds, LatestRow
<1>4. CASE RunFails
  BY <1>4 DEF RunFails, LatestRow
<1>5. CASE RunExpires
  BY <1>5 DEF RunExpires, LatestRow
<1> QED BY <1>1, <1>2, <1>3, <1>4, <1>5

\* Every answer has a code of the API.
LEMMA RouteType ==
  ASSUME NEW q
  PROVE  Route(q) \in Seq(BOOLEAN \X AnswerCode)
PROOF
<1> DEFINE S == BOOLEAN \X AnswerCode
<1>1. \A b \in BOOLEAN, code \in AnswerCode : <<b, code>> \in S
  OBVIOUS
<1>2. \A x, y : (x = y) \in BOOLEAN
  OBVIOUS
<1> HIDE DEF S
<1>3. CASE q.op = "analyze"
  <2>1. PICK b \in BOOLEAN : b = (latest.status # "RUNNING")
    OBVIOUS
  <2>2. Route(q) = <<<<b, "analysis_running">>>>
    BY <1>3, <2>1 DEF Route
  <2>3. <<b, "analysis_running">> \in S
    BY <1>1 DEF AnswerCode, Conflicts
  <2> QED BY <2>2, <2>3 DEF S
<1>4. CASE q.op = "pair"
  <2>1. \E b1, b2 \in BOOLEAN : PairChecks(q) = <<<<b1, "invalid_pair">>, <<b2, "invalid_pair">>>>
    BY DEF PairChecks
  <2>2. \A b \in BOOLEAN : <<b, "invalid_pair">> \in S
    BY <1>1 DEF AnswerCode
  <2>3. Route(q) = PairChecks(q)
    BY <1>4 DEF Route
  <2> QED BY <2>1, <2>2, <2>3 DEF S
<1>5. CASE q.op = "upload"
  <2>1. \E b \in BOOLEAN : Route(q) = <<<<b, "attachment_limit">>>>
    BY <1>5 DEF Route
  <2>2. \A b \in BOOLEAN : <<b, "attachment_limit">> \in S
    BY <1>1 DEF AnswerCode
  <2> QED BY <2>1, <2>2 DEF S
<1>6. CASE q.op = "review"
  <2>1. Route(q) = ReviewChecks(q)
    BY <1>6 DEF Route
  <2>2. /\ \A b \in BOOLEAN : <<b, "stale_review">> \in S
        /\ \A b \in BOOLEAN : <<b, "completed_run_read_only">> \in S
        /\ \A b \in BOOLEAN : <<b, "invalid_review">> \in S
    BY <1>1 DEF AnswerCode, Conflicts
  <2>3. CASE ~IsCurrent(q.run)
    <3>1. PICK b \in BOOLEAN : b = FALSE
      OBVIOUS
    <3>2. ReviewChecks(q) = <<<<b, "stale_review">>>>
      BY <2>3, <3>1 DEF ReviewChecks
    <3> QED BY <2>1, <2>2, <3>2 DEF S
  <2>4. CASE IsCurrent(q.run)
    <3>1. PICK b1 \in BOOLEAN : b1 = (q.run \notin completions)
      OBVIOUS
    <3> DEFINE compared == Listed(runs[q.run].docs) \cap {task.pair["si"], task.pair["bl"]}
    <3> HIDE DEF compared
    <3> DEFINE b2 == q.act.doc \in compared
    <3>2. b2 \in BOOLEAN
      OBVIOUS
    <3> HIDE DEF b2
    <3>3. PICK b3 \in BOOLEAN : b3 =
            (\E field \in {field \in runs[q.run].result.fields : field.key = q.act.field},
                role \in {role \in Role :
                           [id |-> q.act.doc, role |-> role] \in Listed(runs[q.run].result.docs)} :
               Allowed(q.act.kind, field[role], q.act.doc, q.act.value))
      OBVIOUS
    <3>4. ReviewChecks(q) = <<<<b1, "completed_run_read_only">>, <<b2, "stale_review">>,
                              <<b3, "invalid_review">>>>
      BY <2>4, <3>1, <3>3 DEF ReviewChecks, compared, b2
    <3> QED BY <2>1, <2>2, <3>2, <3>4 DEF S
  <2> QED BY <2>3, <2>4
<1>7. CASE q.op = "complete"
  <2>1. \E b1, b2 \in BOOLEAN :
          CompletionChecks(q) = <<<<b1, "stale_completion">>, <<b2, "completion_blocked">>>>
    <3>1. PICK b1 \in BOOLEAN : b1 = IsCurrent(q.run)
      BY DEF IsCurrent
    <3> QED BY <3>1 DEF CompletionChecks
  <2>2. /\ \A b \in BOOLEAN : <<b, "stale_completion">> \in S
        /\ \A b \in BOOLEAN : <<b, "completion_blocked">> \in S
    BY <1>1 DEF AnswerCode, Conflicts
  <2>3. Route(q) = CompletionChecks(q)
    BY <1>7 DEF Route
  <2> QED BY <2>1, <2>2, <2>3 DEF S
<1>8. CASE q.op \in {"generate", "update"}
  <2>1. PICK b1, b2, b3, b4, b5 \in BOOLEAN :
          AmendmentChecks(q) =
            <<<<b1, "stale_amendment">>, <<b2, "completed_run_read_only">>,
              <<b3, "amendment_not_available">>, <<b4, "no_actionable_items">>,
              <<b5, "stale_amendment">>>>
    <3>1. PICK b1 \in BOOLEAN : b1 = IsCurrent(q.run)
      BY DEF IsCurrent
    <3>2. PICK b2 \in BOOLEAN : b2 = (q.run \notin completions)
      OBVIOUS
    <3> QED BY <3>1, <3>2 DEF AmendmentChecks, IssueChecks
  <2>2. /\ <<b1, "stale_amendment">> \in S /\ <<b2, "completed_run_read_only">> \in S
        /\ <<b3, "amendment_not_available">> \in S /\ <<b4, "no_actionable_items">> \in S
        /\ <<b5, "stale_amendment">> \in S
    BY <1>1 DEF AnswerCode, Conflicts
  <2>3. Route(q) = AmendmentChecks(q)
    BY <1>8 DEF Route
  <2>4. AmendmentChecks(q) \in Seq(S)
    BY <2>1, <2>2, FiveChecks
  <2> QED BY <2>3, <2>4 DEF S
<1>9. CASE q.op = "risk"
  <2>1. PICK b \in BOOLEAN : b = (Explained # {})
    <3>1. (Explained # {}) = TRUE \/ (Explained # {}) = FALSE
      OBVIOUS
    <3> QED BY <3>1
  <2>2. Route(q) = <<<<b, "no_discrepancy">>>>
    BY <1>9, <2>1 DEF Route
  <2>3. <<b, "no_discrepancy">> \in S
    BY <1>1 DEF AnswerCode, Conflicts
  <2> QED BY <2>2, <2>3 DEF S
<1>10. CASE q.op = "history"
  <2>1. PICK b \in BOOLEAN : b = (q.run \in Saved)
    <3>1. (q.run \in Saved) = TRUE \/ (q.run \in Saved) = FALSE
      OBVIOUS
    <3> QED BY <3>1
  <2>2. Route(q) = <<<<b, "not_found">>>>
    BY <1>10, <2>1 DEF Route
  <2>3. <<b, "not_found">> \in S
    BY <1>1 DEF AnswerCode
  <2> QED BY <2>2, <2>3 DEF S
<1>11. CASE q.op \notin Changes \cup {"risk", "history"}
  <2>1. Route(q) = <<>>
    BY <1>11 DEF Route, Changes
  <2> QED BY <2>1
<1> QED BY <1>3, <1>4, <1>5, <1>6, <1>7, <1>8, <1>9, <1>10, <1>11 DEF Changes

LEMMA ProblemType ==
  ASSUME NEW q
  PROVE  Problem(q) \in AnswerCode
PROOF
<1> DEFINE S == BOOLEAN \X AnswerCode
<1>1. \A b \in BOOLEAN, code \in AnswerCode : <<b, code>> \in S
  OBVIOUS
<1>2. \A check \in S : ~check[1] => check[2] \in AnswerCode
  OBVIOUS
<1>3. Route(q) \in Seq(S)
  BY RouteType
<1> HIDE DEF S
<1>4. \A b \in BOOLEAN, code \in Harmless : <<b, code>> \in S
  BY <1>1 DEF Harmless, AnswerCode
<1>5. \E b5 \in BOOLEAN :
        /\ b5 = (q.to = "task" \/ q.op \notin {"analyze", "generate", "update"})
        /\ <<b5, "sample_read_only">> \in S
  BY <1>1 DEF AnswerCode, Conflicts
<1>6. \E b6 \in BOOLEAN :
        /\ b6 = (q.op \in Reads \/ q.revision = task.revision)
        /\ <<b6, "stale_revision">> \in S
  BY <1>1 DEF AnswerCode, Conflicts
<1>7. Before(q) \in Seq(S)
  <2>1. HasBefore(q, S)
    BY <1>4, <1>5, <1>6 DEF HasBefore
  <2> QED BY <2>1, BeforeChecks
<1>8. "OK" \in AnswerCode
  BY DEF AnswerCode
<1> QED BY <1>2, <1>3, <1>7, <1>8, ProblemOf

\* What the page and its panels are, without the rest of PageTypeOK.
Shaped(pg, ss) == pg \in PageRow /\ ss \in [Panel -> Slot]

LEMMA SlotSetType ==
  ASSUME NEW ss \in [Panel -> Slot], NEW p \in Panel, NEW s \in Slot
  PROVE  [ss EXCEPT ![p] = s] \in [Panel -> Slot]
PROOF OBVIOUS

LEMMA AnswerType ==
  ASSUME Shaped(page, slots), NEW p \in Panel, NEW code \in AnswerCode, NEW view \in View,
         NEW notes \in Briefing, Answer(p, code, view, notes)
  PROVE  slots' \in [Panel -> Slot]
PROOF
<1>1. slots[p] \in Slot
  BY DEF Shaped
<1>2. PICK s : s = Answers(slots[p], code, view, notes)
  OBVIOUS
<1>3. s \in Slot
  BY <1>1, <1>2, AnswersType
<1>4. slots' = [slots EXCEPT ![p] = s]
  BY <1>2 DEF Answer, Answers
<1> QED BY <1>3, <1>4, SlotSetType DEF Shaped

LEMMA AnalyzeType ==
  ASSUME Shaped(page, slots), NEW source \in View, NEW ss \in [Panel -> Slot],
         Analyze(source, ss)
  PROVE  Shaped(page', slots')
PROOF
<1>1. CASE page.locked
  BY <1>1 DEF Analyze, Shaped
<1>2. CASE ~page.locked
  <2>1. PICK shown, again, s, b :
          /\ shown = Show(page, source) /\ again = Rebuilt(ss, source)
          /\ s = AsksAbout("analyze", source) /\ b = TRUE
    OBVIOUS
  <2>2. /\ page' = [shown EXCEPT !.phase = "running", !.locked = b]
        /\ slots' = [again EXCEPT !["analysis"] = s]
    BY <1>2, <2>1 DEF Analyze, AsksAbout
  <2>3. shown \in PageRow /\ again \in [Panel -> Slot] /\ b \in BOOLEAN
    BY <2>1, ShowType, RebuiltType DEF Shaped
  <2>4. s \in Slot
    <3>1. "analyze" \in Op /\ 0 \in Nat
      BY DEF Op, Changes
    <3> QED BY <2>1, <3>1, AsksType
  <2>5. page' \in PageRow
    BY <2>2, <2>3 DEF PageRow
  <2>6. slots' \in [Panel -> Slot]
    BY <2>2, <2>3, <2>4, SlotSetType, PanelNames
  <2> QED BY <2>5, <2>6 DEF Shaped
<1> QED BY <1>1, <1>2

\* The clicks of the user.
LEMMA ClicksType ==
  ASSUME Shaped(page, slots), budget \in [{"user", "rival"} -> Nat],
         \/ Reanalyze \/ SaveSources \/ Decide \/ Confirm \/ Complete
         \/ Draft \/ CloseDraft \/ Explain
  PROVE  Shaped(page', slots') /\ budget' \in [{"user", "rival"} -> Nat]
PROOF
<1>1. page.view \in View /\ page.draft \in Nat
  BY DEF Shaped, PageRow
<1>2. \/ budget' = budget
      \/ budget["user"] > 0 /\ budget' = [budget EXCEPT !["user"] = @ - 1]
  BY DEF Reanalyze, SaveSources, Decide, Confirm, Complete, Draft, CloseDraft, Explain, Click
<1>3. budget' \in [{"user", "rival"} -> Nat]
  BY <1>2
<1>4. CASE Reanalyze
  BY <1>1, <1>3, <1>4, AnalyzeType DEF Reanalyze, Shaped
<1>5. ASSUME NEW p \in Panel, NEW op \in Op, Click(p, op)
      PROVE  slots' \in [Panel -> Slot]
  <2>1. slots' = [slots EXCEPT ![p] = Asks(op, page.view, page.draft)]
    BY <1>5 DEF Click, Asked, Asks
  <2> QED BY <1>1, <2>1, AsksType, SlotSetType DEF Shaped
<1>6. CASE SaveSources
  <2>1. PICK b \in BOOLEAN : b = FALSE
    OBVIOUS
  <2>2. page' = [page EXCEPT !.conflict = b]
    BY <1>6, <2>1 DEF SaveSources
  <2>3. page' \in PageRow
    BY <2>2 DEF Shaped, PageRow
  <2>4. \E p \in Form, op \in Op : Click(p, op)
    BY <1>6 DEF SaveSources, Form, Changing, Op, Changes
  <2> QED BY <1>3, <1>5, <2>3, <2>4, FormNames DEF Shaped
<1>7. CASE Decide \/ Complete \/ Draft \/ Explain
  <2>1. \E p \in Panel, op \in Op : Click(p, op)
    BY <1>7, PanelNames DEF Decide, Complete, Draft, Explain, Op, Changes
  <2>2. page' = page
    BY <1>7 DEF Decide, Complete, Draft, Explain
  <2> QED BY <1>3, <1>5, <2>1, <2>2 DEF Shaped
<1>8. CASE Confirm \/ CloseDraft
  <2>1. \/ \E b \in BOOLEAN : page' = [page EXCEPT !.confirming = b]
        \/ page' = [page EXCEPT !.draft = page.view.draft]
    BY <1>8 DEF Confirm, CloseDraft
  <2>2. page.view.draft \in Nat
    BY <1>1 DEF View
  <2>3. page' \in PageRow
    BY <2>1, <2>2 DEF Shaped, PageRow
  <2>4. slots' = slots
    BY <1>8 DEF Confirm, CloseDraft
  <2> QED BY <1>3, <2>3, <2>4 DEF Shaped
<1> QED BY <1>4, <1>6, <1>7, <1>8

LEMMA AskedNotesType ==
  ASSUME DeskInv
  PROVE  AskedNotes \in Briefing
PROOF
<1>1. task.revision \in Nat /\ task.current \in Runs \cup {NoRun}
  BY DEF DeskInv, TypeOK, TaskRow
<1>2. Explained \subseteq Fields
  <2>1. \A r \in Runs : runs[r].result.defects \subseteq Fields
    BY DEF DeskInv, TypeOK, RunRow, Result
  <2> QED BY <2>1 DEF Explained, Saved
<1> QED BY <1>1, <1>2 DEF AskedNotes, Briefing

LEMMA ServeType ==
  ASSUME Shaped(page, slots), DeskInv, NEW p \in Panel, Serve(p)
  PROVE  slots' \in [Panel -> Slot]
PROOF
<1>1. PICK q, problem : problem = Problem(q) /\
        IF problem = "OK"
        THEN slots' = [slots EXCEPT
               ![p].at = IF q.op \in {"generate", "risk"} THEN "asking" ELSE "performed",
               ![p].notes = IF q.op = "risk" THEN AskedNotes ELSE NoBriefing]
        ELSE Answer(p, problem, NoView, NoBriefing)
  BY DEF Serve
<1>2. problem \in AnswerCode
  BY <1>1, ProblemType
<1>3. CASE problem # "OK"
  BY <1>1, <1>2, <1>3, NoViewType, IdleType, AnswerType
<1>4. CASE problem = "OK"
  <2>1. PICK at, notes :
          /\ at = IF q.op \in {"generate", "risk"} THEN "asking" ELSE "performed"
          /\ notes = IF q.op = "risk" THEN AskedNotes ELSE NoBriefing
    OBVIOUS
  <2>2. at \in {"asking", "performed"} /\ notes \in Briefing
    BY <2>1, AskedNotesType, IdleType
  <2>3. PICK s : s = [slots[p] EXCEPT !.at = at, !.notes = notes]
    OBVIOUS
  <2>4. s \in Slot
    BY <2>2, <2>3 DEF Shaped, Slot
  <2>5. slots' = [slots EXCEPT ![p] = s]
    BY <1>1, <1>4, <2>1, <2>3
  <2> QED BY <2>4, <2>5, SlotSetType DEF Shaped
<1> QED BY <1>3, <1>4

LEMMA AnsweredType ==
  ASSUME Shaped(page, slots), DeskInv, latest \in LatestRow,
         NEW p \in Panel, Detail(p) \/ DraftAnswered \/ BriefingAnswered
  PROVE  slots' \in [Panel -> Slot]
PROOF
<1>1. NoView \in View /\ NoBriefing \in Briefing
  BY NoViewType, IdleType
<1>2. CASE Detail(p)
  <2>1. Answer(p, "OK", Snapshot, NoBriefing)
    BY <1>2 DEF Detail
  <2>2. "OK" \in AnswerCode
    BY DEF AnswerCode
  <2> QED BY <1>1, <2>1, <2>2, SnapshotType, AnswerType
<1>3. CASE DraftAnswered
  <2>1. CASE slots' = [slots EXCEPT !["email"].at = "performed"]
    <3>1. PICK s : s = [slots["email"] EXCEPT !.at = "performed"]
      OBVIOUS
    <3>2. s \in Slot
      BY <3>1, PanelNames DEF Shaped, Slot
    <3>3. slots' = [slots EXCEPT !["email"] = s]
      BY <2>1, <3>1
    <3> QED BY <3>2, <3>3, SlotSetType, PanelNames DEF Shaped
  <2>2. CASE \E code \in {"AI_INVALID_RESPONSE", "stale_amendment"} :
               Answer("email", code, NoView, NoBriefing)
    <3>1. {"AI_INVALID_RESPONSE", "stale_amendment"} \subseteq AnswerCode
      BY DEF AnswerCode, Conflicts
    <3> QED BY <1>1, <2>2, <3>1, AnswerType, PanelNames
  <2> QED BY <1>3, <2>1, <2>2 DEF DraftAnswered
<1>4. CASE BriefingAnswered
  <2>1. PICK asked \in {slots["risk"].notes}, notes \in BriefingNotes :
          IF Acceptable(notes, asked.fields)
          THEN Answer("risk", "OK", NoView, [asked EXCEPT !.fields = Listed(notes)])
          ELSE Answer("risk", "AI_INVALID_RESPONSE", NoView, NoBriefing)
    BY <1>4 DEF BriefingAnswered
  <2>2. asked \in Briefing /\ Listed(notes) \subseteq Fields
    <3>1. asked \in Briefing
      BY <2>1, PanelNames DEF Shaped, Slot
    <3>2. notes \in Seq(Fields)
      BY NotesAssumption
    <3> QED BY <3>1, <3>2 DEF Listed
  <2>3. PICK told : told = [asked EXCEPT !.fields = Listed(notes)]
    OBVIOUS
  <2>4. told \in Briefing
    BY <2>2, <2>3 DEF Briefing
  <2>5. "OK" \in AnswerCode /\ "AI_INVALID_RESPONSE" \in AnswerCode
    BY DEF AnswerCode
  <2>6. \/ Answer("risk", "OK", NoView, told)
        \/ Answer("risk", "AI_INVALID_RESPONSE", NoView, NoBriefing)
    BY <2>1, <2>3
  <2> QED BY <1>1, <2>4, <2>5, <2>6, AnswerType, PanelNames
<1> QED BY <1>2, <1>3, <1>4

\* What reaches the page.
LEMMA TakenType ==
  ASSUME NEW pg, Shaped(pg, slots), NEW view \in View, NEW p \in Panel, NEW s \in Slot, NEW new,
         \/ new = Show(pg, view)
         \/ new = [Show(pg, view) EXCEPT !.pending = NoView]
         \/ \E held \in Nat : new = [Show(pg, view) EXCEPT !.pending = NoView, !.draft = held]
         \/ new = [Show(pg, view) EXCEPT !.phase = "failed", !.locked = FALSE]
         \/ new = [Show(pg, view) EXCEPT !.pending = NoView, !.locked = FALSE,
                                           !.phase = "revealed"]
  PROVE  Shaped(new, [Rebuilt(slots, view) EXCEPT ![p] = s]) /\ Shaped(new, Rebuilt(slots, view))
PROOF
<1>1. PICK shown, again, none, b :
        /\ shown = Show(pg, view) /\ again = Rebuilt(slots, view)
        /\ none = NoView /\ b = FALSE
  OBVIOUS
<1>2. /\ shown \in PageRow /\ again \in [Panel -> Slot] /\ none \in View /\ b \in BOOLEAN
  BY <1>1, ShowType, RebuiltType, NoViewType DEF Shaped
<1>3. [again EXCEPT ![p] = s] \in [Panel -> Slot]
  BY <1>2, SlotSetType
<1>4. \/ new = shown
      \/ new = [shown EXCEPT !.pending = none]
      \/ \E held \in Nat : new = [shown EXCEPT !.pending = none, !.draft = held]
      \/ new = [shown EXCEPT !.phase = "failed", !.locked = b]
      \/ new = [shown EXCEPT !.pending = none, !.locked = b, !.phase = "revealed"]
  BY <1>1
<1>5. new \in PageRow
  <2>1. CASE new = shown
    BY <1>2, <2>1
  <2>2. CASE new = [shown EXCEPT !.pending = none]
    BY <1>2, <2>2 DEF PageRow
  <2>3. CASE \E held \in Nat : new = [shown EXCEPT !.pending = none, !.draft = held]
    BY <1>2, <2>3 DEF PageRow
  <2>4. CASE new = [shown EXCEPT !.phase = "failed", !.locked = b]
    BY <1>2, <2>4 DEF PageRow
  <2>5. CASE new = [shown EXCEPT !.pending = none, !.locked = b, !.phase = "revealed"]
    BY <1>2, <2>5 DEF PageRow
  <2> QED BY <1>4, <2>1, <2>2, <2>3, <2>4, <2>5
<1> QED BY <1>1, <1>2, <1>3, <1>5 DEF Shaped

LEMMA ReceivesType ==
  ASSUME Shaped(page, slots),
         \/ \E p \in Deciding : ReceiveDecision(p)
         \/ ReceiveDraft \/ ReceiveBriefing
         \/ \E p \in Form : ReceiveSources(p)
  PROVE  Shaped(page', slots')
PROOF
<1>1. \A p \in Panel : slots[p].view \in View /\ slots[p].notes \in Briefing
  BY DEF Shaped, Slot
<1>2. \A p \in Panel : [slots EXCEPT ![p] = Idle] \in [Panel -> Slot]
  BY IdleType, SlotSetType DEF Shaped
<1>3. ASSUME NEW p \in Panel, page' = page, slots' = [slots EXCEPT ![p] = Idle]
      PROVE  Shaped(page', slots')
  BY <1>2, <1>3 DEF Shaped
<1>4. ASSUME NEW p \in Panel, NEW view \in View,
             \/ page' = [Show(page, view) EXCEPT !.pending = NoView]
             \/ \E held \in Nat :
                  page' = [Show(page, view) EXCEPT !.pending = NoView, !.draft = held],
             slots' = [Rebuilt(slots, view) EXCEPT ![p] = Idle]
      PROVE  Shaped(page', slots')
  BY <1>4, TakenType, IdleType
<1>5. ASSUME NEW p \in Deciding, ReceiveDecision(p)
      PROVE  Shaped(page', slots')
  <2>1. PICK pg \in PageRow : pg = Closed(p, page)
    BY ClosedType DEF Shaped
  <2>2. Shaped(pg, slots) /\ p \in Panel
    BY <1>5, DecidingNames DEF Shaped
  <2>3. CASE slots[p].code = "OK"
    <3>1. /\ page' = [Show(pg, slots[p].view) EXCEPT !.pending = NoView]
          /\ slots' = [Rebuilt(slots, slots[p].view) EXCEPT ![p] = Idle]
      BY <1>5, <2>1, <2>3 DEF ReceiveDecision, Replace
    <3>2. PICK view \in View : view = slots[p].view
      BY <1>1, <2>2
    <3> QED BY <2>2, <3>1, <3>2, TakenType, IdleType
  <2>4. CASE slots[p].code # "OK"
    BY <1>2, <1>5, <2>1, <2>2, <2>4 DEF ReceiveDecision, Shaped
  <2> QED BY <2>3, <2>4
<1>6. CASE ReceiveDraft
  <2>1. PICK view \in View : view = slots["email"].view
    BY <1>1, PanelNames
  <2>2. \/ page' = page /\ slots' = [slots EXCEPT !["email"] = Idle]
        \/ page' = [page EXCEPT !.draft = 0] /\ slots' = [slots EXCEPT !["email"] = Idle]
        \/ /\ page' = [Show(page, view) EXCEPT !.pending = NoView, !.draft = view.draft]
           /\ slots' = [Rebuilt(slots, view) EXCEPT !["email"] = Idle]
    BY <1>6, <2>1 DEF ReceiveDraft
  <2>3. view.draft \in Nat
    BY DEF View
  <2>4. CASE page' = [page EXCEPT !.draft = 0] /\ slots' = [slots EXCEPT !["email"] = Idle]
    <3>1. page' \in PageRow
      BY <2>4 DEF Shaped, PageRow
    <3> QED BY <1>2, <2>4, <3>1, PanelNames DEF Shaped
  <2> QED BY <1>3, <1>4, <2>2, <2>3, <2>4, PanelNames
<1>7. CASE ReceiveBriefing
  <2>1. PICK notes \in Briefing : notes = slots["risk"].notes
    BY <1>1, PanelNames
  <2>2. page' = page \/ page' = [page EXCEPT !.briefing = notes]
    BY <1>7, <2>1 DEF ReceiveBriefing
  <2>3. page' \in PageRow
    BY <2>2 DEF Shaped, PageRow
  <2> QED BY <1>2, <1>7, <2>3, PanelNames DEF ReceiveBriefing, Shaped
<1>8. ASSUME NEW p \in Form, ReceiveSources(p)
      PROVE  Shaped(page', slots')
  <2>1. PICK rest : rest = [slots EXCEPT ![p] = Idle]
    OBVIOUS
  <2>2. rest \in [Panel -> Slot] /\ slots[p].view \in View /\ slots[p].mounted \in BOOLEAN
    BY <1>1, <1>2, <2>1, FormNames DEF Shaped, Slot
  <2>3. CASE slots[p].code = "OK"
    <3>1. Analyze(slots[p].view, rest)
      BY <1>8, <2>1, <2>3 DEF ReceiveSources
    <3> QED BY <2>2, <3>1, AnalyzeType
  <2>4. CASE slots[p].code # "OK"
    <3>1. PICK c \in BOOLEAN :
            c = IF slots[p].mounted THEN Status(slots[p].code) = 409 ELSE page.conflict
      <4>1. PICK b \in BOOLEAN : b = (Status(slots[p].code) = 409)
        <5>1. \A x : (x = 409) = TRUE \/ (x = 409) = FALSE
          OBVIOUS
        <5> QED BY <5>1
      <4>2. slots[p].mounted = TRUE \/ slots[p].mounted = FALSE
        BY <2>2
      <4>3. page.conflict \in BOOLEAN
        BY DEF Shaped, PageRow
      <4> QED BY <4>1, <4>2, <4>3
    <3>2. page' = [page EXCEPT !.conflict = c] /\ slots' = rest
      BY <1>8, <2>1, <2>4, <3>1 DEF ReceiveSources
    <3>3. page' \in PageRow
      BY <3>1, <3>2 DEF Shaped, PageRow
    <3> QED BY <2>2, <3>2, <3>3 DEF Shaped
  <2> QED BY <2>3, <2>4
<1> QED BY <1>5, <1>6, <1>7, <1>8

LEMMA HookType ==
  ASSUME Shaped(page, slots), ReceiveAnalysis \/ Poll \/ Reveal
  PROVE  Shaped(page', slots')
PROOF
<1>1. page.pending \in View /\ slots["analysis"].view \in View
  BY PanelNames DEF Shaped, PageRow, Slot
<1>2. \A at \in {"sent", "waiting"} : [Idle EXCEPT !.at = at] \in Slot
  BY IdleType DEF Slot
<1>3. CASE ReceiveAnalysis
  <2>1. PICK view \in View : view = slots["analysis"].view
    BY <1>1
  <2>2. view.status \in {"RUNNING", "NONE", "FAILED", "SUCCEEDED"}
    BY DEF View
  <2>3. CASE \/ slots["analysis"].code # "OK"
             \/ slots["analysis"].code = "OK" /\ view.status = "SUCCEEDED"
    <3>1. PICK b \in BOOLEAN : b = FALSE
      OBVIOUS
    <3>2. /\ slots' = [slots EXCEPT !["analysis"] = Idle]
          /\ \/ page' = [page EXCEPT !.phase = "failed", !.locked = b]
             \/ page' = [page EXCEPT !.phase = "preparing", !.pending = view]
      BY <1>3, <2>1, <2>3, <3>1 DEF ReceiveAnalysis
    <3>3. page' \in PageRow
      BY <3>2 DEF Shaped, PageRow
    <3> QED BY <3>2, <3>3, IdleType, SlotSetType, PanelNames DEF Shaped
  <2>4. CASE slots["analysis"].code = "OK" /\ view.status \in {"RUNNING", "NONE", "FAILED"}
    <3>1. PICK rest : rest = [Rebuilt(slots, view) EXCEPT !["analysis"] = Idle]
      OBVIOUS
    <3>2. /\ slots' \in {rest, [rest EXCEPT !["analysis"].at = "waiting"]}
          /\ \/ page' = Show(page, view)
             \/ page' = [Show(page, view) EXCEPT !.phase = "failed", !.locked = FALSE]
      BY <1>3, <2>1, <2>4, <3>1 DEF ReceiveAnalysis
    <3>3. Shaped(page', rest) /\ page' \in PageRow
      BY <3>1, <3>2, TakenType, IdleType, PanelNames DEF Shaped
    <3>4. CASE slots' = [rest EXCEPT !["analysis"].at = "waiting"]
      <4>1. PICK s : s = [rest["analysis"] EXCEPT !.at = "waiting"]
        OBVIOUS
      <4>2. s \in Slot
        BY <3>3, <4>1, PanelNames DEF Shaped, Slot
      <4>3. slots' = [rest EXCEPT !["analysis"] = s]
        BY <3>4, <4>1
      <4> QED BY <3>3, <4>2, <4>3, SlotSetType, PanelNames DEF Shaped
    <3> QED BY <3>2, <3>3, <3>4
  <2> QED BY <2>2, <2>3, <2>4
<1>4. CASE Poll
  BY <1>2, <1>4, SlotSetType, PanelNames DEF Poll, Shaped
<1>5. CASE Reveal
  BY <1>1, <1>5, TakenType, IdleType, PanelNames DEF Reveal
<1> QED BY <1>3, <1>4, <1>5

\* The page goes, or gives a request up.
LEMMA LostType ==
  ASSUME Shaped(page, slots), strays \in SUBSET Stray, NEW p \in Panel, Lost(p)
  PROVE  Shaped(page', slots') /\ strays' \in SUBSET Stray
PROOF
<1>1. PICK b \in BOOLEAN : b = FALSE
  OBVIOUS
<1>2. page' = Closed(p, page) \/ page' = [page EXCEPT !.phase = "failed", !.locked = b]
  BY <1>1 DEF Lost
<1>3. page' \in PageRow
  <2>1. CASE page' = Closed(p, page)
    BY <2>1, ClosedType DEF Shaped
  <2>2. CASE page' = [page EXCEPT !.phase = "failed", !.locked = b]
    BY <2>2 DEF Shaped, PageRow
  <2> QED BY <1>2, <2>1, <2>2
<1>4. slots' \in [Panel -> Slot]
  BY IdleType, SlotSetType DEF Lost, Shaped
<1>5. StrayOf(p, b) \subseteq Stray
  BY StrayType DEF Shaped
<1> QED BY <1>1, <1>3, <1>4, <1>5 DEF Lost, Shaped

LEMMA LoadType ==
  ASSUME Shaped(page, slots), DeskInv, latest \in LatestRow, strays \in SUBSET Stray,
         NEW r, r = NoRun \/ r \in Saved, Load(r)
  PROVE  Shaped(page', slots') /\ strays' \in SUBSET Stray
PROOF
<1>1. PICK view : view = IF r = NoRun THEN Snapshot ELSE RunSnapshot(r)
  OBVIOUS
<1>2. view \in View /\ r \in Runs \cup {NoRun}
  BY <1>1, SnapshotType DEF Saved
<1>3. page' \in PageRow
  BY <1>1, <1>2, LoadedType DEF Load
<1>4. slots' \in [Panel -> Slot]
  BY IdleType DEF Load
<1>5. PICK then \in BOOLEAN : then = ~page.locked
  OBVIOUS
<1>6. \A p \in Panel : StrayOf(p, then) \subseteq Stray
  BY StrayType DEF Shaped
<1>7. strays' = strays \cup UNION {StrayOf(p, then) : p \in Panel}
  BY <1>5 DEF Load
<1>8. strays' \in SUBSET Stray
  BY <1>6, <1>7
<1> QED BY <1>3, <1>4, <1>8 DEF Shaped

LEMMA StraysType ==
  ASSUME DeskInv, latest \in LatestRow, strays \in SUBSET Stray, NEW stray \in strays,
         ServeStray(stray) \/ StrayFollows(stray) \/ StrayDropped(stray)
  PROVE  strays' \in SUBSET Stray
PROOF
<1>1. stray \in Stray
  OBVIOUS
<1>2. CASE ServeStray(stray)
  <2>1. [stray EXCEPT !.at = "performed"] \in Stray
    BY <1>1 DEF Stray
  <2> QED BY <1>2, <2>1 DEF ServeStray
<1>3. CASE StrayFollows(stray)
  <2>1. PICK b \in BOOLEAN : b = FALSE
    OBVIOUS
  <2>2. PICK view \in View : view = Snapshot
    BY SnapshotType
  <2>3. [op |-> "analyze", shown |-> view, draft |-> 0, at |-> "sent", then |-> b] \in Stray
    BY DEF Stray, Op, Changes
  <2> QED BY <1>3, <2>1, <2>2, <2>3 DEF StrayFollows
<1>4. CASE StrayDropped(stray)
  BY <1>4 DEF StrayDropped
<1> QED BY <1>2, <1>3, <1>4

LEMMA LatestMoves ==
  ASSUME PageNext
  PROVE  latest' \in {latest, NoLatest} \/ StartRun \/ RunSucceeds \/ RunFails \/ RunExpires
PROOF
<1> DEFINE Goal == latest' \in {latest, NoLatest} \/ StartRun \/ RunSucceeds \/ RunFails \/ RunExpires
<1>1. ASSUME NEW q, NEW client, Perform(q, client) PROVE Goal
  BY <1>1, PerformMoves
<1>2. ASSUME NEW step, Desk(step) PROVE Goal
  BY <1>2 DEF Desk
<1>3. ASSUME UNCHANGED server PROVE Goal
  BY <1>3 DEF server
<1> SUFFICES Goal
  OBVIOUS
<1>8. RunSucceeds \/ RunFails \/ RunExpires => Goal
  OBVIOUS
<1> HIDE DEF Goal
<1>4. CASE \/ Reanalyze \/ SaveSources \/ Decide \/ Confirm \/ Complete
           \/ Draft \/ CloseDraft \/ Explain
           \/ BriefingAnswered
           \/ \E p \in Deciding : ReceiveDecision(p)
           \/ ReceiveDraft \/ ReceiveBriefing
           \/ \E p \in Form : ReceiveSources(p)
           \/ ReceiveAnalysis
           \/ Poll \/ Reveal \/ LoadAgain \/ Leave
  BY <1>3, <1>4
    DEF Reanalyze, SaveSources, Decide, Confirm, Complete, Draft, CloseDraft, Explain, Click,
        BriefingAnswered,
        ReceiveDecision, ReceiveDraft, ReceiveBriefing, ReceiveSources, ReceiveAnalysis,
        Poll, Reveal, LoadAgain, Leave, Load
<1>5. CASE \E p \in Panel : Serve(p) \/ Detail(p) \/ Lost(p)
  BY <1>1, <1>3, <1>5 DEF Serve, Detail, Lost
<1>6. CASE \E stray \in strays : ServeStray(stray) \/ StrayFollows(stray) \/ StrayDropped(stray)
  BY <1>1, <1>3, <1>6 DEF ServeStray, StrayFollows, StrayDropped
<1>7. CASE DraftAnswered \/ DraftEnds
  BY <1>7 DEF DraftAnswered, DraftEnds, Desk, Goal
<1>9. CASE Rival \/ RunEnds \/ RunIsLate
  BY <1>1, <1>8, <1>9 DEF Rival, RunEnds, RunIsLate
<1> QED BY <1>4, <1>5, <1>6, <1>7, <1>9 DEF PageNext

LEMMA PageTypeStep ==
  ASSUME PageTypeOK, TypeOK', DeskInv, NoticeInv, PageNext \/ UNCHANGED allVars
  PROVE  PageTypeOK'
PROOF
<1>1. /\ Shaped(page, slots) /\ latest \in LatestRow /\ strays \in SUBSET Stray
      /\ budget \in [{"user", "rival"} -> Nat]
  BY DEF PageTypeOK, Shaped
<1> DEFINE Goal == /\ Shaped(page', slots') /\ strays' \in SUBSET Stray
                   /\ budget' \in [{"user", "rival"} -> Nat]
<1>2. CASE UNCHANGED allVars
  BY <1>1, <1>2 DEF PageTypeOK, allVars, Shaped
<1>3. CASE PageNext
  <2>1. latest' \in LatestRow
    BY <1>1, <1>3, LatestMoves, LatestType
  <2> SUFFICES Goal
    BY <2>1 DEF PageTypeOK, Shaped
  <2>2. CASE \/ Reanalyze \/ SaveSources \/ Decide \/ Confirm \/ Complete
             \/ Draft \/ CloseDraft \/ Explain
    <3>1. strays' = strays
      BY <2>2
         DEF Reanalyze, SaveSources, Decide, Confirm, Complete, Draft, CloseDraft, Explain, Click
    <3> QED BY <1>1, <2>2, <3>1, ClicksType
  <2>3. ASSUME NEW p \in Panel, Serve(p) PROVE Goal
    <3>1. page' = page /\ strays' = strays /\ budget' = budget
      BY <2>3 DEF Serve
    <3> QED BY <1>1, <2>3, <3>1, ServeType DEF Shaped
  <2>4. ASSUME NEW p \in Panel, Detail(p) \/ DraftAnswered \/ BriefingAnswered PROVE Goal
    <3>1. page' = page /\ strays' = strays /\ budget' = budget
      BY <2>4 DEF Detail, DraftAnswered, BriefingAnswered
    <3> QED BY <1>1, <2>4, <3>1, AnsweredType DEF Shaped
  <2>5. ASSUME NEW p \in Panel, Lost(p) PROVE Goal
    BY <1>1, <2>5, LostType DEF Lost
  <2>6. CASE \/ \E p \in Deciding : ReceiveDecision(p)
             \/ ReceiveDraft \/ ReceiveBriefing
             \/ \E p \in Form : ReceiveSources(p)
    <3>1. strays' = strays /\ budget' = budget
      BY <2>6 DEF ReceiveDecision, ReceiveDraft, ReceiveBriefing, ReceiveSources
    <3> QED BY <1>1, <2>6, <3>1, ReceivesType
  <2>7. CASE ReceiveAnalysis \/ Poll \/ Reveal
    <3>1. strays' = strays /\ budget' = budget
      BY <2>7 DEF ReceiveAnalysis, Poll, Reveal
    <3> QED BY <1>1, <2>7, <3>1, HookType
  <2>8. CASE LoadAgain \/ Leave
    <3>1. PICK r : Load(r) /\ (r = NoRun \/ r \in Saved)
      <4>1. page.opened = NoRun \/ page.opened \in Saved
        BY DEF NoticeInv, Fits, PageFits, Saved
      <4> QED BY <2>8, <4>1 DEF LoadAgain, Leave
    <3>2. budget' \in [{"user", "rival"} -> Nat]
      <4>1. budget' = budget \/ (budget["user"] > 0 /\ budget' = [budget EXCEPT !["user"] = @ - 1])
        BY <2>8 DEF LoadAgain, Leave
      <4> QED BY <1>1, <4>1
    <3> QED BY <1>1, <3>1, <3>2, LoadType
  <2>9. ASSUME NEW stray \in strays, ServeStray(stray) \/ StrayFollows(stray) \/ StrayDropped(stray)
        PROVE  Goal
    <3>1. page' = page /\ slots' = slots /\ budget' = budget
      BY <2>9 DEF ServeStray, StrayFollows, StrayDropped
    <3> QED BY <1>1, <2>9, <3>1, StraysType
  <2>10. CASE DraftEnds \/ Rival \/ RunEnds \/ RunIsLate
    <3>1. page' = page /\ slots' = slots /\ strays' = strays
      BY <2>10 DEF DraftEnds, Rival, RunEnds, RunIsLate
    <3>2. budget' \in [{"user", "rival"} -> Nat]
      <4>1. budget' = budget \/ (budget["rival"] > 0 /\ budget' = [budget EXCEPT !["rival"] = @ - 1])
        BY <2>10 DEF DraftEnds, Rival, RunEnds, RunIsLate
      <4> QED BY <1>1, <4>1
    <3> QED BY <1>1, <3>1, <3>2
  <2>11. "email" \in Panel
    BY PanelNames
  <2> HIDE DEF Goal
  <2> QED BY <1>3, <2>2, <2>3, <2>4, <2>5, <2>6, <2>7, <2>8, <2>9, <2>10, <2>11 DEF PageNext
<1> QED BY <1>2, <1>3

LEMMA PageTypeStarts ==
  ASSUME PageInit
  PROVE  PageTypeOK
PROOF
<1>1. DeskInv /\ TypeOK
  BY DeskInit DEF PageInit, DeskInv
<1>2. latest \in LatestRow
  BY DEF PageInit, NoLatest, LatestRow
<1>3. page \in PageRow
  <2>1. PICK view \in View : view = Snapshot
    BY <1>1, <1>2, SnapshotType
  <2> QED BY <2>1, LoadedType DEF PageInit
<1>4. slots \in [Panel -> Slot] /\ strays \in SUBSET Stray
  BY IdleType DEF PageInit
<1>5. budget \in [{"user", "rival"} -> Nat]
  BY PageAssumption DEF PageInit
<1> QED BY <1>1, <1>2, <1>3, <1>4, <1>5 DEF PageTypeOK

\* The components of the page, the requests and the answers they wait for, and
\* the requests that go on without a page have the members the code gives them;
\* an answer's code is one of the API's, whatever was asked.
THEOREM PageTypeCorrect == PageSpec => []PageTypeOK
PROOF
<1>1. PageTypeOK /\ TypeOK' /\ DeskInv /\ NoticeInv /\ [PageNext]_allVars => PageTypeOK'
  BY PageTypeStep
<1>2. PageSpec => [](DeskInv /\ TypeOK)
  BY PageIsADesk, DeskInvariance, DeskTypeCorrect, PTL
<1> QED BY <1>1, <1>2, NoticeInvariance, PageTypeStarts, PTL DEF PageSpec
=============================================================================
