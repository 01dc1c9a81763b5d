----------------------------- MODULE AuditTrail -----------------------------
(***************************************************************************)
(* The record of one run in the audit store (AuditStore, app/              *)
(* dev_extraction/store.py) and the page that follows it (useAuditEvents,  *)
(* src/frontend/src/extraction/useAuditEvents.ts).                         *)
(*                                                                         *)
(* saved is the stored run, trail its events in the order of their         *)
(* sequence numbers; both change in one transaction.  poll is the page:    *)
(* the events it shows, its cursor and the answer it waits for.            *)
(*                                                                         *)
(* Operators named Slip... are not part of the model, see MailboxRuns.     *)
(***************************************************************************)
EXTENDS Naturals, Sequences

CONSTANTS PageLimit   \* events in a page
ASSUME PageAssumption == PageLimit \in Nat \ {0}

VARIABLES saved, trail, poll

NoRun == [status |-> "none"]
Recorded == saved # NoRun
Running == saved.status = "RUNNING"

\* create: the trigger on the events does not see an insert of a run.
Create(run, events) == saved' = run /\ trail' = events

\* save, as far as the triggers on a finished run let it.
Save(run, events) ==
  /\ Running
  /\ saved' = run
  /\ trail' = trail \o events

\* What is not done is given up, with the run.
GivenUp(run, status, code) ==
  [run EXCEPT !.status = status, !.issues = @ \cup {code},
     !.docs = [i \in DOMAIN @ |->
       IF @[i].status \in {"PENDING", "RUNNING"}
       THEN [@[i] EXCEPT !.status = status, !.error = code] ELSE @[i]]]

\* interrupt
Interrupted(run) == GivenUp(run, "INTERRUPTED", "RUN_INTERRUPTED")
-----------------------------------------------------------------------------
\* get: the events of a document, by sequence number.
EventsOf(n) == {j \in DOMAIN trail : trail[j].doc = n}

\* useAuditEvents: cursor and the events shown, by sequence number.
NoPage == [none |-> TRUE]
NewPoll == [cursor |-> 0, items |-> {}, page |-> NoPage, finished |-> FALSE]

SlipPage(cursor) ==
  LET upto == IF Len(trail) - cursor <= PageLimit THEN Len(trail) ELSE cursor + PageLimit
  IN [items |-> (cursor + 1)..upto, more |-> upto - cursor > PageLimit, next |-> upto,
      status |-> saved.status]

\* events: one more than the limit is looked for, the status is of the same moment.
Page(cursor) ==
  LET upto == IF Len(trail) - cursor <= PageLimit THEN Len(trail) ELSE cursor + PageLimit
  IN [items |-> (cursor + 1)..upto, more |-> Len(trail) > upto, next |-> upto,
      status |-> saved.status]

\* A request is answered; the answer is on its way.
Ask ==
  /\ Recorded /\ poll.page = NoPage /\ ~poll.finished
  /\ poll' = [poll EXCEPT !.page = Page(poll.cursor)]

\* The answer arrives.
Take ==
  /\ poll.page # NoPage
  /\ poll' = [poll EXCEPT !.items = @ \cup poll.page.items, !.cursor = poll.page.next,
                          !.page = NoPage,
                          !.finished = ~poll.page.more /\ poll.page.status # "RUNNING"]

\* Or it does not, or the page is hidden: the next one begins at the same event.
Lose ==
  /\ poll.page # NoPage
  /\ poll' = [poll EXCEPT !.page = NoPage]
=============================================================================
