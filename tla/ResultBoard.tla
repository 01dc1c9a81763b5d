---------------------------- MODULE ResultBoard ----------------------------
(***************************************************************************)
(* What the mailbox promises about results, without saying how: for every  *)
(* email a board shows one result or none.  A result is pinned up only by  *)
(* the run asked for last, while it is still open, for the revision the    *)
(* board is at; a new revision takes it down.  What else succeeds, late or *)
(* for an older revision, is kept in history and never shown.              *)
(*                                                                         *)
(* MailboxRuns implements this (ImplementsBoard there).                    *)
(***************************************************************************)
EXTENDS Naturals

CONSTANTS Emails, Runs, NoRun

VARIABLES
  revision,   \* the revision of each email
  asked,      \* the email and revision each run was asked for
  state,      \* "unused", "open", "closed" or "succeeded", of each run
  latest,     \* the run asked for last at this revision
  shown       \* the run whose result the board shows

board == <<revision, asked, state, latest, shown>>

Init ==
  /\ revision = [e \in Emails |-> 1]
  /\ asked = [r \in Runs |-> {}]
  /\ state = [r \in Runs |-> "unused"]
  /\ latest = [e \in Emails |-> NoRun]
  /\ shown = [e \in Emails |-> NoRun]

Open == {r \in Runs : state[r] = "open"}

\* Runs may be given up at any time, also beside another step.
Closing(given) == [r \in Runs |-> IF r \in given THEN "closed" ELSE state[r]]

GiveUp(given) ==
  /\ state' = Closing(given)
  /\ UNCHANGED <<revision, asked, latest, shown>>

Ask(e, r, given) ==
  /\ state[r] = "unused"
  /\ latest[e] \notin Open \ given
  /\ asked' = [asked EXCEPT ![r] = {<<e, revision[e]>>}]
  /\ state' = [Closing(given) EXCEPT ![r] = "open"]
  /\ latest' = [latest EXCEPT ![e] = r]
  /\ UNCHANGED <<revision, shown>>

Publish(e, r) ==
  /\ state[r] = "open"
  /\ latest[e] = r
  /\ asked[r] = {<<e, revision[e]>>}
  /\ state' = [state EXCEPT ![r] = "succeeded"]
  /\ shown' = [shown EXCEPT ![e] = r]
  /\ UNCHANGED <<revision, asked, latest>>

\* A success nobody waits for any more.
Archive(r) ==
  /\ state[r] \in {"open", "closed"}
  /\ state' = [state EXCEPT ![r] = "succeeded"]
  /\ UNCHANGED <<revision, asked, latest, shown>>

Revise(changed, given) ==
  /\ revision' = [e \in Emails |-> IF e \in changed THEN revision[e] + 1
                                   ELSE revision[e]]
  /\ latest' = [e \in Emails |-> IF e \in changed THEN NoRun ELSE latest[e]]
  /\ shown' = [e \in Emails |-> IF e \in changed THEN NoRun ELSE shown[e]]
  /\ state' = Closing(given)
  /\ UNCHANGED asked

Next ==
  \E given \in SUBSET Open :
    \/ GiveUp(given)
    \/ \E e \in Emails, r \in Runs : Ask(e, r, given)
    \/ \E e \in Emails, r \in Runs : Publish(e, r)
    \/ \E r \in Runs : Archive(r)
    \/ \E changed \in SUBSET Emails : Revise(changed, given)

Spec == Init /\ [][Next]_board
=============================================================================
