---------------------------- MODULE CheckLedger ----------------------------
(***************************************************************************)
(* What the review desk of one task promises, whatever it stores: of the   *)
(* saved analyses at most one is current, a check is acknowledged only for *)
(* the current analysis and only while nothing is open in it, and from the *)
(* acknowledgment on nothing opens in that analysis again.                 *)
(***************************************************************************)
CONSTANTS Runs, NoRun

VARIABLES
  current,   \* the analysis the task shows, or NoRun
  open,      \* whether, as reviewed so far, anything is open in it
  done       \* the acknowledged analyses

vars == <<current, open, done>>

Init == current = NoRun /\ open = FALSE /\ done = {}

\* A new source or another pair: a new revision starts.
Withdraw ==
  /\ current' = NoRun
  /\ open' = FALSE
  /\ UNCHANGED done

\* A new analysis is saved and becomes current.
Publish ==
  /\ current' \in Runs \ (done \cup {current})
  /\ open' \in BOOLEAN
  /\ UNCHANGED done

\* A reviewer's action may close what is open, or open it again.
Review ==
  /\ current \in Runs \ done
  /\ open' \in BOOLEAN
  /\ UNCHANGED <<current, done>>

Acknowledge ==
  /\ current \in Runs
  /\ ~open
  /\ done' = done \cup {current}
  /\ UNCHANGED <<current, open>>

Next == Withdraw \/ Publish \/ Review \/ Acknowledge

Spec == Init /\ [][Next]_vars
=============================================================================
