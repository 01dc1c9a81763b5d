----------------------------- MODULE MCTaskPage -----------------------------
(***************************************************************************)
(* An instance of TaskPage: one of the seven fields, a text SI and two     *)
(* drafts, of which one differs from the SI and one is a scan.             *)
(***************************************************************************)
EXTENDS TaskPage, TLC

CONSTANTS s1, b1, b2, weight, v1, v2, r1, r2, user

TheDocs == {s1, b1, b2}
TheFields == {weight}
TheValues == {v1, v2}
TheRuns == {r1, r2}
TheClients == {user}

Text(v) == [state |-> "PRESENT", norm |-> v, needs |-> FALSE,
            method |-> "rule", supplied |-> FALSE]
Candidate(v) == [Text(v) EXCEPT !.needs = TRUE, !.method = "gemini_vision"]

Read(role, w, issues) ==
  [role |-> role, values |-> [f \in TheFields |-> w],
   issues |-> {[code |-> issue, field |-> weight] : issue \in issues}]

TheReadings ==
  [d \in TheDocs |->
     CASE d = s1 -> {Read("si", Text(v1), {})}
       [] d = b1 -> {Read("bl", Text(v2), {})}
       [] d = b2 -> {Read("bl", Candidate(v1), {"AI_CONFIRMATION_REQUIRED"})}]
ThePrinted == [d \in TheDocs |-> TheValues]

\* A clone with its pair, and a form that takes the draft out of it.
Sides(si, bl) == [role \in Role |-> IF role = "si" THEN si ELSE bl]
Clones ==
  {[revision |-> 1, docs |-> <<s1, b1>>, selected |-> TRUE, current |-> NoRun,
    pair |-> Sides(s1, b1)]}
OneChoice == {Sides(s1, NoDoc)}

\* The notes asked for, none, and one too many.
TheNotes == {<<>>, <<weight>>, <<weight, weight>>}
Clicks(u, o) == [actor \in {"user", "rival"} |-> IF actor = "user" THEN u ELSE o]
TheBudgets == {Clicks(3, 0), Clicks(2, 1)}
=============================================================================
