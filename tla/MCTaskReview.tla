---------------------------- MODULE MCTaskReview ----------------------------
(***************************************************************************)
(* Instances of TaskReview: two of the seven fields, two values, and what  *)
(* an analysis may read off a text and off a scanned source.               *)
(***************************************************************************)
EXTENDS TaskReview, TLC

CONSTANTS s1, s2, b1, b2, weight, port, v1, v2, r1, r2

TheDocs == {s1, s2, b1, b2}
OneInstruction == TheDocs \ {s2}
TheFields == {weight, port}
TheValues == {v1, v2}

Text(v) == [state |-> "PRESENT", norm |-> v, needs |-> FALSE,
            method |-> "rule", supplied |-> FALSE]
Absent == [state |-> "MISSING", norm |-> NoValue, needs |-> FALSE,
           method |-> "rule", supplied |-> FALSE]
Candidate(v) == [state |-> "PRESENT", norm |-> v, needs |-> TRUE,
                 method |-> "gemini_vision", supplied |-> FALSE]
NotSeen == [state |-> "MISSING", norm |-> NoValue, needs |-> TRUE,
            method |-> "gemini_vision", supplied |-> FALSE]

\* The issue that comes with a value.
IssueOf(x) ==
  IF x.method = "gemini_vision"
  THEN IF x.state = "MISSING" THEN "AI_CANDIDATE_MISSING" ELSE "AI_CONFIRMATION_REQUIRED"
  ELSE "FIELD_NOT_FOUND"

Read(role, w, p) ==
  LET values == [f \in TheFields |-> IF f = weight THEN w ELSE p]
  IN [role |-> role, values |-> values,
      issues |-> {[code |-> IssueOf(values[f]), field |-> f] :
                    f \in {g \in TheFields : ~Settled(values[g])}}]

\* The SI is read as text; the first draft BL comes as text with another weight
\* and without the port, or as a scan of which the model reads the weight only;
\* the second draft is a text with another port.
TheReadings ==
  [d \in Docs |->
     CASE d \in {s1, s2} -> {Read("si", Text(v1), Text(v1))}
       [] d = b1 -> {Read("bl", Text(v2), Absent), Read("bl", Candidate(v1), NotSeen)}
       [] d = b2 -> {Read("bl", Text(v1), Text(v2))}]
\* The SI is a scan, the draft BL a text without the weight.
ScannedReadings ==
  [TheReadings EXCEPT ![s1] = {Read("si", Candidate(v1), Candidate(v1))},
                      ![b1] = {Read("bl", Absent, Text(v1))}]
ThePrinted == [d \in Docs |-> IF d \in {s1, s2} THEN {v1} ELSE {v1, v2}]
AllPrinted == [d \in Docs |-> TheValues]

Chosen(docs, si, bl) ==
  [revision |-> 1, docs |-> docs, pair |-> [role \in Role |-> IF role = "si" THEN si ELSE bl],
   selected |-> TRUE, current |-> NoRun]
Unchosen(docs) ==
  [revision |-> 1, docs |-> docs, pair |-> [role \in Role |-> NoDoc],
   selected |-> FALSE, current |-> NoRun]

\* A clone of a sample with two documents that was not analyzed.
Clones == {Unchosen(<<s1, b1>>)}
\* A clone of a sample with two SIs, of which the second is in the chosen pair.
TwoInstructions == {Chosen(<<s2, b1, s1>>, s1, b1)}
TheRuns == {r1, r2}
Symmetric == Permutations(TheRuns)
=============================================================================
