--------------------------- MODULE MCMailboxRuns ---------------------------
(* Instances of MailboxRuns for TLC.                                       *)
EXTENDS MailboxRuns, TLC

CONSTANTS t1, s1, r1, r2, r3, d1, d2, d3

RunSymmetry == Permutations(Runs)

\* A task that starts with an SI and a draft BL; d3 can only be uploaded.
TaskDocs == [e \in Emails |-> IF e = t1 THEN {d1, d2} ELSE {}]
NoPairs == {[e \in Emails |-> NoPair]}

\* The same task as a custom one and as the clone of an analyzed sample.
ClonedPairs ==
  {[e \in Emails |-> pair] : pair \in {NoPair, [si |-> d1, bl |-> d2]}}
NoDocs == [e \in Emails |-> {}]

\* d3 is a scan whose role extraction cannot read.
ScanUpload == [d \in Docs |-> IF d = d1 THEN "si" ELSE IF d = d2 THEN "bl" ELSE "none"]

\* Every document reads as a draft BL.
AllBL == [d \in Docs |-> "bl"]
=============================================================================
