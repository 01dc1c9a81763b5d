-------------------------- MODULE TaskReview_proofs --------------------------
(***************************************************************************)
(* What the review desk keeps, for any fields, documents, runs, clients    *)
(* and bounds.                                                             *)
(*                                                                         *)
(* Saved analyses never change, and what one says of its fields stays      *)
(* consistent under every review (FieldComparison_proofs).  DeskInv adds   *)
(* what ties the tables together: a current analysis has the pair of the   *)
(* task, only a saved one has events, an acknowledged one is eligible, and *)
(* the baseline of one is an earlier comparable one.                       *)
(***************************************************************************)
EXTENDS TaskReview, FieldComparison_proofs, FiniteSetTheorems

\* No value of an analysis comes from outside of its sources.
Unsupplied(result) ==
  \A field \in result.fields : ~field.si.supplied /\ ~field.bl.supplied

\* What is saved is consistent, and asks for what it could not resolve.
ResultsKept ==
  \A r \in Saved : /\ Consistent(runs[r].result)
                   /\ Unsupplied(runs[r].result)
                   /\ UnresolvedAsked(runs[r].result)

\* Documents are never deleted.
SourcesKept ==
  /\ Listed(task.docs) \subseteq documents
  /\ \A r \in Saved : Listed(runs[r].docs) \subseteq documents

\* The current analysis is one of the task's pair.
CurrentKept ==
  /\ task.current \in Saved \cup {NoRun}
  /\ task.current \in Saved => runs[task.current].pair = task.pair

\* A baseline belongs to an earlier revision.
BaseOf(base, revision) ==
  base # NoRun => /\ base \in Saved
                  /\ Comparable(base)
                  /\ runs[base].revision < revision
BasesKept ==
  \A r \in Saved : /\ BaseOf(runs[r].base, runs[r].revision)
                   /\ runs[r].delta = DeltaTo(runs[r].result, runs[r].base)

EventsKept == \A r \in Runs : reviews[r] # <<>> => r \in Saved

\* An acknowledged analysis stays eligible.
DoneKept == \A r \in completions : r \in Saved /\ IsEligible(r)

DeskInv ==
  /\ TypeOK
  /\ ResultsKept
  /\ SourcesKept
  /\ CurrentKept
  /\ BasesKept
  /\ EventsKept
  /\ ReviewsOnComparedPair
  /\ DoneKept
-----------------------------------------------------------------------------
LEMMA FirstTask ==
  ASSUME NEW t \in FirstTasks
  PROVE  t \in TaskRow /\ t.current = NoRun
  BY SourcesAssumption

LEMMA NotSavedType == NotSaved \in RunRow /\ ~NotSaved.saved
<1>1. NotCompared(FALSE) \in Result
  BY NotComparedType
<1>2. [role \in Role |-> NoDoc] \in Pair
  BY DEF Pair, DocOrNone
<1>3. NoDelta \in Deltas
  BY DEF NoDelta, Deltas
<1>4. <<>> \in Seq(Docs) /\ 0 \in Nat
  OBVIOUS
<1> QED
  BY <1>1, <1>2, <1>3, <1>4 DEF NotSaved, RunRow

LEMMA ReviewedType ==
  ASSUME TypeOK, ResultsKept, NEW r \in Saved
  PROVE  /\ ReviewedResult(r) \in Result
         /\ Consistent(ReviewedResult(r))
         /\ ReviewedResult(r).category = runs[r].result.category
<1>1. runs[r].result \in Result /\ reviews[r] \in Seq(Action)
  BY DEF TypeOK, Saved, RunRow, ReviewEvents
<1>2. Consistent(runs[r].result)
  BY DEF ResultsKept
<1> QED
  BY <1>1, <1>2, OverlayType DEF ReviewedResult

LEMMA FactsType ==
  ASSUME TypeOK, ResultsKept, NEW r \in Saved
  PROVE  Facts(r) \in SUBSET Item
  BY ReviewedType, IssueItemsType DEF Facts

LEMMA TheOnlyType ==
  ASSUME NEW options
  PROVE  TheOnly(options) \in DocOrNone
<1>1. CASE \E d \in Docs : options = {d}
  BY <1>1 DEF TheOnly, DocOrNone
<1>2. CASE ~\E d \in Docs : options = {d}
  BY <1>2 DEF TheOnly, DocOrNone
<1> QED
  BY <1>1, <1>2

LEMMA CompletedPairType ==
  ASSUME TypeOK, NEW result
  PROVE  CompletedPair(result) \in Pair
<1>1. \A role \in Role : task.pair[role] \in DocOrNone
  BY DEF TypeOK, TaskRow, Pair
<1> QED
  BY <1>1, TheOnlyType DEF CompletedPair, Pair

LEMMA WithoutType ==
  ASSUME NEW docs \in Seq(Docs), NEW d
  PROVE  Without(docs, d) \in Seq(Docs) /\ Listed(Without(docs, d)) \subseteq Listed(docs)
<1>1. CASE d \notin Listed(docs)
  BY <1>1 DEF Without
<1>2. CASE d \in Listed(docs)
  <2> DEFINE place == CHOOSE i \in DOMAIN docs : docs[i] = d
             rest == [i \in 1..(Len(docs) - 1) |-> IF i < place THEN docs[i] ELSE docs[i + 1]]
  <2>1. Without(docs, d) = rest
    BY <1>2 DEF Without
  <2>2. place \in DOMAIN docs /\ DOMAIN docs = 1..Len(docs) /\ Len(docs) \in Nat
    BY <1>2 DEF Listed
  <2> HIDE DEF place
  <2>3. \A i \in 1..(Len(docs) - 1) : i \in DOMAIN docs /\ i + 1 \in DOMAIN docs
    BY <2>2
  <2>4. \A i \in 1..(Len(docs) - 1) : rest[i] \in Docs /\ rest[i] \in Listed(docs)
    BY <2>3 DEF Listed
  <2>5. DOMAIN rest = 1..(Len(docs) - 1) /\ Len(docs) - 1 \in Nat
    BY <2>2
  <2>6. rest \in Seq(Docs)
    BY <2>4, <2>5
  <2> QED
    BY <2>1, <2>4, <2>5, <2>6 DEF Listed
<1> QED
  BY <1>1, <1>2
-----------------------------------------------------------------------------
(***************************************************************************)
(* The baseline of a new analysis, and the analysis.                       *)
(***************************************************************************)
LEMMA BaselineOf ==
  ASSUME TypeOK, BasesKept
  PROVE  /\ Baseline \in Runs \cup {NoRun}
         /\ BaseOf(Baseline, task.revision)
<1> DEFINE same == {r \in Saved : runs[r].revision = task.revision}
           newest == {r \in Earlier : \A q \in Earlier :
                        \/ runs[q].revision < runs[r].revision
                        \/ runs[q].revision = runs[r].revision /\ runs[q].at <= runs[r].at}
<1>1. CASE same # {}
  <2>1. PICK r \in same : Baseline = runs[r].base
    BY <1>1 DEF Baseline
  <2>2. r \in Saved /\ runs[r].revision = task.revision
    BY <2>1
  <2>3. runs[r].base \in Runs \cup {NoRun}
    BY <2>2 DEF TypeOK, Saved, RunRow
  <2> QED
    BY <2>1, <2>2, <2>3 DEF BasesKept
<1>2. CASE same = {} /\ newest # {}
  <2>1. PICK r \in newest : Baseline = r
    BY <1>2 DEF Baseline
  <2>2. r \in Saved /\ Comparable(r) /\ runs[r].revision < task.revision
    BY <2>1 DEF Earlier
  <2> QED
    BY <2>1, <2>2 DEF BaseOf, Saved
<1>3. CASE same = {} /\ newest = {}
  BY <1>3 DEF Baseline, BaseOf
<1> QED
  BY <1>1, <1>2, <1>3

\* A step that saves an analysis.
Saving(r, result, base) ==
  /\ r \in Runs \ Saved
  /\ result \in Result
  /\ Consistent(result)
  /\ Unsupplied(result) /\ UnresolvedAsked(result)
  /\ base \in Runs \cup {NoRun}
  /\ BaseOf(base, task.revision)
  /\ Save(r, result, base)

LEMMA SaveOtherSaves ==
  ASSUME TypeOK, BasesKept, NEW r \in Runs, NEW unclear \in BOOLEAN, SaveOther(r, unclear)
  PROVE  Saving(r, NotCompared(unclear), Baseline)
<1>1. Unsupplied(NotCompared(unclear))
  BY DEF Unsupplied, NotCompared
<1>2. UnresolvedAsked(NotCompared(unclear))
  BY DEF UnresolvedAsked, NotCompared
<1> QED
  BY <1>1, <1>2, NotComparedType, BaselineOf DEF SaveOther, Saving

LEMMA SaveComparisonSaves ==
  ASSUME TypeOK, BasesKept, NEW r \in Runs,
         NEW reading \in [Listed(task.docs) -> UNION {Readings[d] : d \in Docs}],
         \A d \in Listed(task.docs) : reading[d] \in Readings[d],
         SaveComparison(r, reading)
  PROVE  Saving(r, Compare(task.docs, reading, KnownPair), Baseline)
<1> DEFINE result == Compare(task.docs, reading, KnownPair)
<1>1. task.docs \in Seq(Docs)
  BY DEF TypeOK, TaskRow
<1>2. Listed(task.docs) \subseteq Docs
  BY <1>1 DEF Listed
<1>3. \A d \in Listed(task.docs) :
        reading[d] \in Reading /\ \A f \in Fields : ~reading[d].values[f].supplied
  BY <1>2, SourcesAssumption
<1>4. reading \in ReadingsOf(task.docs)
  BY <1>3 DEF ReadingsOf, Listed
<1>5. /\ result \in Result
      /\ Consistent(result)
      /\ \A field \in result.fields :
           /\ field.si = SideRead(task.docs, reading, "si", KnownPair, field.key)
           /\ field.bl = SideRead(task.docs, reading, "bl", KnownPair, field.key)
  BY <1>1, <1>4, CompareType
<1>6. \A role \in Role, f \in Fields : ~SideRead(task.docs, reading, role, KnownPair, f).supplied
  <2> SUFFICES ASSUME NEW role \in Role, NEW f \in Fields
               PROVE  ~SideRead(task.docs, reading, role, KnownPair, f).supplied
    OBVIOUS
  <2> PICK d : d = Selected(task.docs, reading, role, KnownPair)
    OBVIOUS
  <2>1. CASE d = NoDoc
    BY <2>1 DEF SideRead, EmptyValue
  <2>2. CASE d # NoDoc
    <3>1. d \in Listed(task.docs)
      BY <2>2, SelectedIsListed DEF Listed
    <3> QED
      BY <1>3, <2>2, <3>1 DEF SideRead
  <2> QED
    BY <2>1, <2>2
<1>7. Unsupplied(result)
  <2>1. \A field \in result.fields : field.key \in Fields
    BY <1>5 DEF Result, Compared
  <2> HIDE DEF result
  <2> QED
    BY <1>5, <1>6, <2>1 DEF Unsupplied, Role
<1> QED
  BY <1>1, <1>4, <1>5, <1>7, CompareAsks, BaselineOf DEF SaveComparison, Saving

LEMMA DeltaToType ==
  ASSUME NEW result \in Result, NEW base
  PROVE  DeltaTo(result, base) \in Deltas
<1>1. CASE base = NoRun
  BY <1>1 DEF DeltaTo, NoDelta, Deltas
<1>2. CASE base # NoRun
  <2>1. Delta(result, runs[base].result) \in Deltas
    BY DeltaType DEF Deltas
  <2> QED
    BY <1>2, <2>1 DEF DeltaTo
<1> QED
  BY <1>1, <1>2
-----------------------------------------------------------------------------
(***************************************************************************)
(* Each step saves one analysis or leaves the saved ones alone.            *)
(***************************************************************************)
LEMMA SavingFacts ==
  ASSUME TypeOK, NEW r, NEW result, NEW base, Saving(r, result, base)
  PROVE  /\ runs' \in [Runs -> RunRow]
         /\ task' \in TaskRow
         /\ Saved' = Saved \cup {r}
         /\ \A q \in Runs \ {r} : runs'[q] = runs[q]
         /\ runs'[r].docs = task.docs /\ runs'[r].pair = task'.pair
         /\ runs'[r].revision = task.revision
         /\ runs'[r].base = base /\ runs'[r].result = result
         /\ runs'[r].delta = DeltaTo(result, base)
         /\ task'.docs = task.docs /\ task'.current = r
         /\ UNCHANGED <<documents, reviews, completions, draft, calls>>
<1> DEFINE pair == CompletedPair(result)
           row == [saved |-> TRUE, revision |-> task.revision,
                   at |-> Cardinality(Saved), docs |-> task.docs,
                   pair |-> pair, base |-> base, result |-> result,
                   delta |-> DeltaTo(result, base)]
           chosen == task.selected \/ NoDoc \notin {pair[role] : role \in Role}
<1>1. /\ runs' = [runs EXCEPT ![r] = row]
      /\ task' = [task EXCEPT !.pair = pair, !.current = r, !.selected = chosen]
      /\ UNCHANGED <<documents, reviews, completions, draft, calls>>
      /\ r \in Runs \ Saved /\ result \in Result /\ base \in Runs \cup {NoRun}
  <2>1. task.selected \in BOOLEAN
    BY DEF TypeOK, TaskRow
  <2> QED
    BY <2>1 DEF Saving, Save, TypeOK, TaskRow
<1>2. pair \in Pair
  BY CompletedPairType
<1>3. Cardinality(Saved) \in Nat
  <2>1. IsFiniteSet(Saved)
    BY RunsAssumption, FS_Subset DEF Saved
  <2> QED
    BY <2>1, FS_CardinalityType
<1>4. DeltaTo(result, base) \in Deltas
  BY <1>1, DeltaToType
<1>5. task.revision \in Nat /\ task.docs \in Seq(Docs)
  BY DEF TypeOK, TaskRow
<1>6. row \in RunRow
  BY <1>1, <1>2, <1>3, <1>4, <1>5 DEF RunRow
<1>7. chosen \in BOOLEAN
  BY DEF TypeOK, TaskRow
<1>8. row.saved /\ row.revision = task.revision /\ row.docs = task.docs
      /\ row.pair = pair /\ row.base = base /\ row.result = result
      /\ row.delta = DeltaTo(result, base)
  OBVIOUS
<1> HIDE DEF row, pair, chosen
<1>9. runs' \in [Runs -> RunRow] /\ runs'[r] = row
      /\ \A q \in Runs \ {r} : runs'[q] = runs[q]
  BY <1>1, <1>6 DEF TypeOK
<1>10. task' \in TaskRow /\ task'.pair = pair /\ task'.docs = task.docs /\ task'.current = r
  BY <1>1, <1>2, <1>7 DEF TypeOK, TaskRow
<1>11. Saved' = Saved \cup {r}
  BY <1>1, <1>8, <1>9 DEF Saved
<1> QED
  BY <1>1, <1>8, <1>9, <1>10, <1>11

\* The steps of a user at the sources: a new revision without an analysis.
Revising ==
  /\ task' \in TaskRow
  /\ task'.current = NoRun
  /\ Listed(task'.docs) \subseteq documents'
  /\ documents \subseteq documents'
  /\ documents' \in SUBSET Docs
  /\ UNCHANGED <<runs, reviews, completions, draft, calls>>

LEMMA AdvanceRevises ==
  ASSUME TypeOK, NEW docs \in Seq(Docs), NEW pair \in Pair, NEW selected \in BOOLEAN,
         Advance(docs, pair, selected)
  PROVE  /\ task' \in TaskRow
         /\ task'.current = NoRun /\ task'.docs = docs
         /\ UNCHANGED <<runs, reviews, completions, draft, calls>>
<1>1. task' = [task EXCEPT !.revision = @ + 1, !.docs = docs, !.pair = pair,
                           !.selected = selected, !.current = NoRun]
  BY DEF Advance
<1>2. task \in TaskRow
  BY DEF TypeOK
<1>3. UNCHANGED <<runs, reviews, completions, draft, calls>>
  BY DEF Advance
<1>4. task.revision + 1 \in Nat \ {0}
  BY <1>2 DEF TaskRow
<1>5. task' \in TaskRow /\ task'.current = NoRun /\ task'.docs = docs
  BY <1>1, <1>2, <1>4 DEF TaskRow
<1> QED
  BY <1>3, <1>5

LEMMA SourcesRevise ==
  ASSUME TypeOK, SourcesKept,
         \/ \E pair \in Pair : SelectPair(pair)
         \/ \E role \in Role, d \in Docs : ReplaceDocument(role, d)
  PROVE  Revising
<1>1. task.docs \in Seq(Docs) /\ task.pair \in Pair /\ task.selected \in BOOLEAN
      /\ documents \in SUBSET Docs
  BY DEF TypeOK, TaskRow
<1>2. CASE \E pair \in Pair : SelectPair(pair)
  <2>1. PICK pair \in Pair : SelectPair(pair)
    BY <1>2
  <2>2. Advance(task.docs, pair, TRUE) /\ UNCHANGED documents
    BY <2>1 DEF SelectPair
  <2> QED
    BY <1>1, <2>2, AdvanceRevises DEF Revising, SourcesKept
<1>3. CASE \E role \in Role, d \in Docs : ReplaceDocument(role, d)
  <2>1. PICK role \in Role, d \in Docs : ReplaceDocument(role, d)
    BY <1>3
  <2> DEFINE kept == Without(task.docs, task.pair[role])
             docs == Append(kept, d)
             pair == [task.pair EXCEPT ![role] = d]
  <2>2. Advance(docs, pair, task.selected) /\ documents' = documents \cup {d}
    BY <2>1 DEF ReplaceDocument
  <2>3. kept \in Seq(Docs) /\ Listed(kept) \subseteq Listed(task.docs)
    BY <1>1, WithoutType
  <2>4. pair \in Pair
    BY <1>1 DEF Pair, DocOrNone
  <2> HIDE DEF kept, pair
  <2>5. docs \in Seq(Docs)
    BY <2>3
  <2>6. Listed(docs) \subseteq Listed(kept) \cup {d}
    BY <2>3 DEF Listed
  <2> HIDE DEF docs
  <2>7. task' \in TaskRow /\ task'.current = NoRun /\ task'.docs = docs
        /\ UNCHANGED <<runs, reviews, completions, draft, calls>>
    BY <1>1, <2>2, <2>4, <2>5, AdvanceRevises
  <2> QED
    BY <1>1, <2>2, <2>3, <2>6, <2>7 DEF Revising, SourcesKept
<1> QED
  BY <1>2, <1>3

\* The steps of reviewers and of those who write to the other party.
Reviewing ==
  \/ \E d \in Docs, f \in Fields, kind \in {"CONFIRM_CANDIDATE", "CORRECT_EXTRACTION",
                                          "SUPPLY_INFORMATION"}, value \in Values \cup {NoValue} :
       RecordReview(d, f, kind, value)
  \/ RecordCompletion
Writing ==
  \/ \E c \in Clients : AskDraft(c) \/ SaveDraft(c) \/ GiveUpDraft(c)
  \/ UpdateDraft

LEMMA StepKinds ==
  ASSUME TypeOK, BasesKept, SourcesKept, Next
  PROVE  \/ \E r, result, base : Saving(r, result, base)
         \/ Revising
         \/ Reviewing
         \/ Writing
<1>1. CASE \E r \in Runs, unclear \in BOOLEAN : SaveOther(r, unclear)
  BY <1>1, SaveOtherSaves
<1>2. CASE \E r \in Runs :
             \E reading \in [Listed(task.docs) -> UNION {Readings[d] : d \in Docs}] :
               /\ \A d \in Listed(task.docs) : reading[d] \in Readings[d]
               /\ SaveComparison(r, reading)
  BY <1>2, SaveComparisonSaves
<1>3. CASE \/ \E pair \in Pair : SelectPair(pair)
           \/ \E role \in Role, d \in Docs : ReplaceDocument(role, d)
  BY <1>3, SourcesRevise
<1>4. CASE Reviewing \/ Writing
  BY <1>4
<1> QED
  BY <1>1, <1>2, <1>3, <1>4 DEF Next, Reviewing, Writing
-----------------------------------------------------------------------------
(***************************************************************************)
(* DeskInv is inductive.                                                   *)
(***************************************************************************)
LEMMA DeskInit == Init => DeskInv
<1> SUFFICES ASSUME Init PROVE DeskInv
  OBVIOUS
<1> USE DEF Init
<1>1. task \in TaskRow /\ task.current = NoRun
  BY FirstTask
<1>2. runs \in [Runs -> RunRow] /\ Saved = {}
  BY NotSavedType DEF Saved
<1>3. draft \in DraftRow /\ calls \in [Clients -> Call]
  BY DEF NoDraft, DraftRow, NoCall, Call
<1>4. reviews \in ReviewEvents /\ \A r \in Runs : reviews[r] = <<>>
  BY DEF ReviewEvents
<1>5. documents \in SUBSET Docs
  BY <1>1 DEF TaskRow, Listed
<1>6. TypeOK
  BY <1>1, <1>2, <1>3, <1>4, <1>5 DEF TypeOK, Acknowledgments
<1> HIDE DEF Init
<1>7. completions = {} /\ documents = Listed(task.docs)
  BY DEF Init
<1> QED
  BY <1>1, <1>2, <1>4, <1>6, <1>7
     DEF DeskInv, ResultsKept, SourcesKept, CurrentKept, BasesKept, EventsKept,
         ReviewsOnComparedPair, DoneKept

\* Rows that stay keep what was said of them.
LEMMA RowsStay ==
  ASSUME ResultsKept, BasesKept, UNCHANGED runs
  PROVE  Saved' = Saved /\ ResultsKept' /\ BasesKept'
<1>1. Saved' = Saved
  BY DEF Saved
<1>2. ResultsKept'
  BY <1>1 DEF ResultsKept
<1>3. \A base, revision : BaseOf(base, revision) => BaseOf(base, revision)'
  BY <1>1 DEF BaseOf, Comparable
<1>4. \A result, base : DeltaTo(result, base)' = DeltaTo(result, base)
  BY DEF DeltaTo
<1>5. BasesKept'
  BY <1>1, <1>3, <1>4 DEF BasesKept
<1> QED
  BY <1>1, <1>2, <1>5

LEMMA EligibleStays ==
  ASSUME NEW r, runs'[r] = runs[r], reviews'[r] = reviews[r]
  PROVE  IsEligible(r)' = IsEligible(r)
  BY DEF IsEligible, ReviewedResult

LEMMA SaveStep ==
  ASSUME DeskInv, NEW r, NEW result, NEW base, Saving(r, result, base)
  PROVE  DeskInv'
<1> USE DEF DeskInv
<1>1. /\ runs' \in [Runs -> RunRow]
      /\ task' \in TaskRow
      /\ Saved' = Saved \cup {r}
      /\ \A q \in Runs \ {r} : runs'[q] = runs[q]
      /\ runs'[r].docs = task.docs /\ runs'[r].pair = task'.pair
      /\ runs'[r].revision = task.revision
      /\ runs'[r].base = base /\ runs'[r].result = result
      /\ runs'[r].delta = DeltaTo(result, base)
      /\ task'.docs = task.docs /\ task'.current = r
      /\ UNCHANGED <<documents, reviews, completions, draft, calls>>
  BY SavingFacts
<1>2. /\ r \in Runs \ Saved
      /\ Consistent(result) /\ Unsupplied(result) /\ UnresolvedAsked(result)
      /\ BaseOf(base, task.revision)
  BY DEF Saving
<1>3. TypeOK'
  BY <1>1 DEF TypeOK
<1>4. \A q \in Saved : q # r /\ runs'[q] = runs[q]
  BY <1>1, <1>2 DEF Saved
<1>5. ResultsKept'
  BY <1>1, <1>2, <1>4 DEF ResultsKept
<1>6. SourcesKept'
  BY <1>1, <1>4 DEF SourcesKept
<1>7. CurrentKept'
  BY <1>1 DEF CurrentKept
<1>8. BasesKept'
  <2>1. \A b, revision : BaseOf(b, revision) => BaseOf(b, revision)'
    BY <1>1, <1>4 DEF BaseOf, Comparable
  <2>2. ASSUME NEW b, NEW revision, NEW res, BaseOf(b, revision)
        PROVE  DeltaTo(res, b)' = DeltaTo(res, b)
    <3>1. b = NoRun \/ runs'[b] = runs[b]
      BY <1>4, <2>2 DEF BaseOf
    <3> QED
      BY <3>1 DEF DeltaTo
  <2>3. ASSUME NEW q \in Saved',
               NEW b, NEW revision, NEW res, NEW delta,
               b = runs'[q].base, revision = runs'[q].revision,
               res = runs'[q].result, delta = runs'[q].delta
        PROVE  BaseOf(b, revision) /\ delta = DeltaTo(res, b)
    <3>1. CASE q = r
      BY <1>1, <1>2, <2>3, <3>1
    <3>2. CASE q # r
      BY <1>1, <1>4, <2>3, <3>2 DEF BasesKept
    <3> QED
      BY <3>1, <3>2
  <2>4. ASSUME NEW q \in Saved'
        PROVE  /\ BaseOf(runs[q].base, runs[q].revision)'
               /\ (runs[q].delta = DeltaTo(runs[q].result, runs[q].base))'
    <3>1. PICK b, revision, res, delta :
            /\ b = runs'[q].base /\ revision = runs'[q].revision
            /\ res = runs'[q].result /\ delta = runs'[q].delta
      OBVIOUS
    <3>2. BaseOf(b, revision) /\ delta = DeltaTo(res, b)
      BY <2>3, <3>1
    <3>3. BaseOf(b, revision)'
      BY <2>1, <3>2
    <3>4. DeltaTo(res, b)' = DeltaTo(res, b)
      BY <2>2, <3>2
    <3>5. BaseOf(runs[q].base, runs[q].revision)'
      BY <3>1, <3>3 DEF BaseOf
    <3>6. (runs[q].delta = DeltaTo(runs[q].result, runs[q].base))'
      BY <3>1, <3>2, <3>4 DEF DeltaTo
    <3> QED
      BY <3>5, <3>6
  <2> QED
    BY <2>4 DEF BasesKept
<1>9. EventsKept'
  BY <1>1 DEF EventsKept
<1>10. ReviewsOnComparedPair'
  <2>1. \A q \in Runs : \A i \in DOMAIN reviews[q] : q \in Saved
    BY DEF ReviewsOnComparedPair
  <2> QED
    BY <1>1, <1>4, <2>1 DEF ReviewsOnComparedPair, Opens
<1>11. DoneKept'
  <2>1. \A q \in completions : IsEligible(q)' = IsEligible(q)
    BY <1>1, <1>4, EligibleStays DEF DoneKept
  <2> QED
    BY <1>1, <2>1 DEF DoneKept
<1> QED
  BY <1>3, <1>5, <1>6, <1>7, <1>8, <1>9, <1>10, <1>11

LEMMA ReviseStep ==
  ASSUME DeskInv, Revising
  PROVE  DeskInv'
<1> USE DEF DeskInv
<1>1. /\ task' \in TaskRow /\ task'.current = NoRun
      /\ Listed(task'.docs) \subseteq documents'
      /\ documents \subseteq documents' /\ documents' \in SUBSET Docs
      /\ runs' = runs /\ reviews' = reviews /\ completions' = completions
      /\ draft' = draft /\ calls' = calls
  BY DEF Revising
<1>2. TypeOK'
  BY <1>1 DEF TypeOK
<1>3. Saved' = Saved /\ ResultsKept' /\ BasesKept'
  BY <1>1, RowsStay
<1>4. SourcesKept'
  BY <1>1, <1>3 DEF SourcesKept
<1>5. CurrentKept'
  BY <1>1, RunsAssumption DEF CurrentKept, Saved
<1>6. EventsKept'
  BY <1>1, <1>3 DEF EventsKept
<1>7. ReviewsOnComparedPair'
  BY <1>1, <1>3 DEF ReviewsOnComparedPair, Opens
<1>8. DoneKept'
  BY <1>1, <1>3, EligibleStays DEF DoneKept
<1> QED
  BY <1>2, <1>3, <1>4, <1>5, <1>6, <1>7, <1>8

LEMMA ReviewStep ==
  ASSUME DeskInv, Reviewing
  PROVE  DeskInv'
<1> USE DEF DeskInv
<1>1. CASE \E d \in Docs, f \in Fields,
              kind \in {"CONFIRM_CANDIDATE", "CORRECT_EXTRACTION", "SUPPLY_INFORMATION"},
              value \in Values \cup {NoValue} : RecordReview(d, f, kind, value)
  <2>1. PICK d \in Docs, f \in Fields,
             kind \in {"CONFIRM_CANDIDATE", "CORRECT_EXTRACTION", "SUPPLY_INFORMATION"},
             value \in Values \cup {NoValue} : RecordReview(d, f, kind, value)
    BY <1>1
  <2> DEFINE r == task.current
             act == [doc |-> d, field |-> f, kind |-> kind, value |-> value]
  <2>2. /\ r \in Saved /\ r \in Runs \ completions
        /\ d \in Listed(runs[r].docs) \cap {task.pair["si"], task.pair["bl"]}
        /\ reviews' = [reviews EXCEPT ![r] = Append(@, act)]
        /\ task' = task /\ documents' = documents /\ runs' = runs
        /\ completions' = completions /\ draft' = draft /\ calls' = calls
    BY <2>1 DEF RecordReview, IsCurrent, Saved, sources
  <2>3. act \in Action
    BY DEF Action
  <2>4. \A q \in Runs : reviews[q] \in Seq(Action)
    BY DEF TypeOK, ReviewEvents
  <2>5. reviews' \in ReviewEvents
    BY <2>2, <2>3, <2>4 DEF TypeOK, ReviewEvents
  <2>6. reviews'[r] = Append(reviews[r], act)
        /\ \A q \in Runs \ {r} : reviews'[q] = reviews[q]
    BY <2>2 DEF TypeOK, ReviewEvents
  <2>7. act.doc = d
    OBVIOUS
  <2> HIDE DEF act
  <2>8. /\ DOMAIN reviews[r] = 1..Len(reviews[r]) /\ Len(reviews[r]) \in Nat
         /\ DOMAIN reviews'[r] = 1..(Len(reviews[r]) + 1)
         /\ reviews'[r][Len(reviews[r]) + 1] = act
         /\ \A i \in DOMAIN reviews[r] : reviews'[r][i] = reviews[r][i]
    <3>1. reviews[r] \in Seq(Action)
      BY <2>2, <2>4
    <3> QED
      BY <2>3, <2>6, <3>1
  <2>9. TypeOK'
    BY <2>2, <2>5 DEF TypeOK
  <2>10. Saved' = Saved /\ ResultsKept' /\ BasesKept'
    BY <2>2, RowsStay
  <2>11. SourcesKept' /\ CurrentKept'
    BY <2>2, <2>10 DEF SourcesKept, CurrentKept
  <2>12. EventsKept'
    BY <2>2, <2>6, <2>10 DEF EventsKept
  <2>13. ReviewsOnComparedPair'
    <3>1. ASSUME NEW q \in Runs, NEW i \in DOMAIN reviews'[q]
          PROVE  /\ q \in Saved
                 /\ reviews'[q][i].doc \in {runs[q].pair["si"], runs[q].pair["bl"]}
                 /\ reviews'[q][i].doc \in documents
      <4>1. CASE q # r \/ i \in DOMAIN reviews[q]
        <5>1. i \in DOMAIN reviews[q] /\ reviews'[q][i] = reviews[q][i]
          BY <2>6, <2>8, <3>1, <4>1
        <5> QED
          BY <5>1 DEF ReviewsOnComparedPair, Opens
      <4>2. CASE q = r /\ i \notin DOMAIN reviews[q]
        <5>1. reviews'[q][i] = act
          BY <2>8, <3>1, <4>2
        <5>2. runs[r].pair = task.pair
          BY <2>2 DEF CurrentKept
        <5>3. d \in documents
          BY <2>2 DEF SourcesKept
        <5> QED
          BY <2>2, <2>7, <4>2, <5>1, <5>2, <5>3
      <4> QED
        BY <4>1, <4>2
    <3>2. runs' = runs /\ documents' = documents /\ Saved' = Saved
      BY <2>2, <2>10
    <3> HIDE DEF r
    <3> QED
      BY <3>1, <3>2 DEF ReviewsOnComparedPair, Opens
  <2>14. DoneKept'
    <3>1. \A q \in completions : q \in Runs \ {r}
      BY <2>2 DEF DoneKept, Saved
    <3> QED
      BY <2>2, <2>6, <2>10, <3>1, EligibleStays DEF DoneKept
  <2> QED
    BY <2>9, <2>10, <2>11, <2>12, <2>13, <2>14
<1>2. CASE RecordCompletion
  <2>1. /\ task.current \in Saved /\ IsEligible(task.current)
        /\ completions' = completions \cup {task.current}
        /\ task' = task /\ documents' = documents /\ runs' = runs
        /\ reviews' = reviews /\ draft' = draft /\ calls' = calls
    BY <1>2 DEF RecordCompletion, IsCurrent, sources
  <2>2. TypeOK'
    BY <2>1 DEF TypeOK, Acknowledgments, Saved
  <2>3. Saved' = Saved /\ ResultsKept' /\ BasesKept'
    BY <2>1, RowsStay
  <2>4. SourcesKept' /\ CurrentKept' /\ EventsKept' /\ ReviewsOnComparedPair'
    BY <2>1, <2>3 DEF SourcesKept, CurrentKept, EventsKept, ReviewsOnComparedPair, Opens
  <2>5. DoneKept'
    BY <2>1, <2>3, EligibleStays DEF DoneKept
  <2> QED
    BY <2>2, <2>3, <2>4, <2>5
<1> QED
  BY <1>1, <1>2 DEF Reviewing

LEMMA WriteStep ==
  ASSUME DeskInv, Writing \/ UNCHANGED vars
  PROVE  DeskInv'
<1> USE DEF DeskInv
<1>1. /\ task' = task /\ documents' = documents /\ runs' = runs
      /\ reviews' = reviews /\ completions' = completions
  <2>1. CASE Writing
    BY <2>1 DEF Writing, AskDraft, SaveDraft, GiveUpDraft, UpdateDraft, sources
  <2>2. CASE UNCHANGED vars
    BY <2>2 DEF vars
  <2> QED
    BY <2>1, <2>2
<1>2. draft' \in DraftRow /\ calls' \in [Clients -> Call]
  <2>1. draft \in DraftRow /\ calls \in [Clients -> Call] /\ task.revision \in Nat
    BY DEF TypeOK, TaskRow
  <2>2. NoCall \in Call
    BY DEF NoCall, Call
  <2>3. ASSUME NEW c \in Clients, AskDraft(c)
        PROVE  draft' \in DraftRow /\ calls' \in [Clients -> Call]
    <3>1. task.current \in Saved /\ draft' = draft
      BY <2>3 DEF AskDraft, Drafting, IsCurrent
    <3>2. Facts(task.current) \in SUBSET Item
      BY <3>1, FactsType
    <3>3. [asking |-> TRUE, run |-> task.current, revision |-> task.revision,
           facts |-> Facts(task.current)] \in Call
      BY <2>1, <3>1, <3>2 DEF Call, Saved
    <3> QED
      BY <2>1, <2>3, <3>1, <3>3 DEF AskDraft
  <2>4. ASSUME NEW c \in Clients, SaveDraft(c)
        PROVE  draft' \in DraftRow /\ calls' \in [Clients -> Call]
    <3> DEFINE asked == calls[c]
    <3>1. asked.run \in Saved /\ asked.revision \in Nat
      BY <2>1, <2>4 DEF SaveDraft, Drafting, IsCurrent, Call
    <3>2. Facts(asked.run) \in SUBSET Item
      BY <3>1, FactsType
    <3>3. [id |-> draft.id + 1, run |-> asked.run, revision |-> asked.revision,
           facts |-> Facts(asked.run), edited |-> FALSE] \in DraftRow
      BY <2>1, <3>1, <3>2 DEF DraftRow, Saved
    <3> QED
      BY <2>1, <2>2, <2>4, <3>3 DEF SaveDraft
  <2>5. ASSUME NEW c \in Clients, GiveUpDraft(c)
        PROVE  draft' \in DraftRow /\ calls' \in [Clients -> Call]
    BY <2>1, <2>2, <2>5 DEF GiveUpDraft
  <2>6. ASSUME UpdateDraft
        PROVE  draft' \in DraftRow /\ calls' \in [Clients -> Call]
    <3>1. draft.run \in Saved /\ calls' = calls
      BY <2>6 DEF UpdateDraft, Drafting, IsCurrent
    <3>2. Facts(draft.run) \in SUBSET Item
      BY <3>1, FactsType
    <3> QED
      BY <2>1, <2>6, <3>1, <3>2 DEF UpdateDraft, DraftRow
  <2>7. CASE UNCHANGED vars
    BY <2>1, <2>7 DEF vars
  <2> QED
    BY <2>3, <2>4, <2>5, <2>6, <2>7 DEF Writing
<1>3. TypeOK'
  BY <1>1, <1>2 DEF TypeOK
<1>4. Saved' = Saved /\ ResultsKept' /\ BasesKept'
  BY <1>1, RowsStay
<1>5. SourcesKept' /\ CurrentKept' /\ EventsKept' /\ ReviewsOnComparedPair'
  BY <1>1, <1>4 DEF SourcesKept, CurrentKept, EventsKept, ReviewsOnComparedPair, Opens
<1>6. DoneKept'
  BY <1>1, <1>4, EligibleStays DEF DoneKept
<1> QED
  BY <1>3, <1>4, <1>5, <1>6

THEOREM DeskInvariance == Spec => []DeskInv
<1>1. Init => DeskInv
  BY DeskInit
<1>2. DeskInv /\ [Next]_vars => DeskInv'
  <2> SUFFICES ASSUME DeskInv, [Next]_vars PROVE DeskInv'
    OBVIOUS
  <2>1. CASE Next
    <3>1. TypeOK /\ BasesKept /\ SourcesKept
      BY DEF DeskInv
    <3> QED
      BY <2>1, <3>1, StepKinds, SaveStep, ReviseStep, ReviewStep, WriteStep
  <2>2. CASE UNCHANGED vars
    BY <2>2, WriteStep
  <2> QED
    BY <2>1, <2>2
<1> QED
  BY <1>1, <1>2, PTL DEF Spec
-----------------------------------------------------------------------------
\* Every table keeps its type: in particular the overlay of any reviews on any
\* comparison is again a result, and the facts of every draft are issues.
THEOREM DeskTypeCorrect == Spec => []TypeOK
<1>1. DeskInv => TypeOK
  BY DEF DeskInv
<1> QED
  BY <1>1, DeskInvariance, PTL

\* However selections, replacements, analyses and reviews of several clients
\* interleave, no review event misses the two documents its run compared.
THEOREM ReviewsCorrect == Spec => []ReviewsOnComparedPair
<1>1. DeskInv => ReviewsOnComparedPair
  BY DEF DeskInv
<1> QED
  BY <1>1, DeskInvariance, PTL

\* apply_review_overlay: coverage, defects and findings tell one story under
\* any sequence of reviews, whichever of its two branches is taken.
THEOREM FindingsCorrect == Spec => []FindingsAreConfirmed
<1>1. DeskInv => FindingsAreConfirmed
  BY ReviewedType, CheckedAreSettled DEF DeskInv, FindingsAreConfirmed
<1> QED
  BY <1>1, DeskInvariance, PTL

\* review_progress counts what the overlay leaves to confirm.
THEOREM PendingCorrect == Spec => []PendingIsShown
<1>1. ASSUME DeskInv, NEW r \in Saved
      PROVE  Progress(runs[r].result, reviews[r]).pending =
               {<<p[1].key, p[2]>> : p \in
                  {q \in ReviewedResult(r).fields \X Role : Mandatory(q[1][q[2]])}}
  <2> DEFINE result == runs[r].result
             actions == reviews[r]
             open(field, role) ==
               /\ Mandatory(field[role])
               /\ Latest(actions, SourceOf(result.docs, role), field.key).kind
                    \in {"SUPPLY_INFORMATION", "none"}
             pending == {<<p[1].key, p[2]>> : p \in
                           {q \in result.fields \X Role : open(q[1], q[2])}}
             shown == {<<p[1].key, p[2]>> : p \in
                         {q \in ReviewedResult(r).fields \X Role : Mandatory(q[1][q[2]])}}
  <2>1. Progress(result, actions).pending = pending
    BY DEF Progress
  <2>2. result \in Result /\ Consistent(result) /\ actions \in Seq(Action)
    BY <1>1 DEF DeskInv, TypeOK, Saved, RunRow, ReviewEvents, ResultsKept
  <2>3. ReviewedResult(r).fields = {Overlaid(result, actions, field) : field \in result.fields}
    BY <2>2, OverlayFields DEF ReviewedResult
  <2>4. ASSUME NEW field \in result.fields, NEW role \in Role
        PROVE  /\ Overlaid(result, actions, field).key = field.key
               /\ Mandatory(Overlaid(result, actions, field)[role]) <=> open(field, role)
    <3>1. field \in Compared
      BY <2>2 DEF Result
    <3>2. /\ Overlaid(result, actions, field).key = field.key
          /\ Overlaid(result, actions, field)[role]
               = ReviewedSide(result.docs, actions, field, role)
      BY <2>2, OverlaidField
    <3> QED
      BY <2>2, <3>1, <3>2, StillMandatory
  <2> DEFINE after == ReviewedResult(r).fields
  <2> HIDE DEF result, actions, open
  <2>5. ASSUME NEW x \in pending PROVE x \in shown
    <3>1. PICK p \in result.fields \X Role : open(p[1], p[2]) /\ x = <<p[1].key, p[2]>>
      OBVIOUS
    <3>2. PICK field \in result.fields, role \in Role :
            open(field, role) /\ x = <<field.key, role>>
      BY <3>1
    <3>3. PICK reviewed \in after :
            reviewed.key = field.key /\ Mandatory(reviewed[role])
      BY <2>3, <2>4, <3>2
    <3> DEFINE q == <<reviewed, role>>
    <3>4. q \in after \X Role /\ q[1] = reviewed /\ q[2] = role
      BY <3>3
    <3>5. Mandatory(q[1][q[2]]) /\ x = <<q[1].key, q[2]>>
      BY <3>2, <3>3, <3>4
    <3> HIDE DEF q, after
    <3>6. q \in {t \in after \X Role : Mandatory(t[1][t[2]])}
      BY <3>4, <3>5
    <3> QED
      BY <3>5, <3>6 DEF after
  <2>6. ASSUME NEW x \in shown PROVE x \in pending
    <3>1. PICK p \in after \X Role : Mandatory(p[1][p[2]]) /\ x = <<p[1].key, p[2]>>
      OBVIOUS
    <3>2. PICK reviewed \in after, role \in Role :
            Mandatory(reviewed[role]) /\ x = <<reviewed.key, role>>
      BY <3>1
    <3>3. PICK field \in result.fields : reviewed.key = field.key /\ open(field, role)
      BY <2>3, <2>4, <3>2
    <3> DEFINE q == <<field, role>>
    <3>4. q \in result.fields \X Role /\ q[1] = field /\ q[2] = role
      BY <3>3
    <3>5. open(q[1], q[2]) /\ x = <<q[1].key, q[2]>>
      BY <3>2, <3>3, <3>4
    <3> HIDE DEF q
    <3>6. q \in {t \in result.fields \X Role : open(t[1], t[2])}
      BY <3>4, <3>5
    <3> QED
      BY <3>5, <3>6
  <2> HIDE DEF pending, shown
  <2>7. pending = shown
    BY <2>5, <2>6
  <2> QED
    BY <2>1, <2>7 DEF shown, result, actions
<1>2. DeskInv => PendingIsShown
  BY <1>1 DEF PendingIsShown
<1> QED
  BY <1>2, DeskInvariance, PTL

\* completion_eligibility and record_completion: an acknowledged check had both
\* sources, and still has every field confirmed and equal, for all that follows.
THEOREM CompletionCorrect == Spec => []CompletedChecksHold
<1>1. ASSUME DeskInv, NEW r \in completions
      PROVE  /\ \A role \in Role : runs[r].pair[role] \in Listed(runs[r].docs)
             /\ Keys(ReviewedResult(r).fields) = Fields
             /\ \A field \in ReviewedResult(r).fields :
                  /\ \A role \in Role : Settled(field[role]) /\ ~field[role].supplied
                  /\ field.si.norm = field.bl.norm
             /\ ReviewedResult(r).reqs = {}
             /\ ShownState(r) = "CHECK_COMPLETE"
  <2> DEFINE result == runs[r].result
             actions == reviews[r]
  <2>1. r \in Saved /\ IsEligible(r)
    BY <1>1 DEF DeskInv, DoneKept
  <2>2. Eligible(ReviewedResult(r), actions, runs[r].docs, runs[r].pair)
    BY <2>1 DEF IsEligible
  <2>3. ReviewedResult(r) \in Result /\ Consistent(ReviewedResult(r))
    BY <1>1, <2>1, ReviewedType DEF DeskInv
  <2>4. /\ Keys(ReviewedResult(r).fields) = Fields
        /\ \A role \in Role : runs[r].pair[role] \in Listed(runs[r].docs)
        /\ \A field \in ReviewedResult(r).fields :
             /\ \A role \in Role : Settled(field[role])
             /\ field.si.norm = field.bl.norm
        /\ ReviewedResult(r).reqs = {}
        /\ "SUPPLY_INFORMATION" \notin LatestKinds(actions)
    BY <2>2, <2>3, EligibleMeans DEF Listed
  <2>5. /\ result \in Result /\ Consistent(result) /\ Unsupplied(result)
        /\ actions \in Seq(Action)
    BY <1>1, <2>1 DEF DeskInv, TypeOK, Saved, RunRow, ReviewEvents, ResultsKept
  <2>6. ASSUME NEW field \in result.fields, NEW role \in Role
        PROVE  ~Overlaid(result, actions, field)[role].supplied
    <3>1. field \in Compared
      BY <2>5 DEF Result
    <3>2. Overlaid(result, actions, field)[role]
            = ReviewedSide(result.docs, actions, field, role)
      BY <2>5, OverlaidField
    <3>3. ReviewedSide(result.docs, actions, field, role).supplied = field[role].supplied
      BY <2>4, <2>5, <3>1, ReviewedSideFacts
    <3>4. ~field[role].supplied
      BY <2>5 DEF Unsupplied, Role
    <3> QED
      BY <3>2, <3>3, <3>4
  <2>7. ReviewedResult(r).fields = {Overlaid(result, actions, field) : field \in result.fields}
    BY <2>5, OverlayFields DEF ReviewedResult
  <2>8. \A field \in ReviewedResult(r).fields, role \in Role : ~field[role].supplied
    BY <2>6, <2>7
  <2>9. ShownState(r) = "CHECK_COMPLETE"
    BY <1>1, <2>1 DEF ShownState
  <2> QED
    BY <2>4, <2>8, <2>9
<1>2. DeskInv => CompletedChecksHold
  BY <1>1 DEF CompletedChecksHold
<1> QED
  BY <1>2, DeskInvariance, PTL

\* revision_delta with the baseline _revision_baseline chooses: no discrepancy
\* of the baseline is lost, and none counts as resolved without a match.
THEOREM DeltaCorrect == Spec => []DeltaAccounts
<1>1. ASSUME DeskInv, NEW r \in Saved, runs[r].base # NoRun, Comparable(r)
      PROVE  LET delta == runs[r].delta
                 old == runs[runs[r].base].result
             IN /\ runs[r].base \in Saved /\ runs[runs[r].base].revision < runs[r].revision
                /\ old.defects \subseteq delta.resolved \cup delta.persisting
                                           \cup delta.uncertain
                /\ delta.persisting \cup delta.new = runs[r].result.defects
                /\ delta.resolved \subseteq runs[r].result.checked \ runs[r].result.defects
  <2> DEFINE base == runs[r].base
  <2>1. /\ base \in Saved /\ Comparable(base) /\ runs[base].revision < runs[r].revision
        /\ runs[r].delta = Delta(runs[r].result, runs[base].result)
    BY <1>1 DEF DeskInv, BasesKept, BaseOf, DeltaTo
  <2>2. \A q \in Saved : runs[q].result \in Result /\ Consistent(runs[q].result)
    BY <1>1 DEF DeskInv, TypeOK, Saved, RunRow, ResultsKept
  <2>3. /\ runs[r].result.category = "BL_COMPARISON"
        /\ runs[base].result.category = "BL_COMPARISON"
    BY <1>1, <2>1 DEF Comparable
  <2> HIDE DEF base
  <2>4. LET delta == Delta(runs[r].result, runs[base].result)
        IN /\ runs[base].result.defects \subseteq delta.resolved \cup delta.persisting
                                                    \cup delta.uncertain
           /\ delta.persisting \cup delta.new = runs[r].result.defects
           /\ delta.resolved \subseteq runs[r].result.checked \ runs[r].result.defects
    BY <2>1, <2>2, <2>3, DeltaIsComplete
  <2> QED
    BY <2>1, <2>4 DEF base
<1>2. DeskInv => DeltaAccounts
  BY <1>1 DEF DeltaAccounts
<1> QED
  BY <1>2, DeskInvariance, PTL
-----------------------------------------------------------------------------
\* _amendment_context: whatever happens while the provider answers, a draft is
\* stored for the facts of the current, open analysis only.
THEOREM DraftsCorrect == Spec => DraftsAreAboutOpenFacts
<1> DEFINE OfOpenFacts ==
      /\ draft'.id # draft.id =>
           /\ draft'.run = task.current /\ draft'.revision = task.revision
           /\ draft'.run \notin completions
           /\ draft'.facts = Facts(task.current)
      /\ (draft'.edited /\ draft' # draft) =>
           ShownDraft = draft /\ draft'.id = draft.id /\ draft'.facts = draft.facts
<1>1. ASSUME TypeOK, Next PROVE OfOpenFacts
  <2>1. CASE UNCHANGED draft
    BY <2>1
  <2>2. ASSUME NEW c \in Clients, SaveDraft(c) PROVE OfOpenFacts
    <3> DEFINE asked == calls[c]
    <3>1. /\ asked.revision = task.revision /\ asked.run = task.current
          /\ asked.run \notin completions
          /\ draft' = [id |-> draft.id + 1, run |-> asked.run, revision |-> asked.revision,
                       facts |-> Facts(asked.run), edited |-> FALSE]
      BY <2>2 DEF SaveDraft, Drafting, IsCurrent
    <3> QED
      BY <3>1
  <2>3. ASSUME UpdateDraft PROVE OfOpenFacts
    <3>1. /\ draft.revision = task.revision /\ draft.run = task.current
          /\ draft.run \in Saved \ completions
          /\ Facts(draft.run) = draft.facts
          /\ draft' = [draft EXCEPT !.edited = TRUE, !.facts = Facts(draft.run)]
      BY <2>3 DEF UpdateDraft, Drafting, IsCurrent
    <3>2. ShownDraft = draft
      BY <3>1 DEF ShownDraft
    <3>3. draft'.id = draft.id /\ draft'.facts = draft.facts
      BY <1>1, <3>1 DEF TypeOK, DraftRow
    <3> QED
      BY <3>2, <3>3
  <2>4. UNCHANGED draft \/ UpdateDraft \/ \E c \in Clients : SaveDraft(c)
    BY <1>1 DEF Next, SelectPair, ReplaceDocument, Advance, SaveOther, SaveComparison, Save,
                RecordReview, RecordCompletion, AskDraft, GiveUpDraft
  <2> QED
    BY <2>1, <2>2, <2>3, <2>4
<1>2. TypeOK /\ [Next]_vars => [OfOpenFacts]_vars
  BY <1>1
<1> QED
  BY <1>2, DeskTypeCorrect, PTL DEF Spec, DraftsAreAboutOpenFacts

\* The desk implements CheckLedger: an acknowledgment names the current analysis
\* while nothing is open in it, and no later step opens anything in it again.
THEOREM LedgerCorrect == Spec => LedgerKept
<1> DEFINE open == task.current \in Saved /\ ~IsEligible(task.current)
<1>1. Init => Ledger!Init
  <2> SUFFICES ASSUME Init PROVE Ledger!Init
    OBVIOUS
  <2>1. task.current = NoRun /\ completions = {}
    BY FirstTask DEF Init
  <2>2. NoRun \notin Saved
    BY RunsAssumption DEF Saved
  <2> QED
    BY <2>1, <2>2 DEF Ledger!Init
<1>2. ASSUME DeskInv, DeskInv', [Next]_vars PROVE [Ledger!Next]_(Ledger!vars)
  <2>1. /\ TypeOK /\ BasesKept /\ SourcesKept /\ CurrentKept /\ DoneKept
        /\ NoRun \notin Runs /\ Saved \subseteq Runs
    BY <1>2, RunsAssumption DEF DeskInv, Saved
  <2>2. open \in BOOLEAN /\ open' \in BOOLEAN
    BY DEF IsEligible
  <2>3. ASSUME NEW r, NEW result, NEW base, Saving(r, result, base)
        PROVE  Ledger!Publish
    <3>1. task'.current = r /\ completions' = completions /\ r \in Runs \ Saved
      BY <2>1, <2>3, SavingFacts DEF Saving
    <3>2. r \notin completions /\ r # task.current
      BY <2>1, <3>1 DEF DoneKept, CurrentKept
    <3> QED
      BY <2>2, <3>1, <3>2 DEF Ledger!Publish
  <2>4. ASSUME Revising PROVE Ledger!Withdraw
    <3>1. task'.current = NoRun /\ completions' = completions /\ Saved' = Saved
      BY <2>4 DEF Revising, Saved
    <3>2. ~open'
      BY <2>1, <3>1
    <3> QED
      BY <2>2, <3>1, <3>2 DEF Ledger!Withdraw
  <2>5. ASSUME Reviewing PROVE Ledger!Next
    <3>1. CASE RecordCompletion
      <4>1. /\ task.current \in Saved /\ IsEligible(task.current)
            /\ completions' = completions \cup {task.current}
            /\ task' = task /\ runs' = runs /\ reviews' = reviews
        BY <3>1 DEF RecordCompletion, IsCurrent, sources
      <4>2. Saved' = Saved
        BY <4>1 DEF Saved
      <4>3. IsEligible(task.current)' = IsEligible(task.current)
        BY <4>1 DEF IsEligible, ReviewedResult
      <4> QED
        BY <2>1, <4>1, <4>2, <4>3 DEF Ledger!Next, Ledger!Acknowledge
    <3>2. CASE ~RecordCompletion
      <4>1. task.current \in Saved /\ task.current \notin completions
            /\ task' = task /\ completions' = completions
        BY <2>5, <3>2 DEF Reviewing, RecordReview, IsCurrent, sources
      <4> QED
        BY <2>1, <2>2, <4>1 DEF Ledger!Next, Ledger!Review
    <3> QED
      BY <3>1, <3>2
  <2>6. ASSUME Writing \/ UNCHANGED vars PROVE UNCHANGED Ledger!vars
    <3>1. task' = task /\ runs' = runs /\ reviews' = reviews /\ completions' = completions
      BY <2>6 DEF Writing, AskDraft, SaveDraft, GiveUpDraft, UpdateDraft, sources, vars
    <3>2. Saved' = Saved
      BY <3>1 DEF Saved
    <3>3. IsEligible(task.current)' = IsEligible(task.current)
      BY <3>1 DEF IsEligible, ReviewedResult
    <3> QED
      BY <3>1, <3>2, <3>3 DEF Ledger!vars
  <2> QED
    BY <1>2, <2>1, <2>3, <2>4, <2>5, <2>6, StepKinds DEF Ledger!Next
<1> QED
  BY <1>1, <1>2, DeskInvariance, PTL DEF Spec, LedgerKept, Ledger!Spec

\* apply_review_overlay: whatever was confirmed or corrected before it, a supplied
\* value never makes a field count as checked and lifts no requirement.
THEOREM SupplyCorrect == Spec => SuppliedInformationResolvesNothing
<1> DEFINE Supplied(r) ==
      /\ Len(reviews'[r]) = Len(reviews[r]) + 1
      /\ reviews'[r][Len(reviews'[r])].kind = "SUPPLY_INFORMATION"
    Nothing(r) ==
      /\ ReviewedResult(r)'.checked \subseteq ReviewedResult(r).checked
      /\ ReviewedResult(r).reqs \subseteq ReviewedResult(r)'.reqs
<1>1. ASSUME DeskInv, Next, NEW r \in Saved, Supplied(r)
      PROVE  Nothing(r)
  <2>1. TypeOK /\ ResultsKept /\ reviews[r] \in Seq(Action)
    BY <1>1 DEF DeskInv, TypeOK, ReviewEvents, Saved
  <2>2. reviews' # reviews
    <3>1. Len(reviews[r]) \in Nat
      BY <2>1
    <3> QED
      BY <1>1, <3>1
  <2>3. PICK d \in Docs, f \in Fields,
             kind \in {"CONFIRM_CANDIDATE", "CORRECT_EXTRACTION", "SUPPLY_INFORMATION"},
             value \in Values \cup {NoValue} : RecordReview(d, f, kind, value)
    BY <1>1, <2>2 DEF Next, SelectPair, ReplaceDocument, Advance, SaveOther, SaveComparison,
                      Save, RecordCompletion, AskDraft, SaveDraft, GiveUpDraft, UpdateDraft
  <2> DEFINE act == [doc |-> d, field |-> f, kind |-> kind, value |-> value]
             current == task.current
  <2>4. /\ current \in Saved /\ runs' = runs
        /\ reviews' = [reviews EXCEPT ![current] = Append(@, act)]
        /\ runs[current].result.fields # {}
        /\ Listed(runs[current].result.docs) # {}
    BY <2>3 DEF RecordReview, IsCurrent, sources
  <2>5. act \in Action /\ act.kind = kind
    BY DEF Action
  <2> HIDE DEF act
  <2>6. r = current
    <3> SUFFICES ASSUME r # current PROVE FALSE
      OBVIOUS
    <3>1. reviews'[r] = reviews[r]
      BY <2>1, <2>4 DEF TypeOK, ReviewEvents, Saved
    <3>2. Len(reviews[r]) \in Nat
      BY <2>1
    <3> QED
      BY <1>1, <3>1, <3>2
  <2>7. reviews'[r] = Append(reviews[r], act)
    BY <2>1, <2>4, <2>6 DEF TypeOK, ReviewEvents, Saved
  <2>8. act.kind = "SUPPLY_INFORMATION"
    BY <1>1, <2>1, <2>5, <2>7
  <2>9. /\ runs[r].result \in Result
        /\ Consistent(runs[r].result) /\ UnresolvedAsked(runs[r].result)
    BY <2>1 DEF TypeOK, ResultsKept, Saved, RunRow
  <2>10. runs[r].result.docs # <<>>
    BY <2>4, <2>6 DEF Listed
  <2>11. /\ ReviewedResult(r) = Overlay(runs[r].result, reviews[r])
         /\ ReviewedResult(r)' = Overlay(runs[r].result, Append(reviews[r], act))
    BY <2>4, <2>7 DEF ReviewedResult
  <2> QED
    BY <2>1, <2>5, <2>8, <2>9, <2>10, <2>11, SupplyResolvesNothing
<1>2. DeskInv /\ [Next]_vars => [\A r \in Saved : Supplied(r) => Nothing(r)]_vars
  BY <1>1
<1> QED
  BY <1>2, DeskInvariance, PTL DEF Spec, SuppliedInformationResolvesNothing
=============================================================================
