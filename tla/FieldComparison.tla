-------------------------- MODULE FieldComparison --------------------------
(***************************************************************************)
(* The decisions DraftGuard takes about the seven compared fields: the     *)
(* machine's comparison of one SI with one draft BL, what changed since    *)
(* the baseline, the overlay of the reviewers' actions, the blockers of a  *)
(* completion and the issue list of an amendment email.                    *)
(*                                                                         *)
(*   compare, revision_delta, empty_value       app/documents/analysis.py  *)
(*   apply_review_overlay, completion_eligibility  app/documents/reviews.py*)
(*   build_issue_items                          app/documents/amendment.py *)
(*                                                                         *)
(* All of it is pure.  Where the code has a list whose order and whose     *)
(* duplicates decide nothing, here is a set; the documents of a result     *)
(* stay a sequence, for the overlay takes the first one of a role.         *)
(***************************************************************************)
EXTENDS Naturals, Sequences

CONSTANTS
  Fields,        \* FIELD_KEYS
  Docs,          \* document ids
  Values,        \* normalized values
  IssueCodes,    \* the codes an extraction gives its issues
  NoValue, NoDoc, NoField   \* None

ASSUME NullsAssumption ==
  NoValue \notin Values /\ NoDoc \notin Docs /\ NoField \notin Fields

Role == {"si", "bl"}
DocOrNone == Docs \cup {NoDoc}
ValueState == {"PRESENT", "MISSING", "UNREADABLE", "AMBIGUOUS"}
Method == {"rule", "gemini_text", "gemini_vision", "human"}

\* What one source says of one field.  norm is normalized_value, needs is
\* requires_human_confirmation, supplied whether supplied_information is set.
Extraction == [state : ValueState, norm : Values \cup {NoValue},
               needs : BOOLEAN, method : Method, supplied : BOOLEAN]

\* An issue of the extraction of one document, with the field it names.
Issue == [code : IssueCodes, field : Fields \cup {NoField}]

\* adapt_document: what an analysis read off one document.
Reading == [role : Role \cup {"other", "none"},
            values : [Fields -> Extraction], issues : SUBSET Issue]

\* A review requirement of a result; doc is NoDoc when it names no document.
Code == IssueCodes \cup {"classification_review", "missing_attachment",
                         "ambiguous_document_pair", "unresolved_fields"}
Requirement == [code : Code, doc : DocOrNone, field : Fields \cup {NoField}]

Finding == {"MATCH", "MISMATCH", "NEEDS_REVIEW", "NOT_CHECKED"}
Workflow == {"NOT_APPLICABLE", "WAITING_DOCUMENT", "REVIEW_REQUIRED",
             "DISCREPANCIES_FOUND", "READY"}
Compared == [key : Fields, si : Extraction, bl : Extraction, finding : Finding]

\* fields is empty in a result that compares nothing; checked is the set of
\* the fields counted in coverage.
Result == [category : {"BL_COMPARISON", "OTHER"},
           docs : Seq([id : Docs, role : Role \cup {"other", "none"}]),
           fields : SUBSET Compared,
           reqs : SUBSET Requirement, checked : SUBSET Fields,
           defects : SUBSET Fields, workflow : Workflow]
-----------------------------------------------------------------------------
\* Both the comparison and the overlay count a side only when it is PRESENT
\* and nobody has yet to confirm it.
Settled(x) == x.state = "PRESENT" /\ ~x.needs

EmptyValue == [state |-> "UNREADABLE", norm |-> NoValue, needs |-> TRUE,
               method |-> "rule", supplied |-> FALSE]

Differ(si, bl) == IF si.norm = bl.norm THEN "MATCH" ELSE "MISMATCH"

(***************************************************************************)
(* compare.  docs is the sequence of ids of the email, reading what was    *)
(* read off each; pair maps the roles that have a chosen document, or no   *)
(* longer have one, to it, and is NoPair when the email is a sample.       *)
(***************************************************************************)
NoPair == [none |-> TRUE]
IsPair(pair) == pair # NoPair

Options(docs, reading, role, pair) ==
  {d \in {docs[i] : i \in DOMAIN docs} :
     /\ reading[d].role = role
     /\ (~IsPair(pair) \/ role \notin DOMAIN pair \/ d = pair[role])}

TheOnly(options) ==
  IF \E d \in Docs : options = {d} THEN CHOOSE d \in Docs : options = {d} ELSE NoDoc

Selected(docs, reading, role, pair) == TheOnly(Options(docs, reading, role, pair))

MissingAttachment(docs, pair) ==
  \/ Len(docs) < 2
  \/ IsPair(pair) /\ \E role \in DOMAIN pair : pair[role] = NoDoc

SideRead(docs, reading, role, pair, f) ==
  LET d == Selected(docs, reading, role, pair)
  IN IF d = NoDoc THEN EmptyValue ELSE reading[d].values[f]

CompareField(docs, reading, pair, f) ==
  LET si == SideRead(docs, reading, "si", pair, f)
      bl == SideRead(docs, reading, "bl", pair, f)
  IN [key |-> f, si |-> si, bl |-> bl,
      finding |-> IF Settled(si) /\ Settled(bl) THEN Differ(si, bl)
                  ELSE IF docs # <<>> THEN "NEEDS_REVIEW" ELSE "NOT_CHECKED"]

When(condition, set) == IF condition THEN set ELSE {}

Demand(code, d, f) == [code |-> code, doc |-> d, field |-> f]

\* The issues of the documents; once the pair is complete, those of documents
\* outside of it block nothing.
DocumentRequirements(docs, reading, pair) ==
  LET chosen == {Selected(docs, reading, role, pair) : role \in Role}
      asked == IF IsPair(pair) /\ NoDoc \notin chosen THEN chosen
               ELSE {docs[i] : i \in DOMAIN docs}
  IN UNION {{Demand(issue.code, d, issue.field) : issue \in reading[d].issues} :
              d \in asked}

CompareRequirements(docs, reading, pair, fields) ==
  LET several(role) == \E d, e \in Options(docs, reading, role, pair) : d # e
  IN DocumentRequirements(docs, reading, pair)
       \cup When(\E role \in Role : several(role),
                 {Demand("ambiguous_document_pair", NoDoc, NoField)})
       \cup When(MissingAttachment(docs, pair),
                 {Demand("missing_attachment", NoDoc, NoField)})
       \cup When(\E field \in fields : field.finding = "NEEDS_REVIEW",
                 {Demand("unresolved_fields", NoDoc, NoField)})

Keys(fields) == {field.key : field \in fields}
WithFinding(fields, finding) == Keys({field \in fields : field.finding = finding})

NotCompared(unclear) ==
  [category |-> "OTHER", docs |-> <<>>, fields |-> {},
   reqs |-> When(unclear, {Demand("classification_review", NoDoc, NoField)}),
   checked |-> {}, defects |-> {},
   workflow |-> IF unclear THEN "REVIEW_REQUIRED" ELSE "NOT_APPLICABLE"]

Compare(docs, reading, pair) ==
  LET fields == {CompareField(docs, reading, pair, f) : f \in Fields}
      reqs == CompareRequirements(docs, reading, pair, fields)
      defects == WithFinding(fields, "MISMATCH")
  IN [category |-> "BL_COMPARISON",
      docs |-> [i \in DOMAIN docs |-> [id |-> docs[i], role |-> reading[docs[i]].role]],
      fields |-> fields,
      reqs |-> reqs,
      checked |-> WithFinding(fields, "MATCH") \cup defects,
      defects |-> defects,
      workflow |-> IF MissingAttachment(docs, pair) THEN "WAITING_DOCUMENT"
                   ELSE IF reqs # {} THEN "REVIEW_REQUIRED"
                   ELSE IF defects # {} THEN "DISCREPANCIES_FOUND" ELSE "READY"]

(***************************************************************************)
(* revision_delta: the findings of a task's new revision against those of  *)
(* its baseline, the machine's on both sides.                              *)
(***************************************************************************)
Uncertain == {"NEEDS_REVIEW", "NOT_CHECKED"}

SlipDelta(result, baseline) ==
  LET keys(now, before) ==
        Keys({field \in result.fields :
                field.finding \in now /\ \E old \in baseline.fields :
                  old.key = field.key /\ old.finding \in before})
  IN [resolved |-> keys(Finding \ {"MISMATCH"}, {"MISMATCH"}),
      persisting |-> keys({"MISMATCH"}, {"MISMATCH"}),
      new |-> keys({"MISMATCH"}, Finding \ {"MISMATCH"}),
      uncertain |-> keys(Uncertain, Finding \ Uncertain)]

Delta(result, baseline) ==
  LET keys(now, before) ==
        Keys({field \in result.fields :
                field.finding \in now /\ \E old \in baseline.fields :
                  old.key = field.key /\ old.finding \in before})
  IN [resolved |-> keys({"MATCH"}, {"MISMATCH"}),
      persisting |-> keys({"MISMATCH"}, {"MISMATCH"}),
      new |-> keys({"MISMATCH"}, Finding \ {"MISMATCH"}),
      uncertain |-> keys(Uncertain, Finding \ Uncertain)]
-----------------------------------------------------------------------------
\* A saved review event.  value is the normalized value it carries.
Action == [doc : Docs, field : Fields,
           kind : {"CONFIRM_CANDIDATE", "CORRECT_EXTRACTION", "SUPPLY_INFORMATION"},
           value : Values \cup {NoValue}]

\* The latest of the actions on field f of document d counts, the others are
\* history.
NoAction == [doc |-> NoDoc, field |-> NoField, kind |-> "none", value |-> NoValue]
Upon(actions, d, f) == {i \in DOMAIN actions : actions[i].doc = d /\ actions[i].field = f}

Latest(actions, d, f) ==
  LET places == Upon(actions, d, f)
  IN IF places = {} THEN NoAction ELSE actions[CHOOSE i \in places : \A j \in places : j <= i]

\* latest.values()
LatestKinds(actions) ==
  {Latest(actions, actions[i].doc, actions[i].field).kind : i \in DOMAIN actions}

\* The document an action on a role is looked up under: the first one of that
\* role among the documents of the result.
SourceOf(docs, role) ==
  LET places == {i \in DOMAIN docs : docs[i].role = role}
  IN IF places = {} THEN NoDoc ELSE docs[CHOOSE i \in places : \A j \in places : i <= j].id

Mandatory(x) == x.needs /\ x.method \in {"gemini_vision", "gemini_text"}

SlipReviewedSide(docs, actions, field, role) ==
  LET x == field[role]
      act == Latest(actions, SourceOf(docs, role), field.key)
  IN CASE act.kind = "CORRECT_EXTRACTION" ->
            [x EXCEPT !.state = "PRESENT", !.norm = act.value,
                      !.needs = FALSE, !.method = "human"]
       [] act.kind = "SUPPLY_INFORMATION" -> [x EXCEPT !.supplied = TRUE, !.state = "PRESENT"]
       [] act.kind = "CONFIRM_CANDIDATE" /\ Mandatory(x) -> [x EXCEPT !.needs = FALSE]
       [] OTHER -> x

ReviewedSide(docs, actions, field, role) ==
  LET x == field[role]
      act == Latest(actions, SourceOf(docs, role), field.key)
  IN CASE act.kind = "CORRECT_EXTRACTION" ->
            [x EXCEPT !.state = "PRESENT", !.norm = act.value,
                      !.needs = FALSE, !.method = "human"]
       [] act.kind = "SUPPLY_INFORMATION" -> [x EXCEPT !.supplied = TRUE]
       [] act.kind = "CONFIRM_CANDIDATE" /\ Mandatory(x) -> [x EXCEPT !.needs = FALSE]
       [] OTHER -> x

\* One record for each field of the result, compared again.
ReviewedFields(result, actions) ==
  UNION {{[key |-> field.key, si |-> si, bl |-> bl,
           finding |-> IF Settled(si) /\ Settled(bl) THEN Differ(si, bl) ELSE "NEEDS_REVIEW"] :
            si \in {ReviewedSide(result.docs, actions, field, "si")},
            bl \in {ReviewedSide(result.docs, actions, field, "bl")}} :
         field \in result.fields}

SlipMachineStands(result, actions) ==
  \A field \in result.fields, role \in Role : ~Mandatory(field[role])

\* Nothing to confirm and no value changed: the machine's findings stand.
MachineStands(result, actions) ==
  /\ \A field \in result.fields, role \in Role : ~Mandatory(field[role])
  /\ LatestKinds(actions) \subseteq {"SUPPLY_INFORMATION"}

\* Which requirements of the machine a review leaves standing.
Stands(req, result, actions, fields) ==
  /\ Latest(actions, req.doc, req.field).kind # "CORRECT_EXTRACTION"
  /\ req.code # "unresolved_fields"
  /\ req.code \in {"AI_CONFIRMATION_REQUIRED", "AI_CANDIDATE_MISSING"} =>
       \E field \in fields, role \in Role :
         /\ field.key = req.field /\ field[role].needs
         /\ [id |-> req.doc, role |-> role] \in {result.docs[i] : i \in DOMAIN result.docs}

\* apply_review_overlay
Overlay(result, actions) ==
  LET fields == ReviewedFields(result, actions)
      defects == WithFinding(fields, "MISMATCH")
      checked == WithFinding(fields, "MATCH") \cup defects
      reqs == {req \in result.reqs : Stands(req, result, actions, fields)}
                \cup When(checked # Fields, {Demand("unresolved_fields", NoDoc, NoField)})
      machine(field) == CHOOSE m \in result.fields : m.key = field.key
  IN IF MachineStands(result, actions)
     THEN [result EXCEPT !.fields =
             {[field EXCEPT !.finding = machine(field).finding] : field \in fields}]
     ELSE [result EXCEPT !.fields = fields, !.defects = defects, !.checked = checked,
             !.reqs = reqs,
             !.workflow = IF reqs # {} THEN "REVIEW_REQUIRED"
                          ELSE IF defects # {} THEN "DISCREPANCIES_FOUND" ELSE "READY"]

SlipProgress(result, actions) ==
  LET candidates(kinds) ==
        {<<p[1].key, p[2]>> : p \in
           {q \in result.fields \X Role :
              /\ Mandatory(q[1][q[2]])
              /\ Latest(actions, SourceOf(result.docs, q[2]), q[1].key).kind \in kinds}}
  IN [confirmed |-> candidates({"CONFIRM_CANDIDATE"}),
      corrected |-> candidates({"CORRECT_EXTRACTION"}),
      pending |-> candidates({"none"})]

\* review_progress: the candidates the machine left to a human, as sets of
\* <<field, role>>.
Progress(result, actions) ==
  LET candidates(kinds) ==
        {<<p[1].key, p[2]>> : p \in
           {q \in result.fields \X Role :
              /\ Mandatory(q[1][q[2]])
              /\ Latest(actions, SourceOf(result.docs, q[2]), q[1].key).kind \in kinds}}
  IN [confirmed |-> candidates({"CONFIRM_CANDIDATE"}),
      corrected |-> candidates({"CORRECT_EXTRACTION"}),
      pending |-> candidates({"SUPPLY_INFORMATION", "none"})]

(***************************************************************************)
(* completion_eligibility: the blockers of acknowledging a run whose       *)
(* reviewed result is reviewed and whose sources are docs, pair.           *)
(***************************************************************************)
Blockers(reviewed, actions, docs, pair) ==
  When(reviewed.category # "BL_COMPARISON", {"not_comparison"})
    \cup When(~({pair["si"], pair["bl"]} \subseteq {docs[i] : i \in DOMAIN docs}),
              {"missing_documents"})
    \cup When(reviewed.checked # Fields, {"incomplete_coverage"})
    \cup When(WithFinding(reviewed.fields, "MATCH") # Keys(reviewed.fields),
              {"unresolved_findings"})
    \cup When(reviewed.defects # {}, {"discrepancies"})
    \cup When(reviewed.reqs # {}, {"pending_review"})
    \cup When(\E field \in reviewed.fields, role \in Role : field[role].needs,
              {"pending_candidates"})
    \cup When("SUPPLY_INFORMATION" \in LatestKinds(actions),
              {"supplied_information_unverified"})

Eligible(reviewed, actions, docs, pair) == Blockers(reviewed, actions, docs, pair) = {}
-----------------------------------------------------------------------------
\* An issue of an amendment email.  at is the source it is about, code is
\* set for an issue that comes from a review requirement.
Item == [kind : {"mismatch", "supplied_information", "pending_review", "missing_value",
                 "unreadable", "ambiguous", "document_requirement"},
         field : Fields \cup {NoField}, at : Role \cup DocOrNone, code : Code \cup {""},
         si : Values \cup {NoValue}, bl : Values \cup {NoValue}]

\* What is asked about one side of a field that is not a plain mismatch.
SideKind(x) ==
  IF x.supplied THEN "supplied_information"
  ELSE IF x.needs THEN "pending_review"
  ELSE IF x.state = "MISSING" THEN "missing_value"
  ELSE IF x.state = "UNREADABLE" THEN "unreadable" ELSE "ambiguous"

Asserted(x) == ~x.supplied /\ Settled(x)

\* With an unusable side the email shows what the other side has, and with
\* supplied information both.  (The raw text of a value without a normalized
\* one is left out: it is fixed by the reading.)
SideItem(field, role) ==
  LET kind == SideKind(field[role])
      shown(side) == IF \/ kind = "supplied_information"
                        \/ kind # "pending_review" /\ side # role
                     THEN field[side].norm ELSE NoValue
  IN [kind |-> kind, field |-> field.key, at |-> role, code |-> "",
      si |-> shown("si"), bl |-> shown("bl")]

FieldItems(field) ==
  IF field.finding = "MISMATCH" /\ Asserted(field.si) /\ Asserted(field.bl)
  THEN {[kind |-> "mismatch", field |-> field.key, at |-> "bl", code |-> "",
         si |-> field.si.norm, bl |-> field.bl.norm]}
  ELSE {SideItem(field, role) : role \in {r \in Role : ~Asserted(field[r])}}

\* build_issue_items.  Of the requirements of one document with one code the
\* first becomes an issue.
IssueItems(reviewed) ==
  LET items == UNION {FieldItems(field) : field \in reviewed.fields}
      open == {req \in reviewed.reqs :
                 /\ req.code # "unresolved_fields"
                 /\ req.field \notin {item.field : item \in items}}
      first(req) == CHOOSE q \in open : q.code = req.code /\ q.doc = req.doc
  IN items \cup {[kind |-> "document_requirement", field |-> req.field, at |-> req.doc,
                  code |-> req.code, si |-> NoValue, bl |-> NoValue] :
                    req \in {first(q) : q \in open}}
=============================================================================
