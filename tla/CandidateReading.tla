-------------------------- MODULE CandidateReading --------------------------
(***************************************************************************)
(* What Gemini may add to the reading of one document, and how the reading *)
(* enters the comparison of an email.                                      *)
(*                                                                         *)
(*   fallback_fields, apply_text_candidates     app/ai/semantic.py         *)
(*   apply_visual_candidates                    app/ai/vision.py           *)
(*   GeminiProvider                             app/ai/common.py           *)
(*   adapt_document                             app/documents/analysis.py  *)
(*                                                                         *)
(* An answer of Gemini is data: any set of candidates.  The text of a      *)
(* quote is the lines it is made of; it is reflowed when its blanks or     *)
(* line breaks are not those of the source.                                *)
(*                                                                         *)
(* Operators named Slip... are not part of the model, see MailboxRuns.     *)
(***************************************************************************)
EXTENDS ExtractionRules

\* A candidate without a value has an empty raw; unit 0 stands for no unit.
TextCandidate == [field : Fields, unit : Nat, raw : Seq(Text), quote : Seq(Text),
                  reflowed : BOOLEAN]

\* Vision answers for every field; page 0 stands for no page.
VisionAnswer == [role : Role \cup {"none"},
                 fields : [Fields -> [raw : Seq(Text), page : Nat]]]
-----------------------------------------------------------------------------
\* provider_error and the test at the head of _generate: what a request that does
\* not return an answer is reported as.
Failures == {"unconfigured", "quota", "denied", "timeout", "invalid", "other"}

ProviderError(failure) ==
  CASE failure = "unconfigured" -> "AI_NOT_CONFIGURED"
    [] failure = "quota" -> "AI_RATE_LIMITED"
    [] failure = "denied" -> "AI_ACCESS_DENIED"
    [] failure = "timeout" -> "AI_TIMEOUT"
    [] failure = "invalid" -> "AI_INVALID_RESPONSE"
    [] failure = "other" -> "AI_PROVIDER_ERROR"

\* What reading with Gemini adds to the issues of a document.
ReaderIssues ==
  {"AI_INPUT_TOO_LARGE", "AI_QUOTE_UNVERIFIED", "AI_TEXT_REVIEW_REQUIRED",
   "AI_CANDIDATE_MISSING", "AI_CONFIRMATION_REQUIRED"}

TextFallbackCodes ==
  {"FIELD_NOT_FOUND", "PARTY_BOUNDARY_UNCLEAR", "AMBIGUOUS_TEXT_VALUE",
   "AMBIGUOUS_CONTAINER_COUNT", "TOTAL_WEIGHT_REQUIRED", "AMBIGUOUS_WEIGHT",
   "CONFLICTING_VALUES"}
RoleCodes == {"WRONG_DOCUMENT_TYPE", "AMBIGUOUS_DOCUMENT_ROLE", "UNKNOWN_DOCUMENT_ROLE"}

\* fallback_fields
FallbackFields(result) ==
  IF \E issue \in result.issues : issue.code \in RoleCodes THEN {}
  ELSE {issue.field : issue \in {i \in result.issues : i.code \in TextFallbackCodes}}
         \ {NoField}

\* add_input_too_large
InputTooLarge(result) ==
  [result EXCEPT !.issues = @ \cup {IssueOn("AI_INPUT_TOO_LARGE", NoField)}]

\* TextCandidate, TextResponse and the test at the end of extract_text.
ValidText(answer, requested) ==
  /\ {item.field : item \in answer} = requested
  /\ \A item, other \in answer : item.field = other.field => item = other
  /\ \A item \in answer :
       IF item.raw = <<>> THEN item.unit = 0 /\ item.quote = <<>>
       ELSE item.unit # 0 /\ item.quote # <<>>

Pieces(text) == {text[i] : i \in DOMAIN text}
TextOf(unit) == UNION {Pieces(line.own) \cup Pieces(line.rest) : line \in LinesOf({unit})}

SlipVerified(item, units) == item.unit \in DOMAIN units /\ Pieces(item.raw) \subseteq Pieces(item.quote)

\* quote_matches: the quote stands in the unit and the value in the quote, whatever
\* the blanks.
Verified(item, units) ==
  /\ item.unit \in DOMAIN units
  /\ Pieces(item.quote) \subseteq TextOf(units[item.unit])
  /\ Pieces(item.raw) \subseteq Pieces(item.quote)

TextRow(item) ==
  LET n == NormalReview(item.field, item.raw)
  IN Row(n, "gemini_text", n.state # "PRESENT",
         {Cite(item.unit, ~item.reflowed, TRUE)})   \* the excerpt is the quote as given

SlipApplyText(result, answer, units) ==
  LET given == {item \in answer : item.raw # <<>>}
      found == {item \in given : Verified(item, units)}
      fields == {item.field : item \in given}
      itemOf(key) == CHOOSE item \in found : item.field = key
      unsure == {item \in found : TextRow(item).needs}
  IN [result EXCEPT
        !.rows = [key \in Fields |-> IF \E item \in found : item.field = key
                                     THEN TextRow(itemOf(key)) ELSE result.rows[key]],
        !.issues = {issue \in result.issues : issue.field \notin fields}
                     \cup {IssueOn("AI_TEXT_REVIEW_REQUIRED", item.field) : item \in unsure},
        !.ai = TRUE]

\* apply_text_candidates.  A candidate takes the place of the issues of its field
\* whether or not its quote could be found.
ApplyText(result, answer, units) ==
  LET given == {item \in answer : item.raw # <<>>}
      found == {item \in given : Verified(item, units)}
      fields == {item.field : item \in given}
      itemOf(key) == CHOOSE item \in found : item.field = key
      unsure == {item \in found : TextRow(item).needs}
  IN [result EXCEPT
        !.rows = [key \in Fields |-> IF \E item \in found : item.field = key
                                     THEN TextRow(itemOf(key)) ELSE result.rows[key]],
        !.issues = {issue \in result.issues : issue.field \notin fields}
                     \cup {IssueOn("AI_QUOTE_UNVERIFIED", item.field) : item \in given \ found}
                     \cup {IssueOn("AI_TEXT_REVIEW_REQUIRED", item.field) : item \in unsure},
        !.ai = TRUE]
-----------------------------------------------------------------------------
\* VisionCandidate
ValidVision(answer) ==
  \A key \in Fields : (answer.fields[key].raw = <<>>) <=> (answer.fields[key].page = 0)

\* The pages are the units of the PDF.
PagesExist(answer, units) ==
  /\ units # <<>>
  /\ \A key \in Fields : answer.fields[key].page \in {0} \cup DOMAIN units

VisionRow(key, item) ==
  IF item.raw = <<>> THEN Row(Unresolved("MISSING", ""), "gemini_vision", TRUE, {})
  ELSE Row(NormalReview(key, item.raw), "gemini_vision", TRUE, {Cite(item.page, FALSE, FALSE)})

\* apply_visual_candidates
ApplyVision(result, answer, expected) ==
  [result EXCEPT
     !.role = answer.role,
     !.rows = [key \in Fields |-> VisionRow(key, answer.fields[key])],
     !.issues =
       {IssueOn(IF answer.fields[key].raw = <<>> THEN "AI_CANDIDATE_MISSING"
                ELSE "AI_CONFIRMATION_REQUIRED", key) : key \in Fields}
         \cup When(answer.role = "none", {IssueOn("UNKNOWN_DOCUMENT_ROLE", NoField)})
         \cup When(answer.role # "none" /\ expected # "none" /\ answer.role # expected,
                   {IssueOn("DOCUMENT_ROLE_MISMATCH", NoField)}),
     !.ai = TRUE]
-----------------------------------------------------------------------------
\* needs_review of a result.  A readable document needs one as long as it has issues,
\* after the text answer also when a value is not there.
NeedsReview(result) ==
  \/ result.issues # {}
  \/ result.ai /\ \E key \in Fields : result.rows[key].state # "PRESENT"

\* The test of adapt_document: an excerpt that counts as verified must stand in its
\* unit as it is.
Adaptable(result) ==
  \A key \in Fields : \A cite \in result.rows[key].cites : cite.verified => cite.verbatim

NoResult == [none |-> TRUE]

\* adapt_document.  error is what became of the document, "" for nothing.
AdaptDocument(result, error) ==
  IF result = NoResult
  THEN [role |-> "none", values |-> [key \in Fields |-> EmptyValue],
        issues |-> {IssueOn(error, NoField)}]
  ELSE [role |-> IF result.role = "none" /\ \E i \in result.issues : i.code = "WRONG_DOCUMENT_TYPE"
                 THEN "other" ELSE result.role,
        values |-> [key \in Fields |->
          [state |-> result.rows[key].state, norm |-> result.rows[key].norm,
           needs |-> result.rows[key].needs, method |-> result.rows[key].method,
           supplied |-> FALSE]],
        issues |-> result.issues]
=============================================================================
