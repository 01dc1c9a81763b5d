-------------------------- MODULE ExtractionRules --------------------------
(***************************************************************************)
(* What one document says, without any AI: the checks of a file, the       *)
(* labels and values found in its source units, the normalization of each  *)
(* value and the events a worker reports while it does all this.           *)
(*                                                                         *)
(*   detect_format, parse and the readers    app/extraction/parsers.py     *)
(*   candidates, normalize, detect_role, extract_fields                    *)
(*                                           app/extraction/rules.py       *)
(*   extract_document                        app/extraction/service.py     *)
(*                                                                         *)
(* All of it is pure.  What a regular expression or a file library finds   *)
(* out is part of the data: a file has traits, a line is a label, a text   *)
(* has a kind.  A line split by bars or semicolons counts as the lines it  *)
(* is split into.                                                          *)
(*                                                                         *)
(* Operators named Slip... are not part of the model, see MailboxRuns.     *)
(***************************************************************************)
EXTENDS FieldComparison, FiniteSets

CONSTANTS
  Parties, Ports, Count, Weight,   \* the fields by their rule
  FieldKeys,           \* FIELD_KEYS as a sequence
  MaxBytes, MaxUnits   \* ExtractionLimits

ASSUME KeysAssumption ==
  /\ Fields = Parties \cup Ports \cup {Count, Weight}
  /\ FieldKeys \in Seq(Fields)
  /\ Fields = {FieldKeys[i] : i \in DOMAIN FieldKeys}
  /\ \A i, j \in DOMAIN FieldKeys : FieldKeys[i] = FieldKeys[j] => i = j
  /\ Count # Weight /\ Parties \cap Ports = {} /\ {Count, Weight} \cap (Parties \cup Ports) = {}
  /\ {MaxBytes, MaxUnits} \subseteq Nat

(***************************************************************************)
(* A text is a line of a value.  words stands for what is left of it in    *)
(* upper case, with single blanks and without a port's code; num is the    *)
(* number it states and units the units of weight it mentions.  A figure   *)
(* is a number with separators.                                            *)
(***************************************************************************)
Measure == {"g", "kg", "t"}
TextKind == {"mark", "placeholder", "plain", "company", "agency", "behalf", "address",
             "number", "figure", "containers", "unit"}
Text == [kind : TextKind, words : STRING, num : Nat, units : SUBSET Measure]

(***************************************************************************)
(* What a line is to split_label, OTHER_LABEL, _heading and detect_role.   *)
(* own is the line itself, nothing when blank, rest what follows its       *)
(* label.  A head becomes a label with the tail in the line that follows.  *)
(***************************************************************************)
LineKind == {"label", "head", "tail", "stop", "title", "text"}
Line == [as : LineKind, key : Fields \cup {NoField}, own : Seq(Text), rest : Seq(Text),
         total : BOOLEAN,      \* the label begins with TOTAL
         packages : BOOLEAN,   \* or mentions packages
         units : SUBSET Measure,
         table : BOOLEAN,      \* CONTAINER NO
         role : Role \cup {"other", "none"}]

\* A cell, of the area of one sheet or table, holds one line; row 0 says that the
\* unit is a page, a paragraph or a line of a text file.
SourceUnit == [area : Nat, row : Nat, col : Nat, formula : BOOLEAN, lines : Seq(Line)]

\* A blank line is no part of a label, a title or a stop.
WellFormed(unit) ==
  /\ unit.row > 0 => Len(unit.lines) = 1
  /\ \A i \in DOMAIN unit.lines : unit.lines[i].own = <<>> => unit.lines[i].as = "text"

File == [suffix : {"txt", "pdf", "docx", "xlsx", "other"},
         head : {"plain", "pdf", "zip", "ole"}, bytes : Nat,
         traits : SUBSET STRING, units : Seq(SourceUnit)]

\* A normalized value: words, or a number of containers or of grams.
Value == [words : Seq(STRING), amount : Nat]
-----------------------------------------------------------------------------
Office == {"docx", "xlsx"}
Problem(code, rejected) == [code |-> code, rejected |-> rejected]
NoProblem == Problem("", FALSE)
Check(found, code, rejected) == [found |-> found, problem |-> Problem(code, rejected)]

\* The first check that finds something decides.
FirstProblem(checks) ==
  LET hits == {i \in DOMAIN checks : checks[i].found}
  IN IF hits = {} THEN NoProblem
     ELSE checks[CHOOSE i \in hits : \A j \in hits : i <= j].problem

\* detect_format
FormatProblem(file) ==
  FirstProblem(<<
    Check(file.bytes > MaxBytes, "RESOURCE_LIMIT", TRUE),
    Check(file.suffix = "other", "UNSUPPORTED_FORMAT", TRUE),
    Check(file.head = "ole" /\ file.suffix \in Office, "ENCRYPTED_OR_LEGACY_OFFICE", TRUE),
    Check(\/ file.suffix = "pdf" /\ file.head # "pdf"
          \/ file.suffix \in Office /\ file.head # "zip"
          \/ file.suffix = "txt" /\ file.head # "plain", "FORMAT_MISMATCH", TRUE) >>)

\* _validate_office and _validate_worksheets
ArchiveChecks(traits) ==
  << Check("no_archive" \in traits, "MALFORMED_DOCUMENT", FALSE),
     Check({"many_entries", "expands"} \cap traits # {}, "RESOURCE_LIMIT", TRUE),
     Check("encrypted" \in traits, "ENCRYPTED_DOCUMENT", TRUE),
     Check("other_parts" \in traits, "FORMAT_MISMATCH", TRUE),
     Check("duplicate_parts" \in traits, "MALFORMED_DOCUMENT", FALSE),
     Check("macros" \in traits, "UNSUPPORTED_FORMAT", TRUE),
     Check("dtd" \in traits, "MALFORMED_DOCUMENT", FALSE),
     Check({"many_sheets", "many_cells"} \cap traits # {}, "RESOURCE_LIMIT", TRUE) >>

\* _txt, _pdf, and _docx or _xlsx: what their library refuses is a damaged file.
ReaderChecks(suffix, traits) ==
  CASE suffix = "txt" -> << Check("encoding" \in traits, "UNSUPPORTED_ENCODING", TRUE),
                            Check("control" \in traits, "BINARY_TEXT", TRUE),
                            Check("markup" \in traits, "FORMAT_MISMATCH", TRUE) >>
    [] suffix = "pdf" -> << Check("damaged" \in traits, "MALFORMED_DOCUMENT", FALSE),
                            Check("encrypted" \in traits, "ENCRYPTED_DOCUMENT", TRUE),
                            Check({"many_pages", "expands"} \cap traits # {},
                                  "RESOURCE_LIMIT", TRUE) >>
    [] OTHER -> << Check("damaged" \in traits, "MALFORMED_DOCUMENT", FALSE) >>

\* parse; Units.add stops at the unit, or the character, over its limit.
ParseProblem(file) ==
  FirstProblem(
    (IF file.suffix \in Office THEN ArchiveChecks(file.traits) ELSE <<>>)
      \o ReaderChecks(file.suffix, file.traits)
      \o << Check("long_text" \in file.traits \/ Len(file.units) > MaxUnits,
                  "RESOURCE_LIMIT", TRUE) >>)

\* What a file is refused for, or given as it is without a reading.
FileIssues ==
  {"RESOURCE_LIMIT", "UNSUPPORTED_FORMAT", "ENCRYPTED_OR_LEGACY_OFFICE", "FORMAT_MISMATCH",
   "MALFORMED_DOCUMENT", "ENCRYPTED_DOCUMENT", "UNSUPPORTED_ENCODING", "BINARY_TEXT",
   "NO_USABLE_TEXT", "VISUAL_REVIEW_REQUIRED"}

LinesOf(units) == UNION {{unit.lines[j] : j \in DOMAIN unit.lines} : unit \in units}

\* detect_role
DetectRole(units) ==
  LET read == {units[i] : i \in DOMAIN units}
      found == {line.role : line \in LinesOf({unit \in read : ~unit.formula})} \ {"none"}
      roles == found \ {"other"}
  IN IF found \in {{"si"}, {"bl"}}
     THEN [role |-> CHOOSE role \in roles : TRUE, problem |-> ""]
     ELSE [role |-> "none",
           problem |-> IF roles # {} THEN "AMBIGUOUS_DOCUMENT_ROLE"
                       ELSE IF found = {"other"} THEN "WRONG_DOCUMENT_TYPE"
                       ELSE "UNKNOWN_DOCUMENT_ROLE"]
-----------------------------------------------------------------------------
\* A place where a label was found: its line, the lines of the value, the units
\* both were read from, and what normalize has to know.
Candidate(at, line, raw, units, formula, table) ==
  [at |-> at, line |-> line, raw |-> raw, units |-> units, formula |-> formula, table |-> table]

IsLabel(line) == line.as = "label"
\* _heading: the title of a document.
IsHeading(line) == line.as = "title"

\* The cell to the right of a label, unless it is a label itself.
Beside(units, i) ==
  {j \in DOMAIN units :
     /\ units[j].area = units[i].area /\ units[j].row = units[i].row
     /\ units[j].col = units[i].col + 1
     /\ ~IsLabel(units[j].lines[1])}

\* candidates, cells: the value of a label stands behind it or beside it.
CellCandidates(units) ==
  UNION {
    IF units[i].lines[1].rest # <<>> \/ Beside(units, i) = {}
    THEN {Candidate(i, units[i].lines[1], units[i].lines[1].rest, {i}, FALSE, FALSE)}
    ELSE {Candidate(i, units[i].lines[1], units[j].lines[1].own, {i, j}, units[j].formula, FALSE) :
            j \in Beside(units, i)}
    : i \in {i \in DOMAIN units :
               units[i].row > 0 /\ ~units[i].formula /\ IsLabel(units[i].lines[1])}}

\* fragments: the lines outside of cells, with the unit of each.
Fragments(units) ==
  LET upto[i \in 0..Len(units)] ==
        IF i = 0 THEN <<>>
        ELSE upto[i - 1] \o
               (IF units[i].row > 0 THEN <<>>
                ELSE [j \in DOMAIN units[i].lines |-> [line |-> units[i].lines[j], unit |-> i]])
  IN upto[Len(units)]

\* The line and the one that follows make a label together; a blank line is taken
\* along with the label under it.
Joined(frags, i) ==
  /\ i \in DOMAIN frags /\ i + 1 \in DOMAIN frags
  /\ LET line == frags[i].line
         next == frags[i + 1].line
     IN \/ line.as = "head" /\ next.as = "tail"
        \/ ~IsLabel(line) /\ line.own = <<>> /\ IsLabel(next)

\* Where the lines of a value end.
Ends(frags, i) ==
  Joined(frags, i) \/ IsHeading(frags[i].line) \/ frags[i].line.as \in {"label", "stop"}

\* Where the value of a label on a line ends: the last line that belongs to it.
LastOf(frags, at) ==
  CHOOSE k \in at..Len(frags) :
    /\ \A j \in (at + 1)..k : ~Ends(frags, j)
    /\ k = Len(frags) \/ Ends(frags, k + 1)

\* What follows the label in its line and the lines under it, up to the last.
ValueLines(frags, at, last) ==
  LET upto[k \in at..last] ==
        IF k = at THEN frags[at].line.rest ELSE upto[k - 1] \o frags[k].line.own
  IN upto[last]

\* A label found at i ends at the line at, its value at last.
LabelCandidate(frags, i, at, last, after) ==
  Candidate(after + i, frags[at].line, ValueLines(frags, at, last),
            {frags[j].unit : j \in i..at}
              \cup {frags[j].unit : j \in {k \in (at + 1)..last : frags[k].line.own # <<>>}},
            FALSE,
            \E j \in DOMAIN frags : j < i /\ j + 3 >= i /\ frags[j].line.table)

\* candidates, running text
TextCandidates(frags, after) ==
  UNION {{LabelCandidate(frags, i, at, LastOf(frags, at), after) :
            at \in {IF Joined(frags, i) THEN i + 1 ELSE i}} :
         i \in {i \in DOMAIN frags : (IsLabel(frags[i].line) \/ Joined(frags, i))
                                     /\ ~Joined(frags, i - 1)}}

Candidates(units) ==
  CellCandidates(units) \cup TextCandidates(Fragments(units), Len(units))
-----------------------------------------------------------------------------
\* MISSING: nothing, or a placeholder in its stead.
Missing(raw) ==
  \/ \A i \in DOMAIN raw : raw[i].kind = "mark"
  \/ Len(raw) = 1 /\ raw[1].kind = "placeholder"

Agent == {"agency", "behalf"}
AddressKind == {"address", "number", "figure", "containers"}

\* An agency line goes on with the identity.
GoesOn(raw, i) == raw[i].kind \in Agent \/ raw[i - 1].kind = "behalf"
IdentityEnd(raw) ==
  CHOOSE end \in 2..(Len(raw) + 1) :
    /\ \A i \in 2..(end - 1) : GoesOn(raw, i)
    /\ end = Len(raw) + 1 \/ ~GoesOn(raw, end)

\* An address ends it, and no other name may follow.
ClearEnd(raw, end) ==
  /\ end \in DOMAIN raw =>
       /\ raw[end].kind \in AddressKind
       /\ \A j \in DOMAIN raw : j > end => raw[j].kind \notin Agent \cup {"company"}
  /\ raw[end - 1].kind # "behalf"

\* party_value: the lines of the identity, none when its end is unclear.
PartyIdentity(raw) ==
  IF ClearEnd(raw, IdentityEnd(raw)) THEN SubSeq(raw, 1, IdentityEnd(raw) - 1) ELSE <<>>

Factor == [g |-> 1, kg |-> 1000, t |-> 1000000]
NoWords == <<>>

Present(words, amount) ==
  [state |-> "PRESENT", norm |-> [words |-> words, amount |-> amount], problem |-> ""]
Unresolved(state, problem) == [state |-> state, norm |-> NoValue, problem |-> problem]
Ambiguous(problem) == Unresolved("AMBIGUOUS", problem)

Words(raw) == [i \in DOMAIN raw |-> raw[i].words]

NormalParty(raw) ==
  IF PartyIdentity(raw) = <<>> THEN Ambiguous("PARTY_BOUNDARY_UNCLEAR")
  ELSE Present(Words(PartyIdentity(raw)), 0)

NormalCount(line, raw) ==
  IF /\ Len(raw) = 1
     /\ \/ raw[1].kind = "containers"
        \/ raw[1].kind = "number" /\ raw[1].units = {} /\ ~line.packages
  THEN Present(NoWords, raw[1].num) ELSE Ambiguous("AMBIGUOUS_CONTAINER_COUNT")

\* _number: digits, maybe in groups of three, maybe with decimals.
IsNumber(text) == text.kind \in {"number", "figure"}

\* A number without any unit is read as kilograms.
NormalWeight(line, raw, table) ==
  LET units == line.units \cup UNION {raw[i].units : i \in DOMAIN raw}
      stated == {i \in DOMAIN raw : raw[i].kind # "unit"}
      numbers == {i \in stated : stated = {i} /\ IsNumber(raw[i])}
      unit == IF units = {} THEN "kg" ELSE CHOOSE u \in units : TRUE
  IN IF table /\ ~line.total THEN Ambiguous("TOTAL_WEIGHT_REQUIRED")
     ELSE IF Cardinality(units) > 1 THEN Ambiguous("CONFLICTING_WEIGHT_UNITS")
     ELSE IF numbers = {}
     THEN Ambiguous(IF units = {} THEN "MISSING_WEIGHT_UNIT" ELSE "AMBIGUOUS_WEIGHT")
     ELSE Present(NoWords, raw[CHOOSE i \in numbers : TRUE].num * Factor[unit])

NormalPort(raw) ==
  IF Len(raw) > 1 THEN Ambiguous("AMBIGUOUS_TEXT_VALUE") ELSE Present(Words(raw), 0)

\* normalize
Normal(key, c) ==
  IF c.formula THEN Ambiguous("FORMULA_VALUE")
  ELSE IF Missing(c.raw) THEN Unresolved("MISSING", "MISSING_VALUE")
  ELSE CASE key \in Parties -> NormalParty(c.raw)
         [] key = Count -> NormalCount(c.line, c.raw)
         [] key = Weight -> NormalWeight(c.line, c.raw, c.table)
         [] key \in Ports -> NormalPort(c.raw)

\* normalize_review_value: under the plain name of the field.
PlainLabel(key) ==
  [as |-> "label", key |-> key, own |-> <<>>, rest |-> <<>>, total |-> FALSE,
   packages |-> FALSE, units |-> {}, table |-> FALSE, role |-> "none"]
NormalReview(key, raw) == Normal(key, Candidate(0, PlainLabel(key), raw, {}, FALSE, FALSE))
-----------------------------------------------------------------------------
\* ISSUE_DETAILS: what the rules may find wrong with a field.  Each has a message and a
\* next action, and a problem without them would end the worker.
RuleIssues ==
  {"AMBIGUOUS_TEXT_VALUE", "FIELD_NOT_FOUND", "MISSING_VALUE", "FORMULA_VALUE",
   "PARTY_BOUNDARY_UNCLEAR", "AMBIGUOUS_CONTAINER_COUNT", "TOTAL_WEIGHT_REQUIRED",
   "MISSING_WEIGHT_UNIT", "CONFLICTING_WEIGHT_UNITS", "AMBIGUOUS_WEIGHT",
   "CONFLICTING_VALUES"}

\* A field of a document.  A cite is a source unit with, in verbatim, whether the
\* excerpt occurs in its text as it stands; verified is the code's own flag.
Cite(unit, verbatim, verified) == [unit |-> unit, verbatim |-> verbatim, verified |-> verified]
Row(n, method, needs, cites) ==
  [state |-> n.state, norm |-> n.norm, method |-> method, needs |-> needs, cites |-> cites]

OfField(found, key) == {c \in found : c.line.key = key}

\* The candidates of a field that count: explicit totals come first.
Chosen(found, key) ==
  {c \in OfField(found, key) :
     key = Weight /\ (\E d \in OfField(found, key) : d.line.total) => c.line.total}

SlipDecide(key, items) ==
  IF items = {} THEN Unresolved("MISSING", "FIELD_NOT_FOUND")
  ELSE Normal(key, CHOOSE c \in items : TRUE)

\* The results of all candidates must agree, and so must their texts unless they all
\* have a value.
Decide(key, items) ==
  LET results == {Normal(key, c) : c \in items}
  IN IF items = {} THEN Unresolved("MISSING", "FIELD_NOT_FOUND")
     ELSE IF \/ Cardinality(results) > 1
             \/ \E c, d \in items : c.raw # d.raw /\ Normal(key, c).state # "PRESENT"
     THEN Ambiguous("CONFLICTING_VALUES")
     ELSE CHOOSE result \in results : TRUE

UnitsOf(candidates) == UNION {c.units : c \in candidates}

\* extract_fields: the result of each field, with the units its candidates cite.
FieldResults(found) ==
  [key \in Fields |-> [result |-> Decide(key, Chosen(found, key)),
                       cites |-> UnitsOf(Chosen(found, key))]]
-----------------------------------------------------------------------------
\* DocumentExtraction.  ai says that provider_metadata is set.
DocStatus == {"READABLE", "NO_USABLE_TEXT", "FAILED", "REJECTED"}
Extracted(status, role, rows, issues) ==
  [status |-> status, role |-> role, rows |-> rows, issues |-> issues, ai |-> FALSE]
IssueOn(code, field) == [code |-> code, field |-> field]

Unreadable(status, code) ==
  Extracted(status, "none",
            [key \in Fields |-> Row(Unresolved("UNREADABLE", code), "rule", FALSE, {})],
            {IssueOn(code, NoField)})

Usable(units) ==
  \E line \in LinesOf({units[i] : i \in DOMAIN units}) :
    \E j \in DOMAIN line.own : line.own[j].kind # "mark"

RoleProblem(units, expected) ==
  LET found == DetectRole(units)
  IN IF found.problem = "" /\ expected # "none" /\ found.role # expected
     THEN "DOCUMENT_ROLE_MISMATCH" ELSE found.problem

RoleIssues ==
  {"WRONG_DOCUMENT_TYPE", "AMBIGUOUS_DOCUMENT_ROLE", "UNKNOWN_DOCUMENT_ROLE",
   "DOCUMENT_ROLE_MISMATCH"}

\* evidence_for quotes the unit itself.
RuleRow(result, units) == Row(result, "rule", FALSE, {Cite(i, TRUE, TRUE) : i \in units})

Readable(role, problem, results) ==
  Extracted("READABLE", role,
    [key \in Fields |-> RuleRow(results[key].result, results[key].cites)],
    {IssueOn(results[key].result.problem, key) :
       key \in {key \in Fields : results[key].result.problem # ""}}
      \cup When(problem # "", {IssueOn(problem, NoField)}))

FileProblem(file) ==
  IF FormatProblem(file) # NoProblem THEN FormatProblem(file) ELSE ParseProblem(file)

\* extract_document
ExtractDocument(file, expected) ==
  LET problem == FileProblem(file)
  IN IF problem # NoProblem
     THEN Unreadable(IF problem.rejected THEN "REJECTED" ELSE "FAILED", problem.code)
     ELSE IF ~Usable(file.units)
     THEN Unreadable("NO_USABLE_TEXT",
            IF file.suffix = "pdf" THEN "VISUAL_REVIEW_REQUIRED" ELSE "NO_USABLE_TEXT")
     ELSE Readable(DetectRole(file.units).role, RoleProblem(file.units, expected),
                   FieldResults(Candidates(file.units)))

\* Trace: the events the worker reports, each with the units it refers to.
Event(stage, status, cites) == [stage |-> stage, status |-> status, cites |-> cites]
Known(ok) == IF ok THEN "SUCCEEDED" ELSE "NEEDS_REVIEW"

\* One for each candidate, in the order of the places where they were found.
NormalEvents(key, items) ==
  LET nth(i) == CHOOSE c \in items : Cardinality({d \in items : d.at < c.at}) = i - 1
  IN [i \in 1..Cardinality(items) |->
        Event("normalization", Known(Normal(key, nth(i)).state = "PRESENT"), nth(i).units)]

FieldEvents(found, key) ==
  <<Event("candidates", "SUCCEEDED", UnitsOf(OfField(found, key)))>>
    \o NormalEvents(key, Chosen(found, key))
    \o <<Event("field_result", Known(Decide(key, Chosen(found, key)).state = "PRESENT"), {})>>

AllFieldEvents(found) ==
  LET upto[i \in 0..Len(FieldKeys)] ==
        IF i = 0 THEN <<>> ELSE upto[i - 1] \o FieldEvents(found, FieldKeys[i])
  IN upto[Len(FieldKeys)]

TraceOf(file, expected) ==
  LET step(stage, status) == <<Event(stage, status, {})>>
  IN step("validation", "STARTED") \o
     (IF FormatProblem(file) # NoProblem THEN step("validation", "FAILED")
      ELSE step("validation", "SUCCEEDED") \o step("parsing", "STARTED") \o
           (IF ParseProblem(file) # NoProblem THEN step("parsing", "FAILED")
            ELSE <<Event("parsing", "SUCCEEDED", DOMAIN file.units)>> \o
                 (IF ~Usable(file.units) THEN step("text_check", "NEEDS_REVIEW")
                  ELSE step("role_detection", Known(RoleProblem(file.units, expected) = ""))
                       \o AllFieldEvents(Candidates(file.units))
                       \o step("completed", Known(ExtractDocument(file, expected).issues = {})))))
=============================================================================
