------------------------ MODULE DocumentTypes_proofs ------------------------
(***************************************************************************)
(* The type invariant of DocumentRun, for every value of its constants:    *)
(* what a file is read into, what Gemini adds to it and what an analysis   *)
(* makes of it, the receipt of an upload, the call of a worker, the page,  *)
(* the thread of the run and its record.                                   *)
(***************************************************************************)
EXTENDS DocumentRun_proofs

(***************************************************************************)
(* What is read.                                                           *)
(***************************************************************************)
NormalValue == Values \cup {NoValue}
CiteType == [unit : Nat, verbatim : BOOLEAN, verified : BOOLEAN]

\* What a text normalizes to has a state and, with no value, a problem that
\* ISSUE_DETAILS explains.
Explains(n) == n.state \in ValueState /\ (n.problem # "" => n.problem \in RuleIssues)

LEMMA UnresolvedExplains ==
  ASSUME NEW state \in ValueState, NEW problem \in RuleIssues,
         NEW n, n = Unresolved(state, problem)
  PROVE  Explains(n) /\ n.norm \in NormalValue
PROOF BY DEF Unresolved, Explains, NormalValue

LEMMA AmbiguousExplains ==
  ASSUME NEW problem \in RuleIssues, NEW n, n = Ambiguous(problem)
  PROVE  Explains(n)
PROOF
<1>1. "AMBIGUOUS" \in ValueState
  BY DEF ValueState
<1> QED BY <1>1, UnresolvedExplains DEF Ambiguous

LEMMA PresentExplains ==
  ASSUME NEW words, NEW amount, NEW n, n = Present(words, amount)
  PROVE  Explains(n)
PROOF
<1>1. n.state = "PRESENT" /\ n.problem = ""
  BY DEF Present
<1>2. n.state \in ValueState
  BY <1>1 DEF ValueState
<1> QED BY <1>1, <1>2 DEF Explains

LEMMA NormalExplains ==
  ASSUME NEW key \in Fields, NEW c, c.line \in Line, c.raw \in Seq(Text), NEW n, n = Normal(key, c)
  PROVE  Explains(n)
PROOF
<1>1. CASE n = Ambiguous("FORMULA_VALUE")
  BY <1>1, AmbiguousExplains DEF RuleIssues
<1>2. CASE n = Unresolved("MISSING", "MISSING_VALUE")
  BY <1>2, UnresolvedExplains DEF RuleIssues, ValueState
<1>3. CASE n = NormalParty(c.raw)
  <2>1. n = Ambiguous("PARTY_BOUNDARY_UNCLEAR") \/ n = Present(Words(PartyIdentity(c.raw)), 0)
    BY <1>3 DEF NormalParty
  <2> QED BY <2>1, AmbiguousExplains, PresentExplains DEF RuleIssues
<1>4. CASE n = NormalCount(c.line, c.raw)
  <2>1. n = Ambiguous("AMBIGUOUS_CONTAINER_COUNT") \/ n = Present(NoWords, c.raw[1].num)
    BY <1>4 DEF NormalCount
  <2> QED BY <2>1, AmbiguousExplains, PresentExplains DEF RuleIssues
<1>5. CASE n = NormalWeight(c.line, c.raw, c.table)
  <2>1. \/ \E problem \in {"TOTAL_WEIGHT_REQUIRED", "CONFLICTING_WEIGHT_UNITS",
                           "MISSING_WEIGHT_UNIT", "AMBIGUOUS_WEIGHT"} : n = Ambiguous(problem)
        \/ \E i \in DOMAIN c.raw, u \in Measure : n = Present(NoWords, c.raw[i].num * Factor[u])
    BY <1>5, WeightIs
  <2>2. {"TOTAL_WEIGHT_REQUIRED", "CONFLICTING_WEIGHT_UNITS", "MISSING_WEIGHT_UNIT",
         "AMBIGUOUS_WEIGHT"} \subseteq RuleIssues
    BY DEF RuleIssues
  <2>3. ASSUME NEW problem \in RuleIssues, n = Ambiguous(problem) PROVE Explains(n)
    BY <2>3, AmbiguousExplains
  <2>4. ASSUME NEW amount, n = Present(NoWords, amount) PROVE Explains(n)
    BY <2>4, PresentExplains
  <2> QED BY <2>1, <2>2, <2>3, <2>4
<1>6. CASE n = NormalPort(c.raw)
  <2>1. n = Ambiguous("AMBIGUOUS_TEXT_VALUE") \/ n = Present(Words(c.raw), 0)
    BY <1>6 DEF NormalPort
  <2> QED BY <2>1, AmbiguousExplains, PresentExplains DEF RuleIssues
<1> QED BY <1>1, <1>2, <1>3, <1>4, <1>5, <1>6, NormalCases

\* All candidates of a field together say no more than one of them, or nothing.
LEMMA DecideChooses ==
  ASSUME NEW key, NEW items, NEW n, n = Decide(key, items)
  PROVE  \/ n = Unresolved("MISSING", "FIELD_NOT_FOUND")
         \/ n = Ambiguous("CONFLICTING_VALUES")
         \/ \E c \in items : n = Normal(key, c)
PROOF
<1> DEFINE results == {Normal(key, c) : c \in items}
           conflict == \/ Cardinality(results) > 1
                       \/ \E c, d \in items : c.raw # d.raw /\ Normal(key, c).state # "PRESENT"
<1>1. n = IF items = {} THEN Unresolved("MISSING", "FIELD_NOT_FOUND")
          ELSE IF conflict THEN Ambiguous("CONFLICTING_VALUES")
          ELSE CHOOSE result \in results : TRUE
  BY DEF Decide
<1>2. CASE items # {} /\ ~conflict
  <2>1. results # {}
    BY <1>2
  <2>2. n = CHOOSE result \in results : TRUE
    BY <1>1, <1>2
  <2> HIDE DEF results
  <2>3. n \in results
    BY <2>1, <2>2
  <2> QED BY <2>3 DEF results
<1> HIDE DEF conflict, results
<1> QED BY <1>1, <1>2

\* The checks of a file, each with the problem it may find.
Checks(checks) == \E S : checks \in Seq(S) /\ \A check \in S : check.problem.code \in FileIssues

LEMMA ChecksAre ==
  ASSUME NEW S, NEW checks \in Seq(S), \A check \in S : check.problem.code \in FileIssues
  PROVE  Checks(checks)
PROOF BY DEF Checks

LEMMA ChecksJoin ==
  ASSUME NEW checks, Checks(checks), NEW others, Checks(others)
  PROVE  Checks(checks \o others)
PROOF
<1>1. PICK S : checks \in Seq(S) /\ \A check \in S : check.problem.code \in FileIssues
  BY DEF Checks
<1>2. PICK T : others \in Seq(T) /\ \A check \in T : check.problem.code \in FileIssues
  BY DEF Checks
<1>3. checks \in Seq(S \cup T) /\ others \in Seq(S \cup T)
  BY <1>1, <1>2
<1>4. checks \o others \in Seq(S \cup T)
  BY <1>3
<1> QED BY <1>1, <1>2, <1>4 DEF Checks

LEMMA FirstOfChecks ==
  ASSUME NEW checks, Checks(checks)
  PROVE  FirstProblem(checks) = NoProblem \/ FirstProblem(checks).code \in FileIssues
PROOF
<1>1. PICK S : checks \in Seq(S) /\ \A check \in S : check.problem.code \in FileIssues
  BY DEF Checks
<1> DEFINE hits == {i \in DOMAIN checks : checks[i].found}
<1>2. hits \subseteq Nat /\ \A i \in hits : checks[i] \in S
  BY <1>1
<1>3. FirstProblem(checks) =
        IF hits = {} THEN NoProblem
        ELSE checks[CHOOSE i \in hits : \A j \in hits : i <= j].problem
  BY DEF FirstProblem
<1> HIDE DEF hits
<1>4. CASE hits # {}
  <2>1. \E k \in hits : \A j \in hits : k <= j
    BY <1>2, <1>4, SmallestMember
  <2>2. PICK first : first = CHOOSE i \in hits : \A j \in hits : i <= j
    OBVIOUS
  <2>3. first \in hits
    BY <2>1, <2>2
  <2> QED BY <1>1, <1>2, <1>3, <1>4, <2>2, <2>3
<1> QED BY <1>3, <1>4

LEMMA OneCheck ==
  ASSUME NEW c, c.problem.code \in FileIssues
  PROVE  Checks(<<c>>)
PROOF
<1>1. PICK S : S = {c}
  OBVIOUS
<1>2. <<c>> \in Seq(S) /\ \A check \in S : check.problem.code \in FileIssues
  BY <1>1
<1> QED BY <1>2, ChecksAre

LEMMA FormatChecked ==
  ASSUME NEW file
  PROVE  FormatProblem(file) = NoProblem \/ FormatProblem(file).code \in FileIssues
PROOF
<1>1. PICK a : a = Check(file.bytes > MaxBytes, "RESOURCE_LIMIT", TRUE)
  OBVIOUS
<1>2. PICK b : b = Check(file.suffix = "other", "UNSUPPORTED_FORMAT", TRUE)
  OBVIOUS
<1>3. PICK c : c = Check(file.head = "ole" /\ file.suffix \in Office,
                         "ENCRYPTED_OR_LEGACY_OFFICE", TRUE)
  OBVIOUS
<1>4. PICK d : d = Check(\/ file.suffix = "pdf" /\ file.head # "pdf"
                         \/ file.suffix \in Office /\ file.head # "zip"
                         \/ file.suffix = "txt" /\ file.head # "plain", "FORMAT_MISMATCH", TRUE)
  OBVIOUS
<1>5. \A check \in {a, b, c, d} : check.problem.code \in FileIssues
  BY <1>1, <1>2, <1>3, <1>4 DEF Check, Problem, FileIssues
<1>6. Checks(<<a, b, c, d>>)
  <2>1. PICK S : S = {a, b, c, d}
    OBVIOUS
  <2>2. <<a, b, c, d>> \in Seq(S) /\ \A check \in S : check.problem.code \in FileIssues
    BY <1>5, <2>1
  <2> QED BY <2>2, ChecksAre
<1>7. FormatProblem(file) = FirstProblem(<<a, b, c, d>>)
  BY <1>1, <1>2, <1>3, <1>4 DEF FormatProblem
<1> QED BY <1>6, <1>7, FirstOfChecks

LEMMA ArchiveChecked ==
  ASSUME NEW traits
  PROVE  Checks(ArchiveChecks(traits))
PROOF
<1>1. PICK a, b, c, d :
        /\ a = Check("no_archive" \in traits, "MALFORMED_DOCUMENT", FALSE)
        /\ b = Check({"many_entries", "expands"} \cap traits # {}, "RESOURCE_LIMIT", TRUE)
        /\ c = Check("encrypted" \in traits, "ENCRYPTED_DOCUMENT", TRUE)
        /\ d = Check("other_parts" \in traits, "FORMAT_MISMATCH", TRUE)
  OBVIOUS
<1>2. PICK e, f, g, h :
        /\ e = Check("duplicate_parts" \in traits, "MALFORMED_DOCUMENT", FALSE)
        /\ f = Check("macros" \in traits, "UNSUPPORTED_FORMAT", TRUE)
        /\ g = Check("dtd" \in traits, "MALFORMED_DOCUMENT", FALSE)
        /\ h = Check({"many_sheets", "many_cells"} \cap traits # {}, "RESOURCE_LIMIT", TRUE)
  OBVIOUS
<1>3. PICK S : S = {a, b, c, d, e, f, g, h}
  OBVIOUS
<1>4. \A check \in S : check.problem.code \in FileIssues
  <2>1. \A check \in {a, b, c, d} : check.problem.code \in FileIssues
    BY <1>1 DEF Check, Problem, FileIssues
  <2>2. \A check \in {e, f, g, h} : check.problem.code \in FileIssues
    BY <1>2 DEF Check, Problem, FileIssues
  <2> QED BY <1>3, <2>1, <2>2
<1>5. <<a, b, c, d, e, f, g, h>> \in Seq(S)
  BY <1>3
<1>6. ArchiveChecks(traits) = <<a, b, c, d, e, f, g, h>>
  BY <1>1, <1>2 DEF ArchiveChecks
<1> QED BY <1>4, <1>5, <1>6, ChecksAre

LEMMA ReaderChecked ==
  ASSUME NEW suffix, NEW traits
  PROVE  Checks(ReaderChecks(suffix, traits))
PROOF
<1>1. CASE suffix = "txt"
  <2>1. PICK a, b, c :
          /\ a = Check("encoding" \in traits, "UNSUPPORTED_ENCODING", TRUE)
          /\ b = Check("control" \in traits, "BINARY_TEXT", TRUE)
          /\ c = Check("markup" \in traits, "FORMAT_MISMATCH", TRUE)
    OBVIOUS
  <2>2. PICK S : S = {a, b, c}
    OBVIOUS
  <2>3. \A check \in S : check.problem.code \in FileIssues
    BY <2>1, <2>2 DEF Check, Problem, FileIssues
  <2>4. <<a, b, c>> \in Seq(S)
    BY <2>2
  <2>5. ReaderChecks(suffix, traits) = <<a, b, c>>
    BY <1>1, <2>1 DEF ReaderChecks
  <2> QED BY <2>3, <2>4, <2>5, ChecksAre
<1>2. CASE suffix = "pdf"
  <2>1. PICK a, b, c :
          /\ a = Check("damaged" \in traits, "MALFORMED_DOCUMENT", FALSE)
          /\ b = Check("encrypted" \in traits, "ENCRYPTED_DOCUMENT", TRUE)
          /\ c = Check({"many_pages", "expands"} \cap traits # {}, "RESOURCE_LIMIT", TRUE)
    OBVIOUS
  <2>2. PICK S : S = {a, b, c}
    OBVIOUS
  <2>3. \A check \in S : check.problem.code \in FileIssues
    BY <2>1, <2>2 DEF Check, Problem, FileIssues
  <2>4. <<a, b, c>> \in Seq(S)
    BY <2>2
  <2>5. ReaderChecks(suffix, traits) = <<a, b, c>>
    BY <1>2, <2>1 DEF ReaderChecks
  <2> QED BY <2>3, <2>4, <2>5, ChecksAre
<1>3. CASE suffix \notin {"txt", "pdf"}
  <2>1. PICK a : a = Check("damaged" \in traits, "MALFORMED_DOCUMENT", FALSE)
    OBVIOUS
  <2>2. a.problem.code \in FileIssues
    BY <2>1 DEF Check, Problem, FileIssues
  <2>3. ReaderChecks(suffix, traits) = <<a>>
    BY <1>3, <2>1 DEF ReaderChecks
  <2> QED BY <2>2, <2>3, OneCheck
<1> QED BY <1>1, <1>2, <1>3

LEMMA FileChecked ==
  ASSUME NEW file
  PROVE  FileProblem(file) = NoProblem \/ FileProblem(file).code \in FileIssues
PROOF
<1>1. PICK last : last = Check("long_text" \in file.traits \/ Len(file.units) > MaxUnits,
                               "RESOURCE_LIMIT", TRUE)
  OBVIOUS
<1>2. PICK archive : archive = IF file.suffix \in Office THEN ArchiveChecks(file.traits) ELSE <<>>
  OBVIOUS
<1>3. Checks(<<last>>)
  <2>1. last.problem.code \in FileIssues
    BY <1>1 DEF Check, Problem, FileIssues
  <2> QED BY <2>1, OneCheck
<1>4. Checks(archive)
  <2>1. Checks(<<>>)
    <3>1. PICK S : S = {}
      OBVIOUS
    <3>2. <<>> \in Seq(S) /\ \A check \in S : check.problem.code \in FileIssues
      BY <3>1
    <3> QED BY <3>2, ChecksAre
  <2> QED BY <1>2, <2>1, ArchiveChecked
<1>5. PICK reader : reader = ReaderChecks(file.suffix, file.traits)
  OBVIOUS
<1>6. Checks(archive \o reader \o <<last>>)
  BY <1>3, <1>4, <1>5, ReaderChecked, ChecksJoin
<1>7. ParseProblem(file) = FirstProblem(archive \o reader \o <<last>>)
  BY <1>1, <1>2, <1>5 DEF ParseProblem
<1> QED BY <1>6, <1>7, FirstOfChecks, FormatChecked DEF FileProblem

LEMMA RowTyped ==
  ASSUME NEW n, n.state \in ValueState, n.norm \in NormalValue, NEW method \in Method,
         NEW needs \in BOOLEAN, NEW cites \in SUBSET CiteType
  PROVE  Row(n, method, needs, cites) \in RowType
PROOF BY DEF Row, RowType, CiteType, NormalValue

LEMMA IssueTyped ==
  ASSUME NEW code \in RuleIssues \cup FileIssues \cup RoleIssues \cup ReaderIssues,
         NEW field \in Fields \cup {NoField}, NEW issue, issue = IssueOn(code, field)
  PROVE  issue \in Issue /\ issue.code = code /\ issue.field = field
PROOF BY CodesAssumption DEF IssueOn, Issue

LEMMA ResultTyped ==
  ASSUME NEW r, IsResult(r), r.status \in DocStatus, r.role \in Role \cup {"none"},
         r.issues \subseteq Issue, r.ai \in BOOLEAN, \A key \in Fields : r.rows[key] \in RowType
  PROVE  r \in ResultType
PROOF
<1>1. r.rows \in [Fields -> RowType]
  BY DEF IsResult
<1> QED BY <1>1 DEF IsResult, ResultType

TypedResult(r) == IsResult(r) /\ r \in ResultType /\ Explained(r)

LEMMA CitesTyped ==
  ASSUME NEW places \in SUBSET Nat
  PROVE  {Cite(i, TRUE, TRUE) : i \in places} \in SUBSET CiteType
PROOF
<1>1. \A i \in places : Cite(i, TRUE, TRUE) \in CiteType
  BY DEF Cite, CiteType
<1> QED BY <1>1

LEMMA RuleRowTyped ==
  ASSUME NEW input \in Inputs, NEW key \in Fields,
         NEW items, items = Chosen(Candidates(input.file.units), key),
         NEW n, n = Decide(key, items)
  PROVE  Explains(n) /\ RuleRow(n, UnitsOf(items)) \in RowType
PROOF
<1>1. PICK units : units = input.file.units
  OBVIOUS
<1>2. Sound(units)
  BY <1>1, InputsAreSound
<1>3. PICK found : found = Candidates(units)
  OBVIOUS
<1>4. items \subseteq OfField(found, key) /\ items \subseteq found
  BY <1>1, <1>3 DEF Chosen, OfField
<1>5. ASSUME NEW c \in items
      PROVE  c.units \subseteq Nat /\ c.line \in Line /\ c.raw \in Seq(Text)
             /\ Normal(key, c).norm \in NormalValue
  <2>1. Rooted(units, c)
    BY <1>2, <1>3, <1>4, CandidatesRooted
  <2>2. DOMAIN units \subseteq Nat
    BY <1>2 DEF Sound
  <2>3. Normal(key, c).norm \in NormalValue
    BY <1>1, <1>3, <1>4, ValuesAssumption DEF NormalValue
  <2> QED BY <2>1, <2>2, <2>3 DEF Rooted
<1>6. Explains(n) /\ n.norm \in NormalValue
  <2>1. CASE n = Unresolved("MISSING", "FIELD_NOT_FOUND")
    BY <2>1, UnresolvedExplains DEF RuleIssues, ValueState
  <2>2. CASE n = Ambiguous("CONFLICTING_VALUES")
    <3>1. n = Unresolved("AMBIGUOUS", "CONFLICTING_VALUES")
      BY <2>2 DEF Ambiguous
    <3> QED BY <3>1, UnresolvedExplains DEF RuleIssues, ValueState
  <2>3. ASSUME NEW c \in items, n = Normal(key, c) PROVE Explains(n) /\ n.norm \in NormalValue
    BY <1>5, <2>3, NormalExplains
  <2> QED BY <2>1, <2>2, <2>3, DecideChooses
<1>7. UnitsOf(items) \in SUBSET Nat
  BY <1>5 DEF UnitsOf
<1>8. PICK cites : cites = {Cite(i, TRUE, TRUE) : i \in UnitsOf(items)}
  OBVIOUS
<1>9. cites \in SUBSET CiteType
  BY <1>7, <1>8, CitesTyped
<1>10. Row(n, "rule", FALSE, cites) \in RowType
  <2>1. n.state \in ValueState /\ "rule" \in Method
    BY <1>6 DEF Explains, Method
  <2> QED BY <1>6, <1>9, <2>1, RowTyped
<1> QED BY <1>6, <1>8, <1>10 DEF RuleRow

\* The role of a document, and what is wrong with it.
RoleTyped(role, problem) ==
  role \in Role \cup {"none"} /\ (problem # "" => problem \in RoleIssues)

LEMMA RoleIsTyped ==
  ASSUME NEW units, NEW expected
  PROVE  RoleTyped(DetectRole(units).role, RoleProblem(units, expected))
PROOF
<1> DEFINE read == {units[i] : i \in DOMAIN units}
           found == {line.role : line \in LinesOf({unit \in read : ~unit.formula})} \ {"none"}
           roles == found \ {"other"}
           clear == found \in {{"si"}, {"bl"}}
<1>1. DetectRole(units) =
        IF clear THEN [role |-> CHOOSE role \in roles : TRUE, problem |-> ""]
        ELSE [role |-> "none",
              problem |-> IF roles # {} THEN "AMBIGUOUS_DOCUMENT_ROLE"
                          ELSE IF found = {"other"} THEN "WRONG_DOCUMENT_TYPE"
                          ELSE "UNKNOWN_DOCUMENT_ROLE"]
  BY DEF DetectRole
<1>2. clear => roles \subseteq Role /\ roles # {}
  BY DEF Role
<1> HIDE DEF clear, roles, found
<1>3. PICK d : d = DetectRole(units)
  OBVIOUS
<1>8. \A role, problem : /\ [role |-> role, problem |-> problem].role = role
                        /\ [role |-> role, problem |-> problem].problem = problem
  OBVIOUS
<1>4. d.role \in Role \cup {"none"}
  <2>1. CASE clear
    <3>1. d.role = CHOOSE role \in roles : TRUE
      BY <1>1, <1>3, <1>8, <2>1, Zenon
    <3>2. (CHOOSE role \in roles : TRUE) \in roles
      BY <1>2, <2>1
    <3> QED BY <1>2, <2>1, <3>1, <3>2
  <2>2. CASE ~clear
    <3>1. d.role = "none"
      BY <1>1, <1>3, <2>2
    <3> QED BY <3>1
  <2> QED BY <2>1, <2>2
<1>5. d.problem # "" => d.problem \in RoleIssues
  <2>1. CASE clear
    <3>1. d.problem = ""
      BY <1>1, <1>3, <1>8, <2>1, Zenon
    <3> QED BY <3>1
  <2>2. CASE ~clear
    <3>1. d.problem \in {"AMBIGUOUS_DOCUMENT_ROLE", "WRONG_DOCUMENT_TYPE", "UNKNOWN_DOCUMENT_ROLE"}
      BY ONLY <1>1, <1>3, <2>2
    <3> QED BY <3>1 DEF RoleIssues
  <2> QED BY <2>1, <2>2
<1>6. RoleProblem(units, expected) \in {"DOCUMENT_ROLE_MISMATCH", d.problem}
  BY <1>3 DEF RoleProblem
<1>7. "DOCUMENT_ROLE_MISMATCH" \in RoleIssues
  BY DEF RoleIssues
<1> QED BY <1>3, <1>4, <1>5, <1>6, <1>7 DEF RoleTyped

LEMMA UnreadableTyped ==
  ASSUME NEW status \in DocStatus, NEW code \in FileIssues
  PROVE  TypedResult(Unreadable(status, code))
PROOF
<1>1. PICK r : r = Unreadable(status, code)
  OBVIOUS
<1>2. PICK n : n = Unresolved("UNREADABLE", code)
  OBVIOUS
<1>3. n.state \in ValueState /\ n.norm \in NormalValue /\ "rule" \in Method
  BY <1>2 DEF Unresolved, ValueState, NormalValue, Method
<1>4. PICK row : row = Row(n, "rule", FALSE, {})
  OBVIOUS
<1>5. row \in RowType
  BY <1>3, <1>4, RowTyped
<1>6. PICK issue : issue = IssueOn(code, NoField)
  OBVIOUS
<1>7. issue \in Issue /\ issue.field = NoField
  BY <1>6, IssueTyped
<1>8. r = [status |-> status, role |-> "none", rows |-> [key \in Fields |-> row],
           issues |-> {issue}, ai |-> FALSE]
  BY <1>1, <1>2, <1>4, <1>6 DEF Unreadable, Extracted
<1>9. IsResult(r) /\ r.issues = {issue} /\ \A key \in Fields : r.rows[key] = row
  BY <1>8 DEF IsResult
<1>10. r \in ResultType
  BY <1>5, <1>7, <1>8, <1>9, ResultTyped
<1> QED BY <1>1, <1>7, <1>9, <1>10 DEF TypedResult, Explained

LEMMA ReadableTyped ==
  ASSUME NEW input \in Inputs, NEW role, NEW problem, RoleTyped(role, problem)
  PROVE  TypedResult(Readable(role, problem, FieldResults(Candidates(input.file.units))))
PROOF
<1> DEFINE items(key) == Chosen(Candidates(input.file.units), key)
<1>1. PICK results : results = FieldResults(Candidates(input.file.units))
  OBVIOUS
<1>2. ASSUME NEW key \in Fields
      PROVE  /\ Explains(results[key].result)
             /\ RuleRow(results[key].result, results[key].cites) \in RowType
  <2>1. results[key].result = Decide(key, items(key)) /\ results[key].cites = UnitsOf(items(key))
    BY <1>1 DEF FieldResults
  <2>2. PICK its : its = items(key)
    OBVIOUS
  <2>3. PICK n : n = Decide(key, its)
    OBVIOUS
  <2>4. Explains(n) /\ RuleRow(n, UnitsOf(its)) \in RowType
    BY <2>2, <2>3, RuleRowTyped
  <2> QED BY <2>1, <2>2, <2>3, <2>4
<1>3. PICK open : open = {key \in Fields : results[key].result.problem # ""}
  OBVIOUS
<1>4. open \subseteq Fields /\ \A key \in open : results[key].result.problem \in RuleIssues
  BY <1>2, <1>3 DEF Explains
<1>5. PICK own : own = {IssueOn(results[key].result.problem, key) : key \in open}
  OBVIOUS
<1>6. ASSUME NEW issue \in own PROVE issue \in Issue /\ issue.code \in RuleIssues
  <2>1. PICK key \in open : issue = IssueOn(results[key].result.problem, key)
    BY <1>5
  <2>2. PICK code : code = results[key].result.problem
    OBVIOUS
  <2>3. code \in RuleIssues /\ key \in Fields /\ issue = IssueOn(code, key)
    BY <1>4, <2>1, <2>2
  <2> QED BY <2>3, IssueTyped
<1>7. PICK extra : extra = When(problem # "", {IssueOn(problem, NoField)})
  OBVIOUS
<1>8. ASSUME NEW issue \in extra PROVE issue \in Issue /\ issue.field = NoField
  <2>1. issue = IssueOn(problem, NoField) /\ problem \in RoleIssues
    BY <1>7, <1>8 DEF When, RoleTyped
  <2> QED BY <2>1, IssueTyped
<1>9. PICK rows : rows = [key \in Fields |-> RuleRow(results[key].result, results[key].cites)]
  OBVIOUS
<1>10. PICK r : r = Readable(role, problem, results)
  OBVIOUS
<1>11. r = [status |-> "READABLE", role |-> role, rows |-> rows, issues |-> own \cup extra,
            ai |-> FALSE]
  BY <1>3, <1>5, <1>7, <1>9, <1>10 DEF Readable, Extracted
<1>12. /\ IsResult(r) /\ r.status = "READABLE" /\ r.role = role /\ r.ai = FALSE
       /\ r.issues = own \cup extra /\ \A key \in Fields : r.rows[key] \in RowType
  BY <1>2, <1>9, <1>11 DEF IsResult
<1>13. r \in ResultType
  <2>1. r.status \in DocStatus /\ r.role \in Role \cup {"none"} /\ r.ai \in BOOLEAN
    BY <1>12 DEF DocStatus, RoleTyped
  <2>2. r.issues \subseteq Issue
    BY <1>6, <1>8, <1>12
  <2> QED BY <1>12, <2>1, <2>2, ResultTyped
<1>14. Explained(r)
  BY <1>6, <1>8, <1>12 DEF Explained
<1> QED BY <1>1, <1>10, <1>12, <1>13, <1>14 DEF TypedResult

LEMMA FirstTyped ==
  ASSUME NEW input \in Inputs
  PROVE  TypedResult(FirstReading[input])
PROOF
<1> DEFINE file == input.file
           problem == FileProblem(file)
<1>1. FirstReading[input] = ExtractDocument(file, input.expected)
  BY DEF FirstReading
<1>2. CASE problem # NoProblem
  <2>1. PICK status : status = IF problem.rejected THEN "REJECTED" ELSE "FAILED"
    OBVIOUS
  <2>2. status \in DocStatus
    BY <2>1 DEF DocStatus
  <2>3. problem.code \in FileIssues
    BY <1>2, FileChecked
  <2>4. ExtractDocument(file, input.expected) = Unreadable(status, problem.code)
    BY <1>2, <2>1 DEF ExtractDocument
  <2> HIDE DEF problem
  <2>5. PICK code : code = problem.code
    OBVIOUS
  <2> QED BY <1>1, <2>2, <2>3, <2>4, <2>5, UnreadableTyped
<1>3. CASE problem = NoProblem /\ ~Usable(file.units)
  <2>1. PICK code :
          code = IF file.suffix = "pdf" THEN "VISUAL_REVIEW_REQUIRED" ELSE "NO_USABLE_TEXT"
    OBVIOUS
  <2>2. code \in FileIssues /\ "NO_USABLE_TEXT" \in DocStatus
    BY <2>1 DEF FileIssues, DocStatus
  <2>3. ExtractDocument(file, input.expected) = Unreadable("NO_USABLE_TEXT", code)
    BY <1>3, <2>1 DEF ExtractDocument
  <2> QED BY <1>1, <2>2, <2>3, UnreadableTyped
<1>4. CASE problem = NoProblem /\ Usable(file.units)
  <2>1. PICK role, trouble : role = DetectRole(file.units).role
                             /\ trouble = RoleProblem(file.units, input.expected)
    OBVIOUS
  <2>2. RoleTyped(role, trouble)
    BY <2>1, RoleIsTyped
  <2>3. ExtractDocument(file, input.expected)
          = Readable(role, trouble, FieldResults(Candidates(file.units)))
    BY <1>4, <2>1 DEF ExtractDocument
  <2> QED BY <1>1, <2>2, <2>3, ReadableTyped
<1> QED BY <1>2, <1>3, <1>4

LEMMA TooLargeTyped ==
  ASSUME NEW result, TypedResult(result)
  PROVE  TypedResult(InputTooLarge(result))
PROOF
<1>1. PICK r : r = InputTooLarge(result)
  OBVIOUS
<1>2. PICK issue : issue = IssueOn("AI_INPUT_TOO_LARGE", NoField)
  OBVIOUS
<1>3. issue \in Issue /\ issue.field = NoField
  BY <1>2, IssueTyped DEF ReaderIssues
<1>4. r = [status |-> result.status, role |-> result.role, rows |-> result.rows,
           issues |-> result.issues \cup {issue}, ai |-> result.ai]
  BY <1>1, <1>2 DEF InputTooLarge, TypedResult, IsResult
<1>5. IsResult(r)
  BY <1>4 DEF TypedResult, IsResult
<1>6. r \in ResultType
  BY <1>3, <1>4 DEF TypedResult, ResultType
<1>7. Explained(r)
  BY <1>3, <1>4 DEF TypedResult, Explained
<1> QED BY <1>1, <1>5, <1>6, <1>7 DEF TypedResult

\* A text of Gemini is normalized under the plain name of its field.
LEMMA ReviewExplains ==
  ASSUME NEW key \in Fields, NEW raw \in Seq(Text), NEW n, n = NormalReview(key, raw)
  PROVE  Explains(n)
PROOF
<1>1. PICK c : c = Candidate(0, PlainLabel(key), raw, {}, FALSE, FALSE)
  OBVIOUS
<1>2. PICK line : line = PlainLabel(key)
  OBVIOUS
<1>3. line \in Line
  BY <1>2 DEF PlainLabel, Line, LineKind, Measure
<1>4. c.line = line /\ c.raw = raw
  BY <1>1, <1>2 DEF Candidate
<1>5. n = Normal(key, c)
  BY <1>1 DEF NormalReview
<1> QED BY <1>3, <1>4, <1>5, NormalExplains

LEMMA TextRowTyped ==
  ASSUME NEW answer \in TextAnswers, NEW item \in answer
  PROVE  item.field \in Fields /\ TextRow(item) \in RowType
PROOF
<1>1. item \in TextCandidate
  BY JobsAssumption
<1>2. item.field \in Fields /\ item.raw \in Seq(Text) /\ item.unit \in Nat
      /\ item.reflowed \in BOOLEAN
  BY <1>1 DEF TextCandidate
<1>3. PICK n : n = NormalReview(item.field, item.raw)
  OBVIOUS
<1>4. n.state \in ValueState
  BY <1>2, <1>3, ReviewExplains DEF Explains
<1>5. n.norm \in NormalValue
  BY <1>3, ValuesAssumption DEF NormalValue
<1>6. PICK cites : cites = {Cite(item.unit, ~item.reflowed, TRUE)}
  OBVIOUS
<1>7. cites \in SUBSET CiteType
  BY <1>2, <1>6 DEF Cite, CiteType
<1>8. PICK needs \in BOOLEAN : needs = (n.state # "PRESENT")
  OBVIOUS
<1>9. "gemini_text" \in Method
  BY DEF Method
<1>10. Row(n, "gemini_text", needs, cites) \in RowType
  BY <1>4, <1>5, <1>7, <1>9, RowTyped
<1>11. TextRow(item) = Row(n, "gemini_text", needs, cites)
  BY <1>3, <1>6, <1>8 DEF TextRow
<1> QED BY <1>2, <1>10, <1>11

LEMMA TextTyped ==
  ASSUME NEW result, TypedResult(result), NEW answer \in TextAnswers, NEW units
  PROVE  TypedResult(ApplyText(result, answer, units))
PROOF
<1> DEFINE given == {item \in answer : item.raw # <<>>}
           found == {item \in given : Verified(item, units)}
           fields == {item.field : item \in given}
           itemOf(key) == CHOOSE item \in found : item.field = key
           unsure == {item \in found : TextRow(item).needs}
           has(key) == \E item \in found : item.field = key
           lost == {IssueOn("AI_QUOTE_UNVERIFIED", item.field) : item \in given \ found}
           doubts == {IssueOn("AI_TEXT_REVIEW_REQUIRED", item.field) : item \in unsure}
           issues == {issue \in result.issues : issue.field \notin fields} \cup lost \cup doubts
           rows == [key \in Fields |-> IF has(key) THEN TextRow(itemOf(key)) ELSE result.rows[key]]
<1>1. PICK r : r = ApplyText(result, answer, units)
  OBVIOUS
<1>2. IsResult(result) /\ result \in ResultType
  BY DEF TypedResult
<1>3. r = [result EXCEPT !.rows = rows, !.issues = issues, !.ai = TRUE]
  BY <1>1 DEF ApplyText
<1>4. ASSUME NEW key \in Fields
      PROVE  rows[key] \in RowType
  <2>1. CASE has(key)
    <3>1. itemOf(key) \in found
      BY <2>1
    <3>2. PICK item : item = itemOf(key)
      OBVIOUS
    <3>3. item \in answer
      BY <3>1, <3>2
    <3>4. TextRow(item) \in RowType
      BY <3>3, TextRowTyped
    <3>5. rows[key] = TextRow(itemOf(key))
      BY <2>1
    <3> HIDE DEF itemOf, rows
    <3> QED BY <3>2, <3>4, <3>5
  <2>2. CASE ~has(key)
    BY <1>2, <2>2 DEF ResultType
  <2> QED BY <2>1, <2>2
<1>5. issues \subseteq Issue
  <2>1. ASSUME NEW item \in answer, NEW code \in ReaderIssues
        PROVE  IssueOn(code, item.field) \in Issue
    <3>1. item.field \in Fields
      BY TextRowTyped
    <3>2. PICK field : field = item.field
      OBVIOUS
    <3> QED BY <3>1, <3>2, IssueTyped
  <2>2. "AI_QUOTE_UNVERIFIED" \in ReaderIssues /\ "AI_TEXT_REVIEW_REQUIRED" \in ReaderIssues
    BY DEF ReaderIssues
  <2>3. lost \subseteq Issue
    BY <2>1, <2>2
  <2>4. doubts \subseteq Issue
    BY <2>1, <2>2
  <2>5. result.issues \subseteq Issue
    BY <1>2 DEF ResultType
  <2> QED BY <2>3, <2>4, <2>5
<1>6. rows \in [Fields -> RowType] /\ rows = [key \in Fields |-> rows[key]]
  BY <1>4
<1> HIDE DEF rows, issues
<1>7. r = [status |-> result.status, role |-> result.role, rows |-> rows, issues |-> issues,
           ai |-> TRUE]
  BY <1>2, <1>3 DEF IsResult
<1>8. IsResult(r) /\ r.ai = TRUE
  BY <1>6, <1>7 DEF IsResult
<1>9. r \in ResultType
  BY <1>2, <1>5, <1>6, <1>7 DEF ResultType
<1> QED BY <1>1, <1>8, <1>9 DEF TypedResult, Explained

LEMMA VisionRowTyped ==
  ASSUME NEW answer \in VisionAnswers, NEW key \in Fields
  PROVE  VisionRow(key, answer.fields[key]) \in RowType
PROOF
<1>1. answer \in VisionAnswer
  BY JobsAssumption
<1>2. PICK item : item = answer.fields[key]
  OBVIOUS
<1>3. item.raw \in Seq(Text) /\ item.page \in Nat
  BY <1>1, <1>2 DEF VisionAnswer
<1>4. "gemini_vision" \in Method
  BY DEF Method
<1>5. CASE item.raw = <<>>
  <2>1. \A state, problem : /\ Unresolved(state, problem).state = state
                            /\ Unresolved(state, problem).norm = NoValue
    BY DEF Unresolved
  <2>2. PICK n : n = Unresolved("MISSING", "")
    OBVIOUS
  <2>3. n.state = "MISSING" /\ n.norm = NoValue
    BY <2>1, <2>2, Zenon
  <2>4. VisionRow(key, item) = Row(n, "gemini_vision", TRUE, {})
    BY <1>5, <2>2 DEF VisionRow
  <2>5. n.state \in ValueState /\ n.norm \in NormalValue
    BY ONLY <2>3 DEF ValueState, NormalValue
  <2>6. {} \in SUBSET CiteType
    OBVIOUS
  <2>7. Row(n, "gemini_vision", TRUE, {}) \in RowType
    BY <1>4, <2>5, <2>6, RowTyped
  <2> QED BY <1>2, <2>4, <2>7
<1>6. CASE item.raw # <<>>
  <2>1. PICK n : n = NormalReview(key, item.raw)
    OBVIOUS
  <2>2. n.state \in ValueState
    BY <1>3, <2>1, ReviewExplains DEF Explains
  <2>3. n.norm \in NormalValue
    BY <1>2, <2>1, ValuesAssumption DEF NormalValue
  <2>4. PICK cites : cites = {Cite(item.page, FALSE, FALSE)}
    OBVIOUS
  <2>5. cites \in SUBSET CiteType
    BY <1>3, <2>4 DEF Cite, CiteType
  <2>6. VisionRow(key, item) = Row(n, "gemini_vision", TRUE, cites)
    BY <1>6, <2>1, <2>4 DEF VisionRow
  <2> QED BY <1>2, <1>4, <2>2, <2>3, <2>5, <2>6, RowTyped
<1> QED BY <1>5, <1>6

LEMMA VisionTyped ==
  ASSUME NEW result, TypedResult(result), NEW answer \in VisionAnswers, NEW expected
  PROVE  TypedResult(ApplyVision(result, answer, expected))
PROOF
<1> DEFINE code(key) == IF answer.fields[key].raw = <<>> THEN "AI_CANDIDATE_MISSING"
                        ELSE "AI_CONFIRMATION_REQUIRED"
           rows == [key \in Fields |-> VisionRow(key, answer.fields[key])]
           asked == {IssueOn(code(key), key) : key \in Fields}
           unknown == When(answer.role = "none", {IssueOn("UNKNOWN_DOCUMENT_ROLE", NoField)})
           other == When(answer.role # "none" /\ expected # "none" /\ answer.role # expected,
                         {IssueOn("DOCUMENT_ROLE_MISMATCH", NoField)})
           issues == asked \cup unknown \cup other
<1>1. PICK r : r = ApplyVision(result, answer, expected)
  OBVIOUS
<1>2. IsResult(result) /\ result \in ResultType
  BY DEF TypedResult
<1>3. r = [result EXCEPT !.role = answer.role, !.rows = rows, !.issues = issues, !.ai = TRUE]
  BY <1>1 DEF ApplyVision
<1>4. rows \in [Fields -> RowType] /\ rows = [key \in Fields |-> rows[key]]
  BY VisionRowTyped
<1>5. answer.role \in Role \cup {"none"}
  <2>1. answer \in VisionAnswer
    BY JobsAssumption
  <2> QED BY <2>1 DEF VisionAnswer
<1>6. issues \subseteq Issue
  <2>1. ASSUME NEW key \in Fields PROVE IssueOn(code(key), key) \in Issue
    <3>1. code(key) \in ReaderIssues
      BY DEF ReaderIssues
    <3> HIDE DEF code
    <3>2. PICK c : c = code(key)
      OBVIOUS
    <3> QED BY <3>1, <3>2, IssueTyped
  <2>2. "UNKNOWN_DOCUMENT_ROLE" \in RoleIssues /\ "DOCUMENT_ROLE_MISMATCH" \in RoleIssues
    BY DEF RoleIssues
  <2>3. IssueOn("UNKNOWN_DOCUMENT_ROLE", NoField) \in Issue
        /\ IssueOn("DOCUMENT_ROLE_MISMATCH", NoField) \in Issue
    BY <2>2, IssueTyped
  <2>4. unknown \subseteq Issue /\ other \subseteq Issue
    BY <2>3 DEF When
  <2>5. asked \subseteq Issue
    BY <2>1
  <2> QED BY <2>4, <2>5
<1> HIDE DEF rows, issues
<1>7. r = [status |-> result.status, role |-> answer.role, rows |-> rows, issues |-> issues,
           ai |-> TRUE]
  BY <1>2, <1>3 DEF IsResult
<1>8. IsResult(r) /\ r.ai = TRUE
  BY <1>4, <1>7 DEF IsResult
<1>9. r \in ResultType
  BY <1>2, <1>4, <1>5, <1>6, <1>7 DEF ResultType
<1> QED BY <1>1, <1>8, <1>9 DEF TypedResult, Explained

\* What an upload says when it is refused is a code of the interface.
Codes == Refusals \cup {""}
UploadTyped == upload # NoUpload => upload.code \in Codes

LEMMA RefusalsAreCodes == Refusals \subseteq Codes /\ "" \in Codes
PROOF BY Zenon DEF Codes

LEMMA RefusedSays ==
  ASSUME NEW u, NEW code \in Refusals,
         u = [offer |-> u.offer, state |-> u.state, code |-> u.code,
              received |-> u.received, spooled |-> u.spooled]
  PROVE  Refused(u, code).code \in Codes
PROOF BY RefusalsAreCodes DEF Refused

LEMMA ReceiptTyped == UploadInv /\ UploadTyped /\ Receive => UploadTyped'
PROOF
<1> SUFFICES ASSUME UploadInv, UploadTyped, Receive PROVE UploadTyped'
  OBVIOUS
<1>1. CASE OpenUpload
  <2>1. PICK offer \in Offers :
          LET opened == [offer |-> offer, state |-> "open", code |-> "", received |-> 0,
                         spooled |-> 0]
          IN upload' = IF offer.declared < -1 THEN Refused(opened, "INVALID_LENGTH")
                       ELSE IF offer.declared > RequestLimit
                       THEN Refused(opened, "REQUEST_TOO_LARGE")
                       ELSE IF offer.form = "no_multipart"
                       THEN Refused(opened, "MULTIPART_REQUIRED") ELSE opened
    BY <1>1 DEF OpenUpload
  <2>2. PICK none : none = "" /\ none \in Codes
    BY RefusalsAreCodes, Zenon
  <2>3. PICK opened : opened = [offer |-> offer, state |-> "open", code |-> none,
                                received |-> 0, spooled |-> 0]
    OBVIOUS
  <2>4. upload' \in {Refused(opened, "INVALID_LENGTH"), Refused(opened, "REQUEST_TOO_LARGE"),
                     Refused(opened, "MULTIPART_REQUIRED"), opened}
    BY <2>1, <2>2, <2>3, Zenon
  <2>5. opened.code \in Codes
    BY ONLY <2>2, <2>3
  <2>6. \A code \in Refusals : Refused(opened, code).code \in Codes
    BY ONLY <2>3, RefusalsAreCodes DEF Refused
  <2>7. {"INVALID_LENGTH", "REQUEST_TOO_LARGE", "MULTIPART_REQUIRED"} \subseteq Refusals
    BY DEF Refusals
  <2> QED BY ONLY <2>4, <2>5, <2>6, <2>7 DEF UploadTyped
<1>2. CASE ReceivePiece
  <2>1. upload.state = "open" /\ upload # NoUpload
    BY <1>2, NothingYet DEF ReceivePiece
  <2>2. PICK bytes : upload' = Received(upload, bytes)
    BY <1>2 DEF ReceivePiece
  <2>3. upload = [offer |-> upload.offer, state |-> upload.state, code |-> upload.code,
                  received |-> upload.received, spooled |-> upload.spooled]
    BY <2>1 DEF UploadInv
  <2>4. \/ \E u, code : code \in {"REQUEST_TOO_LARGE", "FILE_TOO_LARGE"}
             /\ u = [upload EXCEPT !.received = upload.received + bytes]
             /\ upload' = Refused(u, code)
        \/ \E body, file : upload' = [upload EXCEPT !.received = body, !.spooled = file]
    BY <2>2 DEF Received
  <2>5. CASE \E body, file : upload' = [upload EXCEPT !.received = body, !.spooled = file]
    BY ONLY <2>1, <2>3, <2>5, UploadTyped DEF UploadTyped
  <2>6. CASE \E u, code : code \in {"REQUEST_TOO_LARGE", "FILE_TOO_LARGE"}
               /\ u = [upload EXCEPT !.received = upload.received + bytes]
               /\ upload' = Refused(u, code)
    <3>1. PICK u, code : /\ code \in {"REQUEST_TOO_LARGE", "FILE_TOO_LARGE"}
                         /\ u = [upload EXCEPT !.received = upload.received + bytes]
                         /\ upload' = Refused(u, code)
      BY <2>6
    <3>2. code \in Refusals
      BY <3>1 DEF Refusals
    <3>3. u = [offer |-> u.offer, state |-> u.state, code |-> u.code,
               received |-> u.received, spooled |-> u.spooled]
      BY ONLY <2>3, <3>1
    <3> QED BY <3>1, <3>2, <3>3, RefusedSays DEF UploadTyped
  <2> QED BY <2>4, <2>5, <2>6
<1>3. CASE EndOfBody
  <2>1. upload.state = "open" /\ upload # NoUpload
    BY <1>3, NothingYet DEF EndOfBody
  <2>2. upload = [offer |-> upload.offer, state |-> upload.state, code |-> upload.code,
                  received |-> upload.received, spooled |-> upload.spooled]
    BY <2>1 DEF UploadInv
  <2>3. FormProblem(upload) # "" => FormProblem(upload) \in Refusals
    BY Zenon DEF FormProblem, Refusals
  <2>4. \/ \E code \in Refusals : upload' = Refused(upload, code)
        \/ upload' = [upload EXCEPT !.state = "accepted"]
    BY <1>3, <2>3, Zenon DEF EndOfBody
  <2>5. CASE \E code \in Refusals : upload' = Refused(upload, code)
    BY <2>2, <2>5, RefusedSays DEF UploadTyped
  <2>6. CASE upload' = [upload EXCEPT !.state = "accepted"]
    BY <2>1, <2>2, <2>6 DEF UploadTyped
  <2> QED BY <2>4, <2>5, <2>6
<1> QED BY <1>1, <1>2, <1>3 DEF Receive

\* The receipt of an upload changes in its own steps, or ends.
LEMMA UploadSteps == [Next]_vars => Receive \/ upload' = NoUpload \/ UNCHANGED upload
PROOF
<1> SUFFICES ASSUME [Next]_vars PROVE Receive \/ upload' = NoUpload \/ UNCHANGED upload
  OBVIOUS
<1>1. CASE UNCHANGED vars
  BY <1>1 DEF vars
<1>2. AcceptRun => upload' = NoUpload
  BY DEF AcceptRun
<1>3. Executor => UNCHANGED upload
  BY DEF Executor, StoreUpload, Prepare, NextDocument, BeginRead, EndRead, StartWorker,
         CallReturns, Consult, TextAnswered, VisionAnswered, AIFails, EndDocument, Conclude,
         Analyze, FinishRun, FailRun, Stays
<1>4. Consumer \/ ObserveFails \/ ReaderThread \/ TimerThread \/ WorkerProcess \/ WorkerFails
        => UNCHANGED upload
  BY DEF Consumer, Observe, ConsumerStep, ObserveFails, ReaderThread, TimerThread,
         WorkerProcess, WorkerFails, Stays, MishapStays
<1>5. SaveFails \/ FailRunFails \/ CheckRecording \/ Poll \/ RunDeadline \/ Stop \/ Down
        \/ Restart => UNCHANGED upload
  BY DEF SaveFails, FailRunFails, CheckRecording, Poll, RunDeadline, Stop, Down, Restart,
         Stays, MishapStays
<1> QED BY <1>1, <1>2, <1>3, <1>4, <1>5 DEF Next

LEMMA UploadTypeNext == UploadInv /\ UploadTyped /\ [Next]_vars => UploadTyped'
PROOF BY ReceiptTyped, UploadSteps DEF UploadTyped

LEMMA UploadIsTyped == UploadInv /\ UploadTyped => upload \in Upload \cup {NoUpload}
PROOF
<1>1. Upload = [offer : Offers, state : {"open", "refused", "accepted"}, code : Codes,
                received : Nat, spooled : Nat]
  BY Zenon DEF Upload, Codes
<1> QED BY <1>1 DEF UploadInv, UploadTyped
-----------------------------------------------------------------------------
\* The backend.
EnvTyped ==
  /\ env.up \in BOOLEAN /\ env.stopping \in BOOLEAN /\ env.late \in BOOLEAN /\ env.left \in Nat

LEMMA EnvSteps ==
  [Next]_vars =>
    \/ UNCHANGED env \/ Mishap \/ Restart
    \/ env.left > 0 /\ env' = [env EXCEPT !.late = TRUE, !.left = @ - 1]
    \/ env.left > 0 /\ env' = [env EXCEPT !.stopping = TRUE, !.left = @ - 1]
    \/ env' = [env EXCEPT !.up = FALSE]
PROOF
<1> SUFFICES ASSUME [Next]_vars
             PROVE  \/ UNCHANGED env \/ Mishap \/ Restart
                    \/ env.left > 0 /\ env' = [env EXCEPT !.late = TRUE, !.left = @ - 1]
                    \/ env.left > 0 /\ env' = [env EXCEPT !.stopping = TRUE, !.left = @ - 1]
                    \/ env' = [env EXCEPT !.up = FALSE]
  OBVIOUS
<1>1. CASE UNCHANGED vars
  BY <1>1 DEF vars
<1>2. CASE RunDeadline \/ Stop
  BY <1>2 DEF RunDeadline, Stop
<1>3. CASE Down
  BY <1>3 DEF Down
<1>4. ObserveFails \/ WorkerFails \/ SaveFails => Mishap
  BY DEF ObserveFails, WorkerFails, SaveFails, MishapStays
<1>5. Executor => UNCHANGED env
  BY DEF Executor, StoreUpload, Prepare, NextDocument, BeginRead, EndRead, StartWorker,
         CallReturns, Consult, TextAnswered, VisionAnswered, AIFails, EndDocument, Conclude,
         Analyze, FinishRun, FailRun, Stays
<1>6. Consumer \/ ReaderThread \/ TimerThread \/ WorkerProcess \/ Receive \/ AcceptRun
        \/ FailRunFails \/ CheckRecording \/ Poll => UNCHANGED env
  BY DEF Consumer, Observe, ConsumerStep, ReaderThread, TimerThread, WorkerProcess, Receive,
         AcceptRun, FailRunFails, CheckRecording, Poll, Stays
<1> QED BY <1>1, <1>2, <1>3, <1>4, <1>5, <1>6 DEF Next

LEMMA EnvTypeNext == RecordInv /\ EnvTyped /\ [Next]_vars => EnvTyped'
PROOF
<1> SUFFICES ASSUME IsEnv(env), EnvTyped, [Next]_vars PROVE EnvTyped'
  BY DEF RecordInv
<1>1. CASE UNCHANGED env
  BY <1>1 DEF EnvTyped
<1>2. CASE Mishap
  BY <1>2 DEF Mishap, EnvTyped, IsEnv
<1>3. CASE Restart
  BY <1>3 DEF Restart, EnvTyped, IsEnv
<1>4. CASE env.left > 0 /\ env' = [env EXCEPT !.late = TRUE, !.left = @ - 1]
  BY ONLY <1>4, IsEnv(env), EnvTyped DEF EnvTyped, IsEnv
<1>5. CASE env.left > 0 /\ env' = [env EXCEPT !.stopping = TRUE, !.left = @ - 1]
  BY ONLY <1>5, IsEnv(env), EnvTyped DEF EnvTyped, IsEnv
<1>6. CASE env' = [env EXCEPT !.up = FALSE]
  BY <1>6 DEF EnvTyped, IsEnv
<1> QED BY <1>1, <1>2, <1>3, <1>4, <1>5, <1>6, EnvSteps

LEMMA EnvStart == Init => EnvTyped
PROOF BY JobsAssumption DEF Init, EnvTyped

LEMMA EnvIsTyped ==
  RecordInv /\ EnvTyped =>
    env \in [job : Jobs, up : BOOLEAN, stopping : BOOLEAN, late : BOOLEAN, left : Nat]
PROOF BY DEF RecordInv, EnvTyped, IsEnv
-----------------------------------------------------------------------------
\* The call of a worker, from its first line to the end of its threads.
CallTypeInv == call # NoCall => CallTyped(call)

LEMMA CallTypeNext == RecordInv /\ CallsInv /\ CallTypeInv /\ [Next]_vars => CallTypeInv'
PROOF
<1> SUFFICES ASSUME RecordInv, CallsInv, CallTypeInv, UNCHANGED call \/ CallStep
             PROVE  CallTypeInv'
  BY StepsOfCalls
<1>1. CASE UNCHANGED call \/ call' \in {NewCall, NoCall}
  BY <1>1, NewCallTyped DEF CallTypeInv
<1>2. CASE call = NoCall
  BY <1>1, <1>2 DEF CallStep, ConsumerObserves, ConsumerStops, ConsumerTakes, ConsumerWaits,
         ConsumerDecides, ConsumerCloses, ConsumerJoins, ReaderSteps, TimerSteps, WorkerSteps,
         WorkerFaults, Taking, Calling, ReaderReads, ReaderPuts, ReaderEnds, TimerExpires,
         TimerKills, WorkerWrites, WorkerCloses, WorkerExits, WorkerRaises, WorkerDies,
         WorkerOverflows, ReaderKills
<1>3. CASE call # NoCall
  <2>1. Shape(call) /\ CallTyped(call)
    BY <1>3 DEF CallsInv, CallTypeInv, OutcomeInv
  <2>2. CASE \/ \E ok \in BOOLEAN : ConsumerObserves(ok)
             \/ ConsumerStops \/ ConsumerTakes
             \/ \E stopping : ConsumerWaits(stopping)
             \/ ConsumerDecides \/ ConsumerCloses \/ ConsumerJoins
    BY <2>1, <2>2, ConsumerTyped DEF CallTypeInv
  <2>3. CASE ReaderSteps
    BY <2>1, <2>3, ReaderTyped DEF CallTypeInv
  <2>4. CASE TimerSteps
    BY <2>1, <2>4, TimerTyped DEF CallTypeInv
  <2>5. ASSUME NEW script, WorkerSteps(script) \/ WorkerFaults(script) PROVE CallTypeInv'
    BY <2>1, <2>5, WorkerTyped DEF CallTypeInv
  <2> QED BY <1>1, <2>2, <2>3, <2>4, <2>5 DEF CallStep
<1> QED BY <1>2, <1>3

LEMMA CallsAreTyped == CallsInv /\ CallTypeInv => call \in Call \cup {NoCall}
PROOF BY CallIsTyped DEF CallsInv, CallTypeInv
-----------------------------------------------------------------------------
\* The page.
PollTyped ==
  /\ poll.finished \in BOOLEAN
  /\ poll.page # NoPage =>
       /\ poll.page = [items |-> poll.page.items, more |-> poll.page.more,
                       next |-> poll.page.next, status |-> poll.page.status]
       /\ poll.page.more \in BOOLEAN /\ poll.page.status \in RunStatus

LEMMA PollTypeNext ==
  PollInv /\ PollTyped /\ (exec.at # "idle" => saved.status \in RunStatus) /\ RecordInv
    /\ [Next]_vars => PollTyped'
PROOF
<1> SUFFICES ASSUME PollInv, PollTyped, exec.at # "idle" => saved.status \in RunStatus,
                    RecordInv, UNCHANGED poll \/ Poll
             PROVE  PollTyped'
  BY PollSteps
<1>1. IsPoll(poll)
  BY DEF PollInv
<1>2. CASE Ask
  <2>1. saved.status \in RunStatus
    BY <1>2 DEF Ask, Recorded, RecordInv
  <2>2. Page(poll.cursor) =
          [items |-> Page(poll.cursor).items, more |-> Page(poll.cursor).more,
           next |-> Page(poll.cursor).next, status |-> saved.status]
    BY DEF Page
  <2>3. Page(poll.cursor).more \in BOOLEAN
    BY DEF Page
  <2>4. PICK page : page = Page(poll.cursor)
    OBVIOUS
  <2>5. page.more \in BOOLEAN /\ page.status = saved.status
          /\ page = [items |-> page.items, more |-> page.more, next |-> page.next,
                     status |-> page.status]
    BY ONLY <2>2, <2>3, <2>4
  <2>6. poll' = [poll EXCEPT !.page = page]
    BY <1>2, <2>4 DEF Ask
  <2> QED BY ONLY <1>1, <2>1, <2>5, <2>6, PollTyped DEF PollTyped, IsPoll
<1>3. CASE Take
  <2>1. PICK last \in BOOLEAN : last = (~poll.page.more /\ poll.page.status # "RUNNING")
    OBVIOUS
  <2>2. \E items, cursor :
          poll' = [poll EXCEPT !.items = items, !.cursor = cursor, !.page = NoPage,
                               !.finished = last]
    BY <1>3, <2>1 DEF Take
  <2> QED BY ONLY <1>1, <2>2 DEF PollTyped, IsPoll
<1>4. CASE Lose
  BY ONLY <1>1, <1>4, PollTyped DEF Lose, PollTyped, IsPoll
<1>5. CASE UNCHANGED poll
  BY <1>5 DEF PollTyped
<1> QED BY <1>2, <1>3, <1>4, <1>5 DEF Poll

LEMMA PollIsTyped ==
  PollInv /\ PollTyped /\ TrailInv =>
    poll \in [cursor : Nat, items : SUBSET Nat, finished : BOOLEAN,
              page : {NoPage} \cup [items : SUBSET Nat, more : BOOLEAN, next : Nat,
                                    status : RunStatus]]
PROOF
<1> SUFFICES ASSUME PollInv, PollTyped, TrailInv
             PROVE  poll \in [cursor : Nat, items : SUBSET Nat, finished : BOOLEAN,
                              page : {NoPage} \cup [items : SUBSET Nat, more : BOOLEAN,
                                                    next : Nat, status : RunStatus]]
  OBVIOUS
<1>1. Len(trail) \in Nat
  BY DEF TrailInv
<1>2. poll.cursor \in Nat /\ poll.items \in SUBSET Nat
  BY <1>1 DEF PollInv
<1>3. poll.page # NoPage => poll.page.next \in Nat /\ poll.page.items \in SUBSET Nat
  BY <1>1, <1>2 DEF PollInv, InOrder
<1>4. poll.page \in {NoPage} \cup [items : SUBSET Nat, more : BOOLEAN, next : Nat,
                                  status : RunStatus]
  BY ONLY <1>3, PollTyped DEF PollTyped
<1> QED BY ONLY <1>2, <1>4, PollInv, PollTyped DEF PollInv, PollTyped, IsPoll
-----------------------------------------------------------------------------
(***************************************************************************)
(* The thread of the run.                                                  *)
(***************************************************************************)
DocErrors == RunError \cup {""}
Outcomes == RunStatus \cup {""}
Ending == {"SUCCEEDED", "FAILED", "INTERRUPTED"}

\* A document that is done with has a result or a reason why it has none, a run that
\* is given up always a reason.
ExecTyped(e) ==
  /\ e.at \in ExecAt /\ e.extract \in BOOLEAN
  /\ e.result # NoResult => TypedResult(e.result)
  /\ e.error \in DocErrors /\ e.outcome \in Outcomes
  /\ e.at \in {"failing", "unrecorded"} => e.error \in RunError
  /\ e.at \in {"analyzing", "finishing"} => e.outcome \in Ending
  /\ e.at = "ended" => e.result # NoResult \/ e.error \in GivenUpFor

\* When the observer raises it is known why.
Raising == exec.at = "calling" => call # NoCall /\ (call.raised => exec.error \in RunError)

LEMMA ErrorsAre ==
  /\ GivenUpFor \subseteq RunError /\ RunError \subseteq DocErrors
  /\ {"PROCESSING_FAILED", "AUDIT_SAVE_FAILED"} \subseteq RunError
PROOF BY Zenon DEF RunError, DocErrors

LEMMA OutcomesAre == Ending \subseteq Outcomes
PROOF
<1>1. Ending \subseteq RunStatus
  BY DEF Ending, RunStatus
<1>2. RunStatus \subseteq Outcomes
  BY Zenon DEF Outcomes
<1> QED BY <1>1, <1>2

LEMMA NoneIs == "" \in DocErrors /\ "" \in Outcomes
PROOF BY Zenon DEF DocErrors, Outcomes

\* What Gemini fails with.
LEMMA FailuresAreReasons ==
  ASSUME NEW failure \in Failures PROVE ProviderError(failure) \in GivenUpFor
PROOF BY Zenon DEF GivenUpFor

LEMMA TimeoutIsReason == "AI_TIMEOUT" \in GivenUpFor
PROOF
<1>1. "timeout" \in Failures
  BY DEF Failures
<1>2. ProviderError("timeout") = "AI_TIMEOUT"
  BY DEF ProviderError
<1> QED BY <1>1, <1>2, FailuresAreReasons

LEMMA CallErrorsAreReasons ==
  ASSUME NEW c, CallTyped(c), CallError(c) # ""
  PROVE  CallError(c) \in GivenUpFor
PROOF
<1>1. CallErrors \subseteq GivenUpFor
  BY Zenon DEF CallErrors, GivenUpFor
<1>2. c.error # "" => c.error \in CallErrors
  BY Zenon DEF CallTyped, Reports
<1>3. CallError(c) = c.error \/ CallError(c) = "WORKER_FAILED"
  BY Zenon DEF CallError
<1>4. "WORKER_FAILED" \in CallErrors
  BY DEF CallErrors
<1> QED BY <1>1, <1>2, <1>3, <1>4, Zenon

LEMMA SourceProblemsAreReasons ==
  ASSUME NEW input, SourceProblem(input) # ""
  PROVE  SourceProblem(input) \in GivenUpFor
PROOF
<1>1. DatasetProblem(input) # "" => DatasetProblem(input) \in GivenUpFor
  BY Zenon DEF DatasetProblem, GivenUpFor
<1>2. StoredProblem(input) # "" => StoredProblem(input) \in GivenUpFor
  BY Zenon DEF StoredProblem, GivenUpFor
<1> QED BY <1>1, <1>2, Zenon DEF SourceProblem

LEMMA OthersAreReasons ==
  {"RESOURCE_LIMIT", "RUN_TIMEOUT", "RUN_INTERRUPTED", "ATTACHMENT_UNAVAILABLE"}
    \subseteq GivenUpFor
PROOF BY Zenon DEF GivenUpFor

LEMMA TypedIsResult == ASSUME NEW r, TypedResult(r) PROVE r # NoResult
PROOF
<1>1. "status" \in DOMAIN r
  BY DEF TypedResult, IsResult
<1>2. DOMAIN NoResult = {"none"}
  BY DEF NoResult
<1> QED BY <1>1, <1>2

\* Where the thread goes, in particular where nothing has to be known of it.
Passing == ExecAt \ {"failing", "unrecorded", "analyzing", "finishing", "ended"}

LEMMA GoesTyped ==
  ASSUME IsExec(exec), ExecTyped(exec), NEW at \in Passing, Goes(at)
  PROVE  ExecTyped(exec')
PROOF
<1>1. at \in ExecAt \ {"failing", "unrecorded", "analyzing", "finishing", "ended"}
  BY DEF Passing
<1> QED BY ONLY IsExec(exec), ExecTyped(exec), Goes(at), <1>1 DEF Goes, ExecTyped, IsExec

LEMMA GivesTyped ==
  ASSUME IsExec(exec), ExecTyped(exec), NEW code \in GivenUpFor, Gives(code)
  PROVE  ExecTyped(exec')
PROOF
<1>1. "ended" \in ExecAt
  BY Zenon DEF ExecAt
<1> QED BY ONLY <1>1, ErrorsAre, IsExec(exec), ExecTyped(exec), code \in GivenUpFor, Gives(code)
     DEF Gives, ExecTyped, IsExec

LEMMA FailsTyped ==
  ASSUME IsExec(exec), ExecTyped(exec), NEW code \in RunError, Fails(code)
  PROVE  ExecTyped(exec')
PROOF
<1>1. "failing" \in ExecAt
  BY Zenon DEF ExecAt
<1> QED BY ONLY <1>1, ErrorsAre, IsExec(exec), ExecTyped(exec), code \in RunError, Fails(code)
     DEF Fails, ExecTyped, IsExec

LEMMA ResultComesTyped ==
  ASSUME IsExec(exec), ExecTyped(exec), NEW at \in {"called", "ended"}, NEW result,
         TypedResult(result),
         exec' = [exec EXCEPT !.at = at, !.result = result]
  PROVE  ExecTyped(exec')
PROOF
<1>1. {"called", "ended"} \subseteq ExecAt
  BY Zenon DEF ExecAt
<1> QED BY <1>1, TypedIsResult DEF ExecTyped, IsExec

LEMMA DocumentTyped ==
  ASSUME RecordInv, ReadInv, ExecTyped(exec), CallTypeInv, Raising,
         BeginRead \/ EndRead \/ StartWorker \/ CallReturns \/ Consult
  PROVE  ExecTyped(exec')
PROOF
<1>1. IsExec(exec)
  BY DEF RecordInv
<1>2. {"next", "reading", "ready", "calling", "asking"} \subseteq Passing
  BY Zenon DEF ExecAt, Passing
<1>3. CASE BeginRead
  BY <1>1, <1>2, <1>3, GoesTyped, GivesTyped, OthersAreReasons DEF BeginRead
<1>4. CASE EndRead
  <2>1. \/ SourceProblem(Input) # "" /\ Gives(SourceProblem(Input))
        \/ Gives("RESOURCE_LIMIT") \/ Goes("ready")
    BY <1>4, Zenon DEF EndRead
  <2>2. SourceProblem(Input) # "" => SourceProblem(Input) \in GivenUpFor
    BY SourceProblemsAreReasons, Zenon
  <2>3. (\E code \in GivenUpFor : Gives(code)) \/ Goes("ready")
    BY <2>1, <2>2, OthersAreReasons, Zenon
  <2> QED BY <1>1, <1>2, <2>3, GoesTyped, GivesTyped
<1>5. CASE StartWorker
  <2>1. \/ \E at \in {"next", "calling"} : Goes(at)
        \/ \E code \in {"RUN_TIMEOUT", "ATTACHMENT_UNAVAILABLE"} : Gives(code)
    BY <1>5, Zenon DEF StartWorker
  <2>2. {"next", "calling"} \subseteq Passing
    BY <1>2
  <2>3. {"RUN_TIMEOUT", "ATTACHMENT_UNAVAILABLE"} \subseteq GivenUpFor
    BY OthersAreReasons
  <2> QED BY <1>1, <2>1, <2>2, <2>3, GoesTyped, GivesTyped
<1>6. CASE CallReturns
  <2>1. call # NoCall /\ exec.at = "calling" /\ CallTyped(call)
    BY <1>6 DEF CallReturns, At, Raising, CallTypeInv
  <2>2. \/ call.raised /\ Goes("failing")
        \/ CallError(call) # "" /\ Gives(CallError(call))
        \/ exec' = [exec EXCEPT !.at = "called", !.result = FirstReading[Input]]
    BY <1>6, Zenon DEF CallReturns
  <2>3. CASE call.raised /\ Goes("failing")
    <3>1. Fails(exec.error) /\ exec.error \in RunError
      BY <1>1, <2>1, <2>3 DEF Goes, Fails, Raising, IsExec
    <3> QED BY <1>1, <3>1, FailsTyped
  <2>4. CASE CallError(call) # "" /\ Gives(CallError(call))
    <3>1. CallError(call) \in GivenUpFor
      BY <2>1, <2>4, CallErrorsAreReasons, Zenon
    <3> QED BY ONLY <1>1, ExecTyped(exec), <2>4, <3>1, GivesTyped
  <2>5. CASE exec' = [exec EXCEPT !.at = "called", !.result = FirstReading[Input]]
    <3>1. TypedResult(FirstReading[Input])
      BY <2>1, InputOf, FirstTyped DEF InDocument
    <3> QED BY ONLY <1>1, ExecTyped(exec), <2>5, <3>1, ResultComesTyped
  <2> QED BY <2>2, <2>3, <2>4, <2>5
<1>7. CASE Consult
  <2>1. exec.at = "called"
    BY <1>7 DEF Consult, At
  <2>2. TypedResult(exec.result)
    BY <2>1, InputOf, FirstTyped DEF InDocument, ReadInv
  <2>3. \/ Goes("ended") \/ Gives("AI_TIMEOUT") \/ Goes("asking")
        \/ exec' = [exec EXCEPT !.at = "ended", !.result = InputTooLarge(exec.result)]
    BY <1>7 DEF Consult
  <2>4. CASE Goes("ended")
    <3>1. exec' = [exec EXCEPT !.at = "ended", !.result = exec.result]
      BY <1>1, <2>4 DEF Goes, IsExec
    <3> QED BY <1>1, <2>2, <3>1, ResultComesTyped
  <2>5. CASE exec' = [exec EXCEPT !.at = "ended", !.result = InputTooLarge(exec.result)]
    BY <1>1, <2>2, <2>5, TooLargeTyped, ResultComesTyped
  <2> QED BY <1>1, <1>2, <2>3, <2>4, <2>5, GoesTyped, GivesTyped, TimeoutIsReason
<1> QED BY <1>3, <1>4, <1>5, <1>6, <1>7

LEMMA AnswerTyped ==
  ASSUME RecordInv, ReadInv, ExecTyped(exec), TextAnswered \/ VisionAnswered \/ AIFails
  PROVE  ExecTyped(exec')
PROOF
<1>1. IsExec(exec) /\ exec.at = "asking"
  BY DEF RecordInv, TextAnswered, VisionAnswered, AIFails, At
<1>2. TypedResult(exec.result)
  BY <1>1, InputOf, FirstTyped DEF InDocument, ReadInv
<1>3. "invalid" \in Failures /\ AIFailures \subseteq Failures
  BY JobsAssumption DEF Failures
<1>4. ASSUME NEW failure \in Failures, NEW stage, Unanswered(failure, stage)
      PROVE  ExecTyped(exec')
  BY <1>1, <1>4, GivesTyped, FailuresAreReasons DEF Unanswered
<1>5. ASSUME NEW result, TypedResult(result), NEW stage, Answered(result, stage)
      PROVE  ExecTyped(exec')
  BY <1>1, <1>5, ResultComesTyped DEF Answered
<1>6. CASE TextAnswered
  <2>1. PICK answer \in TextAnswers :
          \/ Answered(ApplyText(exec.result, answer, Input.file.units), "text_provider")
          \/ Unanswered("invalid", "text_provider")
    BY <1>6 DEF TextAnswered
  <2>2. TypedResult(ApplyText(exec.result, answer, Input.file.units))
    BY <1>2, TextTyped
  <2> QED BY <1>3, <1>4, <1>5, <2>1, <2>2
<1>7. CASE VisionAnswered
  <2>1. PICK answer \in VisionAnswers :
          \/ Answered(ApplyVision(exec.result, answer, Input.expected), "vision_provider")
          \/ Unanswered("invalid", "vision_provider")
    BY <1>7 DEF VisionAnswered
  <2>2. TypedResult(ApplyVision(exec.result, answer, Input.expected))
    BY <1>2, VisionTyped
  <2> QED BY <1>3, <1>4, <1>5, <2>1, <2>2
<1>8. CASE AIFails
  <2>1. PICK failure \in AIFailures : \E stage : Unanswered(failure, stage)
    BY <1>8 DEF AIFails
  <2> QED BY <1>3, <1>4, <2>1
<1> QED BY <1>6, <1>7, <1>8

LEMMA IdleTyped == ExecTyped(Idle)
PROOF
<1>1. PICK none : none = "" /\ none \in DocErrors /\ none \in Outcomes
  BY NoneIs, Zenon
<1>2. Idle = [at |-> "idle", n |-> 0, extract |-> TRUE, result |-> NoResult, error |-> none,
              outcome |-> none]
  BY <1>1, Zenon DEF Idle
<1>3. "idle" \in ExecAt
  BY Zenon DEF ExecAt
<1> QED BY ONLY <1>1, <1>2, <1>3 DEF ExecTyped

LEMMA DownTyped ==
  ASSUME exec' = [Idle EXCEPT !.at = "over"]
  PROVE  ExecTyped(exec')
PROOF
<1>1. IsExec(Idle)
  BY Zenon DEF Idle, IsExec
<1>2. "over" \in ExecAt
  BY Zenon DEF ExecAt
<1> QED BY ONLY IdleTyped, exec' = [Idle EXCEPT !.at = "over"], <1>1, <1>2 DEF ExecTyped, IsExec

LEMMA RunTyped ==
  ASSUME IsExec(exec), ExecTyped(exec),
         AcceptRun \/ StoreUpload \/ Prepare \/ NextDocument \/ EndDocument
  PROVE  ExecTyped(exec')
PROOF
<1>1. {"prepare", "storing", "next", "started", "concluding"} \subseteq Passing
  BY Zenon DEF ExecAt, Passing
<1>2. ASSUME NEW at \in Passing, NEW n, exec' = [exec EXCEPT !.at = at, !.n = n]
      PROVE  ExecTyped(exec')
  BY ONLY <1>2, IsExec(exec), ExecTyped(exec) DEF ExecTyped, IsExec, Passing
<1>3. ASSUME NEW at \in Passing, exec' = [exec EXCEPT !.at = at]
      PROVE  ExecTyped(exec')
  BY ONLY <1>3, IsExec(exec), ExecTyped(exec) DEF ExecTyped, IsExec, Passing
<1>4. CASE AcceptRun
  BY <1>1, <1>2, <1>3, <1>4 DEF AcceptRun
<1>5. CASE StoreUpload
  <2>1. UNCHANGED exec \/ exec' = [exec EXCEPT !.at = "prepare", !.n = 0]
    BY <1>5 DEF StoreUpload
  <2> QED BY <1>1, <1>2, <2>1
<1>6. CASE Prepare
  <2>1. \/ Goes("next")
        \/ \E extract \in BOOLEAN : exec' = [exec EXCEPT !.at = "next", !.extract = extract]
        \/ \E failure \in AIFailures : Fails(ProviderError(failure))
    <3>1. \A category : (category = "BL_COMPARISON") \in BOOLEAN
      OBVIOUS
    <3> QED BY <1>6, <3>1, Zenon DEF Prepare
  <2>2. CASE Goes("next")
    BY <1>1, <1>3, <2>2 DEF Goes
  <2>3. CASE \E extract \in BOOLEAN : exec' = [exec EXCEPT !.at = "next", !.extract = extract]
    BY ONLY <1>1, <2>3, IsExec(exec), ExecTyped(exec) DEF ExecTyped, IsExec, Passing
  <2>4. CASE \E failure \in AIFailures : Fails(ProviderError(failure))
    <3>1. PICK failure \in Failures : Fails(ProviderError(failure))
      BY <2>4, JobsAssumption
    <3> QED BY <3>1, FailuresAreReasons, ErrorsAre, FailsTyped
  <2> QED BY <2>1, <2>2, <2>3, <2>4
<1>7. CASE NextDocument
  <2>1. \/ Goes("concluding")
        \/ \E n, none : none = "" /\ exec' = [exec EXCEPT !.at = "started", !.n = n,
                                              !.error = none, !.result = NoResult]
    BY <1>7, Zenon DEF NextDocument
  <2>2. CASE Goes("concluding")
    BY <1>1, <1>3, <2>2 DEF Goes
  <2>3. CASE \E n, none : none = "" /\ exec' = [exec EXCEPT !.at = "started", !.n = n,
                                                !.error = none, !.result = NoResult]
    <3>1. PICK n, none : none \in DocErrors /\ exec' = [exec EXCEPT !.at = "started", !.n = n,
                                                !.error = none, !.result = NoResult]
      BY <2>3, NoneIs, Zenon
    <3> QED BY ONLY <1>1, <3>1, IsExec(exec), ExecTyped(exec) DEF ExecTyped, IsExec, Passing
  <2> QED BY <2>1, <2>2, <2>3
<1>8. CASE EndDocument
  BY <1>1, <1>3, <1>8 DEF EndDocument, Goes
<1> QED BY <1>4, <1>5, <1>6, <1>7, <1>8

LEMMA EndTyped ==
  ASSUME IsExec(exec), ExecTyped(exec),
         \/ Conclude \/ Analyze \/ FinishRun \/ FailRun \/ FailRunFails \/ CheckRecording
         \/ SaveFails \/ Down
  PROVE  ExecTyped(exec')
PROOF
<1>1. {"analyzing", "over", "unrecorded", "finishing", "failing"} \subseteq ExecAt
  BY Zenon DEF ExecAt
<1>2. {"PROCESSING_FAILED", "AUDIT_SAVE_FAILED"} \subseteq RunError
  BY Zenon DEF RunError
<1>3. ASSUME NEW at \in {"analyzing", "finishing"}, NEW outcome \in Ending,
             exec' = [exec EXCEPT !.at = at, !.outcome = outcome]
      PROVE  ExecTyped(exec')
  <2>1. outcome \in Outcomes
    BY OutcomesAre, Zenon
  <2> QED BY ONLY <1>1, <1>3, <2>1, IsExec(exec), ExecTyped(exec) DEF ExecTyped, IsExec
<1>4. CASE Conclude
  <2>1. \E at \in {"analyzing", "finishing"}, outcome \in Ending :
          exec' = [exec EXCEPT !.at = at, !.outcome = outcome]
    <3>1. PICK at, outcome :
            /\ at = IF Job.kind = "mailbox_email" THEN "analyzing" ELSE "finishing"
            /\ outcome = IF env.stopping THEN "INTERRUPTED"
                         ELSE IF \E i \in DOMAIN saved.docs : saved.docs[i].status = "FAILED"
                         THEN "FAILED" ELSE "SUCCEEDED"
      OBVIOUS
    <3>2. exec' = [exec EXCEPT !.at = at, !.outcome = outcome]
      BY <1>4, <3>1, Zenon DEF Conclude
    <3> QED BY ONLY <3>1, <3>2 DEF Ending
  <2> QED BY <1>3, <2>1
<1>5. CASE Analyze
  <2>1. exec.at = "analyzing"
    BY <1>5 DEF Analyze, At
  <2>2. CASE Goes("finishing")
    BY ONLY <1>1, <2>1, <2>2, IsExec(exec), ExecTyped(exec) DEF Goes, ExecTyped, IsExec
  <2>3. CASE Fails("PROCESSING_FAILED")
    BY <1>2, <2>3, FailsTyped
  <2>4. CASE \E outcome \in Ending : exec' = [exec EXCEPT !.at = "finishing", !.outcome = outcome]
    BY <1>3, <2>4
  <2>5. (IF \E i \in DOMAIN saved.docs : saved.docs[i].error # "" THEN "FAILED" ELSE "SUCCEEDED")
          \in Ending
    BY Zenon DEF Ending
  <2> QED BY <1>5, <2>2, <2>3, <2>4, <2>5, Zenon DEF Analyze
<1>6. CASE FinishRun \/ FailRun \/ CheckRecording
  <2>1. exec' = [exec EXCEPT !.at = "over"]
    BY <1>6 DEF FinishRun, FailRun, CheckRecording, Goes
  <2> QED BY ONLY <1>1, <2>1, IsExec(exec), ExecTyped(exec) DEF ExecTyped, IsExec
<1>7. CASE FailRunFails
  BY ONLY <1>1, <1>2, <1>7, ErrorsAre, IsExec(exec), ExecTyped(exec)
     DEF FailRunFails, ExecTyped, IsExec
<1>8. CASE SaveFails
  BY <1>2, <1>8, FailsTyped DEF SaveFails
<1>9. CASE Down
  BY <1>9, DownTyped DEF Down
<1> QED BY <1>4, <1>5, <1>6, <1>7, <1>8, <1>9

\* Only the observer makes the call raise.
LEMMA RaisedStays ==
  ASSUME IsCall(call), NEW script,
         \/ ConsumerStops \/ ConsumerTakes \/ (\E stopping : ConsumerWaits(stopping))
         \/ ConsumerDecides \/ ConsumerCloses \/ ConsumerJoins
         \/ ReaderSteps \/ TimerSteps \/ WorkerSteps(script) \/ WorkerFaults(script)
  PROVE  call'.raised = call.raised
PROOF
<1>1. CASE ConsumerStops \/ ConsumerJoins
  BY ONLY <1>1, IsCall(call) DEF ConsumerStops, ConsumerJoins, IsCall
<1>2. CASE ConsumerTakes
  <2>1. CASE call' = [call EXCEPT !.queue = Tail(@), !.got = Head(call.queue).at]
    BY ONLY <2>1, IsCall(call) DEF IsCall
  <2>2. CASE call' = [call EXCEPT !.queue = Tail(@), !.error = "WORKER_FAILED"]
    BY ONLY <2>2, IsCall(call) DEF IsCall
  <2>3. CASE call' = [call EXCEPT !.queue = Tail(@), !.error = "INVALID_WORKER_OUTPUT",
                                  !.consumer = "deciding"]
    BY ONLY <2>3, IsCall(call) DEF IsCall
  <2>4. CASE call' = [call EXCEPT !.queue = Tail(@),
                        !.consumer = IF call.error = "" THEN "waiting" ELSE "deciding"]
    <3>1. PICK consumer : consumer = IF call.error = "" THEN "waiting" ELSE "deciding"
      OBVIOUS
    <3>2. call' = [call EXCEPT !.queue = Tail(@), !.consumer = consumer]
      BY <2>4, <3>1, Zenon
    <3> QED BY ONLY <3>2, IsCall(call) DEF IsCall
  <2> QED BY <1>2, <2>1, <2>2, <2>3, <2>4, Zenon DEF ConsumerTakes
<1>3. CASE \E stopping : ConsumerWaits(stopping)
  BY ONLY <1>3, IsCall(call) DEF ConsumerWaits, IsCall
<1>4. CASE ConsumerDecides
  BY ONLY <1>4, IsCall(call) DEF ConsumerDecides, IsCall
<1>5. CASE ConsumerCloses
  <2> DEFINE c == Killed(call, "closer")
  <2>1. IsCall(c) /\ c.raised = call.raised
    BY KillEnds
  <2>2. call' = [c EXCEPT !.consumer = "joining", !.closed = TRUE,
                          !.timer = IF @ = "armed" THEN "cancelled" ELSE @]
    BY <1>5 DEF ConsumerCloses
  <2> HIDE DEF c
  <2> QED BY ONLY <2>1, <2>2 DEF IsCall
<1>6. CASE ReaderSteps
  <2>1. CASE ReaderReads
    BY ONLY <2>1, IsCall(call) DEF ReaderReads, IsCall
  <2>2. CASE ReaderPuts
    BY ONLY <2>2, IsCall(call) DEF ReaderPuts, IsCall
  <2>3. CASE ReaderEnds
    BY ONLY <2>3, IsCall(call) DEF ReaderEnds, IsCall
  <2>4. CASE ReaderKills
    <3> DEFINE c == Killed(call, "failed")
    <3>1. IsCall(c) /\ c.raised = call.raised
      BY KillEnds
    <3>2. call' = [c EXCEPT !.reader = "ending"]
      BY <2>4 DEF ReaderKills
    <3> HIDE DEF c
    <3> QED BY ONLY <3>1, <3>2 DEF IsCall
  <2> QED BY <1>6, <2>1, <2>2, <2>3, <2>4 DEF ReaderSteps
<1>7. CASE TimerSteps
  <2>1. CASE TimerExpires
    BY ONLY <2>1, IsCall(call) DEF TimerExpires, IsCall
  <2>2. CASE TimerKills
    <3> DEFINE c == Killed(call, "timer")
    <3>1. IsCall(c) /\ c.raised = call.raised
      BY KillEnds
    <3>2. \E pipe : call' = [c EXCEPT !.timer = "fired", !.pipe = pipe]
      BY <2>2 DEF TimerKills
    <3> HIDE DEF c
    <3> QED BY ONLY <3>1, <3>2 DEF IsCall
  <2> QED BY <1>7, <2>1, <2>2 DEF TimerSteps
<1>8. CASE WorkerSteps(script)
  <2>1. CASE WorkerWrites(script) \/ WorkerCloses(script)
    BY ONLY <2>1, IsCall(call) DEF WorkerWrites, WorkerCloses, IsCall
  <2>2. CASE WorkerExits
    BY ONLY <2>2, IsCall(call) DEF WorkerExits, IsCall
  <2> QED BY <1>8, <2>1, <2>2 DEF WorkerSteps
<1>9. CASE WorkerFaults(script)
  BY ONLY <1>9, IsCall(call) DEF WorkerFaults, WorkerRaises, WorkerDies, WorkerOverflows,
     IsCall
<1> QED BY <1>1, <1>2, <1>3, <1>4, <1>5, <1>6, <1>7, <1>8, <1>9

LEMMA ObservingTyped ==
  ASSUME RecordInv, CallsInv, CallTypeInv, ExecTyped(exec), Observe \/ ObserveFails
  PROVE  /\ ExecTyped(exec') /\ exec'.at = exec.at
         /\ call' # NoCall /\ (call'.raised => exec'.error \in RunError)
PROOF
<1>1. /\ IsExec(exec) /\ exec.at = "calling"
      /\ \E ok \in BOOLEAN :
           /\ ConsumerObserves(ok) /\ (ok => UNCHANGED exec)
           /\ ~ok => \E code \in {"PROCESSING_FAILED", "AUDIT_SAVE_FAILED"} :
                       exec' = [exec EXCEPT !.error = code]
  BY DEF RecordInv, Observe, ObserveFails, At
<1>2. PICK ok \in BOOLEAN :
        /\ ConsumerObserves(ok) /\ (ok => UNCHANGED exec)
        /\ ~ok => \E code \in {"PROCESSING_FAILED", "AUDIT_SAVE_FAILED"} :
                    exec' = [exec EXCEPT !.error = code]
  BY <1>1
<1>3. call # NoCall /\ call' # NoCall
  BY <1>1, <1>2, CallStepKeeps DEF ConsumerObserves, Taking, Calling, CallAction
<1>4. IsCall(call)
  BY <1>3 DEF CallsInv, OutcomeInv, Shape
<1>5. call'.raised = ~ok
  BY ONLY <1>2, <1>4 DEF ConsumerObserves, IsCall
<1>6. {"PROCESSING_FAILED", "AUDIT_SAVE_FAILED"} \subseteq RunError
  BY ErrorsAre
<1>7. CASE ok
  BY <1>2, <1>3, <1>5, <1>7
<1>8. CASE ~ok
  <2>1. PICK code \in RunError : exec' = [exec EXCEPT !.error = code]
    BY <1>2, <1>6, <1>8
  <2>2. code \in DocErrors
    BY <2>1, ErrorsAre
  <2> QED BY ONLY <1>1, <1>3, <2>1, <2>2, ExecTyped(exec) DEF ExecTyped, IsExec
<1> QED BY <1>7, <1>8

LEMMA NewIsCall == NewCall # NoCall
PROOF
<1>1. "worker" \in DOMAIN NewCall
  BY Zenon DEF NewCall
<1>2. DOMAIN NoCall = {"none"}
  BY DEF NoCall
<1> QED BY <1>1, <1>2

LEMMA ExecTypeNext ==
  RecordInv /\ ReadInv /\ CallsInv /\ CallTypeInv /\ ExecTyped(exec) /\ Raising /\ [Next]_vars
    => ExecTyped(exec') /\ Raising'
PROOF
<1> SUFFICES ASSUME RecordInv, ReadInv, CallsInv, CallTypeInv, ExecTyped(exec), Raising,
                    [Next]_vars
             PROVE  ExecTyped(exec') /\ Raising'
  OBVIOUS
<1>1. IsExec(exec)
  BY DEF RecordInv
<1>2. CASE Observe \/ ObserveFails
  BY <1>2, ObservingTyped DEF Raising
<1>3. CASE ~(Observe \/ ObserveFails)
  <2>1. ExecTyped(exec')
    <3>1. CASE Executor \/ FailRunFails \/ CheckRecording \/ SaveFails \/ Down \/ AcceptRun
      BY <1>1, <3>1, DocumentTyped, AnswerTyped, RunTyped, EndTyped DEF Executor
    <3>2. Receive \/ ConsumerStep \/ ReaderThread \/ TimerThread \/ WorkerProcess \/ WorkerFails
            \/ Poll \/ RunDeadline \/ Stop \/ Restart \/ UNCHANGED vars => UNCHANGED exec
      BY DEF Receive, ConsumerStep, ReaderThread, TimerThread, WorkerProcess, WorkerFails,
             Poll, RunDeadline, Stop, Restart, vars
    <3> QED BY <1>3, <3>1, <3>2 DEF Next, Consumer
  <2>2. ASSUME exec'.at = "calling"
        PROVE  call' # NoCall /\ (call'.raised => exec'.error \in RunError)
    <3>1. CASE exec.at # "calling"
      <4>1. call' = NewCall
        BY <2>2, <3>1, CallKinds
      <4>2. NewCall # NoCall /\ ~NewCall.raised
        BY NewIsCall, Zenon DEF NewCall
      <4> QED BY <4>1, <4>2
    <3>2. CASE exec.at = "calling"
      <4>1. call # NoCall
        BY <3>2 DEF Raising
      <4>2. IsCall(call)
        BY <4>1 DEF CallsInv, OutcomeInv, Shape
      <4>3. CallReturns => exec'.at # "calling"
        BY <1>1 DEF CallReturns, Goes, Gives, IsExec
      <4>4. Down => exec'.at # "calling"
        BY Zenon DEF Down, Idle
      <4>5. SaveFails \/ AcceptRun \/ FailRunFails \/ CheckRecording => FALSE
        BY <3>2 DEF SaveFails, Saving, AcceptRun, FailRunFails, CheckRecording, At
      <4>6. Executor => CallReturns
        BY <3>2 DEF Executor, StoreUpload, Prepare, NextDocument, BeginRead, EndRead, StartWorker,
           Consult, TextAnswered, VisionAnswered, AIFails, EndDocument, Conclude, Analyze,
           FinishRun, FailRun, At
      <4>7. CASE ConsumerStep
        <5>1. UNCHANGED exec
          BY <4>7 DEF ConsumerStep
        <5>2. \/ ConsumerStops \/ ConsumerTakes \/ (\E stopping : ConsumerWaits(stopping))
              \/ ConsumerDecides \/ ConsumerCloses \/ ConsumerJoins
          BY <4>7 DEF ConsumerStep
        <5>3. call'.raised = call.raised
          BY <4>2, <5>2, RaisedStays
        <5>4. call' # NoCall
          BY <4>1, <5>2, CallStepKeeps DEF CallAction
        <5> QED BY <3>2, <5>1, <5>3, <5>4 DEF Raising
      <4>8. CASE ReaderThread \/ TimerThread \/ WorkerProcess \/ WorkerFails
        <5>1. UNCHANGED exec
          BY <4>8 DEF ReaderThread, TimerThread, WorkerProcess, WorkerFails
        <5>2. \/ ReaderSteps \/ TimerSteps
              \/ WorkerSteps(Scripts[Input]) \/ WorkerFaults(Scripts[Input])
          BY <4>8 DEF ReaderThread, TimerThread, WorkerProcess, WorkerFails
        <5>3. call'.raised = call.raised
          BY <4>2, <5>2, RaisedStays
        <5>4. call' # NoCall
          BY <4>1, <5>2, CallStepKeeps DEF CallAction
        <5> QED BY <3>2, <5>1, <5>3, <5>4 DEF Raising
      <4>9. Receive \/ Poll \/ RunDeadline \/ Stop \/ Restart \/ UNCHANGED vars
              => UNCHANGED <<call, exec>>
        BY DEF Receive, Poll, RunDeadline, Stop, Restart, vars
      <4> QED BY <1>3, <2>2, <3>2, <4>3, <4>4, <4>5, <4>6, <4>7, <4>8, <4>9
              DEF Next, Consumer, Raising
    <3> QED BY <3>1, <3>2
  <2> QED BY <2>1, <2>2 DEF Raising
<1> QED BY <1>2, <1>3
-----------------------------------------------------------------------------
(***************************************************************************)
(* The record of the run.                                                  *)
(***************************************************************************)
DocProgress == DocOutcome \cup {"PENDING", "RUNNING"}
RunIssues == RunError \cup {"NO_ATTACHMENTS"}

DocTyped(d) ==
  /\ d.status \in DocProgress
  /\ d.result # NoResult => TypedResult(d.result)
  /\ d.error \in DocErrors /\ d.units \in SUBSET Nat

RecordTyped(r) ==
  /\ r.status \in RunStatus /\ r.issues \in SUBSET RunIssues
  /\ \A i \in 1..Size : DocTyped(r.docs[i])
  /\ r.analysis # NoAnalysis => r.analysis \in Result

\* One document changes.
LEMMA WithDocTyped ==
  ASSUME Size \in Nat, IsRun(saved, Size), RecordTyped(saved), NEW n \in 1..Size,
         NEW doc, IsDoc(doc), DocTyped(doc)
  PROVE  RecordTyped(WithDoc(n, doc))
PROOF
<1>1. PICK run : run = WithDoc(n, doc)
  OBVIOUS
<1>2. /\ run.docs[n] = doc /\ run.status = saved.status
      /\ \A i \in 1..Size : i # n => run.docs[i] = saved.docs[i]
  BY <1>1, DocReplaced
<1>3. run.issues = saved.issues /\ run.analysis = saved.analysis
  BY <1>1 DEF WithDoc, IsRun
<1>4. RecordTyped(run)
  BY <1>2, <1>3 DEF RecordTyped
<1> QED BY <1>1, <1>4

\* What is not done is given up.
LEMMA GivenUpTyped ==
  ASSUME Size \in Nat, IsRun(saved, Size), RecordTyped(saved),
         NEW status \in {"FAILED", "INTERRUPTED"}, NEW code \in RunError
  PROVE  RecordTyped(GivenUp(saved, status, code))
PROOF
<1> DEFINE docs == [i \in DOMAIN saved.docs |->
                      IF saved.docs[i].status \in {"PENDING", "RUNNING"}
                      THEN [saved.docs[i] EXCEPT !.status = status, !.error = code]
                      ELSE saved.docs[i]]
<1>1. PICK run : run = GivenUp(saved, status, code)
  OBVIOUS
<1>2. run = [status |-> status, docs |-> docs, issues |-> saved.issues \cup {code},
             analysis |-> saved.analysis]
  BY <1>1 DEF GivenUp, IsRun
<1>3. DOMAIN saved.docs = 1..Size
  BY DEF IsRun
<1>4. status \in RunStatus /\ status \in DocProgress
  BY DEF RunStatus, DocProgress, DocOutcome
<1>5. code \in DocErrors /\ code \in RunIssues
  BY ErrorsAre, Zenon DEF RunIssues
<1>6. ASSUME NEW i \in 1..Size PROVE DocTyped(docs[i])
  <2>1. PICK d : d = saved.docs[i]
    OBVIOUS
  <2>2. IsDoc(d) /\ DocTyped(d)
    BY <2>1 DEF IsRun, RecordTyped
  <2>3. docs[i] \in {d, [d EXCEPT !.status = status, !.error = code]}
    BY <1>3, <2>1
  <2>4. PICK e : e = [d EXCEPT !.status = status, !.error = code]
    OBVIOUS
  <2>5. DocTyped(e)
    BY ONLY <1>4, <1>5, <2>2, <2>4 DEF DocTyped, IsDoc
  <2> QED BY <2>2, <2>3, <2>4, <2>5
<1> HIDE DEF docs
<1>7. RecordTyped(run)
  BY <1>2, <1>4, <1>5, <1>6 DEF RecordTyped
<1> QED BY <1>1, <1>7

\* A run that is accepted.
LEMMA NewRunTyped ==
  ASSUME Size \in Nat, DOMAIN Job.inputs = 1..Size
  PROVE  RecordTyped(NewRun(Job))
PROOF
<1>1. PICK doc : doc = NewDoc
  OBVIOUS
<1>2. DocTyped(doc)
  <2>1. PICK none : none = "" /\ none \in DocErrors
    BY NoneIs, Zenon
  <2>2. doc = [status |-> "PENDING", result |-> NoResult, error |-> none, original |-> FALSE,
               units |-> {}]
    BY <1>1, <2>1, Zenon DEF NewDoc
  <2> QED BY ONLY <2>1, <2>2 DEF DocTyped, DocProgress
<1>3. NewRun(Job) = [status |-> "RUNNING", docs |-> [i \in 1..Size |-> doc], issues |-> {},
                     analysis |-> NoAnalysis]
  BY <1>1, Zenon DEF NewRun
<1>4. PICK run : run = NewRun(Job)
  OBVIOUS
<1>5. RecordTyped(run)
  BY <1>2, <1>3, <1>4 DEF RecordTyped, RunStatus
<1> QED BY <1>4, <1>5

LEMMA StatusIsOutcome ==
  ASSUME NEW result, NEW error PROVE DocStatusOf(result, error) \in DocOutcome
PROOF BY Zenon DEF DocStatusOf, DocOutcome

\* The event that is observed is one of the worker's.
LEMMA SeenIsTold ==
  ASSUME RecordInv, CallsInv, TraceInv, exec.at = "calling", ConsumerObserves(TRUE)
  PROVE  \E C : Told[Input][Head(call.queue).at] \in WorkerEvent(C)
PROOF
<1>1. Input \in Inputs
  BY InputOf DEF InDocument
<1>2. PICK seen : seen = Cardinality(KeptOf(exec.n))
  OBVIOUS
<1>3. /\ IsScript(Scripts[Input]) /\ Len(Scripts[Input]) = Len(Told[Input]) + 1
      /\ Len(Told[Input]) \in Nat
  BY <1>1, ScriptsEnd, TracesAreFinite
<1>4. /\ OutcomeInv(call, Len(Scripts[Input])) /\ FlowInv(call, seen, Scripts[Input])
  BY <1>2 DEF TraceInv, CallsInv
<1>5. Head(call.queue).at = seen + 1 /\ seen + 1 < Len(Scripts[Input]) /\ seen \in Nat
  BY <1>3, <1>4, ObservedFlows DEF FlowInv
<1>6. seen + 1 \in 1..Len(Told[Input])
  BY <1>3, <1>5
<1>7. PICK C : Told[Input] \in Seq(WorkerEvent(C))
  BY <1>1, ToldSeq
<1>8. Told[Input][seen + 1] \in WorkerEvent(C)
  BY <1>6, <1>7
<1> QED BY <1>5, <1>8
-----------------------------------------------------------------------------
(***************************************************************************)
(* The documents behind the thread are done with.                          *)
(***************************************************************************)
Covering == InDocument \cup {"next", "concluding", "analyzing"}
Behind(i) == i < exec.n \/ (i = exec.n /\ exec.at \notin InDocument)
Covered(d) ==
  d.status \in DocOutcome /\ (exec.extract => d.result # NoResult \/ d.error \in GivenUpFor)

CoverInv ==
  /\ exec.at = "prepare" => exec.n = 0
  /\ exec.at \in Covering => \A i \in 1..Size : Behind(i) => Covered(saved.docs[i])
  /\ exec.at \in {"concluding", "analyzing"} => env.stopping \/ exec.n = Size

\* Where the thread of the run is in its loop.
SameDoc == exec'.n = exec.n /\ exec'.extract = exec.extract
LoopStep ==
  \/ exec'.at \notin Covering \cup {"prepare"}
  \/ exec'.at \in {"prepare", "next"} /\ exec'.n = 0
  \/ SameDoc /\ (exec'.at = exec.at \/ (exec.at \in InDocument /\ exec'.at \in InDocument))
  \/ /\ SameDoc /\ exec.at = "next" /\ exec'.at = "concluding"
     /\ env.stopping \/ exec.n = Size
  \/ /\ exec.at = "next" /\ exec'.at = "started"
     /\ exec'.n = exec.n + 1 /\ exec'.extract = exec.extract
  \/ SameDoc /\ exec.at = "concluding" /\ exec'.at = "analyzing"
  \/ /\ SameDoc /\ exec.at \in InDocument /\ exec'.at = "next"
     /\ Covered(saved'.docs[exec.n])

LEMMA DocsEnd ==
  ASSUME RecordInv, ExecTyped(exec), EndDocument \/ (StartWorker /\ ~exec.extract)
  PROVE  /\ SameDoc /\ exec.at \in InDocument /\ exec'.at = "next"
         /\ Covered(saved'.docs[exec.n])
PROOF
<1>1. /\ IsExec(exec) /\ exec.at \in {"ended", "ready"}
      /\ exec.at \in InDocument /\ exec.at # "idle"
  BY DEF RecordInv, EndDocument, StartWorker, At, InDocument
<1>2. /\ IsRun(saved, Size) /\ Size \in Nat /\ exec.n \in 1..Size
  BY <1>1, SizeIsNat DEF RecordInv
<1>3. IsDoc(Doc)
  BY <1>2 DEF IsRun, Doc
<1>4. Goes("next")
  BY DEF EndDocument, StartWorker
<1>5. SameDoc /\ exec'.at = "next"
  BY ONLY <1>1, <1>4 DEF Goes, IsExec, SameDoc
<1>6. CASE EndDocument
  <2>1. PICK status, result, error :
          status = DocStatusOf(exec.result, exec.error) /\ result = exec.result /\ error = exec.error
    OBVIOUS
  <2>2. PICK doc : doc = [Doc EXCEPT !.status = status, !.result = result, !.error = error]
    OBVIOUS
  <2>3. saved' = WithDoc(exec.n, doc)
    BY <1>6, <2>1, <2>2, Zenon DEF EndDocument, SavesDoc, Save, WithDoc
  <2>4. IsDoc(doc) /\ doc.status = status /\ doc.result = result /\ doc.error = error
    BY ONLY <1>3, <2>2 DEF IsDoc
  <2>5. saved'.docs[exec.n] = doc
    BY <1>2, <2>3, <2>4, DocReplaced
  <2>6. status \in DocOutcome
    BY <2>1, StatusIsOutcome
  <2>7. result # NoResult \/ error \in GivenUpFor
    BY <1>6, <2>1 DEF EndDocument, At, ExecTyped
  <2> QED BY <1>1, <1>5, <2>4, <2>5, <2>6, <2>7 DEF Covered
<1>7. CASE StartWorker /\ ~exec.extract
  <2>1. PICK doc : doc = [Doc EXCEPT !.status = "SKIPPED"]
    OBVIOUS
  <2>2. saved' = WithDoc(exec.n, doc)
    BY <1>7, <2>1 DEF StartWorker, SavesDoc, Save, WithDoc
  <2>3. IsDoc(doc) /\ doc.status = "SKIPPED"
    BY ONLY <1>3, <2>1 DEF IsDoc
  <2>4. saved'.docs[exec.n] = doc
    BY <1>2, <2>2, <2>3, DocReplaced
  <2> QED BY <1>1, <1>5, <1>7, <2>3, <2>4 DEF Covered, DocOutcome
<1> QED BY <1>6, <1>7

LEMMA LoopSteps ==
  ASSUME RecordInv, CoverInv, ExecTyped(exec), [Next]_vars
  PROVE  LoopStep
PROOF
<1>1. IsExec(exec)
  BY DEF RecordInv
<1>2. CASE AcceptRun \/ StoreUpload
  <2>1. CASE AcceptRun
    BY <2>1, AcceptStep DEF LoopStep, Covering, InDocument
  <2>2. CASE StoreUpload
    BY <2>2, StoreStep DEF LoopStep, SameDoc
  <2> QED BY <1>2, <2>1, <2>2
<1>3. CASE Prepare
  <2>1. exec.n = 0
    BY <1>3 DEF CoverInv, Prepare, At
  <2>2. exec'.at \in {"next", "failing"} /\ exec'.n = exec.n
    BY <1>1, <1>3 DEF Prepare, Goes, Fails, IsExec
  <2> QED BY <2>1, <2>2 DEF LoopStep, Covering, InDocument
<1>4. CASE NextDocument
  <2>1. exec.at = "next"
    BY <1>4 DEF NextDocument, At
  <2>2. \/ SameDoc /\ exec'.at = "concluding" /\ (env.stopping \/ exec.n = Size)
        \/ exec'.at = "started" /\ exec'.n = exec.n + 1 /\ exec'.extract = exec.extract
    <3>1. \/ Goes("concluding") /\ (env.stopping \/ exec.n = Size)
          \/ \E none : exec' = [exec EXCEPT !.at = "started", !.n = exec.n + 1, !.error = none,
                                            !.result = NoResult]
      BY <1>4, Zenon DEF NextDocument, Size
    <3> QED BY ONLY <1>1, <3>1 DEF Goes, SameDoc, IsExec
  <2> QED BY <2>1, <2>2 DEF LoopStep
<1>5. CASE EndDocument \/ (StartWorker /\ ~exec.extract)
  BY <1>5, DocsEnd DEF LoopStep
<1>6. CASE BeginRead \/ EndRead \/ (StartWorker /\ exec.extract) \/ CallReturns \/ Consult
           \/ TextAnswered \/ VisionAnswered \/ AIFails
  <2>1. exec.at \in InDocument
    BY <1>6 DEF BeginRead, EndRead, StartWorker, CallReturns, Consult, TextAnswered,
       VisionAnswered, AIFails, At, InDocument
  <2>2. \/ \E at \in InDocument \cup {"failing"} : Goes(at)
        \/ \E code : Gives(code)
        \/ \E at \in InDocument : \E result : exec' = [exec EXCEPT !.at = at, !.result = result]
    BY <1>6 DEF BeginRead, EndRead, StartWorker, CallReturns, Consult, TextAnswered,
       VisionAnswered, AIFails, Answered, Unanswered, InDocument
  <2>3. SameDoc /\ exec'.at \in InDocument \cup {"failing"}
    BY ONLY <1>1, <2>2 DEF Goes, Gives, IsExec, SameDoc, InDocument
  <2> QED BY <2>1, <2>3 DEF LoopStep, Covering, InDocument
<1>7. CASE Conclude
  <2>1. exec.at = "concluding"
    BY <1>7 DEF Conclude, At
  <2>2. \E at \in {"analyzing", "finishing"} : \E outcome :
          exec' = [exec EXCEPT !.at = at, !.outcome = outcome]
    BY <1>7 DEF Conclude
  <2>3. SameDoc /\ exec'.at \in {"analyzing", "finishing"}
    BY ONLY <1>1, <2>2 DEF IsExec, SameDoc
  <2> QED BY <2>1, <2>3 DEF LoopStep, Covering, InDocument
<1>8. CASE Analyze
  <2>1. Goes("finishing") \/ (\E code : Fails(code))
        \/ \E outcome : exec' = [exec EXCEPT !.at = "finishing", !.outcome = outcome]
    BY <1>8 DEF Analyze
  <2>2. exec'.at \in {"finishing", "failing"}
    BY ONLY <1>1, <2>1 DEF Goes, Fails, IsExec
  <2> QED BY <2>2 DEF LoopStep, Covering, InDocument
<1>9. CASE FinishRun \/ FailRun \/ FailRunFails \/ CheckRecording \/ SaveFails \/ Down
  <2>1. exec'.at \in {"over", "failing", "unrecorded"}
    <3>1. CASE Down
      BY <3>1, Zenon DEF Down, Idle
    <3> QED BY <1>1, <1>9, <3>1 DEF FinishRun, FailRun, FailRunFails, CheckRecording, SaveFails,
               Goes, Fails, IsExec
  <2> QED BY <2>1 DEF LoopStep, Covering, InDocument
<1>10. CASE Observe \/ ObserveFails
  <2>1. exec' = exec \/ \E code : exec' = [exec EXCEPT !.error = code]
    BY <1>10 DEF Observe, ObserveFails
  <2>2. SameDoc /\ exec'.at = exec.at
    BY ONLY <1>1, <2>1 DEF IsExec, SameDoc
  <2> QED BY <2>2 DEF LoopStep
<1>11. CASE Receive \/ ConsumerStep \/ ReaderThread \/ TimerThread \/ WorkerProcess \/ WorkerFails
            \/ Poll \/ RunDeadline \/ Stop \/ Restart \/ UNCHANGED vars
  <2>1. UNCHANGED exec
    BY <1>11 DEF Receive, ConsumerStep, ReaderThread, TimerThread, WorkerProcess, WorkerFails,
       Poll, RunDeadline, Stop, Restart, vars
  <2> QED BY <2>1 DEF LoopStep, SameDoc
<1> QED BY <1>2, <1>3, <1>4, <1>5, <1>6, <1>7, <1>8, <1>9, <1>10, <1>11
        DEF Next, Executor, Consumer

LEMMA CoverNext ==
  RecordInv /\ CoverInv /\ ExecTyped(exec) /\ [Next]_vars => CoverInv'
PROOF
<1> SUFFICES ASSUME RecordInv, CoverInv, ExecTyped(exec), [Next]_vars PROVE CoverInv'
  OBVIOUS
<1>1. LoopStep
  BY LoopSteps
<1>2. exec.n \in Nat /\ Size \in Nat /\ Size' = Size
  BY SizeIsNat, BackendSteps DEF BackendStep, Size, Job
<1>3. InDocument \subseteq Covering /\ {"next", "concluding", "analyzing"} \subseteq Covering
  BY DEF Covering
<1>4. "next" \notin InDocument /\ "concluding" \notin InDocument /\ "analyzing" \notin InDocument
      /\ "started" \in InDocument /\ "prepare" \notin Covering /\ "idle" \notin Covering
  BY DEF InDocument, Covering
<1>5. CASE exec'.at \notin Covering \cup {"prepare"}
  BY <1>3, <1>5 DEF CoverInv
<1>6. CASE exec'.at \in {"prepare", "next"} /\ exec'.n = 0
  BY <1>2, <1>4, <1>6 DEF CoverInv, Behind
<1>7. CASE /\ ~(exec'.at \notin Covering \cup {"prepare"})
           /\ ~(exec'.at \in {"prepare", "next"} /\ exec'.n = 0)
  <2>1. exec'.extract = exec.extract /\ exec.at # "idle"
    <3>1. exec.at = "idle" /\ exec'.at = exec.at => FALSE
      BY <1>4, <1>7
    <3> QED BY <1>1, <1>3, <1>4, <1>7, <3>1 DEF LoopStep, SameDoc
  <2>2. \A i \in 1..Size : saved.docs[i].status \in DocOutcome => saved'.docs[i] = saved.docs[i]
    BY <2>1, FinalSteps DEF Final
  <2>3. exec'.at \in Covering => exec.at \in Covering
    BY <1>1, <1>3, <1>7 DEF LoopStep
  <2>4. ASSUME exec'.at \in Covering, NEW i \in 1..Size, Behind(i)'
        PROVE  Covered(saved.docs[i])'
    <3>1. CASE Behind(i)
      <4>1. Covered(saved.docs[i])
        BY <2>3, <2>4, <3>1 DEF CoverInv
      <4> QED BY <2>1, <2>2, <4>1 DEF Covered
    <3>2. CASE ~Behind(i)
      <4>1. i = exec.n /\ exec.at \in InDocument /\ exec'.at = "next" /\ Covered(saved'.docs[exec.n])
        BY <1>1, <1>2, <1>3, <1>4, <1>7, <2>4, <3>2 DEF LoopStep, Behind, SameDoc
      <4> QED BY <2>1, <4>1 DEF Covered
    <3> QED BY <3>1, <3>2
  <2>5. ASSUME exec'.at = "prepare" PROVE exec'.n = 0
    BY <1>1, <1>3, <1>4, <1>7, <2>5 DEF LoopStep, SameDoc, CoverInv, InDocument
  <2>6. ASSUME exec'.at \in {"concluding", "analyzing"} PROVE env'.stopping \/ exec'.n = Size
    <3>1. env.stopping \/ exec.n = Size
      BY <1>1, <1>3, <1>4, <1>7, <2>6 DEF LoopStep, CoverInv
    <3>2. exec'.n = exec.n
      BY <1>1, <1>3, <1>4, <1>7, <2>6 DEF LoopStep, SameDoc
    <3>3. env.stopping => env'.stopping
      <4>1. ~Restart
        <5>1. Restart => exec.at = "over" /\ UNCHANGED exec
          BY DEF Restart, RecordInv
        <5> QED BY <2>6, <5>1
      <4>2. IsEnv(env)
        BY DEF RecordInv
      <4>3. \/ UNCHANGED env \/ \E left : env' = [env EXCEPT !.left = left]
            \/ \E left : env' = [env EXCEPT !.late = TRUE, !.left = left]
            \/ \E left : env' = [env EXCEPT !.stopping = TRUE, !.left = left]
            \/ env' = [env EXCEPT !.up = FALSE]
        BY <4>1, EnvSteps DEF Mishap
      <4> QED BY ONLY <4>2, <4>3 DEF IsEnv
    <3> QED BY <3>1, <3>2, <3>3
  <2> QED BY <1>2, <2>4, <2>5, <2>6 DEF CoverInv, Covered
<1> QED BY <1>5, <1>6, <1>7

LEMMA CoverStart == Init => CoverInv
PROOF
<1>1. Idle.at = "idle"
  BY Zenon DEF Idle
<1> QED BY <1>1 DEF Init, CoverInv, Covering, InDocument
-----------------------------------------------------------------------------
(***************************************************************************)
(* What a step records.                                                    *)
(***************************************************************************)
EventType == [stage : Stage, status : StageStatus, doc : Nat]

RecordsTyped ==
  \/ UNCHANGED <<saved, trail>>
  \/ \E run, event : /\ RecordTyped(run) /\ event \in EventType /\ saved' = run
                     /\ trail' = <<event>> \/ trail' = trail \o <<event>>

LEMMA StagesAre ==
  /\ {"run", "attachment_read", "original_storage", "classification", "document", "extraction",
      "text_provider", "vision_provider", "attachments", "analysis"} \subseteq Stage
  /\ WorkerStages \subseteq Stage
PROOF BY Zenon DEF Stage

LEMMA StatusesAre ==
  /\ DocOutcome \subseteq StageStatus /\ {"STARTED", "NEEDS_REVIEW"} \subseteq StageStatus
  /\ Ending \subseteq DocOutcome /\ "SKIPPED" \in DocOutcome
PROOF BY Zenon DEF StageStatus, Ending, DocOutcome

LEMMA SaveTyped ==
  ASSUME NEW run, RecordTyped(run), NEW stage \in Stage, NEW status \in StageStatus, NEW n \in Nat,
         Save(run, <<Noted(stage, status, n)>>)
  PROVE  RecordsTyped
PROOF
<1>1. PICK event : event = Noted(stage, status, n)
  OBVIOUS
<1>2. event \in EventType
  BY ONLY <1>1, stage \in Stage, status \in StageStatus, n \in Nat DEF Noted, EventType
<1>3. saved' = run /\ trail' = trail \o <<event>>
  BY <1>1 DEF Save
<1> QED BY <1>2, <1>3 DEF RecordsTyped

\* The record stays as it is, or one document changes.
LEMMA EventTyped ==
  ASSUME RecordTyped(saved), exec.n \in Nat, NEW stage \in Stage, NEW status \in StageStatus,
         Records(stage, status)
  PROVE  RecordsTyped
PROOF BY SaveTyped DEF Records

LEMMA DocSaved ==
  ASSUME RecordInv, RecordTyped(saved), exec.at # "idle", exec.n \in 1..Size,
         NEW doc, IsDoc(doc), DocTyped(doc), NEW stage \in Stage, NEW status \in StageStatus,
         SavesDoc(doc, <<Noted(stage, status, exec.n)>>)
  PROVE  RecordsTyped
PROOF
<1>1. Size \in Nat /\ IsRun(saved, Size) /\ exec.n \in Nat
  BY SizeIsNat DEF RecordInv
<1>2. PICK run : run = WithDoc(exec.n, doc)
  OBVIOUS
<1>3. RecordTyped(run)
  BY <1>1, <1>2, WithDocTyped
<1>4. Save(run, <<Noted(stage, status, exec.n)>>)
  BY <1>2 DEF SavesDoc, WithDoc
<1> QED BY <1>1, <1>3, <1>4, SaveTyped

LEMMA RunGivenUp ==
  ASSUME RecordInv, RecordTyped(saved), exec.at # "idle",
         NEW status \in {"FAILED", "INTERRUPTED"}, NEW code \in RunError, NEW told \in StageStatus,
         Save(GivenUp(saved, status, code), <<Noted("run", told, 0)>>)
  PROVE  RecordsTyped
PROOF
<1>1. Size \in Nat /\ IsRun(saved, Size)
  BY SizeIsNat DEF RecordInv
<1>2. PICK run : run = GivenUp(saved, status, code)
  OBVIOUS
<1>3. RecordTyped(run)
  BY <1>1, <1>2, GivenUpTyped
<1> QED BY <1>2, <1>3, SaveTyped, StagesAre
-----------------------------------------------------------------------------
\* The document under way.
LEMMA DocUnderWay ==
  ASSUME RecordInv, RecordTyped(saved), exec.at \in InDocument \cup {"storing"}
  PROVE  exec.at # "idle" /\ exec.n \in 1..Size /\ exec.n \in Nat /\ IsDoc(Doc) /\ DocTyped(Doc)
PROOF
<1>1. exec.at # "idle" /\ exec.n \in 1..Size /\ exec.n \in Nat
  BY SizeIsNat DEF RecordInv, InDocument
<1>2. IsRun(saved, Size)
  BY <1>1 DEF RecordInv
<1> QED BY <1>1, <1>2 DEF IsRun, RecordTyped, Doc

LEMMA ReadingRecords ==
  ASSUME RecordInv, RecordTyped(saved), exec.at # "idle",
         StoreUpload \/ BeginRead \/ EndRead \/ StartWorker
  PROVE  RecordsTyped
PROOF
<1>1. exec.at \in InDocument \cup {"storing"}
  BY DEF StoreUpload, BeginRead, EndRead, StartWorker, At, InDocument
<1>2. exec.n \in 1..Size /\ exec.n \in Nat /\ IsDoc(Doc) /\ DocTyped(Doc)
  BY <1>1, DocUnderWay
<1>3. \/ KeepsRun \/ Records("attachment_read", "STARTED")
      \/ SavesDoc([Doc EXCEPT !.original = TRUE],
                  <<Noted("original_storage", "SUCCEEDED", exec.n)>>)
      \/ SavesDoc([Doc EXCEPT !.status = "SKIPPED"], <<Noted("extraction", "SKIPPED", exec.n)>>)
  BY Zenon DEF StoreUpload, BeginRead, EndRead, StartWorker
<1>4. "SKIPPED" \in DocProgress /\ "SUCCEEDED" \in StageStatus /\ "SKIPPED" \in StageStatus
  BY StatusesAre DEF DocProgress, Ending
<1>5. ASSUME NEW doc, doc = [Doc EXCEPT !.original = TRUE] \/ doc = [Doc EXCEPT !.status = "SKIPPED"]
      PROVE  IsDoc(doc) /\ DocTyped(doc)
  BY ONLY <1>2, <1>4, <1>5 DEF IsDoc, DocTyped
<1>6. CASE KeepsRun
  BY <1>6 DEF KeepsRun, RecordsTyped
<1>7. CASE Records("attachment_read", "STARTED")
  BY <1>2, <1>7, EventTyped, StagesAre, StatusesAre
<1>8. CASE SavesDoc([Doc EXCEPT !.original = TRUE],
                    <<Noted("original_storage", "SUCCEEDED", exec.n)>>)
  <2>1. PICK doc : doc = [Doc EXCEPT !.original = TRUE]
    OBVIOUS
  <2>2. IsDoc(doc) /\ DocTyped(doc)
    BY <1>5, <2>1
  <2> QED BY <1>2, <1>4, <1>8, <2>1, <2>2, DocSaved, StagesAre
<1>9. CASE SavesDoc([Doc EXCEPT !.status = "SKIPPED"], <<Noted("extraction", "SKIPPED", exec.n)>>)
  <2>1. PICK doc : doc = [Doc EXCEPT !.status = "SKIPPED"]
    OBVIOUS
  <2>2. IsDoc(doc) /\ DocTyped(doc)
    BY <1>5, <2>1
  <2> QED BY <1>2, <1>4, <1>9, <2>1, <2>2, DocSaved, StagesAre
<1> QED BY <1>3, <1>6, <1>7, <1>8, <1>9

LEMMA AskingRecords ==
  ASSUME RecordInv, RecordTyped(saved), exec.at # "idle",
         Prepare \/ Consult \/ TextAnswered \/ VisionAnswered \/ AIFails
  PROVE  RecordsTyped
PROOF
<1>1. exec.n \in Nat
  BY SizeIsNat
<1>2. \/ KeepsRun
      \/ \E stage \in {"classification", "text_provider", "vision_provider"},
            status \in {"STARTED", "SUCCEEDED", "FAILED", "NEEDS_REVIEW"} : Records(stage, status)
  <2>1. CASE Prepare
    BY <2>1 DEF Prepare
  <2>2. CASE Consult
    BY <2>2 DEF Consult
  <2>3. CASE TextAnswered \/ VisionAnswered
    BY <2>3 DEF TextAnswered, VisionAnswered, Answered, Unanswered
  <2>4. CASE AIFails
    BY <2>4 DEF AIFails, Unanswered
  <2> QED BY <2>1, <2>2, <2>3, <2>4
<1>3. {"STARTED", "SUCCEEDED", "FAILED", "NEEDS_REVIEW"} \subseteq StageStatus
  BY StatusesAre DEF Ending
<1>4. {"classification", "text_provider", "vision_provider"} \subseteq Stage
  BY StagesAre
<1> QED BY <1>1, <1>2, <1>3, <1>4, EventTyped DEF KeepsRun, RecordsTyped

LEMMA ObservedRecords ==
  ASSUME RecordInv, CallsInv, TraceInv, RecordTyped(saved), exec.at # "idle", Observe
  PROVE  RecordsTyped
PROOF
<1>1. exec.at = "calling"
  BY DEF Observe, At
<1>2. exec.n \in 1..Size /\ exec.n \in Nat /\ IsDoc(Doc) /\ DocTyped(Doc)
  BY <1>1, DocUnderWay DEF InDocument
<1>3. CASE KeepsRun
  BY <1>3 DEF KeepsRun, RecordsTyped
<1>4. CASE ~KeepsRun
  <2>1. PICK event : event = Told[Input][Head(call.queue).at]
    OBVIOUS
  <2>2. /\ ConsumerObserves(TRUE)
        /\ SavesDoc(Observed(event, Doc), <<Noted(event.stage, event.status, exec.n)>>)
    BY <1>4, <2>1 DEF Observe
  <2>3. PICK C : event \in WorkerEvent(C)
    BY <1>1, <2>1, <2>2, SeenIsTold
  <2>4. /\ event.stage \in WorkerStages /\ event.status \in TraceStatus
        /\ Parsed(event.stage, event.status, event.cites)
    BY <2>3 DEF WorkerEvent
  <2>5. event.stage \in Stage /\ event.status \in StageStatus
    BY <2>4, StagesAre, StatusesAre DEF TraceStatus, Ending
  <2>6. PICK doc : doc = Observed(event, Doc)
    OBVIOUS
  <2>7. IsDoc(doc) /\ DocTyped(doc)
    BY ONLY <1>2, <2>4, <2>6 DEF Observed, Parsed, IsDoc, DocTyped
  <2> QED BY <1>1, <1>2, <2>2, <2>5, <2>6, <2>7, DocSaved
<1> QED BY <1>3, <1>4

LEMMA EndRecords ==
  ASSUME RecordInv, ExecTyped(exec), RecordTyped(saved), EndDocument
  PROVE  RecordsTyped
PROOF
<1>1. exec.at = "ended"
  BY DEF EndDocument, At
<1>2. exec.n \in 1..Size /\ exec.n \in Nat /\ IsDoc(Doc) /\ DocTyped(Doc)
  BY <1>1, DocUnderWay DEF InDocument
<1>3. PICK status, result, error :
        status = DocStatusOf(exec.result, exec.error) /\ result = exec.result /\ error = exec.error
  OBVIOUS
<1>4. PICK doc : doc = [Doc EXCEPT !.status = status, !.result = result, !.error = error]
  OBVIOUS
<1>5. SavesDoc(doc, <<Noted("document", status, exec.n)>>)
  BY <1>3, <1>4, Zenon DEF EndDocument
<1>6. status \in DocOutcome
  BY <1>3, StatusIsOutcome
<1>7. status \in DocProgress /\ status \in StageStatus
  BY <1>6, StatusesAre DEF DocProgress
<1>8. IsDoc(doc) /\ DocTyped(doc)
  BY ONLY <1>2, <1>3, <1>4, <1>7, ExecTyped(exec) DEF ExecTyped, IsDoc, DocTyped
<1> QED BY <1>1, <1>2, <1>5, <1>7, <1>8, DocSaved, StagesAre

LEMMA NextRecords ==
  ASSUME RecordInv, RecordTyped(saved), NextDocument
  PROVE  RecordsTyped
PROOF
<1>1. exec.at = "next" /\ Size \in Nat /\ IsRun(saved, Size)
  BY SizeIsNat DEF NextDocument, At, RecordInv
<1>2. CASE KeepsRun
  BY <1>2 DEF KeepsRun, RecordsTyped
<1>3. CASE ~KeepsRun
  <2>1. PICK n : n = exec.n + 1
    OBVIOUS
  <2>2. n \in 1..Size /\ n \in Nat
    BY <1>3, <2>1, NextStep DEF KeepsRun
  <2>3. PICK d : d = saved.docs[n]
    OBVIOUS
  <2>4. IsDoc(d) /\ DocTyped(d)
    BY <1>1, <2>2, <2>3 DEF IsRun, RecordTyped
  <2>5. PICK doc : doc = [d EXCEPT !.status = "RUNNING"]
    OBVIOUS
  <2>6. IsDoc(doc) /\ DocTyped(doc)
    BY ONLY <2>4, <2>5 DEF IsDoc, DocTyped, DocProgress
  <2>7. PICK run : run = WithDoc(n, doc)
    OBVIOUS
  <2>8. RecordTyped(run)
    BY <1>1, <2>2, <2>6, <2>7, WithDocTyped
  <2>9. run = [saved EXCEPT !.docs[n].status = "RUNNING"]
    BY <2>3, <2>5, <2>7 DEF WithDoc
  <2>10. Save(run, <<Noted("document", "STARTED", n)>>)
    BY <1>3, <2>1, <2>9, Zenon DEF NextDocument
  <2> QED BY <2>2, <2>8, <2>10, SaveTyped, StagesAre, StatusesAre
<1> QED BY <1>2, <1>3

LEMMA ConcludeRecords ==
  ASSUME RecordInv, RecordTyped(saved), Conclude
  PROVE  RecordsTyped
PROOF
<1>1. exec.at # "idle" /\ IsRun(saved, Size)
  BY DEF Conclude, At, RecordInv
<1>2. CASE KeepsRun
  BY <1>2 DEF KeepsRun, RecordsTyped
<1>3. CASE ~KeepsRun
  <2>1. PICK run : run = [saved EXCEPT !.issues = {"NO_ATTACHMENTS"}]
    OBVIOUS
  <2>2. Save(run, <<Noted("attachments", "NEEDS_REVIEW", 0)>>)
    BY <1>3, <2>1 DEF Conclude
  <2>3. "NO_ATTACHMENTS" \in RunIssues
    BY Zenon DEF RunIssues
  <2>4. RecordTyped(run)
    BY ONLY <1>1, <2>1, <2>3, RecordTyped(saved) DEF RecordTyped, IsRun
  <2> QED BY <2>2, <2>4, SaveTyped, StagesAre, StatusesAre
<1> QED BY <1>2, <1>3

LEMMA FinishRecords ==
  ASSUME RecordInv, ExecTyped(exec), RecordTyped(saved), FinishRun
  PROVE  RecordsTyped
PROOF
<1>1. exec.at = "finishing" /\ IsRun(saved, Size)
  BY DEF FinishRun, At, RecordInv
<1>2. PICK outcome : outcome = exec.outcome
  OBVIOUS
<1>3. outcome \in Ending
  BY <1>1, <1>2 DEF ExecTyped
<1>4. outcome \in StageStatus /\ outcome \in RunStatus
  BY <1>3, StatusesAre DEF Ending, RunStatus
<1>5. CASE outcome = "INTERRUPTED"
  <2>1. Save(GivenUp(saved, "INTERRUPTED", "RUN_INTERRUPTED"), <<Noted("run", outcome, 0)>>)
    BY <1>2, <1>5 DEF FinishRun, Interrupted
  <2>2. "RUN_INTERRUPTED" \in RunError
    BY OthersAreReasons, ErrorsAre
  <2> QED BY <1>1, <1>4, <2>1, <2>2, RunGivenUp
<1>6. CASE outcome # "INTERRUPTED"
  <2>1. PICK run : run = [saved EXCEPT !.status = outcome]
    OBVIOUS
  <2>2. Save(run, <<Noted("run", outcome, 0)>>)
    BY <1>2, <1>6, <2>1 DEF FinishRun
  <2>3. RecordTyped(run)
    BY ONLY <1>1, <1>4, <2>1, RecordTyped(saved) DEF RecordTyped, IsRun
  <2> QED BY <1>4, <2>2, <2>3, SaveTyped, StagesAre
<1> QED BY <1>5, <1>6

LEMMA FailRecords ==
  ASSUME RecordInv, ExecTyped(exec), RecordTyped(saved), exec.at # "idle",
         FailRun \/ CheckRecording \/ Restart
  PROVE  RecordsTyped
PROOF
<1>1. "FAILED" \in StageStatus /\ "INTERRUPTED" \in StageStatus
  BY StatusesAre DEF Ending
<1>2. CASE FailRun \/ CheckRecording
  <2>1. PICK code \in {exec.error, "AUDIT_SAVE_FAILED"} :
          Save(GivenUp(saved, "FAILED", code), <<Noted("run", "FAILED", 0)>>)
    BY <1>2 DEF FailRun, CheckRecording, FailedRun
  <2>2. code \in RunError
    BY <1>2, <2>1, ErrorsAre DEF FailRun, CheckRecording, At, ExecTyped
  <2> QED BY <1>1, <2>1, <2>2, RunGivenUp
<1>3. CASE Restart
  <2>1. \/ KeepsRun
        \/ Save(GivenUp(saved, "INTERRUPTED", "RUN_INTERRUPTED"),
                <<Noted("run", "INTERRUPTED", 0)>>)
    BY <1>3 DEF Restart, Interrupted
  <2>2. "RUN_INTERRUPTED" \in RunError
    BY OthersAreReasons, ErrorsAre
  <2> QED BY <1>1, <2>1, <2>2, RunGivenUp DEF KeepsRun, RecordsTyped
<1> QED BY <1>2, <1>3

\* A document that is done with can be taken over into the analysis: it has a result,
\* or a reason that becomes its issue.
LEMMA AdaptedTyped ==
  ASSUME RecordInv, CoverInv, RecordTyped(saved), exec.at = "analyzing", ~env.stopping,
         exec.extract, NEW k \in 1..Size
  PROVE  AdaptDocument(saved.docs[k].result, saved.docs[k].error) \in Reading
PROOF
<1>1. PICK result, error : result = saved.docs[k].result /\ error = saved.docs[k].error
  OBVIOUS
<1>2. Behind(k)
  <2>1. exec.n = Size /\ exec.at \notin InDocument
    BY DEF CoverInv, InDocument
  <2> QED BY <2>1, SizeIsNat DEF Behind
<1>3. result # NoResult \/ error \in GivenUpFor
  BY <1>1, <1>2 DEF CoverInv, Covering, Covered
<1>4. result # NoResult => TypedResult(result)
  BY <1>1 DEF RecordTyped, DocTyped
<1>5. GivenUpFor \subseteq IssueCodes
  BY CodesAssumption, Zenon
<1>6. CASE result = NoResult
  <2>1. error \in IssueCodes
    BY <1>3, <1>5, <1>6
  <2>2. PICK values : values = [key \in Fields |-> EmptyValue]
    OBVIOUS
  <2>3. values \in [Fields -> Extraction]
    BY <2>2, EmptyValueType
  <2>4. PICK issues : issues = {IssueOn(error, NoField)}
    OBVIOUS
  <2>5. issues \in SUBSET Issue
    BY <2>1, <2>4 DEF IssueOn, Issue
  <2>6. AdaptDocument(result, error) = [role |-> "none", values |-> values, issues |-> issues]
    BY <1>6, <2>2, <2>4 DEF AdaptDocument
  <2>7. AdaptDocument(result, error) \in Reading
    BY ONLY <2>3, <2>5, <2>6 DEF Reading
  <2> QED BY <1>1, <2>7
<1>7. CASE result # NoResult
  <2>1. result \in ResultType
    BY <1>4, <1>7 DEF TypedResult
  <2>2. /\ result.role \in Role \cup {"none"} /\ result.issues \in SUBSET Issue
        /\ result.rows \in [Fields -> RowType]
    BY ONLY <2>1 DEF ResultType
  <2>3. PICK values : values = [key \in Fields |->
          [state |-> result.rows[key].state, norm |-> result.rows[key].norm,
           needs |-> result.rows[key].needs, method |-> result.rows[key].method,
           supplied |-> FALSE]]
    OBVIOUS
  <2>4. values \in [Fields -> Extraction]
    <3>1. ASSUME NEW key \in Fields PROVE values[key] \in Extraction
      <4>1. result.rows[key] \in RowType
        BY <2>2
      <4>2. values[key] = [state |-> result.rows[key].state, norm |-> result.rows[key].norm,
                           needs |-> result.rows[key].needs, method |-> result.rows[key].method,
                           supplied |-> FALSE]
        BY <2>3
      <4> QED BY ONLY <4>1, <4>2 DEF RowType, Extraction
    <3> QED BY <2>3, <3>1
  <2>5. PICK role :
          role = IF /\ result.role = "none"
                    /\ \E i \in result.issues : i.code = "WRONG_DOCUMENT_TYPE"
                 THEN "other" ELSE result.role
    OBVIOUS
  <2>6. role \in Role \cup {"other", "none"}
    BY <2>2, <2>5
  <2>7. AdaptDocument(result, error) = [role |-> role, values |-> values, issues |-> result.issues]
    BY <1>7, <2>3, <2>5 DEF AdaptDocument
  <2>8. AdaptDocument(result, error) \in Reading
    BY ONLY <2>2, <2>4, <2>6, <2>7 DEF Reading
  <2> QED BY <1>1, <2>8
<1> QED BY <1>6, <1>7

LEMMA IdsType == RecordInv => Ids \in Seq(Docs) /\ DOMAIN Ids = 1..Size
PROOF
<1> SUFFICES ASSUME RecordInv PROVE Ids \in Seq(Docs) /\ DOMAIN Ids = 1..Size
  OBVIOUS
<1>1. Size \in Nat /\ DOMAIN Job.inputs = 1..Size
  BY SizeIsNat
<1>2. \A i \in 1..Size : Job.inputs[i] \in Inputs
  BY InputOf
<1>3. \A i \in 1..Size : Job.inputs[i].id \in Docs
  BY <1>2, InputsAreSound
<1>4. Ids = [i \in 1..Size |-> Job.inputs[i].id]
  BY <1>1 DEF Ids
<1> QED BY <1>1, <1>3, <1>4

LEMMA AnalysisTyped ==
  ASSUME RecordInv, CoverInv, RecordTyped(saved), exec.at = "analyzing", ~env.stopping,
         exec.extract, NEW pair,
         NEW reading, reading = [id \in {Ids[i] : i \in DOMAIN Ids} |-> Adapted(id)]
  PROVE  Compare(Ids, reading, pair) \in Result
PROOF
<1>1. Ids \in Seq(Docs) /\ DOMAIN Ids = 1..Size /\ DOMAIN Job.inputs = 1..Size
  BY IdsType, SizeIsNat
<1>2. ASSUME NEW id \in {Ids[i] : i \in DOMAIN Ids} PROVE Adapted(id) \in Reading
  <2>1. PICK k \in 1..Size : k = CHOOSE j \in DOMAIN Job.inputs : Job.inputs[j].id = id
    BY <1>1 DEF Ids
  <2>2. Adapted(id) = AdaptDocument(saved.docs[k].result, saved.docs[k].error)
    BY <2>1 DEF Adapted
  <2> QED BY <2>2, AdaptedTyped
<1>3. reading \in ReadingsOf(Ids)
  BY <1>2 DEF ReadingsOf
<1>4. PICK docs : docs = Ids
  OBVIOUS
<1>5. Compare(docs, reading, pair) \in Result
  BY <1>1, <1>3, <1>4, CompareType
<1> QED BY <1>4, <1>5

LEMMA AnalyzeRecords ==
  ASSUME RecordInv, CoverInv, RecordTyped(saved), Analyze
  PROVE  RecordsTyped
PROOF
<1>1. exec.at = "analyzing" /\ IsRun(saved, Size)
  BY DEF Analyze, At, RecordInv
<1>2. CASE KeepsRun
  BY <1>2 DEF KeepsRun, RecordsTyped
<1>3. CASE ~KeepsRun
  <2>1. ~env.stopping /\
        \E reading \in {[id \in {Ids[i] : i \in DOMAIN Ids} |-> Adapted(id)]} :
          Save([saved EXCEPT !.analysis = IF exec.extract THEN Compare(Ids, reading, Job.pair)
                                          ELSE NotCompared(FALSE)],
               <<Noted("analysis", "SUCCEEDED", 0)>>)
    BY <1>3 DEF Analyze
  <2>2. PICK analysis :
          /\ Save([saved EXCEPT !.analysis = analysis], <<Noted("analysis", "SUCCEEDED", 0)>>)
          /\ analysis \in Result
    <3>1. PICK reading :
            /\ reading = [id \in {Ids[i] : i \in DOMAIN Ids} |-> Adapted(id)]
            /\ Save([saved EXCEPT !.analysis = IF exec.extract THEN Compare(Ids, reading, Job.pair)
                                               ELSE NotCompared(FALSE)],
                    <<Noted("analysis", "SUCCEEDED", 0)>>)
      BY <2>1
    <3>2. PICK analysis : analysis = IF exec.extract THEN Compare(Ids, reading, Job.pair)
                                     ELSE NotCompared(FALSE)
      OBVIOUS
    <3>3. exec.extract => Compare(Ids, reading, Job.pair) \in Result
      BY <1>1, <2>1, <3>1, AnalysisTyped
    <3>4. NotCompared(FALSE) \in Result
      BY NotComparedType
    <3>5. analysis \in Result
      BY <3>2, <3>3, <3>4
    <3> QED BY <3>1, <3>2, <3>5
  <2>3. PICK run : run = [saved EXCEPT !.analysis = analysis]
    OBVIOUS
  <2>4. RecordTyped(run)
    BY ONLY <1>1, <2>2, <2>3, RecordTyped(saved) DEF RecordTyped, IsRun
  <2>5. "SUCCEEDED" \in StageStatus /\ "analysis" \in Stage
    BY StagesAre, StatusesAre DEF Ending
  <2> QED BY <2>2, <2>3, <2>4, <2>5, SaveTyped
<1> QED BY <1>2, <1>3

LEMMA AcceptRecords ==
  ASSUME RecordInv, AcceptRun
  PROVE  RecordTyped(saved') /\ \E event \in EventType : trail' = <<event>>
PROOF
<1>1. PICK run : run = NewRun(Job) /\ saved' = run
  BY DEF AcceptRun, Create
<1>2. RecordTyped(run)
  BY <1>1, SizeIsNat, NewRunTyped
<1>3. PICK stage, status :
        stage = "run" /\ status = "STARTED" /\ stage \in Stage /\ status \in StageStatus
  BY StagesAre, StatusesAre
<1>4. PICK event : event = Noted(stage, status, 0)
  OBVIOUS
<1>5. event \in EventType
  BY ONLY <1>3, <1>4 DEF Noted, EventType
<1>6. trail' = <<event>>
  BY <1>3, <1>4 DEF AcceptRun, Create
<1> QED BY <1>1, <1>2, <1>5, <1>6

LEMMA StepsRecord ==
  ASSUME RecordInv, CallsInv, TraceInv, CoverInv, ExecTyped(exec), RecordTyped(saved),
         exec.at # "idle", [Next]_vars
  PROVE  RecordsTyped
PROOF
<1>1. CASE ConsumerStep \/ ObserveFails \/ ReaderThread \/ TimerThread \/ WorkerProcess
           \/ WorkerFails \/ SaveFails \/ FailRunFails \/ CallReturns
  BY <1>1 DEF ConsumerStep, ObserveFails, ReaderThread, TimerThread, WorkerProcess,
     WorkerFails, SaveFails, FailRunFails, CallReturns, KeepsRun, RecordsTyped
<1>2. CASE Receive \/ Poll \/ RunDeadline \/ Stop \/ Down \/ UNCHANGED vars
  BY <1>2 DEF Receive, Poll, RunDeadline, Stop, Down, vars, RecordsTyped
<1>3. ~AcceptRun
  BY DEF AcceptRun, At
<1> QED BY <1>1, <1>2, <1>3, ReadingRecords, AskingRecords, ObservedRecords, EndRecords,
           NextRecords, ConcludeRecords, FinishRecords, FailRecords, AnalyzeRecords
        DEF Next, Executor, Consumer
-----------------------------------------------------------------------------
RecordTypeInv == exec.at # "idle" => RecordTyped(saved)
TrailTyped == trail \in Seq(EventType)

LEMMA RecordTypeNext ==
  RecordInv /\ CallsInv /\ TraceInv /\ CoverInv /\ ExecTyped(exec) /\ RecordTypeInv /\ TrailTyped
    /\ [Next]_vars => RecordTypeInv' /\ TrailTyped'
PROOF
<1> SUFFICES ASSUME RecordInv, CallsInv, TraceInv, CoverInv, ExecTyped(exec), RecordTypeInv,
                    TrailTyped, [Next]_vars
             PROVE  RecordTypeInv' /\ TrailTyped'
  OBVIOUS
<1>1. Size' = Size
  BY BackendSteps DEF BackendStep, Size, Job
<1>2. ASSUME NEW run, saved' = run, RecordTyped(run) PROVE RecordTypeInv'
  BY <1>1, <1>2 DEF RecordTypeInv, RecordTyped
<1>3. ASSUME NEW event \in EventType, trail' = <<event>> \/ trail' = trail \o <<event>>
      PROVE  TrailTyped'
  <2>1. <<event>> \in Seq(EventType)
    BY <1>3
  <2>2. trail \o <<event>> \in Seq(EventType \cup {event})
    BY TrailGrows DEF TrailTyped
  <2>3. EventType \cup {event} = EventType
    BY <1>3
  <2> QED BY <1>3, <2>1, <2>2, <2>3 DEF TrailTyped
<1>4. CASE exec.at # "idle"
  <2>1. RecordTyped(saved) /\ RecordsTyped
    BY <1>4, StepsRecord DEF RecordTypeInv
  <2> QED BY <1>2, <1>3, <2>1 DEF RecordsTyped, TrailTyped
<1>5. CASE exec.at = "idle" /\ exec'.at = "idle"
  BY <1>5, FinalSteps DEF RecordTypeInv, TrailTyped
<1>6. CASE exec.at = "idle" /\ exec'.at # "idle"
  <2>1. AcceptRun
    BY <1>6, RecordSteps DEF RecordStep, Moves, Finishes, StoreUpload, NextDocument, At,
       InDocument
  <2> QED BY <1>2, <1>3, <2>1, AcceptRecords
<1> QED BY <1>4, <1>5, <1>6
-----------------------------------------------------------------------------
(***************************************************************************)
(* All of it.  What is told to the page, and of the upload, belongs to it. *)
(***************************************************************************)
TypeInv ==
  /\ UploadTyped /\ EnvTyped /\ CallTypeInv /\ PollTyped
  /\ ExecTyped(exec) /\ Raising
  /\ CoverInv /\ RecordTypeInv /\ TrailTyped

LEMMA TypeStart == Init => TypeInv
PROOF
<1> SUFFICES ASSUME Init PROVE TypeInv
  OBVIOUS
<1>1. /\ upload = NoUpload /\ exec = Idle /\ call = NoCall /\ saved = NoRun /\ trail = <<>>
      /\ poll = NewPoll
  BY DEF Init
<1>2. Idle.at = "idle"
  BY Zenon DEF Idle
<1>3. NewPoll.finished = FALSE /\ NewPoll.page = NoPage
  BY DEF NewPoll
<1>4. PollTyped
  BY <1>1, <1>3 DEF PollTyped
<1>5. UploadTyped /\ CallTypeInv
  BY <1>1 DEF UploadTyped, CallTypeInv
<1>6. ExecTyped(exec) /\ Raising /\ RecordTypeInv
  BY <1>1, <1>2, IdleTyped DEF Raising, RecordTypeInv
<1>7. TrailTyped
  BY <1>1 DEF TrailTyped
<1> QED BY <1>4, <1>5, <1>6, <1>7, EnvStart, CoverStart DEF TypeInv

LEMMA TypeNext ==
  UploadInv /\ RecordInv /\ ReadInv /\ CallsInv /\ TraceInv /\ PollInv /\ TypeInv /\ [Next]_vars
    => TypeInv'
PROOF
<1> SUFFICES ASSUME UploadInv, RecordInv, ReadInv, CallsInv, TraceInv, PollInv, TypeInv, [Next]_vars
             PROVE  TypeInv'
  OBVIOUS
<1>1. UploadTyped' /\ EnvTyped' /\ CallTypeInv'
  BY UploadTypeNext, EnvTypeNext, CallTypeNext DEF TypeInv
<1>2. PollTyped'
  <2>1. exec.at # "idle" => saved.status \in RunStatus
    BY DEF TypeInv, RecordTypeInv, RecordTyped
  <2> QED BY <2>1, PollTypeNext DEF TypeInv
<1>3. ExecTyped(exec') /\ Raising'
  BY ExecTypeNext DEF TypeInv
<1>4. ExecTyped(exec)'
  BY <1>3 DEF ExecTyped, TypedResult, IsResult, Explained
<1>5. CoverInv' /\ RecordTypeInv' /\ TrailTyped'
  BY CoverNext, RecordTypeNext DEF TypeInv
<1> QED BY <1>1, <1>2, <1>3, <1>4, <1>5 DEF TypeInv

LEMMA TypeMeans ==
  UploadInv /\ RecordInv /\ ReadInv /\ CallsInv /\ PollInv /\ TypeInv => TypeOK
PROOF
<1> SUFFICES ASSUME UploadInv, RecordInv, ReadInv, CallsInv, PollInv, TypeInv PROVE TypeOK
  OBVIOUS
<1>1. upload \in Upload \cup {NoUpload}
  BY UploadIsTyped DEF TypeInv
<1>2. env \in [job : Jobs, up : BOOLEAN, stopping : BOOLEAN, late : BOOLEAN, left : Nat]
  BY EnvIsTyped DEF TypeInv
<1>3. call \in Call \cup {NoCall}
  BY CallsAreTyped DEF TypeInv
<1>4. trail \in Seq([stage : Stage, status : StageStatus, doc : Nat])
  BY DEF TypeInv, TrailTyped, EventType
<1>5. poll \in [cursor : Nat, items : SUBSET Nat, finished : BOOLEAN,
                page : {NoPage} \cup [items : SUBSET Nat, more : BOOLEAN, next : Nat,
                                      status : RunStatus]]
  BY <1>4, PollIsTyped DEF TypeInv, TrailInv
<1>6. exec \in [at : ExecAt, n : Nat, extract : BOOLEAN, result : ResultType \cup {NoResult},
                error : RunError \cup {""}, outcome : RunStatus \cup {""}]
  <2>1. IsExec(exec) /\ exec.n \in Nat /\ ExecTyped(exec)
    BY SizeIsNat DEF RecordInv, TypeInv
  <2>2. exec.result \in ResultType \cup {NoResult}
    BY <2>1 DEF ExecTyped, TypedResult
  <2>3. exec \in [at : ExecAt, n : Nat, extract : BOOLEAN, result : ResultType \cup {NoResult},
                  error : DocErrors, outcome : Outcomes]
    BY ONLY <2>1, <2>2 DEF IsExec, ExecTyped
  <2> QED BY <2>3, Zenon DEF DocErrors, Outcomes
<1>7. CASE exec.at = "idle"
  <2>1. saved = NoRun /\ Read = {}
    BY <1>7 DEF RecordInv, Read, Recorded
  <2> QED BY <1>1, <1>2, <1>3, <1>4, <1>5, <1>6, <2>1, Zenon DEF TypeOK
<1>8. CASE exec.at # "idle"
  <2>1. IsRun(saved, Size) /\ Size \in Nat /\ RecordTyped(saved)
    BY <1>8, SizeIsNat DEF RecordInv, TypeInv, RecordTypeInv
  <2>2. ASSUME NEW i \in 1..Size PROVE saved.docs[i] \in DocType
    <3>1. PICK d : d = saved.docs[i]
      OBVIOUS
    <3>2. IsDoc(d) /\ DocTyped(d) /\ d.original \in BOOLEAN
      BY <1>8, <2>1, <3>1 DEF IsRun, RecordTyped, ReadInv
    <3>3. d.result \in ResultType \cup {NoResult}
      BY <3>2 DEF DocTyped, TypedResult
    <3>4. d \in [status : DocProgress, result : ResultType \cup {NoResult}, error : DocErrors,
                 original : BOOLEAN, units : SUBSET Nat]
      BY ONLY <3>2, <3>3 DEF IsDoc, DocTyped
    <3> QED BY <3>1, <3>4, Zenon DEF DocType, DocErrors, DocProgress
  <2>3. saved.docs \in Seq(DocType)
    BY <2>1, <2>2 DEF IsRun
  <2>4. saved.analysis \in Result \cup {NoAnalysis}
    BY <2>1 DEF RecordTyped
  <2>5. saved \in [status : RunStatus, docs : Seq(DocType), issues : SUBSET RunIssues,
                   analysis : Result \cup {NoAnalysis}]
    BY ONLY <2>1, <2>3, <2>4 DEF IsRun, RecordTyped
  <2>6. saved \in [status : RunStatus, docs : Seq(DocType),
                   issues : SUBSET (RunError \cup {"NO_ATTACHMENTS"}),
                   analysis : Result \cup {NoAnalysis}]
    BY <2>5, Zenon DEF RunIssues
  <2>7. \A i \in Read : Explained(saved.docs[i].result)
    BY <2>1, ReadDocs DEF RecordTyped, DocTyped, TypedResult
  <2> QED BY <1>1, <1>2, <1>3, <1>4, <1>5, <1>6, <2>6, <2>7, Zenon DEF TypeOK
<1> QED BY <1>7, <1>8

LEMMA TypeInvariance == Spec => []TypeInv
PROOF
BY TypeStart, TypeNext, UploadInvariance, RecordInvariance, ReadInvariance, CallsInvariance,
   TraceInvariance, PollInvariance, PTL DEF Spec

\* Every part of the state has its type, for every document, every answer of Gemini and
\* every failure: a value is a normalized one, an analysis has what a result of the
\* mailbox has, and every problem is one that is known by its code.
THEOREM PipelineTypeCorrect == Spec => []TypeOK
PROOF BY TypeMeans, TypeInvariance, UploadInvariance, RecordInvariance, ReadInvariance,
         CallsInvariance, PollInvariance, PTL

\* An analysis is made when no document is under way or still to come, and takes over
\* of each its result or the reason why it has none: also when the run is asked to stop
\* between two documents (_execute looks at stopping before each document and again
\* before finish).
DoneBeforeAnalysis ==
  exec.at # "idle" /\ saved'.analysis # saved.analysis =>
    \A i \in DOMAIN saved.docs :
      /\ saved.docs[i].status \in DocOutcome
      /\ exec.extract => saved.docs[i].result # NoResult \/ saved.docs[i].error \in GivenUpFor

\* No analysis of an unfinished run, for any number of documents and any mishaps.
THEOREM AnalysesAreOfTheDone == Spec => [][DoneBeforeAnalysis]_saved
PROOF
<1>1. RecordInv /\ CoverInv /\ [Next]_vars => [DoneBeforeAnalysis]_saved
  <2> SUFFICES ASSUME RecordInv, CoverInv, [Next]_vars, exec.at # "idle",
                      saved'.analysis # saved.analysis, NEW i \in DOMAIN saved.docs
               PROVE  Covered(saved.docs[i])
    BY DEF DoneBeforeAnalysis, Covered
  <2>1. Analyze
    BY AnalysisSteps
  <2>2. exec.at = "analyzing" /\ ~env.stopping
    BY <2>1 DEF Analyze, At, KeepsRun
  <2>3. exec.n = Size /\ Size \in Nat /\ i \in 1..Size
    BY <2>2, SizeIsNat DEF CoverInv, RecordInv, IsRun
  <2> QED BY <2>2, <2>3 DEF CoverInv, Covering, Behind, InDocument
<1>2. TypeInv => CoverInv
  BY DEF TypeInv
<1> QED BY <1>1, <1>2, TypeInvariance, RecordInvariance, PTL DEF Spec
=============================================================================
