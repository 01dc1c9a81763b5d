--------------------------- MODULE MCDocumentRun ---------------------------
(***************************************************************************)
(* Instances of DocumentRun: four of the seven fields, one for each rule,  *)
(* a handful of documents and what Gemini may answer about them.           *)
(***************************************************************************)
EXTENDS DocumentRun, TLC

CONSTANTS shipper, port, count, weight, d1, d2

TheFields == {shipper, port, count, weight}
TheKeys == <<shipper, port, count, weight>>
TheParties == {shipper}
ThePorts == {port}

\* What the parsers, the rules, the extraction service and Gemini's readers report,
\* and why a document of a run has no result.
TheCodes ==
  {"UNSUPPORTED_FORMAT", "FORMAT_MISMATCH", "MALFORMED_DOCUMENT", "RESOURCE_LIMIT",
   "ENCRYPTED_DOCUMENT", "ENCRYPTED_OR_LEGACY_OFFICE", "BINARY_TEXT", "UNSUPPORTED_ENCODING",
   "NO_USABLE_TEXT", "VISUAL_REVIEW_REQUIRED",
   "WRONG_DOCUMENT_TYPE", "AMBIGUOUS_DOCUMENT_ROLE", "UNKNOWN_DOCUMENT_ROLE",
   "DOCUMENT_ROLE_MISMATCH", "FIELD_NOT_FOUND", "MISSING_VALUE", "CONFLICTING_VALUES",
   "AMBIGUOUS_TEXT_VALUE", "AMBIGUOUS_CONTAINER_COUNT", "PARTY_BOUNDARY_UNCLEAR",
   "AMBIGUOUS_WEIGHT", "CONFLICTING_WEIGHT_UNITS", "MISSING_WEIGHT_UNIT",
   "TOTAL_WEIGHT_REQUIRED", "FORMULA_VALUE",
   "AI_INPUT_TOO_LARGE", "AI_TEXT_REVIEW_REQUIRED", "AI_QUOTE_UNVERIFIED",
   "AI_CANDIDATE_MISSING", "AI_CONFIRMATION_REQUIRED",
   "AI_NOT_CONFIGURED", "AI_TIMEOUT", "AI_PROVIDER_ERROR", "AI_RATE_LIMITED",
   "AI_ACCESS_DENIED", "AI_INVALID_RESPONSE",
   "ATTACHMENT_PATH_INVALID", "ATTACHMENT_UNAVAILABLE", "EXTRACTION_TIMEOUT",
   "source_unavailable", "INVALID_WORKER_OUTPUT", "WORKER_FAILED",
   "PROCESSING_FAILED", "RUN_TIMEOUT", "RUN_INTERRUPTED"}

TextIs(kind, words, num, units) == [kind |-> kind, words |-> words, num |-> num, units |-> units]
Acme == TextIs("company", "ACME LTD", 0, {})
Street == TextIs("address", "12 MAIN STREET", 12, {})
Other == TextIs("company", "OTHER LTD", 0, {})
Klang == TextIs("plain", "PORT KLANG", 0, {})
Rotterdam == TextIs("plain", "ROTTERDAM", 0, {})
TwoBoxes == TextIs("containers", "2 X 40HC", 2, {})
Two == TextIs("number", "2", 2, {})
Kilos == TextIs("number", "3000 KG", 3000, {"kg"})
FewKilos == TextIs("number", "2000 KG", 2000, {"kg"})
Tons == TextIs("figure", "3.0", 3, {})
Tbc == TextIs("placeholder", "TBC", 0, {})
Dash == TextIs("mark", "---", 0, {})

BlankLine ==
  [as |-> "text", key |-> NoField, own |-> <<>>, rest |-> <<>>, total |-> FALSE,
   packages |-> FALSE, units |-> {}, table |-> FALSE, role |-> "none"]
Says(text) == [BlankLine EXCEPT !.own = <<text>>]
Title(r) == [BlankLine EXCEPT !.as = "title", !.role = r, !.own = <<TextIs("plain", r, 0, {})>>]
Label(k, rest) ==
  [BlankLine EXCEPT !.as = "label", !.key = k, !.rest = rest,
                    !.own = <<TextIs("plain", "LABEL", 0, {})>>]
InTons(line) == [line EXCEPT !.units = {"t"}]
TotalOf(line) == [line EXCEPT !.total = TRUE]
HeadLine == [BlankLine EXCEPT !.as = "head", !.own = <<TextIs("plain", "PORT OF", 0, {})>>]
TailLine(k, rest) == [Label(k, rest) EXCEPT !.as = "tail"]
TableHead == [BlankLine EXCEPT !.as = "stop", !.table = TRUE,
                               !.own = <<TextIs("plain", "CONTAINER NO", 0, {})>>]

Page1(lines) == [area |-> 0, row |-> 0, col |-> 0, formula |-> FALSE, lines |-> lines]
Cell(r, c, line) == [area |-> 1, row |-> r, col |-> c, formula |-> FALSE, lines |-> <<line>>]

FileOf(suffix, units) ==
  [suffix |-> suffix, head |-> IF suffix \in Office THEN "zip"
                               ELSE IF suffix = "pdf" THEN "pdf" ELSE "plain",
   bytes |-> 2, traits |-> {}, units |-> units]

\* An instruction as text: a party with its address, a label over two lines, a blank
\* line before a label, a total beside the weight of a container.
Instruction ==
  FileOf("txt", << Page1(<<Title("si")>>), Page1(<<Label(shipper, <<>>)>>), Page1(<<Says(Acme)>>),
                   Page1(<<Says(Street)>>), Page1(<<HeadLine>>),
                   Page1(<<TailLine(port, <<Klang>>)>>), Page1(<<BlankLine>>),
                   Page1(<<Label(count, <<TwoBoxes>>)>>), Page1(<<TableHead>>),
                   Page1(<<Label(weight, <<FewKilos>>)>>),
                   Page1(<<TotalOf(Label(weight, <<Kilos>>))>>) >>)

\* A draft as a sheet, with the tonnes in the label of the weight.
Draft ==
  FileOf("xlsx", << Cell(1, 1, Title("bl")), Cell(2, 1, Label(shipper, <<>>)), Cell(2, 2, Says(Acme)),
                    Cell(3, 1, Label(port, <<Klang>>)), Cell(4, 1, Label(count, <<>>)),
                    Cell(4, 2, Says(Two)), Cell(5, 1, InTons(Label(weight, <<>>))),
                    Cell(5, 2, Says(Tons)) >>)

\* A draft as text in which two shippers follow each other, the port is not under a
\* label, the count is to come and the weight is given twice.
Doubtful ==
  FileOf("txt", << Page1(<<Title("bl")>>), Page1(<<Label(shipper, <<Acme>>)>>), Page1(<<Says(Other)>>),
                   Page1(<<Label(count, <<Tbc>>)>>), Page1(<<Label(weight, <<Kilos>>)>>),
                   Page1(<<Label(weight, <<FewKilos>>)>>), Page1(<<Title("none")>>),
                   Page1(<<Says(Klang)>>) >>)

\* A sheet with a formula for the count, two lines for the port, a dash for a party and
\* two totals that differ.
Calculated ==
  FileOf("xlsx", << Cell(1, 1, Title("bl")), Cell(2, 1, Label(shipper, <<Dash>>)),
                    Cell(3, 1, Label(port, <<>>)),
                    Cell(3, 2, [BlankLine EXCEPT !.own = <<Klang, Rotterdam>>]),
                    Cell(4, 1, Label(count, <<>>)),
                    [Cell(4, 2, Says(Two)) EXCEPT !.formula = TRUE],
                    Cell(5, 1, TotalOf(Label(weight, <<Kilos>>))),
                    Cell(6, 1, TotalOf(Label(weight, <<FewKilos>>))) >>)

Scan == FileOf("pdf", << Page1(<<>>) >>)
Damaged == [FileOf("docx", <<>>) EXCEPT !.traits = {"no_archive"}]
Mislabelled == [FileOf("pdf", <<>>) EXCEPT !.head = "zip"]
Invoice == FileOf("txt", << Page1(<<Title("other")>>) >>)

In(id, file) == [id |-> id, file |-> file, expected |-> "none", source |-> "intact"]
First(file) == In(d1, file)
Second(file) == In(d2, file)
Gone == [Second(Draft) EXCEPT !.source = "gone"]
Outside == [Second(Draft) EXCEPT !.source = "outside"]
AsInstruction(input) == [input EXCEPT !.expected = "si"]
AsDraft(input) == [input EXCEPT !.expected = "bl"]

TheInputs ==
  {First(Instruction), First(Doubtful), First(Damaged), First(Mislabelled), AsInstruction(First(Invoice)),
   AsInstruction(First(Instruction)), AsDraft(Second(Scan)),
   Second(Draft), Second(Doubtful), Second(Calculated), Second(Scan), Gone, Outside}

Request(kind, inputs, signals, pair) ==
  [kind |-> kind, email |-> "intact", inputs |-> inputs, signals |-> signals, pair |-> pair]
Uploaded(input) == Request("upload", <<input>>, {}, NoPair)
Email(inputs) == Request("dataset_email", inputs, {}, NoPair)
Sample(inputs, signals) == Request("mailbox_email", inputs, signals, NoPair)
Pair == [role \in Role |-> IF role = "si" THEN d1 ELSE d2]

\* The page follows runs without a worker.
TheWatched ==
  {Email(<<>>), Email(<<Outside>>)}
QuickJobs ==
  TheWatched \cup
  {Uploaded(First(Damaged)), Uploaded(First(Mislabelled)),
   Sample(<<Gone>>, {"BL_COMPARISON", "INVOICE_QUERY"})}
TheJobs ==
  QuickJobs \cup
  {Uploaded(AsInstruction(First(Invoice))),
   Sample(<<First(Instruction), Second(Draft)>>, {"BL_COMPARISON"}),
   Sample(<<First(Instruction), Second(Doubtful)>>, {"BL_COMPARISON"}),
   Request("mailbox_email", <<AsInstruction(First(Instruction)), AsDraft(Second(Scan))>>,
           {"BL_COMPARISON"}, Pair),
   Email(<<Second(Calculated)>>), Email(<<First(Damaged), Second(Scan)>>),
   Email(<<Gone, Gone, Gone>>), [Email(<<Gone>>) EXCEPT !.email = "malformed"],
   [Email(<<>>) EXCEPT !.email = "missing"]}

\* A quick run has two mishaps on its way, a run that compares two documents none but
\* timeouts, what Gemini does and a crash of the backend.
TheMishaps ==
  [job \in TheJobs |-> IF job \in QuickJobs THEN 2 ELSE IF job.signals = {"BL_COMPARISON"} THEN 0
                       ELSE 1]

\* About the doubtful draft Gemini is asked for the shipper, the port and the weight; one
\* answer quotes with other line breaks than the source.
Offered(f, u, raw, quote, reflowed) ==
  [field |-> f, unit |-> u, raw |-> raw, quote |-> quote, reflowed |-> reflowed]
Nothing(f) == Offered(f, 0, <<>>, <<>>, FALSE)
TheTextAnswers ==
  { {Offered(shipper, 2, <<Acme>>, <<Acme>>, FALSE), Offered(port, 8, <<Klang>>, <<Klang>>, FALSE),
     Nothing(weight)},
    {Nothing(shipper), Offered(port, 8, <<Rotterdam>>, <<Rotterdam>>, FALSE),
     Offered(weight, 5, <<Kilos>>, <<Kilos>>, FALSE)},
    {Offered(shipper, 2, <<Acme>>, <<Acme>>, FALSE), Offered(port, 8, <<Klang>>, <<Klang>>, FALSE)},
    {Nothing(shipper), Offered(port, 8, <<Klang>>, <<Klang>>, TRUE), Nothing(weight)} }

TheVisionAnswers ==
  { [role |-> "bl",
     fields |-> [f \in TheFields |->
       CASE f = port -> [raw |-> <<Klang>>, page |-> 1]
         [] f = weight -> [raw |-> <<Kilos>>, page |-> 1]
         [] OTHER -> [raw |-> <<>>, page |-> 0]]],
    [role |-> "none", fields |-> [f \in TheFields |-> [raw |-> <<Klang>>, page |-> 2]]] }

NormalOf(words, amount) == [words |-> words, amount |-> amount]
TheValues ==
  {NormalOf(<<w>>, 0) : w \in {"ACME LTD", "OTHER LTD", "PORT KLANG", "ROTTERDAM"}}
    \cup {NormalOf(<<>>, a) : a \in {2, 2000000, 3000000}}

Sends(size, declared, form) == [size |-> size, extra |-> 2, declared |-> declared, form |-> form]
TheOffers ==
  {Sends(2, -1, "file"), Sends(4, 6, "file"), Sends(7, -1, "file"), Sends(2, 9, "file"),
   Sends(2, -2, "file"), Sends(2, 4, "broken"), Sends(2, 4, "no_multipart"), Sends(2, -1, "no_file"),
   Sends(2, -1, "bad_role"), Sends(2, -1, "other_fields"), Sends(5, -1, "file")}
=============================================================================
