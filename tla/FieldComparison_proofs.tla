----------------------- MODULE FieldComparison_proofs -----------------------
(***************************************************************************)
(* What the comparison, its overlay by reviews and the issue list of an    *)
(* amendment return, for any fields, documents, values and reviews.        *)
(***************************************************************************)
EXTENDS FieldComparison, NaturalsInduction, WellFoundedInduction, TLAPS

LEMMA SmallestMember ==
  ASSUME NEW T \in SUBSET Nat, T # {}
  PROVE  \E x \in T : \A y \in T : x <= y
<1>1. PICK x \in T : \A y \in T : ~(<<y, x>> \in OpToRel(<, Nat))
  BY NatLessThanWellFounded, WFMin
<1>2. \A y \in T : ~(y < x)
  BY <1>1 DEF OpToRel
<1> QED
  BY <1>2

LEMMA LargestMember ==
  ASSUME NEW n \in Nat, NEW T \in SUBSET (1..n), T # {}
  PROVE  \E x \in T : \A y \in T : y <= x
<1> DEFINE U == {n - y : y \in T}
<1>1. U \in SUBSET Nat /\ U # {}
  <2>1. \A y \in T : n - y \in Nat
    OBVIOUS
  <2> QED
    BY <2>1
<1>2. PICK u \in U : \A w \in U : u <= w
  BY <1>1, SmallestMember
<1>3. PICK x \in T : u = n - x
  BY <1>2
<1>4. \A y \in T : n - x <= n - y
  BY <1>2, <1>3
<1> QED
  BY <1>4

(***************************************************************************)
(* The latest action on a field of a document is one of the actions on it. *)
(***************************************************************************)
LEMMA LatestIsAnAction ==
  ASSUME NEW actions \in Seq(Action), NEW d, NEW f
  PROVE  \/ Latest(actions, d, f) = NoAction
         \/ \E i \in DOMAIN actions :
              /\ Latest(actions, d, f) = actions[i]
              /\ actions[i].doc = d
              /\ actions[i].field = f
<1>1. CASE Upon(actions, d, f) = {}
  BY <1>1 DEF Latest
<1>2. CASE Upon(actions, d, f) # {}
  <2>1. Upon(actions, d, f) \in SUBSET (1..Len(actions)) /\ Len(actions) \in Nat
    BY DEF Upon
  <2>2. \E i \in Upon(actions, d, f) : \A j \in Upon(actions, d, f) : j <= i
    BY <1>2, <2>1, LargestMember
  <2>3. PICK i \in Upon(actions, d, f) : Latest(actions, d, f) = actions[i]
    BY <1>2, <2>2 DEF Latest
  <2> QED
    BY <2>3 DEF Upon
<1> QED
  BY <1>1, <1>2

LEMMA LatestKind ==
  ASSUME NEW actions \in Seq(Action), NEW d, NEW f
  PROVE  Latest(actions, d, f).kind \in {"none"} \cup LatestKinds(actions)
<1>1. CASE Latest(actions, d, f) = NoAction
  BY <1>1 DEF NoAction
<1>2. CASE \E i \in DOMAIN actions :
             /\ Latest(actions, d, f) = actions[i]
             /\ actions[i].doc = d
             /\ actions[i].field = f
  BY <1>2 DEF LatestKinds
<1> QED
  BY <1>1, <1>2, LatestIsAnAction
-----------------------------------------------------------------------------
(***************************************************************************)
(* The comparison.  ReadingsOf: what may come off the documents docs.      *)
(***************************************************************************)
ReadingsOf(docs) == [{docs[i] : i \in DOMAIN docs} -> Reading]

LEMMA EmptyValueType == EmptyValue \in Extraction
  BY DEF EmptyValue, Extraction, ValueState, Method

LEMMA SelectedIsListed ==
  ASSUME NEW docs, NEW reading, NEW role, NEW pair
  PROVE  Selected(docs, reading, role, pair) \in {docs[i] : i \in DOMAIN docs} \cup {NoDoc}
<1> DEFINE options == Options(docs, reading, role, pair)
<1>1. options \subseteq {docs[i] : i \in DOMAIN docs}
  BY DEF Options
<1>2. Selected(docs, reading, role, pair) = TheOnly(options)
  BY DEF Selected
<1> HIDE DEF options
<1>3. CASE \E d \in Docs : options = {d}
  <2>1. PICK d \in Docs : options = {d} /\ TheOnly(options) = d
    BY <1>3 DEF TheOnly
  <2> QED
    BY <1>1, <1>2, <2>1
<1>4. CASE ~\E d \in Docs : options = {d}
  BY <1>2, <1>4 DEF TheOnly
<1> QED
  BY <1>3, <1>4

LEMMA SideReadType ==
  ASSUME NEW docs \in Seq(Docs), NEW reading \in ReadingsOf(docs), NEW role \in Role,
         NEW pair, NEW f \in Fields
  PROVE  SideRead(docs, reading, role, pair, f) \in Extraction
<1> PICK d : d = Selected(docs, reading, role, pair)
  OBVIOUS
<1>1. CASE d = NoDoc
  BY <1>1, EmptyValueType DEF SideRead
<1>2. CASE d # NoDoc
  <2>1. reading[d] \in Reading
    BY <1>2, SelectedIsListed DEF ReadingsOf
  <2>2. reading[d].values[f] \in Extraction
    BY <2>1 DEF Reading
  <2> QED
    BY <1>2, <2>2 DEF SideRead
<1> QED
  BY <1>1, <1>2

LEMMA CompareFieldType ==
  ASSUME NEW docs \in Seq(Docs), NEW reading \in ReadingsOf(docs), NEW pair,
         NEW f \in Fields
  PROVE  /\ CompareField(docs, reading, pair, f) \in Compared
         /\ CompareField(docs, reading, pair, f).key = f
<1> PICK si \in Extraction, bl \in Extraction :
       /\ si = SideRead(docs, reading, "si", pair, f)
       /\ bl = SideRead(docs, reading, "bl", pair, f)
  BY SideReadType DEF Role
<1> DEFINE finding == IF Settled(si) /\ Settled(bl) THEN Differ(si, bl)
                      ELSE IF docs # <<>> THEN "NEEDS_REVIEW" ELSE "NOT_CHECKED"
<1>1. finding \in Finding
  BY DEF Differ, Finding
<1>2. CompareField(docs, reading, pair, f)
        = [key |-> f, si |-> si, bl |-> bl, finding |-> finding]
  BY DEF CompareField
<1> HIDE DEF finding
<1> QED
  BY <1>1, <1>2 DEF Compared

LEMMA DemandType ==
  ASSUME NEW code \in Code, NEW d \in DocOrNone, NEW f \in Fields \cup {NoField}
  PROVE  Demand(code, d, f) \in Requirement
  BY DEF Demand, Requirement

LEMMA CompareRequirementsType ==
  ASSUME NEW docs \in Seq(Docs), NEW reading \in ReadingsOf(docs), NEW pair, NEW fields
  PROVE  CompareRequirements(docs, reading, pair, fields) \subseteq Requirement
<1>1. Demand("ambiguous_document_pair", NoDoc, NoField) \in Requirement
      /\ Demand("missing_attachment", NoDoc, NoField) \in Requirement
      /\ Demand("unresolved_fields", NoDoc, NoField) \in Requirement
  BY DemandType DEF DocOrNone, Code
<1>2. DocumentRequirements(docs, reading, pair) \subseteq Requirement
  <2> DEFINE listed == {docs[i] : i \in DOMAIN docs}
             chosen == {Selected(docs, reading, role, pair) : role \in Role}
             asked == IF IsPair(pair) /\ NoDoc \notin chosen THEN chosen ELSE listed
  <2>1. asked \subseteq listed
    <3>1. chosen \subseteq listed \cup {NoDoc}
      BY SelectedIsListed
    <3> QED
      BY <3>1
  <2>2. listed \subseteq Docs
    OBVIOUS
  <2>3. \A d \in listed : reading[d] \in Reading
    BY DEF ReadingsOf
  <2>4. DocumentRequirements(docs, reading, pair) =
          UNION {{Demand(issue.code, d, issue.field) : issue \in reading[d].issues} :
                   d \in asked}
    BY DEF DocumentRequirements
  <2> HIDE DEF listed, asked
  <2>5. ASSUME NEW d \in asked, NEW issue \in reading[d].issues
        PROVE  Demand(issue.code, d, issue.field) \in Requirement
    <3>1. issue \in Issue /\ d \in Docs
      BY <2>1, <2>2, <2>3 DEF Reading
    <3> QED
      BY <3>1, DemandType DEF Issue, DocOrNone, Code
  <2> QED
    BY <2>4, <2>5
<1> QED
  BY <1>1, <1>2 DEF CompareRequirements, When

(***************************************************************************)
(* One field of a result is settled on both sides exactly if it has a      *)
(* finding, and the sets of a result say what its fields say.              *)
(***************************************************************************)
FindingHolds(field) ==
  /\ Settled(field.si) /\ Settled(field.bl) => field.finding = Differ(field.si, field.bl)
  /\ field.finding \in {"MATCH", "MISMATCH"} => Settled(field.si) /\ Settled(field.bl)

Consistent(result) ==
  /\ \A field \in result.fields : FindingHolds(field)
  /\ \A field, other \in result.fields : field.key = other.key => field = other
  /\ result.category = "BL_COMPARISON" => Keys(result.fields) = Fields
  /\ result.checked = WithFinding(result.fields, "MATCH")
                        \cup WithFinding(result.fields, "MISMATCH")
  /\ result.defects = WithFinding(result.fields, "MISMATCH")

LEMMA WithFindingType ==
  ASSUME NEW fields \in SUBSET Compared, NEW finding
  PROVE  WithFinding(fields, finding) \subseteq Fields
  BY DEF WithFinding, Keys, Compared

LEMMA NotComparedType ==
  ASSUME NEW unclear \in BOOLEAN
  PROVE  NotCompared(unclear) \in Result /\ Consistent(NotCompared(unclear))
<1>1. When(unclear, {Demand("classification_review", NoDoc, NoField)}) \subseteq Requirement
  BY DemandType DEF When, DocOrNone, Code
<1>2. <<>> \in Seq([id : Docs, role : Role \cup {"other", "none"}])
  OBVIOUS
<1>3. (IF unclear THEN "REVIEW_REQUIRED" ELSE "NOT_APPLICABLE") \in Workflow
  BY DEF Workflow
<1>4. NotCompared(unclear) \in Result
  BY <1>1, <1>2, <1>3 DEF NotCompared, Result
<1>5. Consistent(NotCompared(unclear))
  BY DEF NotCompared, Consistent, WithFinding, Keys
<1> QED
  BY <1>4, <1>5

LEMMA CompareType ==
  ASSUME NEW docs \in Seq(Docs), NEW reading \in ReadingsOf(docs), NEW pair
  PROVE  /\ Compare(docs, reading, pair) \in Result
         /\ Consistent(Compare(docs, reading, pair))
         /\ \A field \in Compare(docs, reading, pair).fields :
              /\ field.si = SideRead(docs, reading, "si", pair, field.key)
              /\ field.bl = SideRead(docs, reading, "bl", pair, field.key)
<1> DEFINE fields == {CompareField(docs, reading, pair, f) : f \in Fields}
           reqs == CompareRequirements(docs, reading, pair, fields)
           defects == WithFinding(fields, "MISMATCH")
           listed == [i \in DOMAIN docs |-> [id |-> docs[i], role |-> reading[docs[i]].role]]
           workflow == IF MissingAttachment(docs, pair) THEN "WAITING_DOCUMENT"
                       ELSE IF reqs # {} THEN "REVIEW_REQUIRED"
                       ELSE IF defects # {} THEN "DISCREPANCIES_FOUND" ELSE "READY"
<1>1. fields \subseteq Compared
  BY CompareFieldType
<1>2. reqs \subseteq Requirement
  BY CompareRequirementsType
<1>3. listed \in Seq([id : Docs, role : Role \cup {"other", "none"}])
  <2>1. \A i \in DOMAIN docs : reading[docs[i]] \in Reading /\ docs[i] \in Docs
    BY DEF ReadingsOf
  <2>2. \A i \in 1..Len(docs) : [id |-> docs[i], role |-> reading[docs[i]].role]
                                  \in [id : Docs, role : Role \cup {"other", "none"}]
    BY <2>1 DEF Reading
  <2>3. DOMAIN docs = 1..Len(docs) /\ Len(docs) \in Nat
    OBVIOUS
  <2> QED
    BY <2>2, <2>3
<1>4. workflow \in Workflow
  BY DEF Workflow
<1>5. Keys(fields) = Fields
  BY CompareFieldType DEF Keys
<1>6. defects \subseteq Fields /\ WithFinding(fields, "MATCH") \subseteq Fields
  BY <1>1, WithFindingType
<1>7. Compare(docs, reading, pair) =
        [category |-> "BL_COMPARISON", docs |-> listed, fields |-> fields, reqs |-> reqs,
         checked |-> WithFinding(fields, "MATCH") \cup defects, defects |-> defects,
         workflow |-> workflow]
  BY DEF Compare
<1>8. \A field \in fields :
        /\ FindingHolds(field)
        /\ field.si = SideRead(docs, reading, "si", pair, field.key)
        /\ field.bl = SideRead(docs, reading, "bl", pair, field.key)
        /\ field = CompareField(docs, reading, pair, field.key)
  BY DEF CompareField, FindingHolds
<1> HIDE DEF fields, reqs, defects, listed, workflow
<1>9. Compare(docs, reading, pair) \in Result
  BY <1>1, <1>2, <1>3, <1>4, <1>6, <1>7 DEF Result
<1>10. Consistent(Compare(docs, reading, pair))
  BY <1>5, <1>7, <1>8 DEF Consistent, defects
<1> QED
  BY <1>7, <1>8, <1>9, <1>10
-----------------------------------------------------------------------------
(***************************************************************************)
(* The overlay.  A side of a field is what the machine read, but for the   *)
(* latest action on it.                                                    *)
(***************************************************************************)
SameValue(x, y) == x.state = y.state /\ x.norm = y.norm /\ x.needs = y.needs

LEMMA SideOfField ==
  ASSUME NEW field \in Compared, NEW role \in Role
  PROVE  field[role] \in Extraction
<1>1. CASE role = "si"
  BY <1>1 DEF Compared
<1>2. CASE role = "bl"
  BY <1>2 DEF Compared
<1> QED
  BY <1>1, <1>2 DEF Role

LEMMA ReviewedSideFacts ==
  ASSUME NEW docs, NEW actions \in Seq(Action), NEW field \in Compared, NEW role \in Role,
         NEW side, side = ReviewedSide(docs, actions, field, role)
  PROVE  /\ side \in Extraction
         /\ LatestKinds(actions) \subseteq {"SUPPLY_INFORMATION"} =>
              SameValue(side, field[role])
         /\ "SUPPLY_INFORMATION" \notin LatestKinds(actions) =>
              side.supplied = field[role].supplied
         /\ Mandatory(side) => Mandatory(field[role])
<1> DEFINE x == field[role]
           act == Latest(actions, SourceOf(docs, role), field.key)
<1>1. x \in Extraction
  BY SideOfField
<1>2. act.kind \in {"none"} \cup LatestKinds(actions)
  BY LatestKind
<1>3. act.value \in Values \cup {NoValue}
  <2>1. CASE act = NoAction
    BY <2>1 DEF NoAction
  <2>2. CASE \E i \in DOMAIN actions : act = actions[i]
    <3>1. PICK i \in DOMAIN actions : act = actions[i]
      BY <2>2
    <3>2. actions[i] \in Action
      OBVIOUS
    <3> HIDE DEF act
    <3> QED
      BY <3>1, <3>2 DEF Action
  <2> QED
    BY <2>1, <2>2, LatestIsAnAction
<1>4. side = CASE act.kind = "CORRECT_EXTRACTION" ->
                    [x EXCEPT !.state = "PRESENT", !.norm = act.value,
                              !.needs = FALSE, !.method = "human"]
               [] act.kind = "SUPPLY_INFORMATION" -> [x EXCEPT !.supplied = TRUE]
               [] act.kind = "CONFIRM_CANDIDATE" /\ Mandatory(x) -> [x EXCEPT !.needs = FALSE]
               [] OTHER -> x
  BY DEF ReviewedSide
<1> HIDE DEF x, act
<1>5. CASE act.kind = "CORRECT_EXTRACTION"
  <2>1. side = [x EXCEPT !.state = "PRESENT", !.norm = act.value,
                         !.needs = FALSE, !.method = "human"]
    BY <1>4, <1>5
  <2>2. side \in Extraction /\ side.supplied = x.supplied /\ ~side.needs
    BY <1>1, <1>3, <2>1 DEF Extraction, ValueState, Method
  <2> QED
    BY <1>2, <1>5, <2>2 DEF x, Mandatory
<1>6. CASE act.kind = "SUPPLY_INFORMATION"
  <2>1. side = [x EXCEPT !.supplied = TRUE]
    BY <1>4, <1>6
  <2>2. side \in Extraction /\ SameValue(side, x) /\ side.method = x.method
    BY <1>1, <2>1 DEF Extraction, SameValue
  <2> QED
    BY <1>2, <1>6, <2>2 DEF x, Mandatory, SameValue
<1>7. CASE act.kind = "CONFIRM_CANDIDATE" /\ Mandatory(x)
  <2>1. side = [x EXCEPT !.needs = FALSE]
    BY <1>4, <1>7
  <2>2. side \in Extraction /\ side.supplied = x.supplied /\ ~side.needs
    BY <1>1, <2>1 DEF Extraction
  <2> QED
    BY <1>2, <1>7, <2>2 DEF x, Mandatory
<1>8. CASE /\ act.kind \notin {"CORRECT_EXTRACTION", "SUPPLY_INFORMATION"}
           /\ ~(act.kind = "CONFIRM_CANDIDATE" /\ Mandatory(x))
  <2>1. side = x
    BY <1>4, <1>8
  <2> QED
    BY <1>1, <2>1 DEF x, SameValue
<1> QED
  BY <1>5, <1>6, <1>7, <1>8

\* The record the overlay makes of one field.
Reviewed(result, actions, field) ==
  LET si == ReviewedSide(result.docs, actions, field, "si")
      bl == ReviewedSide(result.docs, actions, field, "bl")
  IN [key |-> field.key, si |-> si, bl |-> bl,
      finding |-> IF Settled(si) /\ Settled(bl) THEN Differ(si, bl) ELSE "NEEDS_REVIEW"]

LEMMA ReviewedFieldsAre ==
  ASSUME NEW result, NEW actions
  PROVE  ReviewedFields(result, actions)
           = {Reviewed(result, actions, field) : field \in result.fields}
  BY DEF ReviewedFields, Reviewed

LEMMA ReviewedFieldType ==
  ASSUME NEW result, NEW actions \in Seq(Action), NEW field \in Compared
  PROVE  /\ Reviewed(result, actions, field) \in Compared
         /\ Reviewed(result, actions, field).key = field.key
         /\ FindingHolds(Reviewed(result, actions, field))
<1> PICK si \in Extraction, bl \in Extraction :
       /\ si = ReviewedSide(result.docs, actions, field, "si")
       /\ bl = ReviewedSide(result.docs, actions, field, "bl")
  BY ReviewedSideFacts DEF Role
<1> DEFINE finding == IF Settled(si) /\ Settled(bl) THEN Differ(si, bl) ELSE "NEEDS_REVIEW"
<1>1. finding \in Finding
  BY DEF Differ, Finding
<1>2. Reviewed(result, actions, field)
        = [key |-> field.key, si |-> si, bl |-> bl, finding |-> finding]
  BY DEF Reviewed
<1>3. FindingHolds(Reviewed(result, actions, field))
  BY <1>2 DEF FindingHolds
<1> HIDE DEF finding
<1> QED
  BY <1>1, <1>2, <1>3 DEF Compared

\* The field the overlay leaves when the findings of the machine stand.
Kept(result, actions, field) ==
  [Reviewed(result, actions, field) EXCEPT !.finding = field.finding]

LEMMA KeptFieldType ==
  ASSUME NEW result, NEW actions \in Seq(Action), NEW field \in Compared,
         FindingHolds(field), LatestKinds(actions) \subseteq {"SUPPLY_INFORMATION"}
  PROVE  /\ Kept(result, actions, field) \in Compared
         /\ Kept(result, actions, field).key = field.key
         /\ Kept(result, actions, field).finding = field.finding
         /\ FindingHolds(Kept(result, actions, field))
<1> PICK side : side = Reviewed(result, actions, field)
  OBVIOUS
<1>1. side \in Compared /\ side.key = field.key
  BY ReviewedFieldType
<1>2. /\ side.si = ReviewedSide(result.docs, actions, field, "si")
      /\ side.bl = ReviewedSide(result.docs, actions, field, "bl")
  BY DEF Reviewed
<1>3. SameValue(side.si, field.si) /\ SameValue(side.bl, field.bl)
  BY <1>2, ReviewedSideFacts DEF Role
<1>4. /\ Kept(result, actions, field) \in Compared
      /\ Kept(result, actions, field).key = field.key
      /\ Kept(result, actions, field).finding = field.finding
      /\ Kept(result, actions, field).si = side.si
      /\ Kept(result, actions, field).bl = side.bl
  BY <1>1 DEF Kept, Compared
<1>5. FindingHolds(Kept(result, actions, field))
  BY <1>3, <1>4 DEF FindingHolds, SameValue, Settled, Differ
<1> QED
  BY <1>4, <1>5

\* The fields of a reviewed result are those of the machine's, each once.
Overlaid(result, actions, field) ==
  IF MachineStands(result, actions) THEN Kept(result, actions, field)
  ELSE Reviewed(result, actions, field)

LEMMA OverlayFields ==
  ASSUME NEW result \in Result, Consistent(result), NEW actions \in Seq(Action)
  PROVE  Overlay(result, actions).fields
           = {Overlaid(result, actions, field) : field \in result.fields}
<1> DEFINE fields == ReviewedFields(result, actions)
           machine(field) == CHOOSE m \in result.fields : m.key = field.key
<1>1. result.fields \subseteq Compared
  BY DEF Result
<1>2. CASE MachineStands(result, actions)
  <2>1. Overlay(result, actions).fields
          = {[field EXCEPT !.finding = machine(field).finding] : field \in fields}
    BY <1>2 DEF Overlay, Result
  <2>2. ASSUME NEW field \in result.fields
        PROVE  machine(Reviewed(result, actions, field)) = field
    <3>1. Reviewed(result, actions, field).key = field.key
      BY <1>1, ReviewedFieldType
    <3> QED
      BY <3>1 DEF Consistent
  <2>3. fields = {Reviewed(result, actions, field) : field \in result.fields}
    BY ReviewedFieldsAre
  <2> HIDE DEF fields, machine
  <2>4. Overlay(result, actions).fields
          = {[Reviewed(result, actions, field)
                EXCEPT !.finding = machine(Reviewed(result, actions, field)).finding] :
               field \in result.fields}
    BY <2>1, <2>3
  <2>5. Overlay(result, actions).fields
          = {Kept(result, actions, field) : field \in result.fields}
    BY <2>2, <2>4 DEF Kept
  <2> QED
    BY <1>2, <2>5 DEF Overlaid
<1>3. CASE ~MachineStands(result, actions)
  <2>1. Overlay(result, actions).fields = fields
    BY <1>3 DEF Overlay, Result
  <2> QED
    BY <1>3, <2>1, ReviewedFieldsAre DEF Overlaid
<1> QED
  BY <1>2, <1>3

LEMMA OverlaidField ==
  ASSUME NEW result \in Result, Consistent(result), NEW actions \in Seq(Action),
         NEW field \in result.fields
  PROVE  /\ Overlaid(result, actions, field) \in Compared
         /\ Overlaid(result, actions, field).key = field.key
         /\ FindingHolds(Overlaid(result, actions, field))
         /\ \A role \in Role : Overlaid(result, actions, field)[role]
                                 = ReviewedSide(result.docs, actions, field, role)
         /\ MachineStands(result, actions) =>
              Overlaid(result, actions, field).finding = field.finding
<1>1. field \in Compared /\ FindingHolds(field)
  BY DEF Result, Consistent
<1>2. Reviewed(result, actions, field) \in Compared
  BY <1>1, ReviewedFieldType
<1>3. /\ Overlaid(result, actions, field)["si"] = Reviewed(result, actions, field).si
      /\ Overlaid(result, actions, field)["bl"] = Reviewed(result, actions, field).bl
  BY <1>2 DEF Overlaid, Kept, Compared
<1>4. /\ Reviewed(result, actions, field).si = ReviewedSide(result.docs, actions, field, "si")
      /\ Reviewed(result, actions, field).bl = ReviewedSide(result.docs, actions, field, "bl")
  BY DEF Reviewed
<1>5. \A role \in Role : Overlaid(result, actions, field)[role]
                           = ReviewedSide(result.docs, actions, field, role)
  BY <1>3, <1>4 DEF Role
<1>6. CASE MachineStands(result, actions)
  BY <1>1, <1>5, <1>6, KeptFieldType DEF Overlaid, MachineStands
<1>7. CASE ~MachineStands(result, actions)
  BY <1>1, <1>5, <1>7, ReviewedFieldType DEF Overlaid
<1> QED
  BY <1>6, <1>7

(***************************************************************************)
(* A reviewed result is a result of the same kind, as consistent as the    *)
(* machine's.                                                              *)
(***************************************************************************)
LEMMA OverlayType ==
  ASSUME NEW result \in Result, Consistent(result), NEW actions \in Seq(Action)
  PROVE  /\ Overlay(result, actions) \in Result
         /\ Consistent(Overlay(result, actions))
         /\ Overlay(result, actions).category = result.category
<1> DEFINE reviewed == Overlay(result, actions)
           after == {Overlaid(result, actions, field) : field \in result.fields}
<1>1. reviewed.fields = after
  BY OverlayFields
<1>2. after \subseteq Compared
  BY OverlaidField
<1>3. \A field \in after : FindingHolds(field)
  BY OverlaidField
<1>4. \A field, other \in after : field.key = other.key => field = other
  <2>1. \A field, other \in result.fields : field.key = other.key => field = other
    BY DEF Consistent
  <2> QED
    BY <2>1, OverlaidField
<1>5. Keys(after) = Keys(result.fields)
  BY OverlaidField DEF Keys
<1>6. CASE MachineStands(result, actions)
  <2>1. reviewed = [result EXCEPT !.fields = after]
    BY <1>1, <1>6 DEF Overlay, Result
  <2>2. \A finding : WithFinding(after, finding) = WithFinding(result.fields, finding)
    <3>1. \A field \in result.fields :
            /\ Overlaid(result, actions, field).finding = field.finding
            /\ Overlaid(result, actions, field).key = field.key
      BY <1>6, OverlaidField
    <3> QED
      BY <3>1 DEF WithFinding, Keys
  <2> HIDE DEF reviewed, after
  <2>3. reviewed \in Result /\ reviewed.category = result.category
    BY <1>2, <2>1 DEF Result
  <2>4. Consistent(reviewed)
    BY <1>3, <1>4, <1>5, <2>1, <2>2 DEF Consistent, Result
  <2> QED
    BY <2>3, <2>4 DEF reviewed
<1>7. CASE ~MachineStands(result, actions)
  <2> DEFINE fields == ReviewedFields(result, actions)
             defects == WithFinding(fields, "MISMATCH")
             checked == WithFinding(fields, "MATCH") \cup defects
             reqs == {req \in result.reqs : Stands(req, result, actions, fields)}
                       \cup When(checked # Fields,
                                 {Demand("unresolved_fields", NoDoc, NoField)})
             workflow == IF reqs # {} THEN "REVIEW_REQUIRED"
                         ELSE IF defects # {} THEN "DISCREPANCIES_FOUND" ELSE "READY"
  <2>1. fields = after
    BY <1>7, ReviewedFieldsAre DEF Overlaid
  <2>2. reviewed = [result EXCEPT !.fields = fields, !.defects = defects,
                                  !.checked = checked, !.reqs = reqs,
                                  !.workflow = workflow]
    BY <1>7 DEF Overlay
  <2>3. defects \subseteq Fields /\ checked \subseteq Fields
    BY <1>2, <2>1, WithFindingType
  <2>4. reqs \subseteq Requirement
    <3>1. result.reqs \subseteq Requirement
      BY DEF Result
    <3>2. When(checked # Fields, {Demand("unresolved_fields", NoDoc, NoField)})
            \subseteq Requirement
      BY DemandType DEF When, DocOrNone, Code
    <3> QED
      BY <3>1, <3>2
  <2>5. workflow \in Workflow
    BY DEF Workflow
  <2>6. checked = WithFinding(after, "MATCH") \cup WithFinding(after, "MISMATCH")
        /\ defects = WithFinding(after, "MISMATCH")
    BY <2>1
  <2> HIDE DEF reviewed, after, fields, defects, checked, reqs, workflow
  <2>7. /\ reviewed \in Result
        /\ reviewed.category = result.category
        /\ reviewed.fields = after
        /\ reviewed.checked = checked
        /\ reviewed.defects = defects
    BY <1>2, <2>1, <2>2, <2>3, <2>4, <2>5 DEF Result
  <2>8. Consistent(reviewed)
    BY <1>3, <1>4, <1>5, <2>6, <2>7 DEF Consistent
  <2> QED
    BY <2>7, <2>8 DEF reviewed
<1> QED
  BY <1>6, <1>7

(***************************************************************************)
(* What the sets of a consistent result mean: a field is checked exactly   *)
(* if both of its sides are settled, and a defect if they differ.          *)
(***************************************************************************)
LEMMA CheckedAreSettled ==
  ASSUME NEW result \in Result, Consistent(result)
  PROVE  LET settled == {field \in result.fields : \A role \in Role : Settled(field[role])}
         IN /\ result.checked = Keys(settled)
            /\ result.defects = Keys({field \in settled : field.si.norm # field.bl.norm})
            /\ \A field \in settled :
                 field.finding = IF field.key \in result.defects THEN "MISMATCH" ELSE "MATCH"
<1> DEFINE settled == {field \in result.fields : \A role \in Role : Settled(field[role])}
<1>1. \A field \in result.fields :
        field \in settled <=> Settled(field.si) /\ Settled(field.bl)
  BY DEF Role
<1>2. \A field \in result.fields :
        /\ field \in settled <=> field.finding \in {"MATCH", "MISMATCH"}
        /\ field \in settled => field.finding = Differ(field.si, field.bl)
  BY <1>1 DEF Consistent, FindingHolds, Differ
<1>3. settled \subseteq result.fields
  OBVIOUS
<1> HIDE DEF settled
<1>4. result.checked = Keys(settled)
  BY <1>2, <1>3 DEF Consistent, WithFinding, Keys
<1>5. {field \in settled : field.si.norm # field.bl.norm}
        = {field \in result.fields : field.finding = "MISMATCH"}
  BY <1>2, <1>3 DEF Differ
<1>6. result.defects = Keys({field \in settled : field.si.norm # field.bl.norm})
  BY <1>5 DEF Consistent, WithFinding
<1>7. ASSUME NEW field \in settled
      PROVE  field.finding = IF field.key \in result.defects THEN "MISMATCH" ELSE "MATCH"
  <2>1. field.key \in result.defects <=> field.finding = "MISMATCH"
    BY <1>3 DEF Consistent, WithFinding, Keys
  <2> QED
    BY <1>2, <1>3, <2>1
<1> QED
  BY <1>4, <1>6, <1>7 DEF settled

(***************************************************************************)
(* What a review leaves to confirm.                                        *)
(***************************************************************************)
LEMMA StillMandatory ==
  ASSUME NEW docs, NEW actions \in Seq(Action), NEW field \in Compared, NEW role \in Role
  PROVE  Mandatory(ReviewedSide(docs, actions, field, role)) <=>
           /\ Mandatory(field[role])
           /\ Latest(actions, SourceOf(docs, role), field.key).kind
                \in {"SUPPLY_INFORMATION", "none"}
<1> DEFINE x == field[role]
           act == Latest(actions, SourceOf(docs, role), field.key)
           side == ReviewedSide(docs, actions, field, role)
<1>1. x \in Extraction
  BY SideOfField
<1>2. act.kind \in {"none", "CONFIRM_CANDIDATE", "CORRECT_EXTRACTION", "SUPPLY_INFORMATION"}
  <2>1. CASE act = NoAction
    BY <2>1 DEF NoAction
  <2>2. CASE \E i \in DOMAIN actions : act = actions[i]
    <3>1. PICK i \in DOMAIN actions : act = actions[i]
      BY <2>2
    <3>2. actions[i] \in Action
      OBVIOUS
    <3> HIDE DEF act
    <3> QED
      BY <3>1, <3>2 DEF Action
  <2> QED
    BY <2>1, <2>2, LatestIsAnAction
<1>3. side = CASE act.kind = "CORRECT_EXTRACTION" ->
                    [x EXCEPT !.state = "PRESENT", !.norm = act.value,
                              !.needs = FALSE, !.method = "human"]
               [] act.kind = "SUPPLY_INFORMATION" -> [x EXCEPT !.supplied = TRUE]
               [] act.kind = "CONFIRM_CANDIDATE" /\ Mandatory(x) -> [x EXCEPT !.needs = FALSE]
               [] OTHER -> x
  BY DEF ReviewedSide
<1> HIDE DEF x, act, side
<1>4. CASE act.kind = "CORRECT_EXTRACTION"
  <2>1. side = [x EXCEPT !.state = "PRESENT", !.norm = act.value,
                         !.needs = FALSE, !.method = "human"]
    BY <1>3, <1>4
  <2>2. ~side.needs
    BY <1>1, <2>1 DEF Extraction
  <2> QED
    BY <1>4, <2>2 DEF Mandatory, x, act, side
<1>5. CASE act.kind = "SUPPLY_INFORMATION"
  <2>1. side = [x EXCEPT !.supplied = TRUE]
    BY <1>3, <1>5
  <2>2. side.needs = x.needs /\ side.method = x.method
    BY <1>1, <2>1 DEF Extraction
  <2> QED
    BY <1>5, <2>2 DEF Mandatory, x, act, side
<1>6. CASE act.kind = "CONFIRM_CANDIDATE"
  <2>1. CASE Mandatory(x)
    <3>1. side = [x EXCEPT !.needs = FALSE]
      BY <1>3, <1>6, <2>1
    <3>2. ~side.needs
      BY <1>1, <3>1 DEF Extraction
    <3> QED
      BY <1>6, <3>2 DEF Mandatory, x, act, side
  <2>2. CASE ~Mandatory(x)
    <3>1. side = x
      BY <1>3, <1>6, <2>2
    <3> QED
      BY <2>2, <3>1 DEF x, side
  <2> QED
    BY <2>1, <2>2
<1>7. CASE act.kind = "none"
  <2>1. side = x
    BY <1>3, <1>7
  <2> QED
    BY <1>7, <2>1 DEF x, act, side
<1> QED
  BY <1>2, <1>4, <1>5, <1>6, <1>7
-----------------------------------------------------------------------------
(***************************************************************************)
(* revision_delta between two consistent results.                          *)
(***************************************************************************)
LEMMA DeltaType ==
  ASSUME NEW result \in Result, NEW baseline
  PROVE  LET delta == Delta(result, baseline)
         IN /\ delta.resolved \subseteq Fields /\ delta.persisting \subseteq Fields
            /\ delta.new \subseteq Fields /\ delta.uncertain \subseteq Fields
            /\ delta = [resolved |-> delta.resolved, persisting |-> delta.persisting,
                        new |-> delta.new, uncertain |-> delta.uncertain]
<1> DEFINE keys(now, before) ==
             Keys({field \in result.fields :
                     field.finding \in now /\ \E old \in baseline.fields :
                       old.key = field.key /\ old.finding \in before})
<1>1. \A now, before : keys(now, before) \subseteq Fields
  BY DEF Keys, Result, Compared
<1>2. Delta(result, baseline) =
        [resolved |-> keys({"MATCH"}, {"MISMATCH"}),
         persisting |-> keys({"MISMATCH"}, {"MISMATCH"}),
         new |-> keys({"MISMATCH"}, Finding \ {"MISMATCH"}),
         uncertain |-> keys(Uncertain, Finding \ Uncertain)]
  BY DEF Delta
<1> HIDE DEF keys
<1> QED
  BY <1>1, <1>2

LEMMA DeltaIsComplete ==
  ASSUME NEW result \in Result, Consistent(result), result.category = "BL_COMPARISON",
         NEW baseline \in Result, Consistent(baseline), baseline.category = "BL_COMPARISON"
  PROVE  LET delta == Delta(result, baseline)
         IN /\ baseline.defects \subseteq delta.resolved \cup delta.persisting
                                            \cup delta.uncertain
            /\ delta.persisting \cup delta.new = result.defects
            /\ delta.resolved \subseteq result.checked \ result.defects
<1> DEFINE pairs(now, before) ==
             {field \in result.fields :
                field.finding \in now /\ \E old \in baseline.fields :
                  old.key = field.key /\ old.finding \in before}
           keys(now, before) == Keys(pairs(now, before))
           delta == Delta(result, baseline)
<1>1. /\ delta.resolved = keys({"MATCH"}, {"MISMATCH"})
      /\ delta.persisting = keys({"MISMATCH"}, {"MISMATCH"})
      /\ delta.new = keys({"MISMATCH"}, Finding \ {"MISMATCH"})
      /\ delta.uncertain = keys(Uncertain, Finding \ Uncertain)
  BY DEF Delta
<1>2. \A f \in Fields : \E field \in result.fields, old \in baseline.fields :
        field.key = f /\ old.key = f
  <2>1. Keys(result.fields) = Fields /\ Keys(baseline.fields) = Fields
    BY DEF Consistent
  <2> QED
    BY <2>1 DEF Keys
<1>3. /\ \A field \in result.fields : field.key \in Fields /\ field.finding \in Finding
      /\ \A field \in baseline.fields : field.key \in Fields /\ field.finding \in Finding
  BY DEF Result, Compared
<1>4. /\ \A field, other \in result.fields : field.key = other.key => field = other
      /\ \A field, other \in baseline.fields : field.key = other.key => field = other
  BY DEF Consistent
<1>5. /\ baseline.defects = Keys({field \in baseline.fields : field.finding = "MISMATCH"})
      /\ result.defects = Keys({field \in result.fields : field.finding = "MISMATCH"})
      /\ result.checked = Keys({field \in result.fields : field.finding = "MATCH"})
                            \cup result.defects
  BY DEF Consistent, WithFinding
<1>6. \A now, before, f :
        f \in keys(now, before) <=>
          \E field \in result.fields, old \in baseline.fields :
            /\ field.key = f /\ old.key = f
            /\ field.finding \in now /\ old.finding \in before
  BY DEF Keys
<1> HIDE DEF keys, delta
<1>7. baseline.defects \subseteq delta.resolved \cup delta.persisting \cup delta.uncertain
  <2>1. SUFFICES ASSUME NEW f \in baseline.defects
                 PROVE  f \in delta.resolved \cup delta.persisting \cup delta.uncertain
    OBVIOUS
  <2>2. PICK old \in baseline.fields : old.key = f /\ old.finding = "MISMATCH"
    BY <1>5 DEF Keys
  <2>3. PICK field \in result.fields : field.key = f
    BY <1>2, <1>3, <2>2
  <2>4. field.finding \in {"MATCH", "MISMATCH"} \cup Uncertain
    BY <1>3, <2>3 DEF Finding, Uncertain
  <2>5. "MISMATCH" \in Finding \ Uncertain
    BY DEF Finding, Uncertain
  <2> QED
    BY <1>1, <1>6, <2>2, <2>3, <2>4, <2>5
<1>8. delta.persisting \cup delta.new = result.defects
  <2>1. ASSUME NEW f \in result.defects
        PROVE  f \in delta.persisting \cup delta.new
    <3>1. PICK field \in result.fields : field.key = f /\ field.finding = "MISMATCH"
      BY <1>5 DEF Keys
    <3>2. PICK old \in baseline.fields : old.key = f
      BY <1>2, <1>3, <3>1
    <3>3. old.finding \in {"MISMATCH"} \cup (Finding \ {"MISMATCH"})
      BY <1>3
    <3> QED
      BY <1>1, <1>6, <3>1, <3>2, <3>3
  <2>2. ASSUME NEW f \in delta.persisting \cup delta.new
        PROVE  f \in result.defects
    <3>1. \E field \in result.fields : field.key = f /\ field.finding = "MISMATCH"
      BY <1>1, <1>6
    <3> QED
      BY <1>5, <3>1 DEF Keys
  <2> QED
    BY <2>1, <2>2
<1>9. delta.resolved \subseteq result.checked \ result.defects
  <2>1. SUFFICES ASSUME NEW f \in delta.resolved
                 PROVE  f \in result.checked \ result.defects
    OBVIOUS
  <2>2. PICK field \in result.fields : field.key = f /\ field.finding = "MATCH"
    BY <1>1, <1>6
  <2>3. f \in result.checked
    BY <1>5, <2>2 DEF Keys
  <2>4. f \notin result.defects
    BY <1>4, <1>5, <2>2 DEF Keys
  <2> QED
    BY <2>3, <2>4
<1> QED
  BY <1>7, <1>8, <1>9 DEF delta

(***************************************************************************)
(* The issues of an amendment.                                             *)
(***************************************************************************)
LEMMA IssueItemsType ==
  ASSUME NEW reviewed \in Result
  PROVE  IssueItems(reviewed) \in SUBSET Item
<1> DEFINE items == UNION {FieldItems(field) : field \in reviewed.fields}
           open == {req \in reviewed.reqs :
                      /\ req.code # "unresolved_fields"
                      /\ req.field \notin {item.field : item \in items}}
           first(req) == CHOOSE q \in open : q.code = req.code /\ q.doc = req.doc
           demanded(req) ==
             [kind |-> "document_requirement", field |-> req.field, at |-> req.doc,
              code |-> req.code, si |-> NoValue, bl |-> NoValue]
<1>1. ASSUME NEW field \in reviewed.fields, NEW item \in FieldItems(field)
      PROVE  item \in Item
  <2>1. field \in Compared /\ field.key \in Fields
    BY DEF Result, Compared
  <2>2. \A role \in Role : field[role] \in Extraction
    BY <2>1, SideOfField
  <2>3. field.si.norm \in Values \cup {NoValue} /\ field.bl.norm \in Values \cup {NoValue}
    <3>1. field["si"] \in Extraction /\ field["bl"] \in Extraction
      BY <2>2 DEF Role
    <3> QED
      BY <3>1 DEF Extraction
  <2>4. CASE field.finding = "MISMATCH" /\ Asserted(field.si) /\ Asserted(field.bl)
    <3>1. item = [kind |-> "mismatch", field |-> field.key, at |-> "bl", code |-> "",
                  si |-> field.si.norm, bl |-> field.bl.norm]
      BY <2>4 DEF FieldItems
    <3> QED
      BY <2>1, <2>3, <3>1 DEF Item, Role
  <2>5. CASE ~(field.finding = "MISMATCH" /\ Asserted(field.si) /\ Asserted(field.bl))
    <3>1. PICK role \in Role : item = SideItem(field, role)
      BY <2>5 DEF FieldItems
    <3>2. SideKind(field[role]) \in {"supplied_information", "pending_review",
                                     "missing_value", "unreadable", "ambiguous"}
      BY DEF SideKind
    <3> DEFINE kind == SideKind(field[role])
               shown(side) == IF \/ kind = "supplied_information"
                                 \/ kind # "pending_review" /\ side # role
                              THEN field[side].norm ELSE NoValue
    <3>3. item = [kind |-> kind, field |-> field.key, at |-> role, code |-> "",
                  si |-> shown("si"), bl |-> shown("bl")]
      BY <3>1 DEF SideItem
    <3>4. shown("si") \in Values \cup {NoValue} /\ shown("bl") \in Values \cup {NoValue}
      BY <2>3
    <3> HIDE DEF kind, shown
    <3> QED
      BY <2>1, <3>2, <3>3, <3>4 DEF Item, kind
  <2> QED
    BY <2>4, <2>5
<1>2. items \subseteq Item
  BY <1>1
<1>3. open \subseteq Requirement
  BY DEF Result
<1> HIDE DEF items, open
<1>4. ASSUME NEW req \in open
      PROVE  demanded(first(req)) \in Item
  <2>1. first(req) \in open
    OBVIOUS
  <2>2. first(req) \in Requirement
    BY <1>3, <2>1
  <2> HIDE DEF first
  <2> QED
    BY <2>2 DEF Requirement, Item
<1>5. IssueItems(reviewed) = items \cup {demanded(req) : req \in {first(q) : q \in open}}
  BY DEF IssueItems, items, open
<1> QED
  BY <1>2, <1>4, <1>5

(***************************************************************************)
(* An eligible run: every field of it is read, confirmed and equal on both *)
(* sides, and no value of it comes from outside of the sources.            *)
(***************************************************************************)
LEMMA EligibleMeans ==
  ASSUME NEW reviewed \in Result, Consistent(reviewed), NEW actions, NEW docs, NEW pair,
         Eligible(reviewed, actions, docs, pair)
  PROVE  /\ Keys(reviewed.fields) = Fields
         /\ \A role \in Role : pair[role] \in {docs[i] : i \in DOMAIN docs}
         /\ \A field \in reviewed.fields :
              /\ \A role \in Role : Settled(field[role])
              /\ field.si.norm = field.bl.norm
         /\ reviewed.reqs = {}
         /\ "SUPPLY_INFORMATION" \notin LatestKinds(actions)
<1>1. /\ When(reviewed.category # "BL_COMPARISON", {"not_comparison"}) = {}
      /\ When(~({pair["si"], pair["bl"]} \subseteq {docs[i] : i \in DOMAIN docs}),
              {"missing_documents"}) = {}
      /\ When(WithFinding(reviewed.fields, "MATCH") # Keys(reviewed.fields),
              {"unresolved_findings"}) = {}
      /\ When(reviewed.reqs # {}, {"pending_review"}) = {}
      /\ When("SUPPLY_INFORMATION" \in LatestKinds(actions),
              {"supplied_information_unverified"}) = {}
  BY DEF Eligible, Blockers
<1>2. \A condition, blocker : When(condition, {blocker}) = {} => ~condition
  BY DEF When
<1>3. reviewed.category = "BL_COMPARISON"
  BY <1>1, <1>2
<1>4. {pair["si"], pair["bl"]} \subseteq {docs[i] : i \in DOMAIN docs}
  BY <1>1, <1>2
<1>5. WithFinding(reviewed.fields, "MATCH") = Keys(reviewed.fields)
  BY <1>1, <1>2
<1>6. reviewed.reqs = {}
  BY <1>1, <1>2
<1>7. "SUPPLY_INFORMATION" \notin LatestKinds(actions)
  BY <1>1, <1>2
<1>8. Keys(reviewed.fields) = Fields
  BY <1>3 DEF Consistent
<1>9. ASSUME NEW field \in reviewed.fields
      PROVE  /\ \A role \in Role : Settled(field[role])
             /\ field.si.norm = field.bl.norm
  <2>1. PICK other \in reviewed.fields : other.key = field.key /\ other.finding = "MATCH"
    BY <1>5 DEF WithFinding, Keys
  <2>2. field.finding = "MATCH" /\ FindingHolds(field)
    BY <2>1 DEF Consistent
  <2> QED
    BY <2>2 DEF FindingHolds, Differ, Role
<1> QED
  BY <1>4, <1>6, <1>7, <1>8, <1>9 DEF Role
-----------------------------------------------------------------------------
(***************************************************************************)
(* Information supplied from outside of the sources.                       *)
(***************************************************************************)
UnresolvedAsked(result) ==
  result.docs # <<>> /\ result.checked # Fields =>
    Demand("unresolved_fields", NoDoc, NoField) \in result.reqs

LEMMA CompareAsks ==
  ASSUME NEW docs \in Seq(Docs), NEW reading \in ReadingsOf(docs), NEW pair
  PROVE  UnresolvedAsked(Compare(docs, reading, pair))
<1> DEFINE fields == {CompareField(docs, reading, pair, f) : f \in Fields}
           result == Compare(docs, reading, pair)
<1>1. /\ result.docs = [i \in DOMAIN docs |-> [id |-> docs[i], role |-> reading[docs[i]].role]]
      /\ result.fields = fields
      /\ result.reqs = CompareRequirements(docs, reading, pair, fields)
      /\ result.checked = WithFinding(fields, "MATCH") \cup WithFinding(fields, "MISMATCH")
  BY DEF Compare
<1>2. SUFFICES ASSUME result.docs # <<>>, result.checked # Fields
               PROVE  Demand("unresolved_fields", NoDoc, NoField) \in result.reqs
  BY DEF UnresolvedAsked
<1>3. docs # <<>>
  <2>1. result.docs \in Seq([id : Docs, role : Role \cup {"other", "none"}])
    BY CompareType DEF Result
  <2>2. DOMAIN result.docs = DOMAIN docs
    BY <1>1
  <2> DEFINE listed == result.docs
  <2> HIDE DEF listed
  <2>3. listed # <<>> /\ Len(listed) \in Nat /\ DOMAIN listed = 1..Len(listed)
    BY <1>2, <2>1 DEF listed
  <2>4. Len(listed) # 0
    BY <2>1, <2>3 DEF listed
  <2>5. 1 \in DOMAIN docs
    BY <2>2, <2>3, <2>4 DEF listed
  <2> QED
    BY <2>5
<1>4. PICK f \in Fields : f \notin result.checked
  <2>1. result.checked \subseteq Fields
    BY CompareType DEF Result
  <2> QED
    BY <1>2, <2>1
<1> DEFINE field == CompareField(docs, reading, pair, f)
<1>5. field \in fields /\ field.key = f
  BY CompareFieldType
<1>6. field.finding \notin {"MATCH", "MISMATCH"}
  BY <1>1, <1>4, <1>5 DEF WithFinding, Keys
<1>7. field.finding = "NEEDS_REVIEW"
  BY <1>3, <1>6 DEF CompareField, Differ
<1> HIDE DEF fields, field, result
<1>8. \E other \in fields : other.finding = "NEEDS_REVIEW"
  BY <1>5, <1>7
<1> QED
  BY <1>1, <1>8 DEF CompareRequirements, When

LEMMA LatestAfter ==
  ASSUME NEW actions \in Seq(Action), NEW act \in Action, NEW d, NEW f
  PROVE  Latest(Append(actions, act), d, f) =
           IF act.doc = d /\ act.field = f THEN act ELSE Latest(actions, d, f)
<1> DEFINE after == Append(actions, act)
           n == Len(actions) + 1
<1>1. /\ DOMAIN after = 1..n /\ DOMAIN actions = 1..(n - 1) /\ n \in Nat \ {0}
      /\ after[n] = act
      /\ \A i \in DOMAIN actions : after[i] = actions[i]
  OBVIOUS
<1> HIDE DEF after, n
<1>2. CASE act.doc = d /\ act.field = f
  <2>1. n \in Upon(after, d, f) /\ \A i \in Upon(after, d, f) : i <= n
    BY <1>1, <1>2 DEF Upon
  <2>2. \A i \in Upon(after, d, f) : (\A j \in Upon(after, d, f) : j <= i) => i = n
    BY <1>1, <2>1 DEF Upon
  <2>3. (CHOOSE i \in Upon(after, d, f) : \A j \in Upon(after, d, f) : j <= i) = n
    BY <2>1, <2>2
  <2> QED
    BY <1>1, <1>2, <2>1, <2>3 DEF Latest, after
<1>3. CASE ~(act.doc = d /\ act.field = f)
  <2>1. Upon(after, d, f) = Upon(actions, d, f)
    <3>1. ASSUME NEW i \in Upon(after, d, f) PROVE i \in Upon(actions, d, f)
      BY <1>1, <1>3 DEF Upon
    <3>2. ASSUME NEW i \in Upon(actions, d, f) PROVE i \in Upon(after, d, f)
      BY <1>1 DEF Upon
    <3> QED
      BY <3>1, <3>2
  <2>2. CASE Upon(actions, d, f) = {}
    BY <1>3, <2>1, <2>2 DEF Latest, after
  <2>3. CASE Upon(actions, d, f) # {}
    <3>1. Upon(actions, d, f) \in SUBSET (1..Len(actions)) /\ Len(actions) \in Nat
      BY DEF Upon
    <3>2. \E i \in Upon(actions, d, f) : \A j \in Upon(actions, d, f) : j <= i
      BY <2>3, <3>1, LargestMember
    <3> DEFINE last == CHOOSE i \in Upon(actions, d, f) : \A j \in Upon(actions, d, f) : j <= i
    <3>3. last \in DOMAIN actions
      BY <3>2 DEF Upon
    <3>4. Latest(actions, d, f) = actions[last] /\ Latest(after, d, f) = after[last]
      BY <2>1, <2>3 DEF Latest
    <3> QED
      BY <1>1, <1>3, <3>3, <3>4 DEF after
  <2> QED
    BY <2>2, <2>3
<1> QED
  BY <1>2, <1>3

\* A side is settled by supplied information only if the machine settled it, and
\* what a review had confirmed before is open again.
LEMMA SupplySettlesNothing ==
  ASSUME NEW docs, NEW actions \in Seq(Action), NEW act \in Action,
         act.kind = "SUPPLY_INFORMATION", NEW field \in Compared, NEW role \in Role
  PROVE  LET before == ReviewedSide(docs, actions, field, role)
             after == ReviewedSide(docs, Append(actions, act), field, role)
         IN /\ Settled(after) => Settled(before)
            /\ before.needs => after.needs
<1> DEFINE x == field[role]
           d == SourceOf(docs, role)
           old == Latest(actions, d, field.key)
           new == Latest(Append(actions, act), d, field.key)
           before == ReviewedSide(docs, actions, field, role)
           after == ReviewedSide(docs, Append(actions, act), field, role)
<1>1. x \in Extraction
  BY SideOfField
<1>2. new = IF act.doc = d /\ act.field = field.key THEN act ELSE old
  BY LatestAfter
<1>3. before = CASE old.kind = "CORRECT_EXTRACTION" ->
                      [x EXCEPT !.state = "PRESENT", !.norm = old.value,
                                !.needs = FALSE, !.method = "human"]
                 [] old.kind = "SUPPLY_INFORMATION" -> [x EXCEPT !.supplied = TRUE]
                 [] old.kind = "CONFIRM_CANDIDATE" /\ Mandatory(x) -> [x EXCEPT !.needs = FALSE]
                 [] OTHER -> x
  BY DEF ReviewedSide
<1>4. new.kind = "SUPPLY_INFORMATION" => after = [x EXCEPT !.supplied = TRUE]
  BY DEF ReviewedSide
<1>5. new = old => after = before
  BY DEF ReviewedSide
<1> HIDE DEF x, d, old, new, before, after
<1>6. Settled(x) => Settled(before)
  <2> SUFFICES ASSUME Settled(x) PROVE Settled(before)
    OBVIOUS
  <2>1. CASE old.kind = "CORRECT_EXTRACTION"
    <3>1. before = [x EXCEPT !.state = "PRESENT", !.norm = old.value,
                             !.needs = FALSE, !.method = "human"]
      BY <1>3, <2>1
    <3> QED
      BY <1>1, <3>1 DEF Settled, Extraction
  <2>2. CASE old.kind = "SUPPLY_INFORMATION"
    <3>1. before = [x EXCEPT !.supplied = TRUE]
      BY <1>3, <2>2
    <3> QED
      BY <1>1, <3>1 DEF Settled, Extraction
  <2>3. CASE old.kind \notin {"CORRECT_EXTRACTION", "SUPPLY_INFORMATION"}
    <3>1. ~Mandatory(x)
      BY DEF Settled, Mandatory
    <3>2. before = x
      BY <1>3, <2>3, <3>1
    <3> QED
      BY <3>2
  <2> QED
    BY <2>1, <2>2, <2>3
<1>7. before.needs => x.needs
  <2>1. CASE old.kind = "CORRECT_EXTRACTION"
    <3>1. before = [x EXCEPT !.state = "PRESENT", !.norm = old.value,
                             !.needs = FALSE, !.method = "human"]
      BY <1>3, <2>1
    <3> QED
      BY <1>1, <3>1 DEF Extraction
  <2>2. CASE old.kind = "SUPPLY_INFORMATION"
    <3>1. before = [x EXCEPT !.supplied = TRUE]
      BY <1>3, <2>2
    <3> QED
      BY <1>1, <3>1 DEF Extraction
  <2>3. CASE old.kind = "CONFIRM_CANDIDATE" /\ Mandatory(x)
    <3>1. before = [x EXCEPT !.needs = FALSE]
      BY <1>3, <2>3
    <3> QED
      BY <1>1, <3>1 DEF Extraction
  <2>4. CASE /\ old.kind \notin {"CORRECT_EXTRACTION", "SUPPLY_INFORMATION"}
             /\ ~(old.kind = "CONFIRM_CANDIDATE" /\ Mandatory(x))
    <3>1. before = x
      BY <1>3, <2>4
    <3> QED
      BY <3>1
  <2> QED
    BY <2>1, <2>2, <2>3, <2>4
<1>8. CASE new = old
  BY <1>5, <1>8 DEF before, after
<1>9. CASE new = act
  <2>1. after = [x EXCEPT !.supplied = TRUE]
    BY <1>4, <1>9
  <2>2. after.needs = x.needs /\ (Settled(after) <=> Settled(x))
    BY <1>1, <2>1 DEF Settled, Extraction
  <2> QED
    BY <1>6, <1>7, <2>2 DEF before, after
<1> QED
  BY <1>2, <1>8, <1>9

(***************************************************************************)
(* No coverage is gained and no requirement lifted by it.                  *)
(***************************************************************************)
LEMMA SupplyResolvesNothing ==
  ASSUME NEW result \in Result, Consistent(result), UnresolvedAsked(result),
         result.docs # <<>>,
         NEW actions \in Seq(Action), NEW act \in Action, act.kind = "SUPPLY_INFORMATION"
  PROVE  LET before == Overlay(result, actions)
             after == Overlay(result, Append(actions, act))
         IN after.checked \subseteq before.checked /\ before.reqs \subseteq after.reqs
<1> DEFINE more == Append(actions, act)
           before == Overlay(result, actions)
           after == Overlay(result, more)
           unresolved == Demand("unresolved_fields", NoDoc, NoField)
<1>1. more \in Seq(Action) /\ result.fields \subseteq Compared
  BY DEF Result
<1>2. /\ before \in Result /\ Consistent(before) /\ after \in Result /\ Consistent(after)
  BY <1>1, OverlayType
<1>3. /\ before.fields = {Overlaid(result, actions, field) : field \in result.fields}
      /\ after.fields = {Overlaid(result, more, field) : field \in result.fields}
  BY <1>1, OverlayFields
<1>4. ASSUME NEW field \in result.fields
      PROVE  /\ Overlaid(result, actions, field).key = field.key
             /\ Overlaid(result, more, field).key = field.key
             /\ \A role \in Role :
                  /\ Settled(Overlaid(result, more, field)[role]) =>
                       Settled(Overlaid(result, actions, field)[role])
                  /\ Overlaid(result, actions, field)[role].needs =>
                       Overlaid(result, more, field)[role].needs
  <2>1. /\ Overlaid(result, actions, field).key = field.key
        /\ \A role \in Role : Overlaid(result, actions, field)[role]
                                = ReviewedSide(result.docs, actions, field, role)
    BY OverlaidField
  <2>2. /\ Overlaid(result, more, field).key = field.key
        /\ \A role \in Role : Overlaid(result, more, field)[role]
                                = ReviewedSide(result.docs, more, field, role)
    BY <1>1, OverlaidField
  <2> QED
    BY <1>1, <2>1, <2>2, SupplySettlesNothing
<1> HIDE DEF before, after
<1>5. after.checked \subseteq before.checked
  <2>1. /\ before.checked = Keys({field \in before.fields : \A role \in Role : Settled(field[role])})
        /\ after.checked = Keys({field \in after.fields : \A role \in Role : Settled(field[role])})
    BY <1>2, CheckedAreSettled
  <2>2. SUFFICES ASSUME NEW f \in after.checked PROVE f \in before.checked
    OBVIOUS
  <2>3. PICK new \in after.fields : new.key = f /\ \A role \in Role : Settled(new[role])
    BY <2>1 DEF Keys
  <2>4. PICK field \in result.fields : new = Overlaid(result, more, field)
    BY <1>3
  <2> DEFINE old == Overlaid(result, actions, field)
  <2>5. old.key = f /\ \A role \in Role : Settled(old[role])
    BY <1>4, <2>3, <2>4
  <2>6. old \in before.fields
    BY <1>3
  <2> HIDE DEF old
  <2> QED
    BY <2>1, <2>5, <2>6 DEF Keys
<1>6. LatestKinds(more) \subseteq LatestKinds(actions) \cup {"SUPPLY_INFORMATION"}
  <2>1. SUFFICES ASSUME NEW i \in DOMAIN more
                 PROVE  Latest(more, more[i].doc, more[i].field).kind
                          \in LatestKinds(actions) \cup {"SUPPLY_INFORMATION"}
    BY DEF LatestKinds
  <2> DEFINE d == more[i].doc
             f == more[i].field
  <2>2. CASE act.doc = d /\ act.field = f
    <3>1. Latest(more, d, f) = act
      BY <2>2, LatestAfter
    <3> QED
      BY <3>1
  <2>3. CASE ~(act.doc = d /\ act.field = f)
    <3>1. Latest(more, d, f) = Latest(actions, d, f)
      BY <2>3, LatestAfter
    <3>2. more[i] # act
      BY <2>3
    <3>3. i \in DOMAIN actions /\ more[i] = actions[i]
      BY <3>2
    <3>4. Latest(actions, d, f).kind \in LatestKinds(actions)
      BY <3>3 DEF LatestKinds
    <3> QED
      BY <3>1, <3>4
  <2> QED
    BY <2>2, <2>3
<1>7. CASE MachineStands(result, actions)
  <2>1. MachineStands(result, more)
    BY <1>6, <1>7 DEF MachineStands
  <2>2. before.reqs = result.reqs /\ after.reqs = result.reqs
    BY <1>7, <2>1 DEF before, after, Overlay, Result
  <2> QED
    BY <1>5, <2>2 DEF before, after
<1>8. CASE ~MachineStands(result, actions)
  <2> DEFINE standing(acts, fields) ==
               {req \in result.reqs : Stands(req, result, acts, fields)}
  <2>1. before.reqs = standing(actions, before.fields)
                        \cup When(before.checked # Fields, {unresolved})
    BY <1>8 DEF before, Overlay, Result
  <2>2. CASE MachineStands(result, more)
    <3>1. after.reqs = result.reqs /\ after.checked = result.checked
      BY <2>2 DEF after, Overlay, Result
    <3>2. before.checked \subseteq Fields /\ after.checked \subseteq Fields
      BY <1>2 DEF Result
    <3>3. before.checked # Fields => unresolved \in result.reqs
      BY <1>5, <3>1, <3>2 DEF UnresolvedAsked
    <3> QED
      BY <1>5, <2>1, <3>1, <3>3 DEF When, before, after
  <2>3. CASE ~MachineStands(result, more)
    <3>1. after.reqs = standing(more, after.fields)
                         \cup When(after.checked # Fields, {unresolved})
      BY <2>3 DEF after, Overlay, Result
    <3>2. before.checked # Fields => after.checked # Fields
      <4>1. before.checked \subseteq Fields
        BY <1>2 DEF Result
      <4> QED
        BY <1>5, <4>1
    <3>3. ASSUME NEW req \in result.reqs, Stands(req, result, actions, before.fields)
          PROVE  Stands(req, result, more, after.fields)
      <4>1. Latest(more, req.doc, req.field).kind # "CORRECT_EXTRACTION"
        BY <3>3, LatestAfter DEF Stands
      <4>2. ASSUME NEW field \in before.fields, NEW role \in Role,
                   field.key = req.field, field[role].needs
            PROVE  \E other \in after.fields : other.key = req.field /\ other[role].needs
        <5>1. PICK machine \in result.fields : field = Overlaid(result, actions, machine)
          BY <1>3
        <5> QED
          BY <1>3, <1>4, <4>2, <5>1
      <4> QED
        BY <3>3, <4>1, <4>2 DEF Stands
    <3>4. before.reqs \subseteq after.reqs
      BY <2>1, <3>1, <3>2, <3>3 DEF When
    <3> QED
      BY <1>5, <3>4 DEF before, after
  <2> QED
    BY <2>2, <2>3
<1> QED
  BY <1>7, <1>8
=============================================================================
