\* One task, two analyses over two revisions, a draft BL replaced, up to two
\* reviews of an analysis and two drafts asked for by one client.
SPECIFICATION Spec
CONSTANTS
  s1 = s1
  s2 = s2
  b1 = b1
  b2 = b2
  weight = weight
  port = port
  v1 = v1
  v2 = v2
  r1 = r1
  r2 = r2
  NoRun = NoRun
  NoDoc = NoDoc
  NoField = NoField
  NoValue = NoValue
  Docs <- OneInstruction
  Fields <- TheFields
  Values <- TheValues
  IssueCodes = {"FIELD_NOT_FOUND", "AI_CANDIDATE_MISSING", "AI_CONFIRMATION_REQUIRED"}
  Runs <- TheRuns
  Clients = {c1}
  FirstTasks <- Clones
  Readings <- TheReadings
  Printed <- ThePrinted
  DocLimit = 2
  MaxRevision = 2
  MaxWork = 2
SYMMETRY Symmetric
INVARIANT TypeOK
INVARIANT ReviewsOnComparedPair
INVARIANT CompletedChecksHold
INVARIANT PendingIsShown
INVARIANT FindingsAreConfirmed
INVARIANT DeltaAccounts
PROPERTY SuppliedInformationResolvesNothing
PROPERTY DraftsAreAboutOpenFacts
PROPERTY LedgerKept
CHECK_DEADLOCK FALSE
