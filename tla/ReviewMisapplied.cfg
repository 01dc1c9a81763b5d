\* A task with two SIs whose pair holds the later one, and a correction of it.
SPECIFICATION Spec
CONSTANTS
  s1 = s1
  s2 = s2
  b1 = b1
  b2 = b2
  weight = weight
  port = port
  v1 = v1
  v2 = v2
  r1 = r1
  r2 = r2
  NoRun = NoRun
  NoDoc = NoDoc
  NoField = NoField
  NoValue = NoValue
  Docs <- TheDocs
  Fields <- TheFields
  Values <- TheValues
  IssueCodes = {"FIELD_NOT_FOUND", "AI_CANDIDATE_MISSING", "AI_CONFIRMATION_REQUIRED"}
  Runs <- TheRuns
  Clients = {c1}
  FirstTasks <- TwoInstructions
  Readings <- TheReadings
  Printed <- AllPrinted
  DocLimit = 3
  MaxRevision = 1
  MaxWork = 2
INVARIANT CorrectionsApply
CHECK_DEADLOCK FALSE
