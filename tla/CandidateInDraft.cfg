\* A scanned SI against a text draft BL without one of its values.
SPECIFICATION Spec
CONSTANTS
  s1 = s1
  s2 = s2
  b1 = b1
  b2 = b2
  weight = weight
  port = port
  v1 = v1
  v2 = v2
  r1 = r1
  r2 = r2
  NoRun = NoRun
  NoDoc = NoDoc
  NoField = NoField
  NoValue = NoValue
  Docs <- TheDocs
  Fields <- TheFields
  Values <- TheValues
  IssueCodes = {"FIELD_NOT_FOUND", "AI_CANDIDATE_MISSING", "AI_CONFIRMATION_REQUIRED"}
  Runs <- TheRuns
  Clients = {c1}
  FirstTasks <- Clones
  Readings <- ScannedReadings
  Printed <- ThePrinted
  DocLimit = 2
  MaxRevision = 2
  MaxWork = 2
INVARIANT NoCandidateAsFact
CHECK_DEADLOCK FALSE
