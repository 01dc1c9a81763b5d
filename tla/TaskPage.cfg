\* A cloned task, two analyses over two revisions, three clicks of the user, or two
\* and one request of another client, with one review or draft in the database.
SPECIFICATION PageSpec
CONSTANTS
  s1 = s1
  b1 = b1
  b2 = b2
  weight = weight
  v1 = v1
  v2 = v2
  r1 = r1
  r2 = r2
  user = user
  NoRun = NoRun
  NoDoc = NoDoc
  NoField = NoField
  NoValue = NoValue
  Docs <- TheDocs
  Fields <- TheFields
  Values <- TheValues
  IssueCodes = {"AI_CONFIRMATION_REQUIRED"}
  Runs <- TheRuns
  Clients <- TheClients
  Page = user
  Choices <- OneChoice
  FirstTasks <- Clones
  Readings <- TheReadings
  Printed <- ThePrinted
  DocLimit = 2
  MaxRevision = 2
  MaxWork = 1
  AppEnv = "demo"
  BriefingNotes <- TheNotes
  Budgets <- TheBudgets
INVARIANT PageTypeOK
INVARIANT LockIsHeld
INVARIANT NoticesAreOfTheShown
PROPERTY DecisionsAreAboutTheShown
PROPERTY PageComesFree
CHECK_DEADLOCK FALSE
