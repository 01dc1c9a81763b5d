\* One run over up to two documents, with a pipe and a queue of one line each and pages
\* of two events: timeouts, crashes and failing saves, stops and deadlines in any order.
SPECIFICATION Spec
CONSTANTS
  shipper = shipper
  port = port
  count = count
  weight = weight
  d1 = d1
  d2 = d2
  NoDoc = NoDoc
  NoField = NoField
  NoValue = NoValue
  Docs = {d1, d2}
  Fields <- TheFields
  FieldKeys <- TheKeys
  Parties <- TheParties
  Ports <- ThePorts
  Count = count
  Weight = weight
  Values <- TheValues
  IssueCodes <- TheCodes
  MaxBytes = 3
  MaxUnits = 12
  PipeSize = 1
  QueueSize = 1
  PageLimit = 2
  Offers <- TheOffers
  RequestLimit = 7
  UploadLimit = 4
  Inputs <- TheInputs
  Jobs <- TheJobs
  Watched <- TheWatched
  Mishaps <- TheMishaps
  TextAnswers <- TheTextAnswers
  VisionAnswers <- TheVisionAnswers
  AIFailures = {"unconfigured", "timeout"}
  Categories = {"BL_COMPARISON", "GENERAL"}
  MaxAttachments = 2
INVARIANT TypeOK
INVARIANT TraceKept
INVARIANT OutcomeIsTheWorkers
INVARIANT NothingLeftRunning
INVARIANT PageSeesAll
INVARIANT NothingInvented
INVARIANT ConflictsStayOpen
INVARIANT OpenFieldsAreAsked
INVARIANT UploadWhole
PROPERTY ResultsAreFinal
PROPERTY RunEnds
CHECK_DEADLOCK FALSE
