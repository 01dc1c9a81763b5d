CONSTANTS
  t1 = t1  s1 = s1  r1 = r1  r2 = r2  r3 = r3  d1 = d1  d2 = d2  d3 = d3
  Emails = {t1}
  Tasks = {t1}
  Runs = {r1, r2}
  Docs = {d1, d2, d3}
  NoRun = NoRun
  NoDoc = NoDoc
  DetectedRole <- ScanUpload
  FirstDocs <- TaskDocs
  FirstPairs <- ClonedPairs
  Imports = {}
  Capacity = 2
  DocLimit = 3
  DevExtraction = TRUE
  MaxRevision = 2
  MaxStops = 0

SPECIFICATION Spec
SYMMETRY RunSymmetry

INVARIANT CurrentIsOwnSuccess
INVARIANT CurrentUsesSelectedPair
INVARIANT RunningIsLatest
INVARIANT PairAttached
PROPERTY ImplementsBoard
PROPERTY SelectionSurvivesRuns
