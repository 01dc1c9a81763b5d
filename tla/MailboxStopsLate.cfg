CONSTANTS
  t1 = t1  s1 = s1  r1 = r1  r2 = r2  r3 = r3  d1 = d1  d2 = d2  d3 = d3
  Emails = {t1}
  Tasks = {t1}
  Runs = {r1, r2}
  Docs = {}
  NoRun = NoRun
  NoDoc = NoDoc
  DetectedRole <- ScanUpload
  FirstDocs <- NoDocs
  FirstPairs <- NoPairs
  Imports = {}
  Capacity = 1
  DocLimit = 3
  DevExtraction = TRUE
  MaxRevision = 2
  MaxStops = 1

SPECIFICATION Spec
SYMMETRY RunSymmetry

INVARIANT CurrentHasResult
