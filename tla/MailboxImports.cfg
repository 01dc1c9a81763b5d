CONSTANTS
  t1 = t1  s1 = s1  r1 = r1  r2 = r2  r3 = r3  d1 = d1  d2 = d2  d3 = d3
  Emails = {s1}
  Tasks = {}
  Runs = {r1, r2}
  Docs = {d1}
  NoRun = NoRun
  NoDoc = NoDoc
  DetectedRole <- ScanUpload
  FirstDocs <- NoDocs
  FirstPairs <- NoPairs
  Imports = {{d1}}
  Capacity = 1
  DocLimit = 3
  DevExtraction = FALSE
  MaxRevision = 2
  MaxStops = 1

SPECIFICATION Spec
SYMMETRY RunSymmetry

INVARIANT TypeOK
INVARIANT NothingForgotten
PROPERTY OnlyLatestRunPublishes
