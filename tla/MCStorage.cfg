SPECIFICATION StorageSpec
CONSTANTS
  Saves = {s1, s2, s3}
  Sizes = {1, 2}
  MaxFailures = 1
  Names <- QueueNames
  Ids <- MessageIds
  Sequences = {2, 9, 10}
  Width = 3
  Subs = {c1}
  MaxSeq = 3
  ChanCap = 1
  BatchSize = 2
  MaxCrashes = 1
  MaxFaults = 1
  ScanBatch = 3
  Word = 256
  MaxLog = 5
INVARIANTS
  AnsweredTruly
  CodecExact
  KeySpace
  InOrder
  
  
PROPERTIES
  SubmitReturns
  
  CatchUp
CHECK_DEADLOCK FALSE
