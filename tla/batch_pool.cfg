\* One batch of three sources on two pool threads, two attempts, under fairness.
SPECIFICATION FairSpec
CONSTANTS
  Source = {s1, s2, s3}
  Edited = {s1}
  PreviewId = {p1}
  BatchId = {b1}
  MaxConcurrency = 2
  MaxAttempts = 2
  PreviewTTL = 1
  BatchTTL = 1
  NoPreview = NoPreview
INVARIANTS
  FinalStatusIsRight
  AttemptsAccounted
  BatchCanMove
PROPERTIES
  BatchOnlyAdvances
  EveryBatchFinishes
