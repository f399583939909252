\* The acceptance criterion that a visible result can be tracked.
SPECIFICATION Spec
CONSTANTS
  s1 = s1
  Source = {s1}
  Run = {r1, r2}
  NoRun = NoRun
  SourceOf <- OneSource
  Posting <- Changing
  NoPosting = NoPosting
  NoExt = NoExt
  MaxFetch = 1
CHECK_DEADLOCK FALSE
INVARIANTS ListedCanBeSaved
