\* Two runs of one source, with every other transaction.
SPECIFICATION Spec
CONSTANTS
  s1 = s1
  Source = {s1}
  Run = {r1, r2}
  NoRun = NoRun
  SourceOf <- OneSource
  Posting <- Changing
  NoPosting = NoPosting
  NoExt = NoExt
  MaxFetch = 2
CHECK_DEADLOCK FALSE
INVARIANTS
  ListingIsTheLastRuns
  LoopGoesOn
  
PROPERTIES
  LoopReturns
  ImplementsListing
