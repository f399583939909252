\* Two previews and two batches over two sources, one pool thread: the
\* registry shared by start, poll, clean-up and executors.
SPECIFICATION Spec
CONSTANTS
  Source = {s1, s2}
  Edited = {}
  PreviewId = {p1, p2}
  BatchId = {b1, b2}
  MaxConcurrency = 1
  MaxAttempts = 2
  PreviewTTL = 1
  BatchTTL = 1
  NoPreview = NoPreview
SYMMETRY Symmetric
INVARIANTS
  ConfirmedOnce
  WorkHasItsBatch
  PoolWithinLimit
PROPERTIES
  SpentOnABatch
  ImplementsLifecycle
