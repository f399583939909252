------------------------- MODULE MCSourceBatchRuns -------------------------
EXTENDS SourceBatchRuns, TLC
Symmetric == Permutations(PreviewId) \cup Permutations(BatchId)
=============================================================================
