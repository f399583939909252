\* Three cleanups of one source.
SPECIFICATION Spec
CONSTANTS
    Source = {s1}
    NoSource = NoSource
    Job = {j1}
    Cleanup = {c1, c2, c3}
    Attaching = {"event"}
    MaxDecision = 3
SYMMETRY Symmetric
CHECK_DEADLOCK FALSE
INVARIANTS QuietNeverStuck
PROPERTIES RefusedOnlyIfDisturbed RetainedNotDeleted CommitKeepsRetained
