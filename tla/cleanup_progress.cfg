\* Two cleanups, of one source or of two that share their jobs, each of which
\* must end.
SPECIFICATION Spec
CONSTANTS
    Source = {s1, s2}
    NoSource = NoSource
    Job = {j1}
    Cleanup = {c1, c2}
    Attaching = {"event"}
    MaxDecision = 1
CHECK_DEADLOCK FALSE
PROPERTIES EveryCleanupEnds CommitLeavesMatched
