\* The design note on the rows of retained jobs.
SPECIFICATION Spec
CONSTANTS
    Source = {s1}
    NoSource = NoSource
    Job = {j1}
    Cleanup = {c1}
    Attaching = {"digest"}
    MaxDecision = 2
CHECK_DEADLOCK FALSE
PROPERTIES RetainedKeepRows
