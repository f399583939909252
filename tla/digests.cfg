\* Two threads that generate digests of one job over three days.
SPECIFICATION Spec
CONSTANTS
    Job = {j1}
    Request = {r1, r2}
    DayLength = 2
    Longest = 1
    MaxTime = 4
    MaxDecision = 2
SYMMETRY Symmetric
CHECK_DEADLOCK FALSE
INVARIANTS ReportedOnce
PROPERTIES NothingMissed RefusedOnlyIfRaced
