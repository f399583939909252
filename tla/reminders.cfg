\* One job, two updates and two generations that overlap.
SPECIFICATION Spec
CONSTANTS
    Job = {j1}
    Status = {"saved", "applied", "interview"}
    Update = {u1, u2}
    Request = {r1, r2}
    SavedDays = 2
    AppliedDays = 3
    Longest = 1
    MaxTime = 4
    MaxEvent = 3
    MaxRun = 2
SYMMETRY Symmetric
CHECK_DEADLOCK FALSE
INVARIANTS StatusIsLatest OnePending DueOfAnEvent
PROPERTIES AllReminded
