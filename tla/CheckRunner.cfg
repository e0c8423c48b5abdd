CONSTANTS
    Channels = {c1, c2}
    Requests = {r1, r2}
    None = none
    MaxConcurrent = 1
    DeadPolls = 1
    MaxRequests = 3
    MaxChanges = 1
SPECIFICATION Spec
INVARIANTS RunAccounted EngineShared
PROPERTY RunEnds
CHECK_DEADLOCK FALSE
