CONSTANTS
    Sources = {u1, u2}
    Tagged = {u1}
    Docs = {d1, d2}
    Upload = up
    Workers = {w1, w2}
    None = none
    MaxCalls = 3
    MaxRestarts = 1
SPECIFICATION Spec
INVARIANTS TypeOK OneTimer  OneFetcher 
PROPERTIES DeletedGoesQuiet MarkReleased
CHECK_DEADLOCK FALSE
