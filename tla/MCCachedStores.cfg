CONSTANTS
    Keys = {k1, k2}
    Secrets = {k2}
    Values = {v1}
    Conns = {c1, c2, c3}
    PoolMax = 1
    TTL = 2
    Workers = {w1, w2}
    None = none
    MaxTime = 3
    MaxCalls = 3
SPECIFICATION Spec
INVARIANTS TypeOK PoolSound BoundedStaleness CacheFollowsTable
PROPERTY CommitsWhole
SYMMETRY Symmetry
CHECK_DEADLOCK FALSE
