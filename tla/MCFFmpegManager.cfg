\* Two content ids and a cap of one stream; two requests, which may meet on one
\* content id or compete for the slot; three processes: a start, its restart and
\* a start that replaces or races it.
CONSTANTS
    Cids = {k1, k2}
    Requests = {r1, r2}
    None = None
    MaxStreams = 1
    MaxRestarts = 1
    Lazy = FALSE
    UseCache = FALSE
    Direct = TRUE
    MaxProcs = 3
    MaxEngs = 3
SPECIFICATION Spec
SYMMETRY Symmetry
INVARIANTS TypeOK SingleFlight SlotBound NoOrphanProcess LiveStreamHasEngine EngineSessionOwned LiveStreamOpen
PROPERTIES RestartsOnlyFailed
\* Every request done and every process dead is the end of a run.
CHECK_DEADLOCK FALSE
