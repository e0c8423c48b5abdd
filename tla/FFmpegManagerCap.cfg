\* Two content ids and a cap of one: a dead stream that restarts while another starts.
CONSTANTS
    Cids = {k1, k2}
    Requests = {r1, r2}
    None = None
    MaxStreams = 1
    MaxRestarts = 1
    Lazy = FALSE
    UseCache = FALSE
    Direct = FALSE
    MaxProcs = 3
    MaxEngs = 3
SPECIFICATION FairSpec
INVARIANTS MaxStreamsRespected
\* Every request done and every process dead is the end of a run.
CHECK_DEADLOCK FALSE
