\* One stream with an MPEG-TS client, then a lazy HLS client; two restarts allowed.
CONSTANTS
    Cids = {k1}
    Requests = {r1, r2}
    None = None
    MaxStreams = 1
    MaxRestarts = 2
    Lazy = TRUE
    UseCache = FALSE
    Direct = FALSE
    MaxProcs = 3
    MaxEngs = 3
SPECIFICATION FairSpec
PROPERTIES RestartsOnlyFailed
\* Every request done and every process dead is the end of a run.
CHECK_DEADLOCK FALSE
