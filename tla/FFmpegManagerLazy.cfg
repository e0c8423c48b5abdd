\* One content id with the lazy HLS upgrade and the session cache: an MPEG-TS client
\* and an HLS client, so that a restart is requested while the process runs.
CONSTANTS
    Cids = {k1}
    Requests = {r1, r2}
    None = None
    MaxStreams = 1
    MaxRestarts = 1
    Lazy = TRUE
    UseCache = TRUE
    Direct = FALSE
    MaxProcs = 2
    MaxEngs = 2
SPECIFICATION FairSpec
INVARIANTS NoOrphanProcess
PROPERTIES StartSettles ShutdownReleases DeadSessionLeaves
\* Every request done and every process dead is the end of a run.
CHECK_DEADLOCK FALSE
