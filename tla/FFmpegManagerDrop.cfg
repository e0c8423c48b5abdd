\* One content id; three requests, two of which find the same process stale.
CONSTANTS
    Cids = {k1}
    Requests = {r1, r2, r3}
    None = None
    MaxStreams = 1
    MaxRestarts = 0
    Lazy = FALSE
    UseCache = FALSE
    Direct = FALSE
    MaxProcs = 3
    MaxEngs = 3
SPECIFICATION FairSpec
PROPERTIES DropsWhatItJudged
\* Every request done and every process dead is the end of a run.
CHECK_DEADLOCK FALSE
