\* Two subscriptions with queues of two; the source produces two chunks, which
\* with a racing sentinel is enough to fill, trim and flush a queue.
CONSTANTS
    Clients = {c1, c2}
    Source = Source
    Killer = Killer
    QueueMax = 2
    MaxChunks = 2
    End = End
    Error = Error
    None = None
SPECIFICATION FairSpec
INVARIANTS TypeOK NoClientStranded GapFree
PROPERTIES ImplementsClientFeed ClientsReleased
\* All threads exited and all clients gone is the end of a session's life.
CHECK_DEADLOCK FALSE
