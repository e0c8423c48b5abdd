\* One subscription whose queue has exactly one free place when the source dies.
CONSTANTS
    Clients = {c1}
    Source = Source
    Killer = Killer
    QueueMax = 2
    MaxChunks = 2
    End = End
    Error = Error
    None = None
SPECIFICATION Spec
INVARIANTS HardErrorDistinguished
CHECK_DEADLOCK FALSE
