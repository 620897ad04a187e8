SPECIFICATION FairSpec
CONSTANTS
    c1 = c1
    c2 = c2
    f = f
    Clients = {c1, c2}
    Modes = {"echo", "chat"}
    Files = {f}
    NoFile = NoFile
    Resetters = {}
    Timeout = 1
    MaxSends <- Sends
    FileTimes = 2
    Late = 1
PROPERTY
    IdleIsClosed
CHECK_DEADLOCK FALSE
