SPECIFICATION FairSpec
CONSTANTS
    c1 = c1
    c2 = c2
    f = f
    Clients = {c1, c2}
    Modes = {"transfile"}
    Files = {f}
    NoFile = NoFile
    Resetters = {}
    Timeout = 1
    MaxSends <- Sends
    FileTimes = 5
    Late = 1
PROPERTY
    FileIdleIsLonger
CHECK_DEADLOCK FALSE
