SPECIFICATION FairSpec
CONSTANTS
    c1 = c1
    c2 = c2
    f = f
    Clients = {c1, c2}
    Modes = {"echo", "chat", "transfile"}
    Files = {f}
    NoFile = NoFile
    Resetters = {c2}
    Timeout = 1
    MaxSends <- Sends
    FileTimes = 2
    Late = 1
INVARIANTS
    OneTimerEach
    BatchIsLive
    EchoFaithful
    ChatInOrder
PROPERTIES
    ClosedOnlyIdle
    EchoReplied
CHECK_DEADLOCK FALSE
