SPECIFICATION Spec
CONSTANTS
    CacheKeys = {1, 2, 3, 4}  Values = {1, 2}  CacheCapacity = 3  MaxUsed = 4
    Keys = {1, 2, 3}  Capacity = 2  MaxCount = 3  MaxNodes = 5
    Adders = {1, 2}  NoAdder = 0  Plain = {4}  EpCount = 3  MaxNests = 2
    PathLimit <- Paths  MaxOps = 6
    Files <- TwoFiles  WaitCalls <- PollCalls  MaxArrivals = 2
    Timeouts <- Waits  CallsUntil = 4  MaxSignals = 2
    Ids = {"a", "b"}  Delays = {0, 1}  Addresses = {1, 2, 3}  MaxNow = 2
    EchoClients = {"c", "d", "e"}  SetSize = 6  MaxLines <- EchoLines  Buffers = {1, 2, 3}
    MaxEvents = 3  EventDelays = {1, 3}  Clock = {2, 5}  Second = 2
    HighWater = 2  TooLong = 3  MaxSent <- Chunks
    Clients = {"c1", "c2"}  Requests <- WebRequests  Output <- AB  PipeSize = 1  MaxFds = 12
    Streams <- ByteStreams  BufSize = 2  Wants = {0, 1, 2, 3}
    AddressCount = 3  Counts = {0, 3}
    Threads = {1, 2}  Blocks = {1, 2, 3}  Sizes = {0, 3}  PREFIX_SIZE = 2  Long = 2
    Columns = {"id", "name"}  Texts <- SqlTexts  MaxCalls = 3
    Pairs <- LunchPairs  Throws <- ThreeThrow  Numbers <- OneToNine  Workers = 4  Length = 9
INVARIANTS
    TypeOK
    CacheIsHistory
    TablesAgree
    Acyclic
    SleepsOnNothing
    TableIsListed
    EchoSound
    TimeEventsSound
    InOrder
    Resumes
    RequestsSound
    NothingLeaks
    CellsAreThere
    ThreadsAgree
PROPERTY
    LeastUsedLeaves
CHECK_DEADLOCK FALSE
