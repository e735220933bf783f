\* Streams of every type but the servers and the NTRIP client.
CHECK_DEADLOCK FALSE
SPECIFICATION StreamsSpec
CONSTANTS
    b1 = b1
    b2 = b2
    None = None
    Size = 3
    Byte <- MCByte
    ReadSizes <- Whole
    WriteSizes <- MCWrites
    Interval = 8
    Margin = 1
    NameSpan = 8
    MaxGap = 3
    MaxTime = 36
    NoFile = NoFile
    Tags <- MCTags
    Length <- MCLength
    TickFs = {0, 2}
    Starts = {0, 1}
    Speeds = {1, 2}
    Asked = {1, 3}
    MaxClock = 5
    Period = 2
    Tint = 2
    Toff = 1
    Tret = 1
    Types = {"file", "tcp"}
    Movers = {"thread"}
    Askers = {"console"}
    MaxPort = 2
    NFd = 3
    ToInact = 2
    TiRecon = 3
    Faults = {"socket", "setsock", "dns", "refused"}
INVARIANTS
    RightFiles
    InTime
    FtpInv
    PortInv
    TcpInv
PROPERTIES
    AttemptsSpaced
    FollowsPeer
    ImplementsFifo
    Replayed
    Again
