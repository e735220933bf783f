\* A client whose casters of both versions fail, cut answers and take over from each
\* other; a TCP server, and a caster with a password.
CHECK_DEADLOCK FALSE
SPECIFICATION NtripSpec
CONSTANTS
    p1 = p1
    p2 = p2
    p3 = p3
    None = None
    Base = 2
    HdrMax = 5
    SizeMax = 3
    Ver = 0
    Casters <- Strict
    Writing = TRUE
    MaxRsp = 4
    Raw = 3
    NOut = 2
    NPay = 2
    Kinds <- Hex
    MaxCli = 2
    Peers <- MCPeers
    Comers <- MCComers
    SvrKinds <- Servers
    Asks <- MCAsks
    NData <- MCData
    Room = 2
    MaxWrite = 2
    Passwd = TRUE
    Watched = {p1}
INVARIANTS
    NtripInv
    CasterInv
PROPERTIES
    ClientServed
    Attended
    CallsReturn
