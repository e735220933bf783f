\* Loss of lock indicators of the rover.
SPECIFICATION InputsSpec
CONSTANTS
    Which = {"phase"}
    MaxObs = 2
    MaxRead = 3
    MaxEpoch = 4
    MaxL6 = 3
    ObsFrom <- Rover
    ClasStr <- Third
    Margin = 1
    RawRover = TRUE
    Overload = FALSE
    IodMod = 2
    MaxIssue = 2
    MinChange = 3
    MaxAge = 2
    HrAge = 1
    Ephs <- MCEphs
    NavSel = 0
    NoEph = NoEph
    m1 = m1
    m2 = m2
    m3 = m3
    Mids = {m1, m2, m3}
    Mid = m1
    Pids = {1, 2, 3}
    Sizes = {2, 3}
    OtherPids = {1, 2}
    OtherSize = 2
    InFlight = 2
    Timeout = 1
    BankNum = 2
    Tu = 1
    OrbitAge = 1
    Net = "n1"
    TropNets <- MCNets
    MaxTow = 2
    MaxMsgs = 5
    MaxOrigin = 2
    RoverTimes = {0, 4, 8}
    BaseTimes <- MCBases
    Sats = {1, 2}
    Tol = 1
    NF = 2
    MaxOut = 1
    Doppler = FALSE
    Passes = 2
    Views <- MCViews
    Slippery <- RoverSlips
    Geos = {1, 2}
    SbasSel = 1
    pa = pa
    pb = pb
    pc = pc
    pd = pd
    SatMasks <- MCSatMasks
    GridMasks <- MCGridMasks
    Corners = {pa, pb, pc, pd}
    Watched = pb
    BlockLen = 2
    HalfLen = 1
    Halves <- MCHalves
    IodpMod = 4
    IodfMod = 2
    Latencies = {0, 1}
    MaxAgeFast = 1
    MaxAgeLong = 2
    NoOne = NoOne
INVARIANT FlagsHeeded
