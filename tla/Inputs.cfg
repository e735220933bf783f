\* Rover, base and an L6 stream; corrections; pages; CLAS messages; files; phases; SBAS.
SPECIFICATION InputsSpec
CONSTANTS
    Which = {"obs", "ssr", "has", "clas", "files", "phase", "sbas"}
    MaxObs = 2
    MaxRead = 3
    MaxEpoch = 4
    MaxL6 = 2
    ObsFrom <- RoverBase
    ClasStr <- Third
    Margin = 1
    RawRover = TRUE
    Overload = TRUE
    IodMod = 2
    MaxIssue = 2
    MinChange = 2
    MaxAge = 1
    HrAge = 0
    Ephs <- MCEphs
    NavSel = 0
    NoEph = NoEph
    m1 = m1
    m2 = m2
    m3 = m3
    Mids = {m1, m2, m3}
    Mid = m1
    Pids = {1, 2, 3}
    Sizes = {2, 3}
    OtherPids = {1}
    OtherSize = 2
    InFlight = 2
    Timeout = 1
    BankNum = 2
    Tu = 1
    OrbitAge = 1
    Net = "n1"
    TropNets <- MCNets
    MaxTow = 2
    MaxMsgs = 4
    MaxOrigin = 2
    RoverTimes = {0, 4, 8}
    BaseTimes <- MCBases
    Sats = {1, 2}
    Tol = 1
    NF = 2
    MaxOut = 1
    Doppler = FALSE
    Passes = 2
    Views <- MCViews
    Slippery <- BaseSlips
    Geos = {1, 2}
    SbasSel = 1
    pa = pa
    pb = pb
    pc = pc
    pd = pd
    SatMasks <- MCSatMasks
    GridMasks <- MCGridMasks
    Corners = {pa, pb, pc, pd}
    Watched = pb
    BlockLen = 2
    HalfLen = 1
    Halves <- MCHalves
    IodpMod = 4
    IodfMod = 2
    Latencies = {0, 1}
    MaxAgeFast = 1
    MaxAgeLong = 1
    NoOne = NoOne
INVARIANTS
    NoneMissedSilently
    SsrBelongs
    HasInv
    BankInv
    PostInv
    BiasInv
    SbasInv
PROPERTIES
    EpochsInOrder
    NoFlipFlop
