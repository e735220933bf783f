\* Epochs as three MSM messages, over a link that loses some of them; L6 frames of three satellites.
SPECIFICATION MessagesSpec
CONSTANTS
    Which = {"conv", "link", "route"}
    gps = gps
    glo = glo
    Systems <- MCSystems
    ObsMsgs <- MCObsMsgs
    NPrn = 3
    NavTint = 2
    MaxCell = 2
    MaxSat = 3
    MaxTime = 3
    Week = 6
    Day = 6
    Daily <- MCDaily
    Epochs <- MCEpochs
    FirstError = 2
    MaxSilence = 2
    AgeCap = 2
    Watched = gps
    WatchedPrn = 3
    p1 = p1
    p2 = p2
    p3 = p3
    QzsPrns = {p1, p2, p3}
    Ptn <- MCPtn
    Offset <- MCOffset
    NSub = 2
    Relock = 2
    NoPrn = NoPrn
INVARIANTS
    LinkInv
    SlipTold
PROPERTIES
    EphSentAgain
    OneSource
    Served
