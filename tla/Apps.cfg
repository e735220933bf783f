\* Local and remote consoles that come and go, and the end of the program; the copying of
\* blocks beside a controller that starts and stops and a console that peeks.
CHECK_DEADLOCK FALSE
SPECIFICATION AppsSpec
CONSTANTS
    MaxCon = 3
    NPend = 2
    Ports = {TRUE, FALSE}
    Commands <- AllCommands
    NOut = 2
    Relay = 2
    MaxBlock = 4
    NBack = 2
    Size = 2
    MaxStart = 2
    Faults = {"malloc", "stropen", "create"}
INVARIANT CopiesRight
PROPERTIES
    FreedAfterEnd
    SlotsReturn
    ShutdownEnds
    DownIsClosed
    CallsReturn
