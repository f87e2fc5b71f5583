\* One worker, a monitor that hangs (stays alive, stops reading) and never
\* crashes, a one-line pipe standing for the OS pipe buffer.  A hung run
\* really stops, so deadlock is not what is checked here.
CONSTANTS
    Threads = {t1}
    Main = main
    Resolvers = {r1}
    MaxSends = 2
    PipeCap = 1
    MaxCrashes = 0
    MaxSpawnFails = 0
    MaxLogFails = 0
    AllowStall = TRUE
    End = End
    None = None
SPECIFICATION Spec
PROPERTY AllCallsReturn
CHECK_DEADLOCK FALSE
