\* Two workers asking the pool for the same resolver's bridge at once, no
\* crash, no failing start.
CONSTANTS
    Threads = {t1, t2}
    Main = main
    Resolvers = {r1}
    MaxSends = 1
    PipeCap = 1
    MaxCrashes = 0
    MaxSpawnFails = 0
    MaxLogFails = 0
    AllowStall = FALSE
    End = End
    None = None
SPECIFICATION Spec
INVARIANT NoMonitorOutlivesShutdown
