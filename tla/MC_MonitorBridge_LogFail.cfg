\* One worker, one resolver, no crash and no failing Popen: only opening the
\* monitor's log files may fail, once, as the first bridge is constructed.
CONSTANTS
    Threads = {t1}
    Main = main
    Resolvers = {r1}
    MaxSends = 1
    PipeCap = 1
    MaxCrashes = 0
    MaxSpawnFails = 0
    MaxLogFails = 1
    AllowStall = FALSE
    End = End
    None = None
SPECIFICATION Spec
INVARIANT NoFailurePropagates
