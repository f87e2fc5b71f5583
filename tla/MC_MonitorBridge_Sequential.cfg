\* One worker streaming three lines over two resolvers' bridges, the way
\* stream_round_to_monitor uses the pool, with two monitor crashes and one
\* failing start anywhere in the run.
CONSTANTS
    Threads = {t1}
    Main = main
    Resolvers = {r1, r2}
    MaxSends = 3
    PipeCap = 2
    MaxCrashes = 2
    MaxSpawnFails = 1
    MaxLogFails = 1
    AllowStall = FALSE
    End = End
    None = None
SPECIFICATION Spec
INVARIANT NoMonitorOutlivesShutdown
PROPERTY SessionRefined
