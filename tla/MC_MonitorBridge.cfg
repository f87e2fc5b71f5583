\* Two workers sending two lines each through one resolver's bridge, two
\* monitor crashes and one failing start anywhere in the run, a one-line pipe;
\* no monitor hangs, so shutdown must complete.
CONSTANTS
    Threads = {t1, t2}
    Main = main
    Resolvers = {r1}
    MaxSends = 2
    PipeCap = 1
    MaxCrashes = 2
    MaxSpawnFails = 1
    MaxLogFails = 0
    AllowStall = FALSE
    End = End
    None = None
SPECIFICATION Spec
INVARIANT TypeOK
INVARIANT NoOrphanMonitor
INVARIANT FailureAttributable
PROPERTY AllCallsReturn
