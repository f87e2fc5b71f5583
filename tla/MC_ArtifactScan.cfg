\* One query name of each kind, seven dnstap directories, and a dump, a
\* JSON cache and a log, each missing, unreadable or one of a few contents.
CONSTANTS
    QueryNames <- MCQueryNames
    TapDirs <- MCTapDirs
    DumpFiles <- MCDumpFiles
    LogFiles <- MCLogFiles
    JsonFiles = {"cache.json"}
    LogErrorFiles = {"bind.log"}
    Contents <- MCContents
SPECIFICATION Spec
INVARIANT TypeOK
INVARIANT MinTtlIsLeast
INVARIANT OutOfBailiwickCacheSound
