\* Two build requests of every kind, two clients that poll and download, and
\* one crash or shutdown.
SPECIFICATION FairSpec
CONSTANTS
    Starts = {r1, r2}
    Readers = {q1, q2}
    Wanted <- SomeKinds
    None = None
    MaxCrashes = 1
INVARIANTS
    TypeOK
    FlagHasBuild
    BuildingHasBuild
    DownloadServes
    SerialBuilds
PROPERTY
    BuildResolves
\* Once every request is used and the key is gone nothing is left to happen.
CHECK_DEADLOCK FALSE
