\* Two starts and a stop of one project, one crash or shutdown.
SPECIFICATION FairSpec
CONSTANTS
    Starts = {r1, r2}
    Stops = {s1}
    None = None
    MaxCrashes = 1
INVARIANTS
    TypeOK
    FlagHasStart
    BuildingBacked
    NoAbandonedTunnel
PROPERTY
    BuildingResolves
\* Once all calls are used and the key is gone nothing is left to happen.
CHECK_DEADLOCK FALSE
