\* Two starts, a stop and two deaths of the process in every order: enough for
\* a container to be taken over, a recovery to be cut short and a project to be
\* stopped and started again.
SPECIFICATION Spec
CONSTANTS
    Starts = {s1, s2}
    Stops = {t1}
    Boot = Boot
    None = None
    MaxCrashes = 2
SYMMETRY StartSymmetry
INVARIANTS
    TypeOK
    NothingLeft
    DatabaseReachable
    ServesOwnBuild
\* Every request is used once; when all are done the system is at rest.
CHECK_DEADLOCK FALSE
