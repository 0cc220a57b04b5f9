\* Two requests on one project and a crash of the process at any point.
SPECIFICATION FairSpec
CONSTANTS
    p1 = p1
    u1 = u1
    Projects = {p1}
    Users = {u1}
    Owner <- OneOwner
    Requests = {r1, r2}
    Reaper = Reaper
    None = None
    MaxGlobal = 1
    MaxPerUser = 1
    MaxCrashes = 1
INVARIANTS
    TypeOK
    BuildingBacked
PROPERTIES
    KeepsLock
    BootRecovers
    FlagClears
    BuildingResolves
