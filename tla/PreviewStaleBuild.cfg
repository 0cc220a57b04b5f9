\* A start and a stop of one project.
SPECIFICATION Spec
CONSTANTS
    p1 = p1
    u1 = u1
    Projects = {p1}
    Users = {u1}
    Owner <- OneOwner
    Requests = {r1, r2}
    Reaper = Reaper
    None = None
    MaxGlobal = 1
    MaxPerUser = 1
    MaxCrashes = 0
PROPERTY OnlyCurrentBuildReports
