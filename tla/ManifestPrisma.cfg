\* One project, no edit, two builds.
\* Requests end and are used once: the system may stop.
SPECIFICATION Spec
CONSTANTS
    Apps <- MCApps
    Servers <- MCServers
    Schemas <- MCSchemas
    Plains <- MCPlains
    None = None
    MaxBuilds = 2
    MaxEdits = 0
CHECK_DEADLOCK FALSE
INVARIANTS
    PrismaInstalled
