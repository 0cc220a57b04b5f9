\* Two starts one after the other, with nothing else going on.
SPECIFICATION Spec
CONSTANTS
    Starts = {s1, s2}
    Stops = {t1}
    Boot = Boot
    None = None
    MaxCrashes = 0
INVARIANT MountCurrent
CHECK_DEADLOCK FALSE
