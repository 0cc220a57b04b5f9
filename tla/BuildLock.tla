------------------------------- MODULE BuildLock -------------------------------
(***************************************************************************)
(* What the flag and the nonce of the previews promise together.  They are *)
(* a lock per project, which a build takes when it is launched, also from  *)
(* another build, and which is freed by the end of its holder and never by *)
(* the end of a build it was taken from.  A stop frees it at once, and so  *)
(* does the death of the process.  A build is launched once.               *)
(***************************************************************************)
CONSTANTS Projects, Builds, Nobody

VARIABLES
    locked,       \* the projects that count as being built
    holder,       \* the build that took a project last, until it is stopped
    alive,        \* the builds that run
    fresh         \* the builds not launched yet

vars == <<locked, holder, alive, fresh>>

Init ==
    /\ locked = {} /\ holder = [p \in Projects |-> Nobody]
    /\ alive = {} /\ fresh = Builds

Take(p, b) ==
    /\ b \in fresh
    /\ fresh' = fresh \ {b} /\ alive' = alive \cup {b}
    /\ holder' = [holder EXCEPT ![p] = b]
    /\ locked' = locked \cup {p}

End(b) ==
    /\ b \in alive
    /\ alive' = alive \ {b}
    /\ locked' = {p \in locked : holder[p] # b}
    /\ UNCHANGED <<holder, fresh>>

Free(p) ==
    /\ holder' = [holder EXCEPT ![p] = Nobody]
    /\ locked' = locked \ {p}
    /\ UNCHANGED <<alive, fresh>>

Lose ==
    /\ locked' = {} /\ holder' = [p \in Projects |-> Nobody]
    /\ alive' = {}
    /\ UNCHANGED fresh

Next ==
    \/ \E b \in Builds : End(b) \/ \E p \in Projects : Take(p, b)
    \/ \E p \in Projects : Free(p)
    \/ Lose

Spec == Init /\ [][Next]_vars
=============================================================================
