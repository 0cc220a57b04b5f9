---------------------------- MODULE NativePreview ----------------------------
(***************************************************************************)
(* NativePreviewService: the tunnel container that serves a project to a   *)
(* phone.                                                                  *)
(*                                                                         *)
(* The service keys everything by project, so the module is one project.   *)
(* A step is one awaited call with the code that follows it.  Starts and   *)
(* Stops are the calls of start and stop, each used once.  A start leaves  *)
(* three things behind that outlive it: the log stream of its container,   *)
(* a timer, and the polling for the tunnel's URL.                          *)
(***************************************************************************)
EXTENDS Naturals

CONSTANTS
    Starts,
    Stops,
    None,
    MaxCrashes    \* bound: times the process dies or is shut down

ASSUME NativeConstants ==
    /\ None \notin Starts
    /\ Starts \cap Stops = {}
    /\ MaxCrashes \in Nat

Calls == Starts \cup Stops

\* What may give up a start: the end of its log stream, or its timer.
Guards == {"close", "timer"} \X Starts

VARIABLES
    key,          \* preview:native:<project>, "idle" when the key is absent
    starting,     \* the project is in `starting`
    handle,       \* logStreams: the start whose log stream is registered
    container,    \* the start that created the project's container
    up,           \* the container runs, it has not exited
    pc,           \* where a call, and what a start runs in the background, stands
    streams,      \* the starts whose log stream has not closed
    killed,       \* ... of these, the ones whose process was killed
    timers,       \* the starts whose four minutes are not over
    url,          \* the starts whose expoUrl is known
    rpc,          \* where resolveTunnelUrl stands
    gpc,          \* where the handlers of a log stream's end and of a timer stand
    crashes,
    orphaned      \* history: the process died and the key was not written since

vars == <<key, starting, handle, container, up, pc, streams, killed, timers, url, rpc, gpc,
          crashes, orphaned>>

keyVars == <<key, orphaned>>
hostVars == <<container, up>>
logVars == <<streams, killed, timers>>
urlVars == <<url, rpc>>

\* A start that has still to end, by its container running or by its failure.
Starting(r) == pc[r] \in {"prepare", "run", "failMark", "failClear"}

TypeOK ==
    /\ key \in {"idle", "building", "ready", "error"}
    /\ starting \in BOOLEAN
    /\ handle \in Starts \cup {None}
    /\ container \in Starts \cup {None}
    /\ up \in BOOLEAN
    /\ pc \in [Calls -> {"new", "status", "announce", "prepare", "run", "failMark",
                         "failClear", "stopDel", "stopClear", "done"}]
    /\ streams \subseteq Starts
    /\ killed \subseteq streams
    /\ timers \subseteq Starts
    /\ url \subseteq Starts
    /\ rpc \in [Starts -> {"off", "trying", "mark"}]
    /\ gpc \in [Guards -> {"off", "status", "mark", "clear"}]
    /\ crashes \in 0 .. MaxCrashes
    /\ orphaned \in BOOLEAN

Init ==
    /\ key = "idle"
    /\ starting = FALSE
    /\ handle = None
    /\ container = None
    /\ up = FALSE
    /\ pc = [c \in Calls |-> "new"]
    /\ streams = {}
    /\ killed = {}
    /\ timers = {}
    /\ url = {}
    /\ rpc = [r \in Starts |-> "off"]
    /\ gpc = [g \in Guards |-> "off"]
    /\ crashes = 0
    /\ orphaned = FALSE

Goto(c, label) == pc' = [pc EXCEPT ![c] = label]

SetKey(s) == key' = s /\ orphaned' = FALSE

\* forceRemoveContainer: whatever container has the project's name goes.  The code
\* ignores a docker stop and rm that fail; here they do not.
RemoveContainer == container' = None /\ up' = FALSE

-----------------------------------------------------------------------------
(* start and runStart                                                       *)

\* A start is refused while another one is under way.
Start(r) ==
    /\ pc[r] = "new"
    /\ Goto(r, IF starting THEN "done" ELSE "status")
    /\ UNCHANGED <<keyVars, starting, handle, hostVars, logVars, urlVars, gpc, crashes>>

\* It returns the state it finds when that says "building" or "ready".
StartStatus(r) ==
    /\ pc[r] = "status"
    /\ Goto(r, IF key \in {"building", "ready"} THEN "done" ELSE "announce")
    /\ UNCHANGED <<keyVars, starting, handle, hostVars, logVars, urlVars, gpc, crashes>>

Announce(r) ==
    /\ pc[r] = "announce"
    /\ SetKey("building")
    /\ starting' = TRUE
    /\ Goto(r, "prepare")
    /\ UNCHANGED <<handle, hostVars, logVars, urlVars, gpc, crashes>>

\* The files are written, the image is there, a stale container goes.
Prepare(r) ==
    /\ pc[r] = "prepare"
    /\ RemoveContainer
    /\ Goto(r, "run")
    /\ UNCHANGED <<keyVars, starting, handle, logVars, urlVars, gpc, crashes>>

\* Mutant: the timer is not set.
RunUnguarded(r) ==
    /\ pc[r] = "run"
    /\ container = None
    /\ container' = r /\ up' = TRUE
    /\ streams' = streams \cup {r}
    /\ handle' = r
    /\ starting' = FALSE
    /\ Goto(r, "done")
    /\ UNCHANGED <<keyVars, killed, timers, urlVars, gpc, crashes>>

\* docker run; then its log is followed, the timer set, and finally ends the
\* start.
Run(r) ==
    /\ pc[r] = "run"
    /\ container = None
    /\ container' = r /\ up' = TRUE
    /\ streams' = streams \cup {r}
    /\ handle' = r
    /\ timers' = timers \cup {r}
    /\ starting' = FALSE
    /\ Goto(r, "done")
    /\ UNCHANGED <<keyVars, killed, urlVars, gpc, crashes>>

\* No files, no image, the name in use, or docker run exceeds its timeout,
\* perhaps after it created the container.
Fail(r) ==
    /\ pc[r] \in {"prepare", "run"}
    /\ \/ UNCHANGED hostVars
       \/ /\ pc[r] = "run" /\ container = None
          /\ container' = r /\ up' = TRUE
    /\ Goto(r, "failMark")
    /\ UNCHANGED <<keyVars, starting, handle, logVars, urlVars, gpc, crashes>>

FailMark(r) ==
    /\ pc[r] = "failMark"
    /\ SetKey("error")
    /\ Goto(r, "failClear")
    /\ UNCHANGED <<starting, handle, hostVars, logVars, urlVars, gpc, crashes>>

\* Mutant: finally is not reached after a failure.
FailClearKeepsFlag(r) ==
    /\ pc[r] = "failClear"
    /\ RemoveContainer
    /\ Goto(r, "done")
    /\ UNCHANGED <<keyVars, starting, handle, logVars, urlVars, gpc, crashes>>

FailClear(r) ==
    /\ pc[r] = "failClear"
    /\ RemoveContainer
    /\ starting' = FALSE
    /\ Goto(r, "done")
    /\ UNCHANGED <<keyVars, handle, logVars, urlVars, gpc, crashes>>

-----------------------------------------------------------------------------
(* What a start leaves behind                                               *)

\* A line of the log says that the tunnel is up: its URL is asked for, by the
\* name of the container.
ResolveBegin(r) ==
    /\ r \in streams \ (killed \cup url)
    /\ container = r /\ up
    /\ rpc[r] = "off"
    /\ rpc' = [rpc EXCEPT ![r] = "trying"]
    /\ UNCHANGED <<keyVars, starting, handle, hostVars, pc, logVars, url, gpc, crashes>>

ResolveFound(r) ==
    /\ rpc[r] = "trying"
    /\ container # None /\ up
    /\ url' = url \cup {r}
    /\ rpc' = [rpc EXCEPT ![r] = "mark"]
    /\ UNCHANGED <<keyVars, starting, handle, hostVars, pc, logVars, gpc, crashes>>

\* Fifteen attempts without a URL; a further line may begin again.
ResolveGiveUp(r) ==
    /\ rpc[r] = "trying"
    /\ rpc' = [rpc EXCEPT ![r] = "off"]
    /\ UNCHANGED <<keyVars, starting, handle, hostVars, pc, logVars, url, gpc, crashes>>

ResolveMark(r) ==
    /\ rpc[r] = "mark"
    /\ SetKey("ready")
    /\ rpc' = [rpc EXCEPT ![r] = "off"]
    /\ UNCHANGED <<starting, handle, hostVars, pc, logVars, url, gpc, crashes>>

\* The log stream ends, with its container or because it was killed.  The
\* registered stream goes, whichever start it belongs to.
Close(r) ==
    /\ r \in streams
    /\ r \in killed \/ container # r \/ ~up
    /\ streams' = streams \ {r}
    /\ killed' = killed \ {r}
    /\ handle' = None
    /\ gpc' = [gpc EXCEPT ![<<"close", r>>] = IF r \in url THEN @ ELSE "status"]
    /\ UNCHANGED <<keyVars, starting, hostVars, pc, timers, urlVars, crashes>>

\* The four minutes are over.
Timer(r) ==
    /\ r \in timers
    /\ timers' = timers \ {r}
    /\ gpc' = [gpc EXCEPT ![<<"timer", r>>] = IF r \in url THEN @ ELSE "status"]
    /\ UNCHANGED <<keyVars, starting, handle, hostVars, pc, streams, killed, urlVars, crashes>>

\* Mutant: the wrong state is left alone.
GuardStatusSwapped(g) ==
    /\ gpc[g] = "status"
    /\ gpc' = [gpc EXCEPT ![g] = IF key = "building" THEN "off" ELSE "mark"]
    /\ UNCHANGED <<keyVars, starting, handle, hostVars, pc, logVars, urlVars, crashes>>

\* Both handlers read the state, leave a "ready" one alone ...
GuardStatus(g) ==
    /\ gpc[g] = "status"
    /\ gpc' = [gpc EXCEPT ![g] = IF key = "ready" THEN "off" ELSE "mark"]
    /\ UNCHANGED <<keyVars, starting, handle, hostVars, pc, logVars, urlVars, crashes>>

\* Mutant: the state is marked, the container stays.
GuardMarkOnly(g) ==
    /\ gpc[g] = "mark"
    /\ SetKey("error")
    /\ gpc' = [gpc EXCEPT ![g] = "off"]
    /\ UNCHANGED <<starting, handle, hostVars, pc, logVars, urlVars, crashes>>

\* ... mark any other as failed ...
GuardMark(g) ==
    /\ gpc[g] = "mark"
    /\ SetKey("error")
    /\ gpc' = [gpc EXCEPT ![g] = "clear"]
    /\ UNCHANGED <<starting, handle, hostVars, pc, logVars, urlVars, crashes>>

\* ... and remove the container, by its name.
GuardClear(g) ==
    /\ gpc[g] = "clear"
    /\ RemoveContainer
    /\ gpc' = [gpc EXCEPT ![g] = "off"]
    /\ UNCHANGED <<keyVars, starting, handle, pc, logVars, urlVars, crashes>>

-----------------------------------------------------------------------------
(* stop                                                                     *)

\* Mutant: the registered stream is killed without asking whether there is one.
StopUnchecked(s) ==
    /\ pc[s] = "new"
    /\ starting' = FALSE
    /\ killed' = killed \cup {handle}
    /\ handle' = None
    /\ Goto(s, "stopDel")
    /\ UNCHANGED <<keyVars, hostVars, streams, timers, urlVars, gpc, crashes>>

\* Before the first await: the flag goes, the registered stream is killed.
Stop(s) ==
    /\ pc[s] = "new"
    /\ starting' = FALSE
    /\ killed' = killed \cup ({handle} \cap streams)
    /\ handle' = None
    /\ Goto(s, "stopDel")
    /\ UNCHANGED <<keyVars, hostVars, streams, timers, urlVars, gpc, crashes>>

StopDel(s) ==
    /\ pc[s] = "stopDel"
    /\ SetKey("idle")
    /\ Goto(s, "stopClear")
    /\ UNCHANGED <<starting, handle, hostVars, logVars, urlVars, gpc, crashes>>

\* The container goes, then the working directory.
StopClear(s) ==
    /\ pc[s] = "stopClear"
    /\ RemoveContainer
    /\ Goto(s, "done")
    /\ UNCHANGED <<keyVars, starting, handle, logVars, urlVars, gpc, crashes>>

-----------------------------------------------------------------------------
(* The process and its surroundings                                         *)

\* The process goes and comes back.  A shutdown removes the container when the
\* project is in `starting` or in logStreams; a docker run that is under way
\* may still take effect.  Nothing is written to Redis.
Die ==
    /\ crashes < MaxCrashes
    /\ crashes' = crashes + 1
    /\ \/ UNCHANGED hostVars
       \/ (starting \/ handle # None) /\ RemoveContainer
       \/ /\ container = None
          /\ \E r \in Starts : pc[r] = "run" /\ container' = r /\ up' = TRUE
    /\ starting' = FALSE
    /\ handle' = None
    /\ pc' = [c \in Calls |-> IF pc[c] = "new" THEN "new" ELSE "done"]
    /\ streams' = {} /\ killed' = {} /\ timers' = {} /\ url' = {}
    /\ rpc' = [r \in Starts |-> "off"]
    /\ gpc' = [g \in Guards |-> "off"]
    /\ orphaned' = TRUE
    /\ UNCHANGED key

\* The container exits and keeps its name.
ContainerExit ==
    /\ up
    /\ up' = FALSE
    /\ UNCHANGED <<keyVars, starting, handle, container, pc, logVars, urlVars, gpc, crashes>>

\* A start that has still to report, as failed or as ready.
Unresolved(r) ==
    \/ pc[r] \in {"prepare", "run", "failMark"}
    \/ r \in timers \ url
    \/ rpc[r] = "mark"
    \/ \E g \in Guards : g[2] = r /\ gpc[g] \in {"status", "mark"}

\* The key is an hour old.  A start writes the key, and all that it leaves
\* behind is over within minutes, so nothing of that kind is then under way.
Expire ==
    /\ key # "idle"
    /\ \A r \in Starts : ~Starting(r) /\ rpc[r] = "off"
    /\ timers = {}
    /\ \A g \in Guards : gpc[g] = "off"
    /\ SetKey("idle")
    /\ UNCHANGED <<starting, handle, hostVars, pc, logVars, urlVars, gpc, crashes>>

StartStep(r) ==
    \/ StartStatus(r) \/ Announce(r) \/ Prepare(r) \/ Run(r)
    \/ Fail(r) \/ FailMark(r) \/ FailClear(r)

ResolveStep(r) == ResolveFound(r) \/ ResolveGiveUp(r) \/ ResolveMark(r)

GuardStep(g) == GuardStatus(g) \/ GuardMark(g) \/ GuardClear(g)

StopStep(s) == StopDel(s) \/ StopClear(s)

Next ==
    \/ \E r \in Starts : Start(r) \/ StartStep(r) \/ ResolveBegin(r) \/ ResolveStep(r)
    \/ \E r \in Starts : Close(r) \/ Timer(r)
    \/ \E g \in Guards : GuardStep(g)
    \/ \E s \in Stops : Stop(s) \/ StopStep(s)
    \/ Die \/ ContainerExit \/ Expire

\* Awaited calls return or throw, the timer fires, the log of a container that
\* is gone ends, and a key that nobody writes again reaches its TTL.
Fairness ==
    /\ \A r \in Starts : WF_vars(StartStep(r)) /\ WF_vars(ResolveStep(r))
    /\ \A r \in Starts : WF_vars(Close(r)) /\ WF_vars(Timer(r))
    /\ \A g \in Guards : WF_vars(GuardStep(g))
    /\ \A s \in Stops : WF_vars(StopStep(s))
    /\ WF_vars(orphaned /\ Expire)

Spec == Init /\ [][Next]_vars
FairSpec == Spec /\ Fairness

-----------------------------------------------------------------------------
(* Properties                                                               *)

\* `starting` refuses further starts only while one is under way, whichever
\* start, stop or failure put it in or took it out.
FlagHasStart == starting => \E r \in Starts : Starting(r)

\* "Mark error so the UI doesn't sit on 'Starting tunnel' forever": whoever
\* sees "building" waits for a start that has still to report, by its failure,
\* its URL, its timer or the end of its log, or the process died meanwhile.
\* Starts and stops that overlap, and handlers of an earlier start that write
\* late, do not break this.
BuildingBacked == key = "building" => orphaned \/ \E r \in Starts : Unresolved(r)

\* Somebody is about to remove the container, or to find out whether to.
RemovalPending ==
    \/ \E c \in Calls : pc[c] \in {"prepare", "run", "failMark", "failClear", "stopDel",
                                   "stopClear"}
    \/ \E g \in Guards : gpc[g] \in {"mark", "clear"}

\* Tunnels are expensive to hold open: none is abandoned.  While the project
\* is said to be starting or failed, a container that still exists will be
\* removed, or its own start has still to be decided.
NoAbandonedTunnel ==
    key \in {"building", "error"} /\ container # None =>
        orphaned \/ RemovalPending \/ Unresolved(container)

\* "building" is never the last word.
BuildingResolves == key = "building" ~> key # "building"
=============================================================================
