-------------------------- MODULE PreviewLifecycle --------------------------
(***************************************************************************)
(* The web preview of a project: PreviewService together with the preview  *)
(* container that DockerRunnerService keeps for it.                        *)
(*                                                                         *)
(* The backend is one Node process.  Code between two awaits runs without  *)
(* interruption, so an action is one awaited call together with the code   *)
(* that runs when it returns, up to the next await.  Redis is reached over *)
(* one connection that answers in order, so the effect of a command and    *)
(* the code that handles its answer can be taken as a single step.         *)
(*                                                                         *)
(* Actors are the HTTP requests (each used once, for a start or a stop)    *)
(* and the idle reaper.  The build a start request launches outlives the   *)
(* request and is named after it, so a request is also the nonce of its    *)
(* build.                                                                  *)
(***************************************************************************)
EXTENDS Naturals, FiniteSets

CONSTANTS
    Projects,
    Users,
    Owner,        \* the user who owns a project; only the owner's requests pass
    Requests,     \* the start and stop requests of the run
    Reaper,       \* the timer callback that stops idle previews
    None,
    MaxGlobal,    \* PREVIEW_MAX_GLOBAL
    MaxPerUser,   \* MAX_PREVIEWS_PER_USER
    MaxCrashes    \* bound: crashes of the backend process

Actors == Requests \cup {Reaper}

ASSUME ConstantsAssumption ==
    /\ Owner \in [Projects -> Users]
    /\ Reaper \notin Requests
    /\ None \notin Projects \cup Requests
    /\ MaxGlobal \in Nat \ {0}
    /\ MaxPerUser \in Nat \ {0}
    /\ MaxCrashes \in Nat

VARIABLES
    \* Redis
    status,       \* preview:<project>, "idle" when the key is absent
    globalSet,    \* global-active-previews
    userSet,      \* user-previews:<user>
    recent,       \* preview-last-access:<project> is within the idle timeout
    \* memory of the process
    building,     \* buildingProjects
    nonce,        \* buildNonces
    \* the host
    container,    \* the build that created the project's container
    running,      \* the projects whose container is running, not exited
    \* the actors
    pc, target, todo, cnt, cur,
    \* the builds
    bpc,          \* where the build of a request stands
    bcont,        \* the container whose port the build polls
    \* the process
    mode, bootTodo, bootCur, crashes,
    orphaned      \* history: "building" when the process died, not written since

redisVars == <<status, globalSet, userSet, recent>>
memVars   == <<building, nonce>>
hostVars  == <<container, running>>
actorVars == <<pc, target, todo, cnt, cur>>
buildVars == <<bpc, bcont>>
procVars  == <<mode, bootTodo, bootCur, crashes>>
vars == <<redisVars, memVars, hostVars, actorVars, buildVars, procVars, orphaned>>

Statuses == {"idle", "building", "ready", "error"}

StartPcs == {"globalCount", "globalDrop", "userCount", "userDrop",
             "registerGlobal", "readState", "ghostInspect", "ghostCleanup",
             "ghostDel", "announce"}
StopPcs  == {"stopUser", "stopGlobal", "stopDel", "stopCleanup"}
ReapPcs  == {"reapCheck", "reapAccess"}

\* Builds that have not yet left their try/catch/finally chain.
InFlight == {"files", "inspect", "replace", "run", "wait", "markReady", "touch",
             "failCleanup", "failMark"}
\* ... and of these, the ones that have still to write their verdict.
Unreported == InFlight \ {"touch"}

TypeOK ==
    /\ status \in [Projects -> Statuses]
    /\ globalSet \subseteq Projects
    /\ userSet \in [Users -> SUBSET Projects]
    /\ recent \subseteq Projects
    /\ building \subseteq Projects
    /\ nonce \in [Projects -> Requests \cup {None}]
    /\ container \in [Projects -> Requests \cup {None}]
    /\ running \subseteq Projects
    /\ pc \in [Actors -> {"idle", "done"} \cup StartPcs \cup StopPcs \cup ReapPcs]
    /\ target \in [Actors -> Projects \cup {None}]
    /\ todo \in [Actors -> SUBSET Projects]
    /\ cnt \in [Actors -> Nat]
    /\ cur \in [Actors -> Projects \cup {None}]
    /\ bpc \in [Requests -> {"unused", "watch", "flip", "done"} \cup InFlight]
    /\ bcont \in [Requests -> Requests \cup {None}]
    /\ mode \in {"serving", "down", "bootRead", "bootSrem", "bootCleanup"}
    /\ bootTodo \subseteq Projects
    /\ bootCur \in Projects \cup {None}
    /\ crashes \in 0 .. MaxCrashes
    /\ orphaned \subseteq Projects

Init ==
    /\ status = [p \in Projects |-> "idle"]
    /\ globalSet = {}
    /\ userSet = [u \in Users |-> {}]
    /\ recent = {}
    /\ building = {}
    /\ nonce = [p \in Projects |-> None]
    /\ container = [p \in Projects |-> None]
    /\ running = {}
    /\ pc = [a \in Actors |-> "idle"]
    /\ target = [a \in Actors |-> None]
    /\ todo = [a \in Actors |-> {}]
    /\ cnt = [a \in Actors |-> 0]
    /\ cur = [a \in Actors |-> None]
    /\ bpc = [r \in Requests |-> "unused"]
    /\ bcont = [r \in Requests |-> None]
    /\ mode = "serving"
    /\ bootTodo = {}
    /\ bootCur = None
    /\ crashes = 0
    /\ orphaned = {}

-----------------------------------------------------------------------------
(* Helpers: single effects that several steps share.                        *)

Active(p) == status[p] \in {"building", "ready"}

At(a, label) == mode = "serving" /\ pc[a] = label

Goto(a, label) == pc' = [pc EXCEPT ![a] = label]

SetStatus(p, s) ==
    /\ status' = [status EXCEPT ![p] = s]
    /\ orphaned' = orphaned \ {p}

\* runner.cleanup: whatever container the project has is removed.
RemoveContainer(p) ==
    /\ container' = [container EXCEPT ![p] = None]
    /\ running' = running \ {p}

-----------------------------------------------------------------------------
(* startPreview                                                             *)

\* A start request arrives and reads the members of the global set.
StartRequest(r, p) ==
    /\ At(r, "idle")
    /\ target' = [target EXCEPT ![r] = p]
    /\ todo' = [todo EXCEPT ![r] = globalSet]
    /\ Goto(r, "globalCount")
    /\ UNCHANGED <<redisVars, memVars, hostVars, cnt, cur, buildVars, procVars, orphaned>>

\* One turn of the counting loop: the status of one member is read; a member
\* that is not active is to be dropped from the set being counted.
CountMember(a, label, drop) ==
    /\ At(a, label)
    /\ \E q \in todo[a] :
        /\ todo' = [todo EXCEPT ![a] = @ \ {q}]
        /\ IF Active(q)
           THEN /\ cnt' = [cnt EXCEPT ![a] = @ + 1]
                /\ UNCHANGED <<pc, cur>>
           ELSE /\ cur' = [cur EXCEPT ![a] = q]
                /\ Goto(a, drop)
                /\ UNCHANGED cnt
    /\ UNCHANGED <<redisVars, memVars, hostVars, target, buildVars, procVars, orphaned>>

DropGlobal(r) ==
    /\ At(r, "globalDrop")
    /\ globalSet' = globalSet \ {cur[r]}
    /\ cur' = [cur EXCEPT ![r] = None]
    /\ Goto(r, "globalCount")
    /\ UNCHANGED <<status, userSet, recent, memVars, hostVars, target, todo, cnt,
                   buildVars, procVars, orphaned>>

DropUser(r) ==
    /\ At(r, "userDrop")
    /\ userSet' = [userSet EXCEPT ![Owner[target[r]]] = @ \ {cur[r]}]
    /\ cur' = [cur EXCEPT ![r] = None]
    /\ Goto(r, "userCount")
    /\ UNCHANGED <<status, globalSet, recent, memVars, hostVars, target, todo, cnt,
                   buildVars, procVars, orphaned>>

\* "Server is at capacity" or "Maximum 3 concurrent previews".
Refuse(r) ==
    /\ todo[r] = {}
    /\ \/ At(r, "globalCount") /\ cnt[r] >= MaxGlobal
       \/ At(r, "userCount") /\ cnt[r] >= MaxPerUser
    /\ cnt' = [cnt EXCEPT ![r] = 0]
    /\ Goto(r, "done")
    /\ UNCHANGED <<redisVars, memVars, hostVars, target, todo, cur, buildVars,
                   procVars, orphaned>>

\* The global check has passed: read the members of the owner's set.
UserMembers(r) ==
    /\ At(r, "globalCount") /\ todo[r] = {} /\ cnt[r] < MaxGlobal
    /\ todo' = [todo EXCEPT ![r] = userSet[Owner[target[r]]]]
    /\ cnt' = [cnt EXCEPT ![r] = 0]
    /\ Goto(r, "userCount")
    /\ UNCHANGED <<redisVars, memVars, hostVars, target, cur, buildVars, procVars, orphaned>>

\* Mutant: the set is given the user in place of the project.
RegisterUserSwapped(r) ==
    /\ At(r, "userCount") /\ todo[r] = {} /\ cnt[r] < MaxPerUser
    /\ userSet' = [userSet EXCEPT ![Owner[target[r]]] = @ \cup {Owner[target[r]]}]
    /\ cnt' = [cnt EXCEPT ![r] = 0]
    /\ Goto(r, "registerGlobal")
    /\ UNCHANGED <<status, globalSet, recent, memVars, hostVars, target, todo, cur,
                   buildVars, procVars, orphaned>>

\* The per-user check has passed: the project joins the owner's set.
RegisterUser(r) ==
    /\ At(r, "userCount") /\ todo[r] = {} /\ cnt[r] < MaxPerUser
    /\ userSet' = [userSet EXCEPT ![Owner[target[r]]] = @ \cup {target[r]}]
    /\ cnt' = [cnt EXCEPT ![r] = 0]
    /\ Goto(r, "registerGlobal")
    /\ UNCHANGED <<status, globalSet, recent, memVars, hostVars, target, todo, cur,
                   buildVars, procVars, orphaned>>

\* It joins the global set; then the in-memory check for a running build.
RegisterGlobal(r) ==
    /\ At(r, "registerGlobal")
    /\ globalSet' = globalSet \cup {target[r]}
    /\ Goto(r, IF target[r] \in building THEN "done" ELSE "readState")
    /\ UNCHANGED <<status, userSet, recent, memVars, hostVars, target, todo, cnt, cur,
                   buildVars, procVars, orphaned>>

ReadState(r) ==
    /\ At(r, "readState")
    /\ Goto(r, IF status[target[r]] = "building" THEN "ghostInspect" ELSE "announce")
    /\ UNCHANGED <<redisVars, memVars, hostVars, target, todo, cnt, cur, buildVars,
                   procVars, orphaned>>

\* docker inspect also answers for an exited container; it answers "no" for a
\* container that exists when the command exceeds its timeout.
GhostInspect(r) ==
    /\ At(r, "ghostInspect")
    /\ \E exists \in {container[target[r]] # None, FALSE} :
        Goto(r, IF exists THEN "announce" ELSE "ghostCleanup")
    /\ UNCHANGED <<redisVars, memVars, hostVars, target, todo, cnt, cur, buildVars,
                   procVars, orphaned>>

GhostCleanup(r) ==
    /\ At(r, "ghostCleanup")
    /\ RemoveContainer(target[r])
    /\ Goto(r, "ghostDel")
    /\ UNCHANGED <<redisVars, memVars, target, todo, cnt, cur, buildVars,
                   procVars, orphaned>>

GhostDel(r) ==
    /\ At(r, "ghostDel")
    /\ SetStatus(target[r], "idle")
    /\ Goto(r, "announce")
    /\ UNCHANGED <<globalSet, userSet, recent, memVars, hostVars, target, todo, cnt, cur,
                   buildVars, procVars>>

\* Mutant: a nonce left by an earlier build is kept.
AnnounceOldNonce(r) ==
    /\ At(r, "announce")
    /\ SetStatus(target[r], "building")
    /\ building' = building \cup {target[r]}
    /\ nonce' = [nonce EXCEPT ![target[r]] = IF @ = None THEN r ELSE @]
    /\ bpc' = [bpc EXCEPT ![r] = "files"]
    /\ Goto(r, "done")
    /\ UNCHANGED <<globalSet, userSet, recent, hostVars, target, todo, cnt, cur, bcont,
                   procVars>>

\* The state becomes "building", the project is flagged with a fresh nonce and
\* the build is launched; the request answers.
Announce(r) ==
    /\ At(r, "announce")
    /\ SetStatus(target[r], "building")
    /\ building' = building \cup {target[r]}
    /\ nonce' = [nonce EXCEPT ![target[r]] = r]
    /\ bpc' = [bpc EXCEPT ![r] = "files"]
    /\ Goto(r, "done")
    /\ UNCHANGED <<globalSet, userSet, recent, hostVars, target, todo, cnt, cur, bcont,
                   procVars>>

-----------------------------------------------------------------------------
(* buildAndStart, with the handlers attached to it                          *)

BuildAt(r, label) == mode = "serving" /\ bpc[r] = label

Advance(r, label) == bpc' = [bpc EXCEPT ![r] = label]

\* Files are read from the database and written to a fresh working directory.
\* FileStore and Manifest have what is done to them, HostResources the network and
\* the database that come up before the container.
BuildFiles(r) ==
    /\ BuildAt(r, "files")
    /\ Advance(r, "inspect")
    /\ UNCHANGED <<redisVars, memVars, hostVars, actorVars, bcont, procVars, orphaned>>

\* A running container whose labels match is reused.
BuildInspect(r) ==
    /\ BuildAt(r, "inspect")
    /\ \/ /\ target[r] \in running
          /\ bcont' = [bcont EXCEPT ![r] = container[target[r]]]
          /\ Advance(r, "wait")
       \/ /\ Advance(r, "replace")
          /\ UNCHANGED bcont
    /\ UNCHANGED <<redisVars, memVars, hostVars, actorVars, procVars, orphaned>>

BuildReplace(r) ==
    /\ BuildAt(r, "replace")
    /\ RemoveContainer(target[r])
    /\ Advance(r, "run")
    /\ UNCHANGED <<redisVars, memVars, actorVars, bcont, procVars, orphaned>>

\* docker run refuses a name that is in use.
BuildRun(r) ==
    /\ BuildAt(r, "run")
    /\ container[target[r]] = None
    /\ container' = [container EXCEPT ![target[r]] = r]
    /\ running' = running \cup {target[r]}
    /\ bcont' = [bcont EXCEPT ![r] = r]
    /\ Advance(r, "wait")
    /\ UNCHANGED <<redisVars, memVars, actorVars, procVars, orphaned>>

\* The container this build polls answers on its port.
BuildReady(r) ==
    /\ BuildAt(r, "wait")
    /\ target[r] \in running
    /\ container[target[r]] = bcont[r]
    /\ bcont' = [bcont EXCEPT ![r] = None]
    /\ Advance(r, "markReady")
    /\ UNCHANGED <<redisVars, memVars, hostVars, actorVars, procVars, orphaned>>

MarkReady(r) ==
    /\ BuildAt(r, "markReady")
    /\ SetStatus(target[r], "ready")
    /\ Advance(r, "touch")
    /\ UNCHANGED <<globalSet, userSet, recent, memVars, hostVars, actorVars, bcont, procVars>>

\* Mutant: the flag goes whoever holds it.
ClearFlagAlways(r) == building' = building \ {target[r]}

\* The finally handler: the flag goes only if this is still the active build.
ClearFlag(r) ==
    building' = IF nonce[target[r]] = r THEN building \ {target[r]} ELSE building

\* The access time is written, the watcher starts, the build's promise settles.
TouchReady(r) ==
    /\ BuildAt(r, "touch")
    /\ recent' = recent \cup {target[r]}
    /\ ClearFlag(r)
    /\ Advance(r, "watch")
    /\ UNCHANGED <<status, globalSet, userSet, nonce, hostVars, actorVars, bcont, procVars,
                   orphaned>>

\* An awaited call throws, a wait times out, or docker run finds its name in
\* use.  The catch handler goes on only for the active build.
BuildFail(r) ==
    /\ \E label \in {"files", "run", "wait"} : BuildAt(r, label)
    /\ Advance(r, IF nonce[target[r]] = r THEN "failCleanup" ELSE "done")
    /\ bcont' = [bcont EXCEPT ![r] = None]
    /\ UNCHANGED <<redisVars, memVars, hostVars, actorVars, procVars, orphaned>>

FailCleanup(r) ==
    /\ BuildAt(r, "failCleanup")
    /\ RemoveContainer(target[r])
    /\ Advance(r, "failMark")
    /\ UNCHANGED <<redisVars, memVars, actorVars, bcont, procVars, orphaned>>

\* Mutant: finally is not reached after a failure.
FailMarkKeepsFlag(r) ==
    /\ BuildAt(r, "failMark")
    /\ SetStatus(target[r], "error")
    /\ Advance(r, "done")
    /\ UNCHANGED <<globalSet, userSet, recent, memVars, hostVars, actorVars, bcont, procVars>>

\* Mutant: the failure is logged and not recorded.
FailMarkSilent(r) ==
    /\ BuildAt(r, "failMark")
    /\ ClearFlag(r)
    /\ Advance(r, "done")
    /\ UNCHANGED <<redisVars, nonce, hostVars, actorVars, bcont, procVars, orphaned>>

FailMark(r) ==
    /\ BuildAt(r, "failMark")
    /\ SetStatus(target[r], "error")
    /\ ClearFlag(r)
    /\ Advance(r, "done")
    /\ UNCHANGED <<globalSet, userSet, recent, nonce, hostVars, actorVars, bcont, procVars>>

\* The background watcher sees a bundle error in the log, or docker inspect
\* fails (no container, or no answer within its timeout).
WatchTrip(r) ==
    /\ BuildAt(r, "watch")
    /\ Advance(r, "flip")
    /\ UNCHANGED <<redisVars, memVars, hostVars, actorVars, bcont, procVars, orphaned>>

\* ... or its five minutes are over.
WatchEnd(r) ==
    /\ BuildAt(r, "watch")
    /\ Advance(r, "done")
    /\ UNCHANGED <<redisVars, memVars, hostVars, actorVars, bcont, procVars, orphaned>>

WatchFlip(r) ==
    /\ BuildAt(r, "flip")
    /\ SetStatus(target[r], "error")
    /\ Advance(r, "done")
    /\ UNCHANGED <<globalSet, userSet, recent, memVars, hostVars, actorVars, bcont, procVars>>

-----------------------------------------------------------------------------
(* stopPreview, for a request and for the reaper                            *)

\* The code before the first await: flag and nonce go.
Invalidate(p) ==
    /\ building' = building \ {p}
    /\ nonce' = [nonce EXCEPT ![p] = None]

StopRequest(r, p) ==
    /\ At(r, "idle")
    /\ target' = [target EXCEPT ![r] = p]
    /\ Invalidate(p)
    /\ Goto(r, "stopUser")
    /\ UNCHANGED <<redisVars, hostVars, todo, cnt, cur, buildVars, procVars, orphaned>>

StopUser(r) ==
    /\ At(r, "stopUser")
    /\ userSet' = [userSet EXCEPT ![Owner[target[r]]] = @ \ {target[r]}]
    /\ Goto(r, "stopGlobal")
    /\ UNCHANGED <<status, globalSet, recent, memVars, hostVars, target, todo, cnt, cur,
                   buildVars, procVars, orphaned>>

StopGlobal(a) ==
    /\ At(a, "stopGlobal")
    /\ globalSet' = globalSet \ {target[a]}
    /\ Goto(a, "stopDel")
    /\ UNCHANGED <<status, userSet, recent, memVars, hostVars, target, todo, cnt, cur,
                   buildVars, procVars, orphaned>>

StopDel(a) ==
    /\ At(a, "stopDel")
    /\ SetStatus(target[a], "idle")
    /\ Goto(a, "stopCleanup")
    /\ UNCHANGED <<globalSet, userSet, recent, memVars, hostVars, target, todo, cnt, cur,
                   buildVars, procVars>>

\* The container goes, then the working directory.  The reaper goes on with
\* the next project, a request answers.
StopCleanup(a) ==
    /\ At(a, "stopCleanup")
    /\ RemoveContainer(target[a])
    /\ Goto(a, IF a = Reaper THEN "reapCheck" ELSE "done")
    /\ UNCHANGED <<redisVars, memVars, target, todo, cnt, cur, buildVars, procVars, orphaned>>

-----------------------------------------------------------------------------
(* reapIdlePreviews                                                         *)

ReapBegin ==
    /\ At(Reaper, "idle")
    /\ globalSet # {}
    /\ todo' = [todo EXCEPT ![Reaper] = globalSet]
    /\ Goto(Reaper, "reapCheck")
    /\ UNCHANGED <<redisVars, memVars, hostVars, target, cnt, cur, buildVars, procVars,
                   orphaned>>

\* Only a project seen "ready" is looked at further.
ReapCheck ==
    /\ At(Reaper, "reapCheck")
    /\ \E p \in todo[Reaper] :
        /\ todo' = [todo EXCEPT ![Reaper] = @ \ {p}]
        /\ IF status[p] = "ready"
           THEN /\ target' = [target EXCEPT ![Reaper] = p]
                /\ Goto(Reaper, "reapAccess")
           ELSE UNCHANGED <<target, pc>>
    /\ UNCHANGED <<redisVars, memVars, hostVars, cnt, cur, buildVars, procVars, orphaned>>

ReapAccess ==
    /\ At(Reaper, "reapAccess")
    /\ IF target[Reaper] \in recent
       THEN /\ Goto(Reaper, "reapCheck")
            /\ UNCHANGED memVars
       ELSE /\ Invalidate(target[Reaper])
            /\ Goto(Reaper, "stopGlobal")
    /\ UNCHANGED <<redisVars, hostVars, target, todo, cnt, cur, buildVars, procVars, orphaned>>

ReapEnd ==
    /\ At(Reaper, "reapCheck")
    /\ todo[Reaper] = {}
    /\ Goto(Reaper, "idle")
    /\ target' = [target EXCEPT ![Reaper] = None]
    /\ UNCHANGED <<redisVars, memVars, hostVars, todo, cnt, cur, buildVars, procVars, orphaned>>

-----------------------------------------------------------------------------
(* The world around the service                                             *)

\* The preview proxy records an access.
Touch(p) ==
    /\ mode = "serving"
    /\ p \notin recent
    /\ recent' = recent \cup {p}
    /\ UNCHANGED <<status, globalSet, userSet, memVars, hostVars, actorVars, buildVars,
                   procVars, orphaned>>

\* The idle timeout passes without an access.
GrowIdle(p) ==
    /\ p \in recent
    /\ recent' = recent \ {p}
    /\ UNCHANGED <<status, globalSet, userSet, memVars, hostVars, actorVars, buildVars,
                   procVars, orphaned>>

\* The status key reaches the end of its hour.  A build that is in flight ends
\* within minutes, so its "building" is never that old.
Expire(p) ==
    /\ status[p] # "idle"
    /\ status[p] = "building" => \A r \in Requests : target[r] = p => bpc[r] \notin InFlight
    /\ SetStatus(p, "idle")
    /\ UNCHANGED <<globalSet, userSet, recent, memVars, hostVars, actorVars, buildVars,
                   procVars>>

\* The dev server dies; the exited container keeps its name.
ContainerExit(p) ==
    /\ p \in running
    /\ running' = running \ {p}
    /\ UNCHANGED <<redisVars, memVars, container, actorVars, buildVars, procVars, orphaned>>

\* The process dies: memory, requests and builds are lost, Redis and the
\* containers stay.
Crash ==
    /\ mode # "down"
    /\ crashes < MaxCrashes
    /\ crashes' = crashes + 1
    /\ mode' = "down"
    /\ building' = {}
    /\ nonce' = [p \in Projects |-> None]
    /\ pc' = [a \in Actors |-> IF a = Reaper \/ pc[a] = "idle" THEN "idle" ELSE "done"]
    /\ target' = [a \in Actors |-> IF a = Reaper THEN None ELSE target[a]]
    /\ todo' = [a \in Actors |-> {}]
    /\ cnt' = [a \in Actors |-> 0]
    /\ cur' = [a \in Actors |-> None]
    /\ bpc' = [r \in Requests |-> IF bpc[r] = "unused" THEN "unused" ELSE "done"]
    /\ orphaned' = {p \in Projects : status[p] = "building"}
    /\ bcont' = [r \in Requests |-> None]
    /\ bootTodo' = {}
    /\ bootCur' = None
    /\ UNCHANGED <<redisVars, hostVars>>

\* onModuleInit runs before requests are served and reads the global set.
Restart ==
    /\ mode = "down"
    /\ mode' = "bootRead"
    /\ bootTodo' = globalSet
    /\ UNCHANGED <<redisVars, memVars, hostVars, actorVars, buildVars, bootCur, crashes,
                   orphaned>>

\* Mutant: a "building" project whose container survived is left alone.
BootResetKeeps ==
    /\ mode = "bootRead"
    /\ \E p \in bootTodo :
        /\ bootTodo' = bootTodo \ {p}
        /\ IF status[p] = "building" /\ container[p] = None
           THEN /\ SetStatus(p, "idle")
                /\ bootCur' = p
                /\ mode' = "bootSrem"
           ELSE UNCHANGED <<status, orphaned, bootCur, mode>>
    /\ UNCHANGED <<globalSet, userSet, recent, memVars, hostVars, actorVars, buildVars,
                   crashes>>

\* resetStaleBuildingPreviews: a member still "building" loses its key ...
BootReset ==
    /\ mode = "bootRead"
    /\ \E p \in bootTodo :
        /\ bootTodo' = bootTodo \ {p}
        /\ IF status[p] = "building"
           THEN /\ SetStatus(p, "idle")
                /\ bootCur' = p
                /\ mode' = "bootSrem"
           ELSE UNCHANGED <<status, orphaned, bootCur, mode>>
    /\ UNCHANGED <<globalSet, userSet, recent, memVars, hostVars, actorVars, buildVars,
                   crashes>>

\* ... then its membership ...
BootSrem ==
    /\ mode = "bootSrem"
    /\ globalSet' = globalSet \ {bootCur}
    /\ mode' = "bootCleanup"
    /\ UNCHANGED <<status, userSet, recent, memVars, hostVars, actorVars, buildVars,
                   bootTodo, bootCur, crashes, orphaned>>

\* ... then its container.
BootCleanup ==
    /\ mode = "bootCleanup"
    /\ RemoveContainer(bootCur)
    /\ bootCur' = None
    /\ mode' = "bootRead"
    /\ UNCHANGED <<redisVars, memVars, actorVars, buildVars, bootTodo, crashes,
                   orphaned>>

BootDone ==
    /\ mode = "bootRead"
    /\ bootTodo = {}
    /\ mode' = "serving"
    /\ UNCHANGED <<redisVars, memVars, hostVars, actorVars, buildVars, bootTodo, bootCur,
                   crashes, orphaned>>

-----------------------------------------------------------------------------
StartStep(r) ==
    \/ CountMember(r, "globalCount", "globalDrop")
    \/ CountMember(r, "userCount", "userDrop")
    \/ DropGlobal(r) \/ DropUser(r) \/ Refuse(r) \/ UserMembers(r)
    \/ RegisterUser(r) \/ RegisterGlobal(r) \/ ReadState(r)
    \/ GhostInspect(r) \/ GhostCleanup(r) \/ GhostDel(r) \/ Announce(r)

StopStep(a) ==
    \/ StopGlobal(a) \/ StopDel(a) \/ StopCleanup(a)

BuildStep(r) ==
    \/ BuildFiles(r) \/ BuildInspect(r) \/ BuildReplace(r) \/ BuildRun(r)
    \/ BuildReady(r) \/ MarkReady(r) \/ TouchReady(r)
    \/ BuildFail(r) \/ FailCleanup(r) \/ FailMark(r)

WatchStep(r) == WatchTrip(r) \/ WatchEnd(r) \/ WatchFlip(r)

ReapStep == ReapCheck \/ ReapAccess \/ ReapEnd \/ StopStep(Reaper)

BootStep == Restart \/ BootReset \/ BootSrem \/ BootCleanup \/ BootDone

RequestStep(r) == StartStep(r) \/ StopUser(r) \/ StopStep(r)

Environment(p) == Touch(p) \/ GrowIdle(p) \/ Expire(p) \/ ContainerExit(p)

Next ==
    \/ \E r \in Requests, p \in Projects : StartRequest(r, p) \/ StopRequest(r, p)
    \/ \E r \in Requests : RequestStep(r) \/ BuildStep(r) \/ WatchStep(r)
    \/ ReapBegin \/ ReapStep
    \/ \E p \in Projects : Environment(p)
    \/ Crash \/ BootStep

\* An awaited Redis, database or docker call returns or throws, polling loops
\* have deadlines, a supervisor restarts the process, and a key nobody writes
\* again reaches its TTL.  Nothing is assumed of clients, of the dev server or
\* of the reaper's timer.
Fairness ==
    /\ \A r \in Requests : WF_vars(RequestStep(r)) /\ WF_vars(BuildStep(r))
    /\ \A r \in Requests : WF_vars(WatchStep(r))
    /\ WF_vars(ReapStep)
    /\ WF_vars(BootStep)
    /\ \A p \in Projects : WF_vars(p \in orphaned /\ Expire(p))

Spec == Init /\ [][Next]_vars
FairSpec == Spec /\ Fairness

-----------------------------------------------------------------------------
(* Properties                                                               *)

\* The flag "a build is running" never leaks: a flagged project has a nonce,
\* and the build of that nonce, a build of this project, is still in flight.
\* A leaked flag would make every later start answer "building" and do nothing.
FlagBacked ==
    \A p \in building :
        /\ nonce[p] \in Requests
        /\ target[nonce[p]] = p
        /\ bpc[nonce[p]] \in InFlight

\* The build that holds a project's nonce has still to write its verdict.
VerdictPending(p) ==
    /\ nonce[p] \in Requests
    /\ target[nonce[p]] = p
    /\ bpc[nonce[p]] \in Unreported

\* A stop of the project has still to delete the status key.
StopPending(p) ==
    \E a \in Actors : target[a] = p /\ pc[a] \in {"stopUser", "stopGlobal", "stopDel"}

\* No limbo: whoever sees "building" waits for something that will happen.
\* Either the current build has still to report, or a stop is about to delete
\* the key, or the state is a leftover of a crashed process.  It has to hold
\* however starts, stops, failures and the reaper interleave.
BuildingBacked ==
    \A p \in Projects :
        status[p] = "building" => VerdictPending(p) \/ StopPending(p) \/ p \in orphaned

\* When a restarted process begins to serve, no project it tracks is still
\* "building": onModuleInit resets what the crash left, also when the process
\* died again in the middle of an earlier reset.
BootRecovers ==
    [][mode # "serving" /\ mode' = "serving" =>
        \A p \in globalSet' : status'[p] # "building"]_vars

\* The flag of a project is always cleared again: the finally handler of the
\* current build, a stop or a crash takes it away.
FlagClears == \A p \in Projects : p \in building ~> p \notin building

\* "building" is never the last word: the preview becomes ready, fails, is
\* stopped, or the key of a crashed build expires.
BuildingResolves ==
    \A p \in Projects : status[p] = "building" ~> status[p] # "building"

\* "Nonce per project so stale builds don't overwrite new state", and a stop
\* turns the handlers of the build in progress into no-ops: the status becomes
\* "ready" or "error" only by a step of the build that holds the nonce.
OnlyCurrentBuildReports ==
    [][\A p \in Projects :
        status'[p] # status[p] /\ status'[p] \in {"ready", "error"} =>
            /\ nonce[p] \in Requests
            /\ bpc'[nonce[p]] # bpc[nonce[p]]]_vars

Lock ==
    INSTANCE BuildLock WITH
        Builds <- Requests, Nobody <- None,
        locked <- building, holder <- nonce,
        alive <- {r \in Requests : bpc[r] \in InFlight},
        fresh <- {r \in Requests : bpc[r] = "unused"}

\* Flag and nonce are a lock: the handlers of a build that was superseded or
\* stopped never take the flag from the build that runs now, and the end of the
\* current build always does.
KeepsLock == Lock!Spec
=============================================================================
