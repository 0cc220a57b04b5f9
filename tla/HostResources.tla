---------------------------- MODULE HostResources ----------------------------
(***************************************************************************)
(* What the preview of one full-stack project holds on the host: a working *)
(* directory, a Docker network, a database container and the app container *)
(* that mounts the first and joins the second.  PreviewService decides in  *)
(* which order they are made and removed, DockerRunnerService runs the     *)
(* commands.                                                               *)
(*                                                                         *)
(* PreviewLifecycle models who may start, stop and report, and sees one    *)
(* container; here the requests are reduced to the flag, the nonce and the *)
(* key, and every command that touches a resource is a step.  A project    *)
(* whose key is "building" is taken to be in global-active-previews, and   *)
(* the project has a Prisma schema.  Removing a container is taken to      *)
(* work: the code ignores a failure of docker rm.                          *)
(*                                                                         *)
(* An actor is a start request with the build it launches, a stop (a       *)
(* user's or the reaper's), or the process itself, Boot, which serves, is  *)
(* down or recovers.                                                       *)
(***************************************************************************)
EXTENDS Naturals, FiniteSets

CONSTANTS
    Starts,
    Stops,
    Boot,
    None,
    MaxCrashes    \* bound: deaths of the process

ASSUME HostConstants ==
    /\ Starts \cap Stops = {}
    /\ Boot \notin Starts \cup Stops
    /\ None \notin Starts
    /\ MaxCrashes \in Nat

Actors == Starts \cup Stops \cup {Boot}

VARIABLES
    \* Redis
    key,          \* preview:<project>, "idle" when absent
    \* memory of the process
    flag, nonce,  \* buildingProjects, buildNonces
    polls,        \* the container whose port a build polls
    pc, then,     \* where an actor stands, and where its cleanup or verdict leads
    \* the host; a directory and a database are named after the build that made them
    dir, net, db, app,
    crashes,
    disturbed     \* history: what has happened that the code does not order

memVars  == <<flag, nonce, polls>>
hostVars == <<dir, net, db, app>>
vars == <<key, memVars, pc, then, hostVars, crashes, disturbed>>

\* An app container: the build that created it, the directory behind /app, its
\* being up, its being on the network, the database it pushed its schema into
\* and answers with, and whether a later build took it over.
Apps == [by : Starts, mount : Starts, up : BOOLEAN, net : BOOLEAN,
         schema : Starts \cup {None}, reused : BOOLEAN]

StartPcs == {"readState", "ghostInspect", "ghostDel", "announce"}
BuildPcs == {"clearDir", "makeDir", "network", "dropDb", "runDb", "awaitDb", "inspect",
             "replace", "runApp", "connect", "awaitReady", "markReady", "fail", "failMark"}
Cleaning == {"rmApp", "rmDb", "rmNet"}

\* "overlap": two operations were under way at once, or a watcher wrote over
\* one; "cut": a death between deleting the key and the end of the cleanup, or
\* a downtime longer than the key's TTL; "expired": the key ran out under a
\* finished preview.
Disturbances == {"overlap", "cut", "expired"}

TypeOK ==
    /\ key \in {"idle", "building", "ready", "error"}
    /\ flag \in BOOLEAN
    /\ nonce \in Starts \cup {None}
    /\ polls \in [Starts -> Starts \cup {None}]
    /\ pc \in [Actors -> {"idle", "done", "watch", "settle", "stopDel", "stopDir", "serving",
                          "down", "bootDel"} \cup StartPcs \cup BuildPcs \cup Cleaning]
    /\ then \in [Actors -> {None, "ghostDel", "failMark", "stopDir", "serving", "watch", "done"}]
    /\ dir \in Starts \cup {None}
    /\ net \in BOOLEAN
    /\ db \in Starts \cup {None}
    /\ app \in Apps \cup {None}
    /\ crashes \in 0 .. MaxCrashes
    /\ disturbed \subseteq Disturbances

Init ==
    /\ key = "idle"
    /\ flag = FALSE
    /\ nonce = None
    /\ polls = [r \in Starts |-> None]
    /\ pc = [a \in Actors |-> IF a = Boot THEN "serving" ELSE "idle"]
    /\ then = [a \in Actors |-> None]
    /\ dir = None
    /\ net = FALSE
    /\ db = None
    /\ app = None
    /\ crashes = 0
    /\ disturbed = {}

-----------------------------------------------------------------------------
Serving == pc[Boot] = "serving"

At(a, label) == pc[a] = label /\ (Serving \/ a = Boot)

Goto(a, label) == pc' = [pc EXCEPT ![a] = label]

GotoVia(a, label, next) ==
    /\ Goto(a, label)
    /\ then' = [then EXCEPT ![a] = next]

Return(a) == GotoVia(a, then[a], None)

\* Under way: neither finished nor watching a finished preview.
Busy(a) == pc[a] \notin {"idle", "done", "watch", "serving", "down"}

Alone(a) == \A b \in Actors \ {a} : ~Busy(b)

Nothing == app = None /\ db = None /\ ~net

AppUp == app # None /\ app.up

Begin(a) == disturbed' = IF Alone(a) THEN disturbed ELSE disturbed \cup {"overlap"}

-----------------------------------------------------------------------------
(* startPreview                                                             *)

\* The in-memory check: a project being built is answered at once.
StartRequest(r) ==
    /\ At(r, "idle")
    /\ IF flag
       THEN Goto(r, "done") /\ UNCHANGED disturbed
       ELSE Goto(r, "readState") /\ Begin(r)
    /\ UNCHANGED <<key, memVars, then, hostVars, crashes>>

ReadState(r) ==
    /\ At(r, "readState")
    /\ Goto(r, IF key = "building" THEN "ghostInspect" ELSE "announce")
    /\ UNCHANGED <<key, memVars, then, hostVars, crashes, disturbed>>

\* "building" without a container is a ghost; docker inspect also fails when it
\* exceeds its timeout.
GhostInspect(r) ==
    /\ At(r, "ghostInspect")
    /\ \/ app # None /\ Goto(r, "announce") /\ UNCHANGED then
       \/ GotoVia(r, "rmApp", "ghostDel")
    /\ UNCHANGED <<key, memVars, hostVars, crashes, disturbed>>

GhostDel(r) ==
    /\ At(r, "ghostDel")
    /\ key' = "idle"
    /\ Goto(r, "announce")
    /\ UNCHANGED <<memVars, then, hostVars, crashes, disturbed>>

Announce(r) ==
    /\ At(r, "announce")
    /\ key' = "building"
    /\ flag' = TRUE
    /\ nonce' = r
    /\ Goto(r, "clearDir")
    /\ UNCHANGED <<polls, then, hostVars, crashes, disturbed>>

-----------------------------------------------------------------------------
(* buildAndStart                                                            *)

\* The removal is best effort: files of the container's root may keep the old
\* directory in place.
DirLeft == dir' \in {None, dir}

\* The files are fetched and the old directory goes; either may throw.
ClearDir(r) ==
    /\ At(r, "clearDir")
    /\ DirLeft
    /\ \E next \in {"makeDir", "fail"} : Goto(r, next)
    /\ UNCHANGED <<key, memVars, then, net, db, app, crashes, disturbed>>

\* The files are written and their manifests prepared; a project without a
\* package.json throws.
MakeDir(r) ==
    /\ At(r, "makeDir")
    /\ dir' = IF dir = None THEN r ELSE dir
    /\ \E next \in {"network", "fail"} : Goto(r, next)
    /\ UNCHANGED <<key, memVars, then, net, db, app, crashes, disturbed>>

\* Mutant: the network is made anew, as the database is.
CreateNetworkAnew(r) ==
    /\ At(r, "network")
    /\ \/ /\ net' = TRUE
          /\ app' = IF app = None THEN None ELSE [app EXCEPT !.net = FALSE]
          /\ Goto(r, "dropDb")
       \/ UNCHANGED <<net, app>> /\ Goto(r, "fail")
    /\ UNCHANGED <<key, memVars, then, dir, db, crashes, disturbed>>

\* A network that already exists will do.
CreateNetwork(r) ==
    /\ At(r, "network")
    /\ \/ net' = TRUE /\ Goto(r, "dropDb")
       \/ UNCHANGED net /\ Goto(r, "fail")
    /\ UNCHANGED <<key, memVars, then, dir, db, app, crashes, disturbed>>

DropDatabase(r) ==
    /\ At(r, "dropDb")
    /\ db' = None
    /\ Goto(r, "runDb")
    /\ UNCHANGED <<key, memVars, then, dir, net, app, crashes, disturbed>>

\* docker run refuses a name in use and needs the network; when it fails, the
\* container may have been created.
RunDatabase(r) ==
    /\ At(r, "runDb")
    /\ \/ net /\ db = None /\ db' = r /\ Goto(r, "awaitDb")
       \/ db' \in (IF db = None THEN {None, r} ELSE {db}) /\ Goto(r, "fail")
    /\ UNCHANGED <<key, memVars, then, dir, net, app, crashes, disturbed>>

\* pg_isready is asked for 30 seconds, inside the container.
AwaitDatabase(r) ==
    /\ At(r, "awaitDb")
    /\ \/ db # None /\ Goto(r, "inspect")
       \/ Goto(r, "fail")
    /\ UNCHANGED <<key, memVars, then, hostVars, crashes, disturbed>>

-----------------------------------------------------------------------------
(* startLongRunning                                                         *)

\* A running container whose labels match is taken over as it is.
Reuse(r) ==
    /\ At(r, "inspect")
    /\ AppUp
    /\ app' = [app EXCEPT !.reused = TRUE]
    /\ polls' = [polls EXCEPT ![r] = app.by]
    /\ Goto(r, "awaitReady")
    /\ UNCHANGED <<key, flag, nonce, then, dir, net, db, crashes, disturbed>>

\* Labels differ, nothing is running, or docker inspect gave no answer.
NoReuse(r) ==
    /\ At(r, "inspect")
    /\ Goto(r, "replace")
    /\ UNCHANGED <<key, memVars, then, hostVars, crashes, disturbed>>

\* The old container goes; without a free port or the image the call throws.
Replace(r) ==
    /\ At(r, "replace")
    /\ app' = None
    /\ \E next \in {"runApp", "fail"} : Goto(r, next)
    /\ UNCHANGED <<key, memVars, then, dir, net, db, crashes, disturbed>>

\* Mutant: what is not there is mounted all the same.
MountDirBlind(r) == dir

\* Docker itself makes a directory it is to mount and does not find.
MountDir(r) == IF dir = None THEN r ELSE dir

NewApp(r, up) == [by |-> r, mount |-> MountDir(r), up |-> up, net |-> FALSE,
                  schema |-> None, reused |-> FALSE]

RunApp(r) ==
    /\ At(r, "runApp")
    /\ app = None
    /\ app' = NewApp(r, TRUE)
    /\ dir' = MountDir(r)
    /\ polls' = [polls EXCEPT ![r] = r]
    /\ Goto(r, "connect")
    /\ UNCHANGED <<key, flag, nonce, then, net, db, crashes, disturbed>>

\* The name is in use, or the container was created and did not start.
RunAppFails(r) ==
    /\ At(r, "runApp")
    /\ \/ UNCHANGED <<app, dir>>
       \/ app = None /\ app' = NewApp(r, FALSE) /\ dir' = MountDir(r)
    /\ Goto(r, "fail")
    /\ UNCHANGED <<key, memVars, then, net, db, crashes, disturbed>>

\* Started on the default bridge, the container joins the project's network.
Connect(r) ==
    /\ At(r, "connect")
    /\ \/ net /\ app # None /\ app' = [app EXCEPT !.net = TRUE] /\ Goto(r, "awaitReady")
       \/ UNCHANGED app /\ Goto(r, "fail")
    /\ UNCHANGED <<key, memVars, then, dir, net, db, crashes, disturbed>>

-----------------------------------------------------------------------------
(* The verdict                                                              *)

\* Mutant: any answer from the port will do, a gateway's error included.
AwaitReadyAny(r) ==
    /\ At(r, "awaitReady")
    /\ \/ AppUp /\ app.by = polls[r] /\ Goto(r, "markReady")
       \/ Goto(r, "fail")
    /\ polls' = [polls EXCEPT ![r] = None]
    /\ UNCHANGED <<key, flag, nonce, then, hostVars, crashes, disturbed>>

\* The dev server answers only after the schema push that precedes it.
AwaitReady(r) ==
    /\ At(r, "awaitReady")
    /\ \/ AppUp /\ app.by = polls[r] /\ app.schema # None /\ Goto(r, "markReady")
       \/ Goto(r, "fail")
    /\ polls' = [polls EXCEPT ![r] = None]
    /\ UNCHANGED <<key, flag, nonce, then, hostVars, crashes, disturbed>>

MarkReady(r) ==
    /\ At(r, "markReady")
    /\ key' = "ready"
    /\ GotoVia(r, "settle", "watch")
    /\ UNCHANGED <<memVars, hostVars, crashes, disturbed>>

\* A build that was superseded or stopped ends without a word and leaves what
\* it made; the current one cleans up first.
Fail(r) ==
    /\ At(r, "fail")
    /\ IF nonce = r THEN GotoVia(r, "rmApp", "failMark")
                    ELSE Goto(r, "done") /\ UNCHANGED then
    /\ UNCHANGED <<key, memVars, hostVars, crashes, disturbed>>

FailMark(r) ==
    /\ At(r, "failMark")
    /\ key' = "error"
    /\ GotoVia(r, "settle", "done")
    /\ UNCHANGED <<memVars, hostVars, crashes, disturbed>>

\* finally: the flag goes if the build is still the current one.
Settle(r) ==
    /\ At(r, "settle")
    /\ flag' = (flag /\ nonce # r)
    /\ Return(r)
    /\ UNCHANGED <<key, nonce, polls, hostVars, crashes, disturbed>>

\* A bundle error, or no container found: the watcher writes "error" over
\* whatever the key says by then, and removes nothing.
WatchFlip(r) ==
    /\ At(r, "watch")
    /\ key' = "error"
    /\ disturbed' = IF key = "ready" /\ Alone(r) THEN disturbed ELSE disturbed \cup {"overlap"}
    /\ Goto(r, "done")
    /\ UNCHANGED <<memVars, then, hostVars, crashes>>

WatchEnd(r) ==
    /\ At(r, "watch")
    /\ Goto(r, "done")
    /\ UNCHANGED <<key, memVars, then, hostVars, crashes, disturbed>>

-----------------------------------------------------------------------------
(* runner.cleanup, shared by a failed build, a stop, a ghost and recovery   *)

RemoveApp(a) ==
    /\ At(a, "rmApp")
    /\ app' = None
    /\ Goto(a, "rmDb")
    /\ UNCHANGED <<key, memVars, then, dir, net, db, crashes, disturbed>>

RemoveDatabase(a) ==
    /\ At(a, "rmDb")
    /\ db' = None
    /\ Goto(a, "rmNet")
    /\ UNCHANGED <<key, memVars, then, dir, net, app, crashes, disturbed>>

\* Docker keeps a network that a running container is attached to.
Attached == (AppUp /\ app.net) \/ db # None

RemoveNetwork(a) ==
    /\ At(a, "rmNet")
    /\ net' = (net /\ Attached)
    /\ Return(a)
    /\ UNCHANGED <<key, memVars, dir, db, app, crashes, disturbed>>

-----------------------------------------------------------------------------
(* stopPreview                                                              *)

StopRequest(s) ==
    /\ At(s, "idle")
    /\ flag' = FALSE
    /\ nonce' = None
    /\ Begin(s)
    /\ Goto(s, "stopDel")
    /\ UNCHANGED <<key, polls, then, hostVars, crashes>>

StopDel(s) ==
    /\ At(s, "stopDel")
    /\ key' = "idle"
    /\ GotoVia(s, "rmApp", "stopDir")
    /\ UNCHANGED <<memVars, hostVars, crashes, disturbed>>

\* A stop that ran alone to its end and finds nothing left puts the project
\* back to where it began.
StopDir(s) ==
    /\ At(s, "stopDir")
    /\ DirLeft
    /\ disturbed' = IF Alone(s) /\ key = "idle" /\ Nothing THEN {} ELSE disturbed
    /\ Goto(s, "done")
    /\ UNCHANGED <<key, memVars, then, net, db, app, crashes>>

-----------------------------------------------------------------------------
(* The process                                                              *)

\* A death after the key is gone and before the resources are.
CutsCleanup == \E a \in Actors : pc[a] \in Cleaning /\ then[a] \in {"stopDir", "serving"}

Crash ==
    /\ pc[Boot] # "down"
    /\ crashes < MaxCrashes
    /\ crashes' = crashes + 1
    /\ pc' = [a \in Actors |-> IF a = Boot THEN "down"
                               ELSE IF pc[a] = "idle" THEN "idle" ELSE "done"]
    /\ then' = [a \in Actors |-> None]
    /\ flag' = FALSE
    /\ nonce' = None
    /\ polls' = [r \in Starts |-> None]
    /\ disturbed' = IF CutsCleanup THEN disturbed \cup {"cut"} ELSE disturbed
    /\ UNCHANGED <<key, hostVars>>

\* Mutant: recovery only counts the project out, as if its containers had
\* died with the process.
RestartForgets ==
    /\ At(Boot, "down")
    /\ key' = IF key = "building" THEN "idle" ELSE key
    /\ Goto(Boot, "serving")
    /\ UNCHANGED <<memVars, then, hostVars, crashes, disturbed>>

\* onModuleInit: only a project that is still "building" is reset.
Restart ==
    /\ At(Boot, "down")
    /\ Goto(Boot, IF key = "building" THEN "bootDel" ELSE "serving")
    /\ UNCHANGED <<key, memVars, then, hostVars, crashes, disturbed>>

BootDel ==
    /\ At(Boot, "bootDel")
    /\ key' = "idle"
    /\ GotoVia(Boot, "rmApp", "serving")
    /\ UNCHANGED <<memVars, hostVars, crashes, disturbed>>

-----------------------------------------------------------------------------
(* Around it                                                                *)

\* The container's command pushes the schema and then serves.
PushSchema ==
    /\ AppUp /\ app.net /\ app.schema = None /\ db # None
    /\ app' = [app EXCEPT !.schema = db]
    /\ UNCHANGED <<key, memVars, pc, then, dir, net, db, crashes, disturbed>>

ContainerExit ==
    /\ AppUp
    /\ app' = [app EXCEPT !.up = FALSE]
    /\ UNCHANGED <<key, memVars, pc, then, dir, net, db, crashes, disturbed>>

\* One hour after the verdict; the access times that keep the reaper away have
\* a key of their own.  A build ends sooner, unless the process is down.
Expire ==
    /\ \/ key \in {"ready", "error"} /\ disturbed' = disturbed \cup {"expired"}
       \/ key = "building" /\ pc[Boot] = "down" /\ disturbed' = disturbed \cup {"cut"}
    /\ key' = "idle"
    /\ UNCHANGED <<memVars, pc, then, hostVars, crashes>>

StartStep(r) ==
    \/ StartRequest(r) \/ ReadState(r) \/ GhostInspect(r) \/ GhostDel(r) \/ Announce(r)
    \/ ClearDir(r) \/ MakeDir(r) \/ CreateNetwork(r) \/ DropDatabase(r) \/ RunDatabase(r)
    \/ AwaitDatabase(r) \/ Reuse(r) \/ NoReuse(r) \/ Replace(r) \/ RunApp(r)
    \/ RunAppFails(r) \/ Connect(r) \/ AwaitReady(r) \/ MarkReady(r) \/ Fail(r)
    \/ FailMark(r) \/ Settle(r) \/ WatchFlip(r) \/ WatchEnd(r)

StopStep(s) == StopRequest(s) \/ StopDel(s) \/ StopDir(s)

CleanStep(a) == RemoveApp(a) \/ RemoveDatabase(a) \/ RemoveNetwork(a)

Next ==
    \/ \E r \in Starts : StartStep(r)
    \/ \E s \in Stops : StopStep(s)
    \/ \E a \in Actors : CleanStep(a)
    \/ Crash \/ Restart \/ BootDel
    \/ PushSchema \/ ContainerExit \/ Expire

Spec == Init /\ [][Next]_vars

-----------------------------------------------------------------------------
(* Properties                                                               *)

Quiet == Serving /\ \A a \in Actors : ~Busy(a)

\* A project without a preview holds nothing on the host: no app container, no
\* database, no network.  So it is after every stop, failure, death and
\* recovery, unless operations overlapped, a death cut a cleanup short after
\* the key was deleted, or the key ran out (runner.cleanup; the order in which
\* stopPreview and resetStaleBuildingPreviews delete and remove).
NothingLeft == Quiet /\ key = "idle" /\ disturbed = {} => Nothing

\* A preview that is "ready", its container up, has its database on a network
\* it is attached to, also when the container was taken over from an earlier
\* build and when the earlier key had run out (startLongRunning's connection
\* after the start, buildAndStart's order of network, database and app).
DatabaseReachable ==
    Quiet /\ key = "ready" /\ AppUp /\ disturbed \subseteq {"expired"} =>
        net /\ app.net /\ db # None

\* A "ready" preview whose container was not taken over serves the directory
\* that is on disk and the database that is running, its schema pushed.
ServesOwnBuild ==
    Quiet /\ key = "ready" /\ app # None /\ disturbed \subseteq {"expired"} =>
        app.reused \/ (app.mount = dir /\ app.schema = db)

\* preview.service.ts:863-864: "If the directory exists, Metro's bind-mounted /app
\* points at it, so the write is meaningful."
MountCurrent ==
    Quiet /\ key = "ready" /\ AppUp /\ dir # None /\ disturbed = {} => app.mount = dir
=============================================================================
