------------------------------ MODULE ApkBuild ------------------------------
(***************************************************************************)
(* ApkBuildService: building a mobile artifact of a project, asking for    *)
(* the state of the build and downloading the artifact.                    *)
(*                                                                         *)
(* The service keeps nothing that two projects share, so the module is one *)
(* project.  A step is one awaited call with the code that follows it.     *)
(* Starts are the calls of startBuild, each used once, and name the build  *)
(* they launch; Readers are the calls of getStatus and getApkStream, used  *)
(* over and over.                                                          *)
(***************************************************************************)
EXTENDS Naturals, FiniteSets

CONSTANTS
    Starts,
    Readers,
    Wanted,       \* what clients ask for: records [mode, platform, type]
    None,
    MaxCrashes    \* bound: times the process dies or is shut down

Modes == {"local", "cloud"}
Platforms == {"android", "ios"}
Types == {"apk", "aab"}
Extensions == {"apk", "aab", "tar.gz"}

ASSUME ApkConstants ==
    /\ Wanted \subseteq [mode : Modes, platform : Platforms, type : Types]
    /\ None \notin Starts
    /\ MaxCrashes \in Nat

VARIABLES
    key,          \* apk:<project>: status, platform, type; "idle" when absent
    flag,         \* buildingProjects has the project
    container,    \* the build whose container holds the project's name
    workDir,      \* the build whose files the working directory holds
    artifact,     \* the build whose artifact lies in the uploads directory
    want,         \* what a call of startBuild asked for
    pc,           \* where a call of startBuild and its build stand
    rpc,          \* where a reader stands
    rext,         \* the extension a download is about to open
    lateKill,     \* a docker rm -f issued by a build's time limit is on its way
    crashes,
    raced,        \* history: a build was launched while the flag was set
    orphaned      \* history: "building" when the process died, not written since

vars == <<key, flag, container, workDir, artifact, want, pc, rpc, rext, lateKill,
          crashes, raced, orphaned>>

hostVars == <<container, workDir, artifact, lateKill>>
callVars == <<want, rpc, rext, crashes, raced>>

\* Mutant: the extension is taken from the type alone.
ExtOfType(platform, type) == IF type = "apk" THEN "apk" ELSE type

\* extensionFor and extensionForState: the stored type of an iOS build is
\* "simulator", and both fall back to apk.
Ext(platform, type) ==
    IF platform = "ios" THEN "tar.gz" ELSE IF type = "aab" THEN "aab" ELSE "apk"

StoredType(w) == IF w.platform = "ios" THEN "simulator" ELSE w.type

Key(s, w) == [status |-> s, platform |-> w.platform, type |-> StoredType(w)]

Idle == [status |-> "idle", platform |-> "android", type |-> "apk"]

\* What the key can hold.
Keys == [status : {"idle", "building", "ready", "error"}, platform : Platforms,
         type : Types \cup {"simulator"}]

Running == {"files", "prepare", "run", "running", "collect", "cleanup", "markReady",
            "failed"}

InFlight(r) == pc[r] \in Running

TypeOK ==
    /\ key \in Keys
    /\ flag \in BOOLEAN
    /\ container \in Starts \cup {None}
    /\ workDir \in Starts \cup {None}
    /\ artifact \in [Extensions -> Starts \cup {None}]
    /\ want \in [Starts -> [mode : Modes, platform : Platforms, type : Types]]
    /\ pc \in [Starts -> {"new", "preflight", "announce", "done"} \cup Running]
    /\ rpc \in [Readers -> {"idle", "inspect", "reset", "open"}]
    /\ rext \in [Readers -> Extensions]
    /\ lateKill \in BOOLEAN
    /\ crashes \in 0 .. MaxCrashes
    /\ raced \in BOOLEAN
    /\ orphaned \in BOOLEAN

Init ==
    /\ key = Idle
    /\ flag = FALSE
    /\ container = None
    /\ workDir = None
    /\ artifact = [e \in Extensions |-> None]
    /\ want = [r \in Starts |-> [mode |-> "local", platform |-> "android", type |-> "apk"]]
    /\ pc = [r \in Starts |-> "new"]
    /\ rpc = [q \in Readers |-> "idle"]
    /\ rext = [q \in Readers |-> "apk"]
    /\ lateKill = FALSE
    /\ crashes = 0
    /\ raced = FALSE
    /\ orphaned = FALSE

Goto(r, label) == pc' = [pc EXCEPT ![r] = label]

\* Every write of the key also ends its being a leftover of a crash.
Write(k) == key' = k /\ orphaned' = FALSE

-----------------------------------------------------------------------------
(* startBuild                                                               *)

\* The guard and the checks on the combination come before the first await:
\* iOS and AAB builds need the cloud.
Arrive(r, w) ==
    /\ pc[r] = "new"
    /\ want' = [want EXCEPT ![r] = w]
    /\ Goto(r, IF flag \/ (w.mode # "cloud" /\ (w.platform = "ios" \/ w.type = "aab"))
               THEN "done" ELSE "preflight")
    /\ UNCHANGED <<key, flag, hostVars, rpc, rext, crashes, raced, orphaned>>

\* The project is looked up, and for a cloud build the owner's Expo token.
Preflight(r) ==
    /\ pc[r] = "preflight"
    /\ \E found \in BOOLEAN : Goto(r, IF found THEN "announce" ELSE "done")
    /\ UNCHANGED <<key, flag, hostVars, callVars, orphaned>>

\* The key says "building", the flag is set, the build is launched.
Announce(r) ==
    /\ pc[r] = "announce"
    /\ Write(Key("building", want[r]))
    /\ flag' = TRUE
    /\ raced' = (raced \/ flag)
    /\ Goto(r, "files")
    /\ UNCHANGED <<hostVars, want, rpc, rext, crashes>>

-----------------------------------------------------------------------------
(* runLocalBuild and runCloudBuild                                          *)

Files(r) ==
    /\ pc[r] = "files"
    /\ workDir' = r
    /\ Goto(r, "prepare")
    /\ UNCHANGED <<key, flag, container, artifact, lateKill, callVars, orphaned>>

\* The image is there, app.json is patched, a container of that name goes.
Prepare(r) ==
    /\ pc[r] = "prepare"
    /\ container' = None
    /\ Goto(r, "run")
    /\ UNCHANGED <<key, flag, workDir, artifact, lateKill, callVars, orphaned>>

\* docker run --rm --name; a name in use makes the command fail (Throw).
Run(r) ==
    /\ pc[r] = "run"
    /\ container = None
    /\ container' = r
    /\ Goto(r, "running")
    /\ UNCHANGED <<key, flag, workDir, artifact, lateKill, callVars, orphaned>>

\* The container ends by itself, or it has been removed under the build.
Exit(r) ==
    /\ pc[r] = "running"
    /\ \E code \in {0, 1} :
        /\ code = 0 => container = r
        /\ Goto(r, IF code = 0 THEN "collect" ELSE "failed")
    /\ container' = IF container = r THEN None ELSE container
    /\ UNCHANGED <<key, flag, workDir, artifact, lateKill, callVars, orphaned>>

\* The time limit: the client process is killed, which ends the build with
\* code 1, and the removal of the container is only set going.
TimeOut(r) ==
    /\ pc[r] = "running"
    /\ lateKill' = TRUE
    /\ Goto(r, "failed")
    /\ UNCHANGED <<key, flag, container, workDir, artifact, callVars, orphaned>>

\* The removal goes by the name, whoever holds it by then.
LateKill ==
    /\ lateKill
    /\ lateKill' = FALSE
    /\ container' = None
    /\ UNCHANGED <<key, flag, workDir, artifact, pc, callVars, orphaned>>

\* The output is found and copied or downloaded to the uploads directory.  A
\* local build needs its own working directory; a cloud build also finds the
\* URL in the log.
Collect(r) ==
    /\ pc[r] = "collect"
    /\ want[r].mode = "local" => workDir = r
    /\ artifact' = [artifact EXCEPT ![Ext(want[r].platform, want[r].type)] = r]
    /\ Goto(r, "cleanup")
    /\ UNCHANGED <<key, flag, container, workDir, lateKill, callVars, orphaned>>

Cleanup(r) ==
    /\ pc[r] = "cleanup"
    /\ workDir' = None
    /\ Goto(r, "markReady")
    /\ UNCHANGED <<key, flag, container, artifact, lateKill, callVars, orphaned>>

\* Mutant: the flag goes before the error is written.
ThrowFreesFlag(r) ==
    /\ pc[r] \in {"files", "prepare", "run", "collect"}
    /\ flag' = FALSE
    /\ Goto(r, "failed")
    /\ UNCHANGED <<key, hostVars, callVars, orphaned>>

\* No files, no image, the name in use, no output, a failed download.
Throw(r) ==
    /\ pc[r] \in {"files", "prepare", "run", "collect"}
    /\ Goto(r, "failed")
    /\ UNCHANGED <<key, flag, hostVars, callVars, orphaned>>

\* Mutant: platform and type are left to their defaults.
MarkReadyDefaults(r) ==
    /\ pc[r] = "markReady"
    /\ Write([Idle EXCEPT !.status = "ready"])
    /\ flag' = FALSE
    /\ Goto(r, "done")
    /\ UNCHANGED <<hostVars, callVars>>

\* The key is written, then finally takes the flag, whoever set it.
MarkReady(r) ==
    /\ pc[r] = "markReady"
    /\ Write(Key("ready", want[r]))
    /\ flag' = FALSE
    /\ Goto(r, "done")
    /\ UNCHANGED <<hostVars, callVars>>

\* Mutant: finally is missing after a failure.
MarkErrorKeepsFlag(r) ==
    /\ pc[r] = "failed"
    /\ Write(Key("error", want[r]))
    /\ Goto(r, "done")
    /\ UNCHANGED <<flag, hostVars, callVars>>

\* Mutant: the key is written under another name.
MarkErrorElsewhere(r) ==
    /\ pc[r] = "failed"
    /\ flag' = FALSE
    /\ Goto(r, "done")
    /\ UNCHANGED <<key, hostVars, callVars, orphaned>>

MarkError(r) ==
    /\ pc[r] = "failed"
    /\ Write(Key("error", want[r]))
    /\ flag' = FALSE
    /\ Goto(r, "done")
    /\ UNCHANGED <<hostVars, callVars>>

-----------------------------------------------------------------------------
(* getStatus and getApkStream                                               *)

ReaderGoto(q, label) == rpc' = [rpc EXCEPT ![q] = label]

\* The key is read.  "building" without the flag is suspected to be orphaned;
\* "ready" answers a poll, or names the file of a download.
ReadKey(q) ==
    /\ rpc[q] = "idle"
    /\ \/ /\ key.status = "building" /\ ~flag
          /\ ReaderGoto(q, "inspect")
          /\ UNCHANGED rext
       \/ /\ key.status = "ready"
          /\ ReaderGoto(q, "open")
          /\ rext' = [rext EXCEPT ![q] = Ext(key.platform, key.type)]
    /\ UNCHANGED <<key, flag, hostVars, want, pc, crashes, raced, orphaned>>

\* docker ps; a slow answer counts as "not alive".
Inspect(q) ==
    /\ rpc[q] = "inspect"
    /\ \E alive \in {container # None, FALSE} :
        ReaderGoto(q, IF alive THEN "idle" ELSE "reset")
    /\ UNCHANGED <<key, flag, hostVars, want, pc, rext, crashes, raced, orphaned>>

Reset(q) ==
    /\ rpc[q] = "reset"
    /\ Write(Idle)
    /\ ReaderGoto(q, "idle")
    /\ UNCHANGED <<flag, hostVars, want, pc, rext, crashes, raced>>

Open(q) ==
    /\ rpc[q] = "open"
    /\ ReaderGoto(q, "idle")
    /\ rext' = [rext EXCEPT ![q] = "apk"]
    /\ UNCHANGED <<key, flag, hostVars, want, pc, crashes, raced, orphaned>>

-----------------------------------------------------------------------------
(* The process and its surroundings                                         *)

\* The process goes and comes back.  On SIGTERM the container of a flagged
\* project is removed, after the Redis connection was closed: the builds can
\* write nothing any more.  After a crash it runs on.
Die ==
    /\ crashes < MaxCrashes
    /\ crashes' = crashes + 1
    /\ \E graceful \in BOOLEAN :
        container' = IF graceful /\ flag THEN None ELSE container
    /\ flag' = FALSE
    /\ lateKill' = FALSE
    /\ pc' = [r \in Starts |-> IF pc[r] = "new" THEN "new" ELSE "done"]
    /\ rpc' = [q \in Readers |-> "idle"]
    /\ rext' = [q \in Readers |-> "apk"]
    /\ raced' = FALSE
    /\ orphaned' = (key.status = "building")
    /\ UNCHANGED <<key, workDir, artifact, want>>

\* A container that outlived the build that waited for it ends.
OrphanExit ==
    /\ container # None
    /\ pc[container] # "running"
    /\ container' = None
    /\ UNCHANGED <<key, flag, workDir, artifact, lateKill, pc, callVars, orphaned>>

\* The key reaches its 24 hours, which no build does: taken for granted of the
\* download of an artifact, which has no timeout.
Expire ==
    /\ key # Idle
    /\ \A r \in Starts : ~InFlight(r)
    /\ Write(Idle)
    /\ UNCHANGED <<flag, hostVars, pc, callVars>>

BuildStep(r) ==
    \/ Files(r) \/ Prepare(r) \/ Run(r) \/ Exit(r) \/ TimeOut(r) \/ Collect(r)
    \/ Cleanup(r) \/ Throw(r) \/ MarkReady(r) \/ MarkError(r)

ReadStep(q) == ReadKey(q) \/ Inspect(q) \/ Reset(q) \/ Open(q)

Next ==
    \/ \E r \in Starts, w \in Wanted : Arrive(r, w)
    \/ \E r \in Starts : Preflight(r) \/ Announce(r) \/ BuildStep(r)
    \/ \E q \in Readers : ReadStep(q)
    \/ LateKill \/ Die \/ OrphanExit \/ Expire

\* Awaited calls return or throw, a container is ended by its time limit, and
\* an orphaned key that nobody asks for reaches its TTL.  The download in Collect
\* has no timeout: that it ends is assumed of the network.
Fairness ==
    /\ \A r \in Starts : WF_vars(Preflight(r) \/ Announce(r)) /\ WF_vars(BuildStep(r))
    /\ \A q \in Readers : WF_vars(Inspect(q) \/ Reset(q) \/ Open(q))
    /\ WF_vars(orphaned /\ Expire)

Spec == Init /\ [][Next]_vars
FairSpec == Spec /\ Fairness

-----------------------------------------------------------------------------
(* Properties                                                               *)

\* A set flag always has a build behind it: no failure, time limit or double
\* start leaves a flag that refuses every later build.
FlagHasBuild == flag => \E r \in Starts : InFlight(r)

\* "building" always has a build behind it, or is what a dead process left.
BuildingHasBuild ==
    key.status = "building" => orphaned \/ \E r \in Starts : InFlight(r)

\* Whoever is told "ready" finds the file: for every platform and type the
\* extension derived from the stored state names an artifact on disk, also
\* when the download opens it after the state has moved on.
DownloadServes ==
    /\ key.status = "ready" => artifact[Ext(key.platform, key.type)] # None
    /\ \A q \in Readers : rpc[q] = "open" => artifact[rext[q]] # None

\* As long as no build was launched under a set flag, builds exclude each
\* other: failures, time limits, status polls that reset the key and restarts
\* never let a second build in beside a running one.
SerialBuilds ==
    ~raced => \A r, s \in Starts : InFlight(r) /\ InFlight(s) => r = s

\* "building" is never the last word.
BuildResolves == key.status = "building" ~> key.status # "building"
=============================================================================
