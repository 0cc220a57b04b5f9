-------------------------- MODULE HostResourcesProofs --------------------------
(***************************************************************************)
(* Proofs about HostResources, for any number of starts, stops and deaths  *)
(* of the process.                                                         *)
(***************************************************************************)
EXTENDS HostResources, TLAPS

\* Nothing has happened that the code does not order, except that a key ran out.
Steady == disturbed \subseteq {"expired"}

\* A build under way: launched, and not yet at its verdict.
Building(r) == pc[r] \in BuildPcs \/ (pc[r] \in Cleaning /\ then[r] = "failMark")

\* Who may stand where, and where a cleanup or a verdict leads.
PlacesOK ==
    /\ \A r \in Starts :
          /\ pc[r] \in {"idle", "done", "watch", "settle"} \cup StartPcs \cup BuildPcs
                       \cup Cleaning
          /\ pc[r] \in Cleaning => then[r] \in {"ghostDel", "failMark"}
          /\ pc[r] = "settle" => then[r] \in {"watch", "done"}
    /\ \A s \in Stops :
          /\ pc[s] \in {"idle", "done", "stopDel", "stopDir"} \cup Cleaning
          /\ pc[s] \in Cleaning => then[s] = "stopDir"
    /\ pc[Boot] \in {"serving", "down", "bootDel"} \cup Cleaning
    /\ pc[Boot] \in Cleaning => then[Boot] = "serving"

\* While the process does not serve, no request is under way.
DownOK == ~Serving => \A a \in Actors \ {Boot} : pc[a] \in {"idle", "done"}

\* Two operations under way at once are on record.
OverlapOK ==
    \A a, b \in Actors : a # b /\ Busy(a) /\ Busy(b) => "overlap" \in disturbed

\* The key follows the operation under way.
KeyOK ==
    /\ pc[Boot] = "bootDel" => key = "building"
    /\ Steady =>
        /\ \A r \in Starts :
              /\ Building(r) => key = "building" /\ nonce = r
              /\ pc[r] \notin {"ghostInspect", "ghostDel"}
              /\ pc[r] \in Cleaning => then[r] = "failMark"
        /\ \A a \in Stops \cup {Boot} : pc[a] \in Cleaning \cup {"stopDir"} => key = "idle"
        /\ key = "building" =>
              pc[Boot] \in {"down", "bootDel"} \/ \E r \in Starts : Building(r)

\* A cleanup removes one resource after the other, and a build its old container.
CleanOK ==
    Steady => \A a \in Actors :
        /\ pc[a] \in {"rmDb", "runApp"} => app = None
        /\ pc[a] = "rmNet" => app = None /\ db = None
        /\ pc[a] \in {"stopDir", "failMark"} => Nothing

\* Without a preview there is nothing, unless a cleanup is at it.
ClearOK ==
    disturbed = {} /\ key = "idle" /\ (\A a \in Actors : pc[a] \notin Cleaning) => Nothing

\* The states in which a running app container need not be connected: its build
\* is at work on it, or it is about to be removed.
Unsettled ==
    \/ \E a \in Actors : pc[a] \in Cleaning \cup {"connect", "fail"}
    \/ pc[Boot] \in {"down", "bootDel"} /\ key = "building"

NetOK == Steady /\ AppUp /\ ~Unsettled => net /\ app.net

DbOK ==
    /\ Steady /\ AppUp /\ ~Unsettled /\ (\A r \in Starts : pc[r] # "runDb") => db # None
    /\ Steady => \A r \in Starts :
          pc[r] \in {"inspect", "replace", "runApp", "connect"} => db # None

\* A container of its own mounts what is there and pushes into what is there.
OwnOK ==
    Steady /\ app # None /\ ~app.reused =>
        /\ (\E r \in Starts : pc[r] \in {"connect", "awaitReady"}) =>
              app.mount = dir /\ app.schema \in {None, db}
        /\ key = "ready" \/ (\E r \in Starts : pc[r] = "markReady") =>
              app.mount = dir /\ app.schema = db /\ app.schema # None

\* The inductive invariant.
IInv == /\ TypeOK /\ PlacesOK /\ DownOK /\ OverlapOK /\ KeyOK
        /\ CleanOK /\ ClearOK /\ NetOK /\ DbOK /\ OwnOK

USE HostConstants
USE DEF Actors, memVars, hostVars, StartPcs, BuildPcs, Cleaning

\* What a step makes of a container is a container.
LEMMA AppTypes ==
  ASSUME NEW c \in Apps
  PROVE  /\ [c EXCEPT !.reused = TRUE] \in Apps
         /\ [c EXCEPT !.net = TRUE] \in Apps
         /\ [c EXCEPT !.up = FALSE] \in Apps
         /\ \A d \in Starts : [c EXCEPT !.schema = d] \in Apps
BY DEF Apps

\* A new container is one, and it mounts the build's directory or the one there.
LEMMA NewTypes ==
  ASSUME TypeOK, NEW r \in Starts
  PROVE  /\ MountDir(r) \in Starts
         /\ NewApp(r, TRUE) \in Apps
         /\ NewApp(r, FALSE) \in Apps
<1>1. MountDir(r) \in Starts
  BY DEF TypeOK, MountDir
<1>2. QED
  BY <1>1 DEF NewApp, Apps

\* Nothing is under way at first.
LEMMA InitIInv == Init => IInv
<1> SUFFICES ASSUME Init
             PROVE  IInv
  OBVIOUS
<1>1. TypeOK
  <2>1. /\ key = "idle" /\ flag = FALSE /\ nonce = None /\ dir = None /\ net = FALSE
        /\ db = None /\ app = None /\ crashes = 0 /\ disturbed = {}
    BY DEF Init
  <2>2. /\ polls \in [Starts -> Starts \cup {None}]
        /\ then \in [Actors -> {None, "ghostDel", "failMark", "stopDir", "serving", "watch",
                                "done"}]
    BY DEF Init
  <2>3. pc \in [Actors -> {"idle", "done", "watch", "settle", "stopDel", "stopDir", "serving",
                           "down", "bootDel"} \cup StartPcs \cup BuildPcs \cup Cleaning]
    BY DEF Init
  <2>4. flag \in BOOLEAN /\ net \in BOOLEAN
    BY <2>1, Zenon
  <2>5. crashes \in 0 .. MaxCrashes
    BY <2>1
  <2>6. QED
    BY <2>1, <2>2, <2>3, <2>4, <2>5 DEF TypeOK
<1>2. PlacesOK /\ DownOK /\ OverlapOK
  BY DEF Init, PlacesOK, DownOK, OverlapOK, Serving, Busy
<1>3. KeyOK /\ CleanOK
  BY DEF Init, KeyOK, CleanOK, Building
<1>4. ClearOK /\ NetOK /\ DbOK /\ OwnOK
  BY DEF Init, ClearOK, Nothing, NetOK, DbOK, OwnOK, AppUp
<1>5. QED
  BY <1>1, <1>2, <1>3, <1>4 DEF IInv

\* No step leaves the types.
LEMMA TypeStep == TypeOK /\ PlacesOK /\ [Next]_vars => TypeOK'
<1> SUFFICES ASSUME TypeOK, PlacesOK, [Next]_vars
             PROVE  TypeOK'
  OBVIOUS
<1> USE DEF At, Goto, GotoVia, TypeOK
<1>1. ASSUME NEW r \in Starts, StartStep(r) PROVE TypeOK'
  <2>1. CASE StartRequest(r)
    <3>1. /\ key' \in {"idle", "building", "ready", "error"}
          /\ nonce' \in Starts \cup {None}
          /\ polls' \in [Starts -> Starts \cup {None}]
          /\ then' \in [Actors -> {None, "ghostDel", "failMark", "stopDir", "serving", "watch",
                                   "done"}]
          /\ dir' \in Starts \cup {None} /\ db' \in Starts \cup {None}
          /\ crashes' \in 0 .. MaxCrashes
          /\ disturbed' \subseteq Disturbances
      BY <2>1 DEF StartRequest, Begin, Disturbances
    <3>2. pc' \in [Actors -> {"idle", "done", "watch", "settle", "stopDel", "stopDir", "serving",
                              "down", "bootDel"} \cup StartPcs \cup BuildPcs \cup Cleaning]
      BY <2>1 DEF StartRequest, Begin
    <3>3. flag' \in BOOLEAN /\ net' \in BOOLEAN
      BY <2>1, Zenon DEF StartRequest, Begin
    <3>4. app' \in Apps \cup {None}
      BY <2>1 DEF StartRequest, Begin
    <3>5. QED
      BY <3>1, <3>2, <3>3, <3>4 DEF TypeOK
  <2>2. CASE ReadState(r)
    BY <2>2 DEF ReadState
  <2>3. CASE GhostInspect(r)
    BY <2>3 DEF GhostInspect
  <2>4. CASE GhostDel(r)
    BY <2>4 DEF GhostDel
  <2>5. CASE Announce(r)
    BY <2>5 DEF Announce
  <2>6. CASE ClearDir(r)
    BY <2>6 DEF ClearDir, DirLeft
  <2>7. CASE MakeDir(r)
    BY <2>7 DEF MakeDir
  <2>8. CASE CreateNetwork(r)
    BY <2>8, ZenonT(40) DEF CreateNetwork
  <2>9. CASE DropDatabase(r)
    BY <2>9 DEF DropDatabase
  <2>10. CASE RunDatabase(r)
    BY <2>10 DEF RunDatabase
  <2>11. CASE AwaitDatabase(r)
    BY <2>11 DEF AwaitDatabase
  <2>12. CASE Reuse(r)
    <3>1. /\ key' \in {"idle", "building", "ready", "error"}
          /\ nonce' \in Starts \cup {None}
          /\ polls' \in [Starts -> Starts \cup {None}]
          /\ then' \in [Actors -> {None, "ghostDel", "failMark", "stopDir", "serving", "watch",
                                   "done"}]
          /\ dir' \in Starts \cup {None} /\ db' \in Starts \cup {None}
          /\ crashes' \in 0 .. MaxCrashes
          /\ disturbed' \subseteq Disturbances
      <4>1. app \in Apps
        BY <2>12 DEF Reuse, AppUp
      <4>2. app.by \in Starts
        BY <4>1 DEF Apps
      <4>3. QED
        BY <2>12, <4>2 DEF Reuse, Disturbances
    <3>2. pc' \in [Actors -> {"idle", "done", "watch", "settle", "stopDel", "stopDir", "serving",
                              "down", "bootDel"} \cup StartPcs \cup BuildPcs \cup Cleaning]
      BY <2>12 DEF Reuse
    <3>3. flag' \in BOOLEAN /\ net' \in BOOLEAN
      BY <2>12, Zenon DEF Reuse
    <3>4. app' \in Apps \cup {None}
      <4>1. app \in Apps \cup {None}
        BY DEF TypeOK
      <4>2. app' = app \/ (app # None /\ app' = [app EXCEPT !.reused = TRUE])
        BY <2>12, Zenon DEF Reuse, AppUp
      <4>3. QED
        BY <4>1, <4>2, AppTypes
    <3>5. QED
      BY <3>1, <3>2, <3>3, <3>4 DEF TypeOK
  <2>13. CASE NoReuse(r)
    BY <2>13 DEF NoReuse
  <2>14. CASE Replace(r)
    BY <2>14 DEF Replace
  <2>15. CASE RunApp(r)
    <3>1. /\ key' \in {"idle", "building", "ready", "error"}
          /\ nonce' \in Starts \cup {None}
          /\ polls' \in [Starts -> Starts \cup {None}]
          /\ then' \in [Actors -> {None, "ghostDel", "failMark", "stopDir", "serving", "watch",
                                   "done"}]
          /\ dir' \in Starts \cup {None} /\ db' \in Starts \cup {None}
          /\ crashes' \in 0 .. MaxCrashes
          /\ disturbed' \subseteq Disturbances
      BY <2>15, NewTypes DEF RunApp, NewApp, MountDir, Disturbances
    <3>2. pc' \in [Actors -> {"idle", "done", "watch", "settle", "stopDel", "stopDir", "serving",
                              "down", "bootDel"} \cup StartPcs \cup BuildPcs \cup Cleaning]
      BY <2>15 DEF RunApp, NewApp, MountDir
    <3>3. flag' \in BOOLEAN /\ net' \in BOOLEAN
      BY <2>15, Zenon DEF RunApp, NewApp, MountDir
    <3>4. app' \in Apps \cup {None}
      BY <2>15, NewTypes DEF RunApp, NewApp, MountDir
    <3>5. QED
      BY <3>1, <3>2, <3>3, <3>4 DEF TypeOK
  <2>16. CASE RunAppFails(r)
    <3>1. /\ key' \in {"idle", "building", "ready", "error"}
          /\ nonce' \in Starts \cup {None}
          /\ polls' \in [Starts -> Starts \cup {None}]
          /\ then' \in [Actors -> {None, "ghostDel", "failMark", "stopDir", "serving", "watch",
                                   "done"}]
          /\ dir' \in Starts \cup {None} /\ db' \in Starts \cup {None}
          /\ crashes' \in 0 .. MaxCrashes
          /\ disturbed' \subseteq Disturbances
      BY <2>16, NewTypes DEF RunAppFails, NewApp, MountDir, Disturbances
    <3>2. pc' \in [Actors -> {"idle", "done", "watch", "settle", "stopDel", "stopDir", "serving",
                              "down", "bootDel"} \cup StartPcs \cup BuildPcs \cup Cleaning]
      BY <2>16 DEF RunAppFails, NewApp, MountDir
    <3>3. flag' \in BOOLEAN /\ net' \in BOOLEAN
      BY <2>16, Zenon DEF RunAppFails, NewApp, MountDir
    <3>4. app' \in Apps \cup {None}
      BY <2>16, NewTypes, ZenonT(40) DEF RunAppFails, NewApp, MountDir
    <3>5. QED
      BY <3>1, <3>2, <3>3, <3>4 DEF TypeOK
  <2>17. CASE Connect(r)
    <3>1. /\ key' \in {"idle", "building", "ready", "error"}
          /\ nonce' \in Starts \cup {None}
          /\ polls' \in [Starts -> Starts \cup {None}]
          /\ then' \in [Actors -> {None, "ghostDel", "failMark", "stopDir", "serving", "watch",
                                   "done"}]
          /\ dir' \in Starts \cup {None} /\ db' \in Starts \cup {None}
          /\ crashes' \in 0 .. MaxCrashes
          /\ disturbed' \subseteq Disturbances
      BY <2>17 DEF Connect, Disturbances
    <3>2. pc' \in [Actors -> {"idle", "done", "watch", "settle", "stopDel", "stopDir", "serving",
                              "down", "bootDel"} \cup StartPcs \cup BuildPcs \cup Cleaning]
      BY <2>17 DEF Connect
    <3>3. flag' \in BOOLEAN /\ net' \in BOOLEAN
      BY <2>17, Zenon DEF Connect
    <3>4. app' \in Apps \cup {None}
      <4>1. app \in Apps \cup {None}
        BY DEF TypeOK
      <4>2. app' = app \/ (app # None /\ app' = [app EXCEPT !.net = TRUE])
        BY <2>17, Zenon DEF Connect, AppUp
      <4>3. QED
        BY <4>1, <4>2, AppTypes
    <3>5. QED
      BY <3>1, <3>2, <3>3, <3>4 DEF TypeOK
  <2>18. CASE AwaitReady(r)
    BY <2>18 DEF AwaitReady
  <2>19. CASE MarkReady(r)
    BY <2>19 DEF MarkReady
  <2>20. CASE Fail(r)
    BY <2>20 DEF Fail
  <2>21. CASE FailMark(r)
    BY <2>21 DEF FailMark
  <2>22. CASE Settle(r)
    <3>1. /\ key' \in {"idle", "building", "ready", "error"}
          /\ nonce' \in Starts \cup {None}
          /\ polls' \in [Starts -> Starts \cup {None}]
          /\ then' \in [Actors -> {None, "ghostDel", "failMark", "stopDir", "serving", "watch",
                                   "done"}]
          /\ dir' \in Starts \cup {None} /\ db' \in Starts \cup {None}
          /\ crashes' \in 0 .. MaxCrashes
          /\ disturbed' \subseteq Disturbances
      BY <2>22 DEF Settle, Return, Disturbances
    <3>2. pc' \in [Actors -> {"idle", "done", "watch", "settle", "stopDel", "stopDir", "serving",
                              "down", "bootDel"} \cup StartPcs \cup BuildPcs \cup Cleaning]
      BY <2>22 DEF Settle, Return, PlacesOK
    <3>3. flag' \in BOOLEAN /\ net' \in BOOLEAN
      BY <2>22, Zenon DEF Settle, Return
    <3>4. app' \in Apps \cup {None}
      BY <2>22 DEF Settle, Return
    <3>5. QED
      BY <3>1, <3>2, <3>3, <3>4 DEF TypeOK
  <2>23. CASE WatchFlip(r)
    <3>1. /\ key' \in {"idle", "building", "ready", "error"}
          /\ nonce' \in Starts \cup {None}
          /\ polls' \in [Starts -> Starts \cup {None}]
          /\ then' \in [Actors -> {None, "ghostDel", "failMark", "stopDir", "serving", "watch",
                                   "done"}]
          /\ dir' \in Starts \cup {None} /\ db' \in Starts \cup {None}
          /\ crashes' \in 0 .. MaxCrashes
          /\ disturbed' \subseteq Disturbances
      BY <2>23 DEF WatchFlip, Disturbances
    <3>2. pc' \in [Actors -> {"idle", "done", "watch", "settle", "stopDel", "stopDir", "serving",
                              "down", "bootDel"} \cup StartPcs \cup BuildPcs \cup Cleaning]
      BY <2>23 DEF WatchFlip
    <3>3. flag' \in BOOLEAN /\ net' \in BOOLEAN
      BY <2>23, Zenon DEF WatchFlip
    <3>4. app' \in Apps \cup {None}
      BY <2>23 DEF WatchFlip
    <3>5. QED
      BY <3>1, <3>2, <3>3, <3>4 DEF TypeOK
  <2>24. CASE WatchEnd(r)
    BY <2>24 DEF WatchEnd
  <2>25. QED
    BY <1>1, <2>1, <2>2, <2>3, <2>4, <2>5, <2>6, <2>7, <2>8, <2>9, <2>10, <2>11, <2>12,
       <2>13, <2>14, <2>15, <2>16, <2>17, <2>18, <2>19, <2>20, <2>21, <2>22, <2>23,
       <2>24 DEF StartStep
<1>2. ASSUME NEW s \in Stops, StopStep(s) PROVE TypeOK'
  <2>1. CASE StopRequest(s)
    <3>1. /\ key' \in {"idle", "building", "ready", "error"}
          /\ nonce' \in Starts \cup {None}
          /\ polls' \in [Starts -> Starts \cup {None}]
          /\ then' \in [Actors -> {None, "ghostDel", "failMark", "stopDir", "serving", "watch",
                                   "done"}]
          /\ dir' \in Starts \cup {None} /\ db' \in Starts \cup {None}
          /\ crashes' \in 0 .. MaxCrashes
          /\ disturbed' \subseteq Disturbances
      BY <2>1 DEF StopRequest, Begin, Disturbances
    <3>2. pc' \in [Actors -> {"idle", "done", "watch", "settle", "stopDel", "stopDir", "serving",
                              "down", "bootDel"} \cup StartPcs \cup BuildPcs \cup Cleaning]
      BY <2>1 DEF StopRequest, Begin
    <3>3. flag' \in BOOLEAN /\ net' \in BOOLEAN
      BY <2>1, Zenon DEF StopRequest, Begin
    <3>4. app' \in Apps \cup {None}
      BY <2>1 DEF StopRequest, Begin
    <3>5. QED
      BY <3>1, <3>2, <3>3, <3>4 DEF TypeOK
  <2>2. CASE StopDel(s)
    BY <2>2 DEF StopDel
  <2>3. CASE StopDir(s)
    BY <2>3 DEF StopDir, DirLeft
  <2>4. QED
    BY <1>2, <2>1, <2>2, <2>3 DEF StopStep
<1>3. ASSUME NEW c \in Actors, CleanStep(c) PROVE TypeOK'
  <2>1. CASE RemoveApp(c)
    BY <2>1 DEF RemoveApp
  <2>2. CASE RemoveDatabase(c)
    BY <2>2 DEF RemoveDatabase
  <2>3. CASE RemoveNetwork(c)
    <3>1. /\ key' \in {"idle", "building", "ready", "error"}
          /\ nonce' \in Starts \cup {None}
          /\ polls' \in [Starts -> Starts \cup {None}]
          /\ then' \in [Actors -> {None, "ghostDel", "failMark", "stopDir", "serving", "watch",
                                   "done"}]
          /\ dir' \in Starts \cup {None} /\ db' \in Starts \cup {None}
          /\ crashes' \in 0 .. MaxCrashes
          /\ disturbed' \subseteq Disturbances
      BY <2>3 DEF RemoveNetwork, Return, Disturbances
    <3>2. pc' \in [Actors -> {"idle", "done", "watch", "settle", "stopDel", "stopDir", "serving",
                              "down", "bootDel"} \cup StartPcs \cup BuildPcs \cup Cleaning]
      BY <2>3 DEF RemoveNetwork, Return, PlacesOK
    <3>3. flag' \in BOOLEAN /\ net' \in BOOLEAN
      BY <2>3, Zenon DEF RemoveNetwork, Return
    <3>4. app' \in Apps \cup {None}
      BY <2>3 DEF RemoveNetwork, Return
    <3>5. QED
      BY <3>1, <3>2, <3>3, <3>4 DEF TypeOK
  <2>4. QED
    BY <1>3, <2>1, <2>2, <2>3 DEF CleanStep
<1>4. CASE Crash
  <2>1. /\ key' \in {"idle", "building", "ready", "error"}
        /\ nonce' \in Starts \cup {None}
        /\ polls' \in [Starts -> Starts \cup {None}]
        /\ then' \in [Actors -> {None, "ghostDel", "failMark", "stopDir", "serving", "watch",
                                 "done"}]
        /\ dir' \in Starts \cup {None} /\ db' \in Starts \cup {None}
        /\ crashes' \in 0 .. MaxCrashes
        /\ disturbed' \subseteq Disturbances
    BY <1>4 DEF Crash, CutsCleanup, Disturbances
  <2>2. pc' \in [Actors -> {"idle", "done", "watch", "settle", "stopDel", "stopDir", "serving",
                            "down", "bootDel"} \cup StartPcs \cup BuildPcs \cup Cleaning]
    BY <1>4 DEF Crash, CutsCleanup
  <2>3. flag' \in BOOLEAN /\ net' \in BOOLEAN
    BY <1>4, Zenon DEF Crash, CutsCleanup
  <2>4. app' \in Apps \cup {None}
    BY <1>4 DEF Crash, CutsCleanup
  <2>5. QED
    BY <2>1, <2>2, <2>3, <2>4 DEF TypeOK
<1>5. CASE Restart
  BY <1>5 DEF Restart
<1>6. CASE BootDel
  BY <1>6 DEF BootDel
<1>7. CASE PushSchema
  <2>1. /\ key' \in {"idle", "building", "ready", "error"}
        /\ nonce' \in Starts \cup {None}
        /\ polls' \in [Starts -> Starts \cup {None}]
        /\ then' \in [Actors -> {None, "ghostDel", "failMark", "stopDir", "serving", "watch",
                                 "done"}]
        /\ dir' \in Starts \cup {None} /\ db' \in Starts \cup {None}
        /\ crashes' \in 0 .. MaxCrashes
        /\ disturbed' \subseteq Disturbances
    BY <1>7 DEF PushSchema, Disturbances
  <2>2. pc' \in [Actors -> {"idle", "done", "watch", "settle", "stopDel", "stopDir", "serving",
                            "down", "bootDel"} \cup StartPcs \cup BuildPcs \cup Cleaning]
    BY <1>7 DEF PushSchema
  <2>3. flag' \in BOOLEAN /\ net' \in BOOLEAN
    BY <1>7, Zenon DEF PushSchema
  <2>4. app' \in Apps \cup {None}
    <3>1. app \in Apps \cup {None}
      BY DEF TypeOK
    <3>2. app' = app \/ (app # None /\ app' = [app EXCEPT !.schema = db])
      BY <1>7, Zenon DEF PushSchema, AppUp
    <3>3. db \in Starts
      BY <1>7 DEF PushSchema, TypeOK
    <3>4. app # None => [app EXCEPT !.schema = db] \in Apps
      BY <3>1, <3>3, AppTypes
    <3>5. QED
      BY <3>1, <3>2, <3>4
  <2>5. QED
    BY <2>1, <2>2, <2>3, <2>4 DEF TypeOK
<1>8. CASE ContainerExit
  <2>1. /\ key' \in {"idle", "building", "ready", "error"}
        /\ nonce' \in Starts \cup {None}
        /\ polls' \in [Starts -> Starts \cup {None}]
        /\ then' \in [Actors -> {None, "ghostDel", "failMark", "stopDir", "serving", "watch",
                                 "done"}]
        /\ dir' \in Starts \cup {None} /\ db' \in Starts \cup {None}
        /\ crashes' \in 0 .. MaxCrashes
        /\ disturbed' \subseteq Disturbances
    BY <1>8 DEF ContainerExit, Disturbances
  <2>2. pc' \in [Actors -> {"idle", "done", "watch", "settle", "stopDel", "stopDir", "serving",
                            "down", "bootDel"} \cup StartPcs \cup BuildPcs \cup Cleaning]
    BY <1>8 DEF ContainerExit
  <2>3. flag' \in BOOLEAN /\ net' \in BOOLEAN
    BY <1>8, Zenon DEF ContainerExit
  <2>4. app' \in Apps \cup {None}
    <3>1. app \in Apps \cup {None}
      BY DEF TypeOK
    <3>2. app' = app \/ (app # None /\ app' = [app EXCEPT !.up = FALSE])
      BY <1>8, Zenon DEF ContainerExit, AppUp
    <3>3. QED
      BY <3>1, <3>2, AppTypes
  <2>5. QED
    BY <2>1, <2>2, <2>3, <2>4 DEF TypeOK
<1>9. CASE Expire
  <2>1. /\ key' \in {"idle", "building", "ready", "error"}
        /\ nonce' \in Starts \cup {None}
        /\ polls' \in [Starts -> Starts \cup {None}]
        /\ then' \in [Actors -> {None, "ghostDel", "failMark", "stopDir", "serving", "watch",
                                 "done"}]
        /\ dir' \in Starts \cup {None} /\ db' \in Starts \cup {None}
        /\ crashes' \in 0 .. MaxCrashes
        /\ disturbed' \subseteq Disturbances
    BY <1>9 DEF Expire, Disturbances
  <2>2. pc' \in [Actors -> {"idle", "done", "watch", "settle", "stopDel", "stopDir", "serving",
                            "down", "bootDel"} \cup StartPcs \cup BuildPcs \cup Cleaning]
    BY <1>9 DEF Expire
  <2>3. flag' \in BOOLEAN /\ net' \in BOOLEAN
    BY <1>9, Zenon DEF Expire
  <2>4. app' \in Apps \cup {None}
    BY <1>9 DEF Expire
  <2>5. QED
    BY <2>1, <2>2, <2>3, <2>4 DEF TypeOK
<1>10. CASE UNCHANGED vars
  BY <1>10 DEF vars
<1>11. QED
  BY <1>1, <1>2, <1>3, <1>4, <1>5, <1>6, <1>7, <1>8, <1>9, <1>10 DEF Next

\* Nobody leaves its places.
LEMMA PlacesStep == TypeOK /\ PlacesOK /\ [Next]_vars => PlacesOK'
<1> SUFFICES ASSUME TypeOK, PlacesOK, [Next]_vars
             PROVE  PlacesOK'
  OBVIOUS
<1> USE DEF At, Goto, GotoVia, TypeOK, PlacesOK
<1>1. ASSUME NEW r \in Starts, StartStep(r) PROVE PlacesOK'
  <2>1. CASE StartRequest(r)
    BY <2>1 DEF StartRequest, Begin
  <2>2. CASE ReadState(r)
    BY <2>2 DEF ReadState
  <2>3. CASE GhostInspect(r)
    BY <2>3 DEF GhostInspect
  <2>4. CASE GhostDel(r)
    BY <2>4 DEF GhostDel
  <2>5. CASE Announce(r)
    BY <2>5 DEF Announce
  <2>6. CASE ClearDir(r)
    BY <2>6 DEF ClearDir, DirLeft
  <2>7. CASE MakeDir(r)
    BY <2>7 DEF MakeDir
  <2>8. CASE CreateNetwork(r)
    BY <2>8 DEF CreateNetwork
  <2>9. CASE DropDatabase(r)
    BY <2>9 DEF DropDatabase
  <2>10. CASE RunDatabase(r)
    BY <2>10 DEF RunDatabase
  <2>11. CASE AwaitDatabase(r)
    BY <2>11 DEF AwaitDatabase
  <2>12. CASE Reuse(r)
    BY <2>12 DEF Reuse
  <2>13. CASE NoReuse(r)
    BY <2>13 DEF NoReuse
  <2>14. CASE Replace(r)
    BY <2>14 DEF Replace
  <2>15. CASE RunApp(r)
    BY <2>15 DEF RunApp, NewApp, MountDir
  <2>16. CASE RunAppFails(r)
    BY <2>16 DEF RunAppFails, NewApp, MountDir
  <2>17. CASE Connect(r)
    BY <2>17 DEF Connect
  <2>18. CASE AwaitReady(r)
    BY <2>18 DEF AwaitReady
  <2>19. CASE MarkReady(r)
    BY <2>19 DEF MarkReady
  <2>20. CASE Fail(r)
    BY <2>20 DEF Fail
  <2>21. CASE FailMark(r)
    BY <2>21 DEF FailMark
  <2>22. CASE Settle(r)
    BY <2>22 DEF Settle, Return
  <2>23. CASE WatchFlip(r)
    BY <2>23 DEF WatchFlip
  <2>24. CASE WatchEnd(r)
    BY <2>24 DEF WatchEnd
  <2>25. QED
    BY <1>1, <2>1, <2>2, <2>3, <2>4, <2>5, <2>6, <2>7, <2>8, <2>9, <2>10, <2>11, <2>12,
       <2>13, <2>14, <2>15, <2>16, <2>17, <2>18, <2>19, <2>20, <2>21, <2>22, <2>23,
       <2>24 DEF StartStep
<1>2. ASSUME NEW s \in Stops, StopStep(s) PROVE PlacesOK'
  <2>1. CASE StopRequest(s)
    BY <2>1 DEF StopRequest, Begin
  <2>2. CASE StopDel(s)
    BY <2>2 DEF StopDel
  <2>3. CASE StopDir(s)
    BY <2>3 DEF StopDir, DirLeft
  <2>4. QED
    BY <1>2, <2>1, <2>2, <2>3 DEF StopStep
<1>3. ASSUME NEW c \in Actors, CleanStep(c) PROVE PlacesOK'
  <2>1. CASE RemoveApp(c)
    BY <2>1 DEF RemoveApp
  <2>2. CASE RemoveDatabase(c)
    BY <2>2 DEF RemoveDatabase
  <2>3. CASE RemoveNetwork(c)
    BY <2>3 DEF RemoveNetwork, Return
  <2>4. QED
    BY <1>3, <2>1, <2>2, <2>3 DEF CleanStep
<1>4. CASE Crash
  BY <1>4 DEF Crash, CutsCleanup
<1>5. CASE Restart
  BY <1>5 DEF Restart
<1>6. CASE BootDel
  BY <1>6 DEF BootDel
<1>7. CASE PushSchema
  BY <1>7 DEF PushSchema
<1>8. CASE ContainerExit
  BY <1>8 DEF ContainerExit
<1>9. CASE Expire
  BY <1>9 DEF Expire
<1>10. CASE UNCHANGED vars
  BY <1>10 DEF vars
<1>11. QED
  BY <1>1, <1>2, <1>3, <1>4, <1>5, <1>6, <1>7, <1>8, <1>9, <1>10 DEF Next

\* Only the process itself acts while it does not serve.
LEMMA DownStep == TypeOK /\ PlacesOK /\ DownOK /\ [Next]_vars => DownOK'
<1> SUFFICES ASSUME TypeOK, PlacesOK, DownOK, [Next]_vars
             PROVE  DownOK'
  OBVIOUS
<1> USE DEF At, Goto, GotoVia, TypeOK, PlacesOK, DownOK, Serving
<1>1. ASSUME NEW r \in Starts, StartStep(r) PROVE DownOK'
  <2>1. CASE StartRequest(r)
    BY <2>1 DEF StartRequest, Begin
  <2>2. CASE ReadState(r)
    BY <2>2 DEF ReadState
  <2>3. CASE GhostInspect(r)
    BY <2>3 DEF GhostInspect
  <2>4. CASE GhostDel(r)
    BY <2>4 DEF GhostDel
  <2>5. CASE Announce(r)
    BY <2>5 DEF Announce
  <2>6. CASE ClearDir(r)
    BY <2>6 DEF ClearDir, DirLeft
  <2>7. CASE MakeDir(r)
    BY <2>7 DEF MakeDir
  <2>8. CASE CreateNetwork(r)
    BY <2>8 DEF CreateNetwork
  <2>9. CASE DropDatabase(r)
    BY <2>9 DEF DropDatabase
  <2>10. CASE RunDatabase(r)
    BY <2>10 DEF RunDatabase
  <2>11. CASE AwaitDatabase(r)
    BY <2>11 DEF AwaitDatabase
  <2>12. CASE Reuse(r)
    BY <2>12 DEF Reuse
  <2>13. CASE NoReuse(r)
    BY <2>13 DEF NoReuse
  <2>14. CASE Replace(r)
    BY <2>14 DEF Replace
  <2>15. CASE RunApp(r)
    BY <2>15 DEF RunApp, NewApp, MountDir
  <2>16. CASE RunAppFails(r)
    BY <2>16 DEF RunAppFails, NewApp, MountDir
  <2>17. CASE Connect(r)
    BY <2>17 DEF Connect
  <2>18. CASE AwaitReady(r)
    BY <2>18 DEF AwaitReady
  <2>19. CASE MarkReady(r)
    BY <2>19 DEF MarkReady
  <2>20. CASE Fail(r)
    BY <2>20 DEF Fail
  <2>21. CASE FailMark(r)
    BY <2>21 DEF FailMark
  <2>22. CASE Settle(r)
    BY <2>22 DEF Settle, Return
  <2>23. CASE WatchFlip(r)
    BY <2>23 DEF WatchFlip
  <2>24. CASE WatchEnd(r)
    BY <2>24 DEF WatchEnd
  <2>25. QED
    BY <1>1, <2>1, <2>2, <2>3, <2>4, <2>5, <2>6, <2>7, <2>8, <2>9, <2>10, <2>11, <2>12,
       <2>13, <2>14, <2>15, <2>16, <2>17, <2>18, <2>19, <2>20, <2>21, <2>22, <2>23,
       <2>24 DEF StartStep
<1>2. ASSUME NEW s \in Stops, StopStep(s) PROVE DownOK'
  <2>1. CASE StopRequest(s)
    BY <2>1 DEF StopRequest, Begin
  <2>2. CASE StopDel(s)
    BY <2>2 DEF StopDel
  <2>3. CASE StopDir(s)
    BY <2>3 DEF StopDir, DirLeft
  <2>4. QED
    BY <1>2, <2>1, <2>2, <2>3 DEF StopStep
<1>3. ASSUME NEW c \in Actors, CleanStep(c) PROVE DownOK'
  <2>1. CASE RemoveApp(c)
    BY <2>1 DEF RemoveApp
  <2>2. CASE RemoveDatabase(c)
    BY <2>2 DEF RemoveDatabase
  <2>3. CASE RemoveNetwork(c)
    BY <2>3 DEF RemoveNetwork, Return
  <2>4. QED
    BY <1>3, <2>1, <2>2, <2>3 DEF CleanStep
<1>4. CASE Crash
  BY <1>4 DEF Crash, CutsCleanup
<1>5. CASE Restart
  BY <1>5 DEF Restart
<1>6. CASE BootDel
  BY <1>6 DEF BootDel
<1>7. CASE PushSchema
  BY <1>7 DEF PushSchema
<1>8. CASE ContainerExit
  BY <1>8 DEF ContainerExit
<1>9. CASE Expire
  BY <1>9 DEF Expire
<1>10. CASE UNCHANGED vars
  BY <1>10 DEF vars
<1>11. QED
  BY <1>1, <1>2, <1>3, <1>4, <1>5, <1>6, <1>7, <1>8, <1>9, <1>10 DEF Next

\* Whoever begins beside another is on record.
LEMMA OverlapStep == TypeOK /\ PlacesOK /\ DownOK /\ OverlapOK /\ [Next]_vars => OverlapOK'
<1> SUFFICES ASSUME TypeOK, PlacesOK, DownOK, OverlapOK, [Next]_vars
             PROVE  OverlapOK'
  OBVIOUS
<1> USE DEF At, Goto, GotoVia, TypeOK, PlacesOK, DownOK, OverlapOK, Serving, Busy, Alone
<1>1. ASSUME NEW r \in Starts, StartStep(r) PROVE OverlapOK'
  <2>1. CASE StartRequest(r)
    BY <2>1 DEF StartRequest, Begin
  <2>2. CASE ReadState(r)
    BY <2>2 DEF ReadState
  <2>3. CASE GhostInspect(r)
    BY <2>3 DEF GhostInspect
  <2>4. CASE GhostDel(r)
    BY <2>4 DEF GhostDel
  <2>5. CASE Announce(r)
    BY <2>5 DEF Announce
  <2>6. CASE ClearDir(r)
    BY <2>6 DEF ClearDir, DirLeft
  <2>7. CASE MakeDir(r)
    BY <2>7 DEF MakeDir
  <2>8. CASE CreateNetwork(r)
    BY <2>8 DEF CreateNetwork
  <2>9. CASE DropDatabase(r)
    BY <2>9 DEF DropDatabase
  <2>10. CASE RunDatabase(r)
    BY <2>10 DEF RunDatabase
  <2>11. CASE AwaitDatabase(r)
    BY <2>11 DEF AwaitDatabase
  <2>12. CASE Reuse(r)
    BY <2>12 DEF Reuse
  <2>13. CASE NoReuse(r)
    BY <2>13 DEF NoReuse
  <2>14. CASE Replace(r)
    BY <2>14 DEF Replace
  <2>15. CASE RunApp(r)
    BY <2>15 DEF RunApp, NewApp, MountDir
  <2>16. CASE RunAppFails(r)
    BY <2>16 DEF RunAppFails, NewApp, MountDir
  <2>17. CASE Connect(r)
    BY <2>17 DEF Connect
  <2>18. CASE AwaitReady(r)
    BY <2>18 DEF AwaitReady
  <2>19. CASE MarkReady(r)
    BY <2>19 DEF MarkReady
  <2>20. CASE Fail(r)
    BY <2>20 DEF Fail
  <2>21. CASE FailMark(r)
    BY <2>21 DEF FailMark
  <2>22. CASE Settle(r)
    BY <2>22 DEF Settle, Return
  <2>23. CASE WatchFlip(r)
    BY <2>23 DEF WatchFlip
  <2>24. CASE WatchEnd(r)
    BY <2>24 DEF WatchEnd
  <2>25. QED
    BY <1>1, <2>1, <2>2, <2>3, <2>4, <2>5, <2>6, <2>7, <2>8, <2>9, <2>10, <2>11, <2>12,
       <2>13, <2>14, <2>15, <2>16, <2>17, <2>18, <2>19, <2>20, <2>21, <2>22, <2>23,
       <2>24 DEF StartStep
<1>2. ASSUME NEW s \in Stops, StopStep(s) PROVE OverlapOK'
  <2>1. CASE StopRequest(s)
    BY <2>1 DEF StopRequest, Begin
  <2>2. CASE StopDel(s)
    BY <2>2 DEF StopDel
  <2>3. CASE StopDir(s)
    BY <2>3 DEF StopDir, DirLeft
  <2>4. QED
    BY <1>2, <2>1, <2>2, <2>3 DEF StopStep
<1>3. ASSUME NEW c \in Actors, CleanStep(c) PROVE OverlapOK'
  <2>1. CASE RemoveApp(c)
    BY <2>1 DEF RemoveApp
  <2>2. CASE RemoveDatabase(c)
    BY <2>2 DEF RemoveDatabase
  <2>3. CASE RemoveNetwork(c)
    BY <2>3 DEF RemoveNetwork, Return
  <2>4. QED
    BY <1>3, <2>1, <2>2, <2>3 DEF CleanStep
<1>4. CASE Crash
  BY <1>4 DEF Crash, CutsCleanup
<1>5. CASE Restart
  BY <1>5 DEF Restart
<1>6. CASE BootDel
  BY <1>6 DEF BootDel
<1>7. CASE PushSchema
  BY <1>7 DEF PushSchema
<1>8. CASE ContainerExit
  BY <1>8 DEF ContainerExit
<1>9. CASE Expire
  BY <1>9 DEF Expire
<1>10. CASE UNCHANGED vars
  BY <1>10 DEF vars
<1>11. QED
  BY <1>1, <1>2, <1>3, <1>4, <1>5, <1>6, <1>7, <1>8, <1>9, <1>10 DEF Next

\* The key keeps following the operation under way.
LEMMA KeyStep == TypeOK /\ PlacesOK /\ DownOK /\ OverlapOK /\ KeyOK /\ [Next]_vars => KeyOK'
<1> SUFFICES ASSUME TypeOK, PlacesOK, DownOK, OverlapOK, KeyOK, [Next]_vars
             PROVE  KeyOK'
  OBVIOUS
<1> USE DEF At, Goto, GotoVia, Serving, Busy, Alone, Steady, TypeOK, PlacesOK, DownOK,
   OverlapOK, KeyOK, Building
<1>1. ASSUME NEW r \in Starts, StartStep(r) PROVE KeyOK'
  <2>1. CASE StartRequest(r)
    BY <2>1 DEF StartRequest, Begin
  <2>2. CASE ReadState(r)
    BY <2>2 DEF ReadState
  <2>3. CASE GhostInspect(r)
    BY <2>3 DEF GhostInspect
  <2>4. CASE GhostDel(r)
    BY <2>4 DEF GhostDel
  <2>5. CASE Announce(r)
    BY <2>5 DEF Announce
  <2>6. CASE ClearDir(r)
    BY <2>6 DEF ClearDir, DirLeft
  <2>7. CASE MakeDir(r)
    BY <2>7 DEF MakeDir
  <2>8. CASE CreateNetwork(r)
    BY <2>8 DEF CreateNetwork
  <2>9. CASE DropDatabase(r)
    BY <2>9 DEF DropDatabase
  <2>10. CASE RunDatabase(r)
    BY <2>10 DEF RunDatabase
  <2>11. CASE AwaitDatabase(r)
    BY <2>11 DEF AwaitDatabase
  <2>12. CASE Reuse(r)
    BY <2>12 DEF Reuse
  <2>13. CASE NoReuse(r)
    BY <2>13 DEF NoReuse
  <2>14. CASE Replace(r)
    BY <2>14 DEF Replace
  <2>15. CASE RunApp(r)
    BY <2>15 DEF RunApp, NewApp, MountDir
  <2>16. CASE RunAppFails(r)
    BY <2>16 DEF RunAppFails, NewApp, MountDir
  <2>17. CASE Connect(r)
    BY <2>17 DEF Connect
  <2>18. CASE AwaitReady(r)
    BY <2>18 DEF AwaitReady
  <2>19. CASE MarkReady(r)
    BY <2>19 DEF MarkReady
  <2>20. CASE Fail(r)
    BY <2>20 DEF Fail
  <2>21. CASE FailMark(r)
    BY <2>21 DEF FailMark
  <2>22. CASE Settle(r)
    BY <2>22 DEF Settle, Return
  <2>23. CASE WatchFlip(r)
    BY <2>23 DEF WatchFlip
  <2>24. CASE WatchEnd(r)
    BY <2>24 DEF WatchEnd
  <2>25. QED
    BY <1>1, <2>1, <2>2, <2>3, <2>4, <2>5, <2>6, <2>7, <2>8, <2>9, <2>10, <2>11, <2>12,
       <2>13, <2>14, <2>15, <2>16, <2>17, <2>18, <2>19, <2>20, <2>21, <2>22, <2>23,
       <2>24 DEF StartStep
<1>2. ASSUME NEW s \in Stops, StopStep(s) PROVE KeyOK'
  <2>1. CASE StopRequest(s)
    BY <2>1 DEF StopRequest, Begin
  <2>2. CASE StopDel(s)
    BY <2>2 DEF StopDel
  <2>3. CASE StopDir(s)
    BY <2>3 DEF StopDir, DirLeft
  <2>4. QED
    BY <1>2, <2>1, <2>2, <2>3 DEF StopStep
<1>3. ASSUME NEW c \in Actors, CleanStep(c) PROVE KeyOK'
  <2>1. CASE RemoveApp(c)
    BY <2>1 DEF RemoveApp
  <2>2. CASE RemoveDatabase(c)
    BY <2>2 DEF RemoveDatabase
  <2>3. CASE RemoveNetwork(c)
    BY <2>3 DEF RemoveNetwork, Return
  <2>4. QED
    BY <1>3, <2>1, <2>2, <2>3 DEF CleanStep
<1>4. CASE Crash
  BY <1>4 DEF Crash, CutsCleanup
<1>5. CASE Restart
  BY <1>5 DEF Restart
<1>6. CASE BootDel
  BY <1>6 DEF BootDel
<1>7. CASE PushSchema
  BY <1>7 DEF PushSchema
<1>8. CASE ContainerExit
  BY <1>8 DEF ContainerExit
<1>9. CASE Expire
  BY <1>9 DEF Expire
<1>10. CASE UNCHANGED vars
  BY <1>10 DEF vars
<1>11. QED
  BY <1>1, <1>2, <1>3, <1>4, <1>5, <1>6, <1>7, <1>8, <1>9, <1>10 DEF Next

\* A cleanup keeps its order.
LEMMA CleanStepOK ==
  TypeOK /\ PlacesOK /\ DownOK /\ OverlapOK /\ KeyOK /\ CleanOK
  /\ [Next]_vars => CleanOK'
<1> SUFFICES ASSUME TypeOK, PlacesOK, DownOK, OverlapOK, KeyOK, CleanOK, [Next]_vars
             PROVE  CleanOK'
  OBVIOUS
<1> USE DEF At, Goto, GotoVia, Serving, Busy, Alone, Steady, TypeOK, PlacesOK, DownOK,
   OverlapOK, KeyOK, CleanOK, Nothing
<1>1. ASSUME NEW r \in Starts, StartStep(r) PROVE CleanOK'
  <2>1. CASE StartRequest(r)
    <3>1. /\ pc[r] = "idle"
          /\ pc' = [pc EXCEPT ![r] = "done"] \/ pc' = [pc EXCEPT ![r] = "readState"]
          /\ disturbed \subseteq disturbed'
          /\ UNCHANGED <<key, nonce, then, dir, net, db, app>>
      BY <2>1 DEF StartRequest, Begin
    <3>2. QED
      BY <3>1
  <2>2. CASE ReadState(r)
    BY <2>2 DEF ReadState
  <2>3. CASE GhostInspect(r)
    BY <2>3 DEF GhostInspect
  <2>4. CASE GhostDel(r)
    BY <2>4 DEF GhostDel
  <2>5. CASE Announce(r)
    BY <2>5 DEF Announce
  <2>6. CASE ClearDir(r)
    BY <2>6 DEF ClearDir, DirLeft
  <2>7. CASE MakeDir(r)
    BY <2>7 DEF MakeDir
  <2>8. CASE CreateNetwork(r)
    BY <2>8 DEF CreateNetwork
  <2>9. CASE DropDatabase(r)
    BY <2>9 DEF DropDatabase
  <2>10. CASE RunDatabase(r)
    BY <2>10 DEF RunDatabase
  <2>11. CASE AwaitDatabase(r)
    BY <2>11 DEF AwaitDatabase
  <2>12. CASE Reuse(r)
    BY <2>12 DEF Reuse
  <2>13. CASE NoReuse(r)
    BY <2>13 DEF NoReuse
  <2>14. CASE Replace(r)
    BY <2>14 DEF Replace
  <2>15. CASE RunApp(r)
    BY <2>15 DEF RunApp, NewApp, MountDir
  <2>16. CASE RunAppFails(r)
    BY <2>16 DEF RunAppFails, NewApp, MountDir
  <2>17. CASE Connect(r)
    BY <2>17 DEF Connect
  <2>18. CASE AwaitReady(r)
    BY <2>18 DEF AwaitReady
  <2>19. CASE MarkReady(r)
    BY <2>19 DEF MarkReady
  <2>20. CASE Fail(r)
    BY <2>20 DEF Fail
  <2>21. CASE FailMark(r)
    BY <2>21 DEF FailMark
  <2>22. CASE Settle(r)
    BY <2>22 DEF Settle, Return
  <2>23. CASE WatchFlip(r)
    BY <2>23 DEF WatchFlip
  <2>24. CASE WatchEnd(r)
    BY <2>24 DEF WatchEnd
  <2>25. QED
    BY <1>1, <2>1, <2>2, <2>3, <2>4, <2>5, <2>6, <2>7, <2>8, <2>9, <2>10, <2>11, <2>12,
       <2>13, <2>14, <2>15, <2>16, <2>17, <2>18, <2>19, <2>20, <2>21, <2>22, <2>23,
       <2>24 DEF StartStep
<1>2. ASSUME NEW s \in Stops, StopStep(s) PROVE CleanOK'
  <2>1. CASE StopRequest(s)
    BY <2>1 DEF StopRequest, Begin
  <2>2. CASE StopDel(s)
    BY <2>2 DEF StopDel
  <2>3. CASE StopDir(s)
    BY <2>3 DEF StopDir, DirLeft
  <2>4. QED
    BY <1>2, <2>1, <2>2, <2>3 DEF StopStep
<1>3. ASSUME NEW c \in Actors, CleanStep(c) PROVE CleanOK'
  <2>1. CASE RemoveApp(c)
    BY <2>1 DEF RemoveApp
  <2>2. CASE RemoveDatabase(c)
    BY <2>2 DEF RemoveDatabase
  <2>3. CASE RemoveNetwork(c)
    <3>1. /\ pc[c] = "rmNet" /\ net' = (net /\ Attached)
          /\ UNCHANGED <<db, app, disturbed>>
      BY <2>3 DEF RemoveNetwork, Return
    <3>2. Steady => app = None /\ db = None
      BY <3>1
    <3>3. Steady => ~net'
      BY <3>1, <3>2, Zenon DEF Attached, AppUp
    <3>4. pc' = [pc EXCEPT ![c] = then[c]]
      BY <2>3 DEF RemoveNetwork, Return
    <3>5. QED
      BY <3>1, <3>2, <3>3, <3>4
  <2>4. QED
    BY <1>3, <2>1, <2>2, <2>3 DEF CleanStep
<1>4. CASE Crash
  BY <1>4 DEF Crash, CutsCleanup
<1>5. CASE Restart
  BY <1>5 DEF Restart
<1>6. CASE BootDel
  BY <1>6 DEF BootDel
<1>7. CASE PushSchema
  BY <1>7 DEF PushSchema, AppUp
<1>8. CASE ContainerExit
  BY <1>8 DEF ContainerExit, AppUp
<1>9. CASE Expire
  BY <1>9 DEF Expire
<1>10. CASE UNCHANGED vars
  BY <1>10 DEF vars
<1>11. QED
  BY <1>1, <1>2, <1>3, <1>4, <1>5, <1>6, <1>7, <1>8, <1>9, <1>10 DEF Next

\* What has no preview and no cleanup has nothing.
LEMMA ClearStep ==
  TypeOK /\ PlacesOK /\ DownOK /\ OverlapOK /\ KeyOK /\ CleanOK /\ ClearOK
  /\ [Next]_vars => ClearOK'
<1> SUFFICES ASSUME TypeOK, PlacesOK, DownOK, OverlapOK, KeyOK, CleanOK, ClearOK, [Next]_vars
             PROVE  ClearOK'
  OBVIOUS
<1> USE DEF At, Goto, GotoVia, Serving, Busy, Alone, Steady, TypeOK, PlacesOK, DownOK,
   OverlapOK, KeyOK, CleanOK, Nothing, Building, ClearOK
<1>1. ASSUME NEW r \in Starts, StartStep(r) PROVE ClearOK'
  <2>1. CASE StartRequest(r)
    <3>1. /\ pc[r] = "idle"
          /\ pc' = [pc EXCEPT ![r] = "done"] \/ pc' = [pc EXCEPT ![r] = "readState"]
          /\ disturbed \subseteq disturbed'
          /\ UNCHANGED <<key, nonce, then, dir, net, db, app>>
      BY <2>1 DEF StartRequest, Begin
    <3>2. QED
      BY <3>1
  <2>2. CASE ReadState(r)
    BY <2>2 DEF ReadState
  <2>3. CASE GhostInspect(r)
    BY <2>3 DEF GhostInspect
  <2>4. CASE GhostDel(r)
    BY <2>4 DEF GhostDel
  <2>5. CASE Announce(r)
    BY <2>5 DEF Announce
  <2>6. CASE ClearDir(r)
    BY <2>6 DEF ClearDir, DirLeft
  <2>7. CASE MakeDir(r)
    BY <2>7 DEF MakeDir
  <2>8. CASE CreateNetwork(r)
    BY <2>8 DEF CreateNetwork
  <2>9. CASE DropDatabase(r)
    BY <2>9 DEF DropDatabase
  <2>10. CASE RunDatabase(r)
    BY <2>10 DEF RunDatabase
  <2>11. CASE AwaitDatabase(r)
    BY <2>11 DEF AwaitDatabase
  <2>12. CASE Reuse(r)
    BY <2>12 DEF Reuse
  <2>13. CASE NoReuse(r)
    BY <2>13 DEF NoReuse
  <2>14. CASE Replace(r)
    BY <2>14 DEF Replace
  <2>15. CASE RunApp(r)
    BY <2>15 DEF RunApp, NewApp, MountDir
  <2>16. CASE RunAppFails(r)
    BY <2>16 DEF RunAppFails, NewApp, MountDir
  <2>17. CASE Connect(r)
    BY <2>17 DEF Connect
  <2>18. CASE AwaitReady(r)
    BY <2>18 DEF AwaitReady
  <2>19. CASE MarkReady(r)
    BY <2>19 DEF MarkReady
  <2>20. CASE Fail(r)
    BY <2>20 DEF Fail
  <2>21. CASE FailMark(r)
    BY <2>21 DEF FailMark
  <2>22. CASE Settle(r)
    BY <2>22 DEF Settle, Return
  <2>23. CASE WatchFlip(r)
    BY <2>23 DEF WatchFlip
  <2>24. CASE WatchEnd(r)
    BY <2>24 DEF WatchEnd
  <2>25. QED
    BY <1>1, <2>1, <2>2, <2>3, <2>4, <2>5, <2>6, <2>7, <2>8, <2>9, <2>10, <2>11, <2>12,
       <2>13, <2>14, <2>15, <2>16, <2>17, <2>18, <2>19, <2>20, <2>21, <2>22, <2>23,
       <2>24 DEF StartStep
<1>2. ASSUME NEW s \in Stops, StopStep(s) PROVE ClearOK'
  <2>1. CASE StopRequest(s)
    BY <2>1 DEF StopRequest, Begin
  <2>2. CASE StopDel(s)
    BY <2>2 DEF StopDel
  <2>3. CASE StopDir(s)
    BY <2>3 DEF StopDir, DirLeft
  <2>4. QED
    BY <1>2, <2>1, <2>2, <2>3 DEF StopStep
<1>3. ASSUME NEW c \in Actors, CleanStep(c) PROVE ClearOK'
  <2>1. CASE RemoveApp(c)
    BY <2>1 DEF RemoveApp
  <2>2. CASE RemoveDatabase(c)
    BY <2>2 DEF RemoveDatabase
  <2>3. CASE RemoveNetwork(c)
    <3>1. /\ pc[c] = "rmNet" /\ net' = (net /\ Attached)
          /\ UNCHANGED <<db, app, disturbed>>
      BY <2>3 DEF RemoveNetwork, Return
    <3>2. Steady => app = None /\ db = None
      BY <3>1
    <3>3. Steady => ~net'
      BY <3>1, <3>2, Zenon DEF Attached, AppUp
    <3>4. pc' = [pc EXCEPT ![c] = then[c]]
      BY <2>3 DEF RemoveNetwork, Return
    <3>5. QED
      BY <3>1, <3>2, <3>3, <3>4
  <2>4. QED
    BY <1>3, <2>1, <2>2, <2>3 DEF CleanStep
<1>4. CASE Crash
  BY <1>4 DEF Crash, CutsCleanup
<1>5. CASE Restart
  BY <1>5 DEF Restart
<1>6. CASE BootDel
  BY <1>6 DEF BootDel
<1>7. CASE PushSchema
  BY <1>7 DEF PushSchema
<1>8. CASE ContainerExit
  BY <1>8 DEF ContainerExit, AppUp
<1>9. CASE Expire
  BY <1>9 DEF Expire
<1>10. CASE UNCHANGED vars
  BY <1>10 DEF vars
<1>11. QED
  BY <1>1, <1>2, <1>3, <1>4, <1>5, <1>6, <1>7, <1>8, <1>9, <1>10 DEF Next

\* A running container stays connected.
LEMMA NetStep ==
  TypeOK /\ PlacesOK /\ DownOK /\ OverlapOK /\ KeyOK /\ CleanOK /\ NetOK
  /\ [Next]_vars => NetOK'
<1> SUFFICES ASSUME TypeOK, PlacesOK, DownOK, OverlapOK, KeyOK, CleanOK, NetOK, [Next]_vars
             PROVE  NetOK'
  OBVIOUS
<1> USE DEF At, Goto, GotoVia, Serving, Busy, Alone, Steady, TypeOK, PlacesOK, DownOK,
   OverlapOK, KeyOK, CleanOK, Nothing, Building, NetOK, AppUp, Unsettled
<1>1. ASSUME NEW r \in Starts, StartStep(r) PROVE NetOK'
  <2>1. CASE StartRequest(r)
    <3>1. /\ pc[r] = "idle"
          /\ pc' = [pc EXCEPT ![r] = "done"] \/ pc' = [pc EXCEPT ![r] = "readState"]
          /\ disturbed \subseteq disturbed'
          /\ UNCHANGED <<key, nonce, then, dir, net, db, app>>
      BY <2>1 DEF StartRequest, Begin
    <3>2. QED
      BY <3>1
  <2>2. CASE ReadState(r)
    BY <2>2 DEF ReadState
  <2>3. CASE GhostInspect(r)
    BY <2>3 DEF GhostInspect
  <2>4. CASE GhostDel(r)
    BY <2>4 DEF GhostDel
  <2>5. CASE Announce(r)
    BY <2>5 DEF Announce
  <2>6. CASE ClearDir(r)
    BY <2>6 DEF ClearDir, DirLeft
  <2>7. CASE MakeDir(r)
    BY <2>7 DEF MakeDir
  <2>8. CASE CreateNetwork(r)
    BY <2>8 DEF CreateNetwork
  <2>9. CASE DropDatabase(r)
    BY <2>9 DEF DropDatabase
  <2>10. CASE RunDatabase(r)
    BY <2>10 DEF RunDatabase
  <2>11. CASE AwaitDatabase(r)
    BY <2>11 DEF AwaitDatabase
  <2>12. CASE Reuse(r)
    BY <2>12 DEF Reuse
  <2>13. CASE NoReuse(r)
    BY <2>13 DEF NoReuse
  <2>14. CASE Replace(r)
    BY <2>14 DEF Replace
  <2>15. CASE RunApp(r)
    BY <2>15 DEF RunApp, NewApp, MountDir
  <2>16. CASE RunAppFails(r)
    BY <2>16 DEF RunAppFails, NewApp, MountDir
  <2>17. CASE Connect(r)
    <3>1. /\ pc[r] = "connect"
          /\ \/ /\ net /\ app # None /\ app' = [app EXCEPT !.net = TRUE]
                /\ pc' = [pc EXCEPT ![r] = "awaitReady"]
             \/ app' = app /\ pc' = [pc EXCEPT ![r] = "fail"]
          /\ UNCHANGED <<key, nonce, then, dir, net, db, disturbed>>
      BY <2>17 DEF Connect
    <3>2. CASE app' = app /\ pc' = [pc EXCEPT ![r] = "fail"]
      BY <3>1, <3>2
    <3>3. CASE /\ net /\ app # None /\ app' = [app EXCEPT !.net = TRUE]
               /\ pc' = [pc EXCEPT ![r] = "awaitReady"]
      <4>1. app \in Apps
        BY <3>3
      <4>2. /\ app'.net = TRUE /\ app'.up = app.up /\ app'.mount = app.mount
            /\ app'.schema = app.schema /\ app'.reused = app.reused
        BY <3>3, <4>1 DEF Apps
      <4>3. QED
        BY <3>1, <3>3, <4>2
    <3>4. QED
      BY <3>1, <3>2, <3>3
  <2>18. CASE AwaitReady(r)
    BY <2>18 DEF AwaitReady
  <2>19. CASE MarkReady(r)
    BY <2>19 DEF MarkReady
  <2>20. CASE Fail(r)
    BY <2>20 DEF Fail
  <2>21. CASE FailMark(r)
    BY <2>21 DEF FailMark
  <2>22. CASE Settle(r)
    BY <2>22 DEF Settle, Return
  <2>23. CASE WatchFlip(r)
    BY <2>23 DEF WatchFlip
  <2>24. CASE WatchEnd(r)
    BY <2>24 DEF WatchEnd
  <2>25. QED
    BY <1>1, <2>1, <2>2, <2>3, <2>4, <2>5, <2>6, <2>7, <2>8, <2>9, <2>10, <2>11, <2>12,
       <2>13, <2>14, <2>15, <2>16, <2>17, <2>18, <2>19, <2>20, <2>21, <2>22, <2>23,
       <2>24 DEF StartStep
<1>2. ASSUME NEW s \in Stops, StopStep(s) PROVE NetOK'
  <2>1. CASE StopRequest(s)
    BY <2>1 DEF StopRequest, Begin
  <2>2. CASE StopDel(s)
    BY <2>2 DEF StopDel
  <2>3. CASE StopDir(s)
    BY <2>3 DEF StopDir, DirLeft
  <2>4. QED
    BY <1>2, <2>1, <2>2, <2>3 DEF StopStep
<1>3. ASSUME NEW c \in Actors, CleanStep(c) PROVE NetOK'
  <2>1. CASE RemoveApp(c)
    BY <2>1 DEF RemoveApp
  <2>2. CASE RemoveDatabase(c)
    BY <2>2 DEF RemoveDatabase
  <2>3. CASE RemoveNetwork(c)
    BY <2>3 DEF RemoveNetwork, Return
  <2>4. QED
    BY <1>3, <2>1, <2>2, <2>3 DEF CleanStep
<1>4. CASE Crash
  BY <1>4 DEF Crash, CutsCleanup
<1>5. CASE Restart
  BY <1>5 DEF Restart
<1>6. CASE BootDel
  BY <1>6 DEF BootDel
<1>7. CASE PushSchema
  BY <1>7 DEF PushSchema
<1>8. CASE ContainerExit
  BY <1>8 DEF ContainerExit
<1>9. CASE Expire
  <2>1. key # "building" \/ "cut" \in disturbed'
    BY <1>9 DEF Expire
  <2>2. disturbed \subseteq disturbed' /\ UNCHANGED <<pc, dir, net, db, app>>
    BY <1>9 DEF Expire
  <2>3. QED
    BY <2>1, <2>2
<1>10. CASE UNCHANGED vars
  BY <1>10 DEF vars
<1>11. QED
  BY <1>1, <1>2, <1>3, <1>4, <1>5, <1>6, <1>7, <1>8, <1>9, <1>10 DEF Next

\* A running container keeps a database.
LEMMA DbStep ==
  TypeOK /\ PlacesOK /\ DownOK /\ OverlapOK /\ KeyOK /\ CleanOK /\ NetOK /\ DbOK
  /\ [Next]_vars => DbOK'
<1> SUFFICES ASSUME TypeOK, PlacesOK, DownOK, OverlapOK, KeyOK, CleanOK, NetOK, DbOK, [Next]_vars
             PROVE  DbOK'
  OBVIOUS
<1> USE DEF At, Goto, GotoVia, Serving, Busy, Alone, Steady, TypeOK, PlacesOK, DownOK,
   OverlapOK, KeyOK, CleanOK, Nothing, Building, NetOK, DbOK, AppUp, Unsettled
<1>1. ASSUME NEW r \in Starts, StartStep(r) PROVE DbOK'
  <2>1. CASE StartRequest(r)
    BY <2>1 DEF StartRequest, Begin
  <2>2. CASE ReadState(r)
    BY <2>2 DEF ReadState
  <2>3. CASE GhostInspect(r)
    BY <2>3 DEF GhostInspect
  <2>4. CASE GhostDel(r)
    BY <2>4 DEF GhostDel
  <2>5. CASE Announce(r)
    BY <2>5 DEF Announce
  <2>6. CASE ClearDir(r)
    BY <2>6 DEF ClearDir, DirLeft
  <2>7. CASE MakeDir(r)
    BY <2>7 DEF MakeDir
  <2>8. CASE CreateNetwork(r)
    BY <2>8 DEF CreateNetwork
  <2>9. CASE DropDatabase(r)
    BY <2>9 DEF DropDatabase
  <2>10. CASE RunDatabase(r)
    BY <2>10 DEF RunDatabase
  <2>11. CASE AwaitDatabase(r)
    BY <2>11 DEF AwaitDatabase
  <2>12. CASE Reuse(r)
    BY <2>12 DEF Reuse
  <2>13. CASE NoReuse(r)
    BY <2>13 DEF NoReuse
  <2>14. CASE Replace(r)
    BY <2>14 DEF Replace
  <2>15. CASE RunApp(r)
    BY <2>15 DEF RunApp, NewApp, MountDir
  <2>16. CASE RunAppFails(r)
    BY <2>16 DEF RunAppFails, NewApp, MountDir
  <2>17. CASE Connect(r)
    BY <2>17 DEF Connect
  <2>18. CASE AwaitReady(r)
    BY <2>18 DEF AwaitReady
  <2>19. CASE MarkReady(r)
    BY <2>19 DEF MarkReady
  <2>20. CASE Fail(r)
    BY <2>20 DEF Fail
  <2>21. CASE FailMark(r)
    BY <2>21 DEF FailMark
  <2>22. CASE Settle(r)
    BY <2>22 DEF Settle, Return
  <2>23. CASE WatchFlip(r)
    BY <2>23 DEF WatchFlip
  <2>24. CASE WatchEnd(r)
    BY <2>24 DEF WatchEnd
  <2>25. QED
    BY <1>1, <2>1, <2>2, <2>3, <2>4, <2>5, <2>6, <2>7, <2>8, <2>9, <2>10, <2>11, <2>12,
       <2>13, <2>14, <2>15, <2>16, <2>17, <2>18, <2>19, <2>20, <2>21, <2>22, <2>23,
       <2>24 DEF StartStep
<1>2. ASSUME NEW s \in Stops, StopStep(s) PROVE DbOK'
  <2>1. CASE StopRequest(s)
    BY <2>1 DEF StopRequest, Begin
  <2>2. CASE StopDel(s)
    BY <2>2 DEF StopDel
  <2>3. CASE StopDir(s)
    BY <2>3 DEF StopDir, DirLeft
  <2>4. QED
    BY <1>2, <2>1, <2>2, <2>3 DEF StopStep
<1>3. ASSUME NEW c \in Actors, CleanStep(c) PROVE DbOK'
  <2>1. CASE RemoveApp(c)
    BY <2>1 DEF RemoveApp
  <2>2. CASE RemoveDatabase(c)
    BY <2>2 DEF RemoveDatabase
  <2>3. CASE RemoveNetwork(c)
    BY <2>3 DEF RemoveNetwork, Return
  <2>4. QED
    BY <1>3, <2>1, <2>2, <2>3 DEF CleanStep
<1>4. CASE Crash
  BY <1>4 DEF Crash, CutsCleanup
<1>5. CASE Restart
  BY <1>5 DEF Restart
<1>6. CASE BootDel
  BY <1>6 DEF BootDel
<1>7. CASE PushSchema
  BY <1>7 DEF PushSchema
<1>8. CASE ContainerExit
  BY <1>8 DEF ContainerExit
<1>9. CASE Expire
  BY <1>9 DEF Expire
<1>10. CASE UNCHANGED vars
  BY <1>10 DEF vars
<1>11. QED
  BY <1>1, <1>2, <1>3, <1>4, <1>5, <1>6, <1>7, <1>8, <1>9, <1>10 DEF Next

\* A container of its own keeps what it serves.
LEMMA OwnStep ==
  TypeOK /\ PlacesOK /\ DownOK /\ OverlapOK /\ KeyOK /\ CleanOK /\ OwnOK
  /\ [Next]_vars => OwnOK'
<1> SUFFICES ASSUME TypeOK, PlacesOK, DownOK, OverlapOK, KeyOK, CleanOK, OwnOK, [Next]_vars
             PROVE  OwnOK'
  OBVIOUS
<1> USE DEF At, Goto, GotoVia, Serving, Busy, Alone, Steady, TypeOK, PlacesOK, DownOK,
   OverlapOK, KeyOK, CleanOK, Nothing, Building, OwnOK
<1>1. ASSUME NEW r \in Starts, StartStep(r) PROVE OwnOK'
  <2>1. CASE StartRequest(r)
    <3>1. /\ pc[r] = "idle"
          /\ pc' = [pc EXCEPT ![r] = "done"] \/ pc' = [pc EXCEPT ![r] = "readState"]
          /\ disturbed \subseteq disturbed'
          /\ UNCHANGED <<key, nonce, then, dir, net, db, app>>
      BY <2>1 DEF StartRequest, Begin
    <3>2. QED
      BY <3>1
  <2>2. CASE ReadState(r)
    BY <2>2 DEF ReadState
  <2>3. CASE GhostInspect(r)
    BY <2>3 DEF GhostInspect
  <2>4. CASE GhostDel(r)
    BY <2>4 DEF GhostDel
  <2>5. CASE Announce(r)
    BY <2>5 DEF Announce
  <2>6. CASE ClearDir(r)
    BY <2>6 DEF ClearDir, DirLeft
  <2>7. CASE MakeDir(r)
    BY <2>7 DEF MakeDir
  <2>8. CASE CreateNetwork(r)
    BY <2>8 DEF CreateNetwork
  <2>9. CASE DropDatabase(r)
    BY <2>9 DEF DropDatabase
  <2>10. CASE RunDatabase(r)
    BY <2>10 DEF RunDatabase
  <2>11. CASE AwaitDatabase(r)
    BY <2>11 DEF AwaitDatabase
  <2>12. CASE Reuse(r)
    BY <2>12 DEF Reuse
  <2>13. CASE NoReuse(r)
    BY <2>13 DEF NoReuse
  <2>14. CASE Replace(r)
    BY <2>14 DEF Replace
  <2>15. CASE RunApp(r)
    BY <2>15 DEF RunApp, NewApp, MountDir
  <2>16. CASE RunAppFails(r)
    BY <2>16 DEF RunAppFails, NewApp, MountDir
  <2>17. CASE Connect(r)
    <3>1. /\ pc[r] = "connect"
          /\ \/ /\ net /\ app # None /\ app' = [app EXCEPT !.net = TRUE]
                /\ pc' = [pc EXCEPT ![r] = "awaitReady"]
             \/ app' = app /\ pc' = [pc EXCEPT ![r] = "fail"]
          /\ UNCHANGED <<key, nonce, then, dir, net, db, disturbed>>
      BY <2>17 DEF Connect
    <3>2. CASE app' = app /\ pc' = [pc EXCEPT ![r] = "fail"]
      BY <3>1, <3>2
    <3>3. CASE /\ net /\ app # None /\ app' = [app EXCEPT !.net = TRUE]
               /\ pc' = [pc EXCEPT ![r] = "awaitReady"]
      <4>1. app \in Apps
        BY <3>3
      <4>2. /\ app'.net = TRUE /\ app'.up = app.up /\ app'.mount = app.mount
            /\ app'.schema = app.schema /\ app'.reused = app.reused
        BY <3>3, <4>1 DEF Apps
      <4>3. QED
        BY <3>1, <3>3, <4>2
    <3>4. QED
      BY <3>1, <3>2, <3>3
  <2>18. CASE AwaitReady(r)
    BY <2>18 DEF AwaitReady
  <2>19. CASE MarkReady(r)
    BY <2>19 DEF MarkReady
  <2>20. CASE Fail(r)
    BY <2>20 DEF Fail
  <2>21. CASE FailMark(r)
    BY <2>21 DEF FailMark
  <2>22. CASE Settle(r)
    BY <2>22 DEF Settle, Return
  <2>23. CASE WatchFlip(r)
    BY <2>23 DEF WatchFlip
  <2>24. CASE WatchEnd(r)
    BY <2>24 DEF WatchEnd
  <2>25. QED
    BY <1>1, <2>1, <2>2, <2>3, <2>4, <2>5, <2>6, <2>7, <2>8, <2>9, <2>10, <2>11, <2>12,
       <2>13, <2>14, <2>15, <2>16, <2>17, <2>18, <2>19, <2>20, <2>21, <2>22, <2>23,
       <2>24 DEF StartStep
<1>2. ASSUME NEW s \in Stops, StopStep(s) PROVE OwnOK'
  <2>1. CASE StopRequest(s)
    BY <2>1 DEF StopRequest, Begin
  <2>2. CASE StopDel(s)
    BY <2>2 DEF StopDel
  <2>3. CASE StopDir(s)
    BY <2>3 DEF StopDir, DirLeft
  <2>4. QED
    BY <1>2, <2>1, <2>2, <2>3 DEF StopStep
<1>3. ASSUME NEW c \in Actors, CleanStep(c) PROVE OwnOK'
  <2>1. CASE RemoveApp(c)
    BY <2>1 DEF RemoveApp
  <2>2. CASE RemoveDatabase(c)
    BY <2>2 DEF RemoveDatabase
  <2>3. CASE RemoveNetwork(c)
    BY <2>3 DEF RemoveNetwork, Return
  <2>4. QED
    BY <1>3, <2>1, <2>2, <2>3 DEF CleanStep
<1>4. CASE Crash
  BY <1>4 DEF Crash, CutsCleanup
<1>5. CASE Restart
  BY <1>5 DEF Restart
<1>6. CASE BootDel
  BY <1>6 DEF BootDel
<1>7. CASE PushSchema
  <2>1. app \in Apps /\ app # None /\ app.schema = None /\ app' = [app EXCEPT !.schema = db]
    BY <1>7 DEF PushSchema, AppUp
  <2>2. app'.mount = app.mount /\ app'.schema = db /\ app'.reused = app.reused
    BY <2>1 DEF Apps
  <2>3. UNCHANGED <<key, pc, dir, net, db, disturbed>>
    BY <1>7 DEF PushSchema
  <2>4. QED
    BY <2>1, <2>2, <2>3
<1>8. CASE ContainerExit
  <2>1. app \in Apps /\ app # None /\ app' = [app EXCEPT !.up = FALSE]
    BY <1>8 DEF ContainerExit, AppUp
  <2>2. app'.mount = app.mount /\ app'.schema = app.schema /\ app'.reused = app.reused
    BY <2>1 DEF Apps
  <2>3. UNCHANGED <<key, pc, dir, net, db, disturbed>>
    BY <1>8 DEF ContainerExit
  <2>4. QED
    BY <2>1, <2>2, <2>3
<1>9. CASE Expire
  BY <1>9 DEF Expire
<1>10. CASE UNCHANGED vars
  BY <1>10 DEF vars
<1>11. QED
  BY <1>1, <1>2, <1>3, <1>4, <1>5, <1>6, <1>7, <1>8, <1>9, <1>10 DEF Next

\* The invariant holds of the initial states, every step keeps it, and so it always holds.
LEMMA Invariance == Spec => []IInv
<1>1. IInv /\ [Next]_vars => IInv'
  BY TypeStep, PlacesStep, DownStep, OverlapStep, KeyStep, CleanStepOK, ClearStep, NetStep,
     DbStep, OwnStep DEF IInv
<1>2. QED
  BY InitIInv, <1>1, PTL DEF Spec

\* HostResources never leaves its types.
THEOREM TypeSafety == Spec => []TypeOK
<1>1. IInv => TypeOK
  BY DEF IInv
<1>2. QED
  BY <1>1, Invariance, PTL

\* A project without a preview holds nothing on the host, unless operations
\* overlapped, a cleanup was cut short or the key ran out.
THEOREM NothingLeftSafety == Spec => []NothingLeft
<1>1. IInv => NothingLeft
  BY DEF IInv, ClearOK, NothingLeft, Quiet, Busy
<1>2. QED
  BY <1>1, Invariance, PTL

\* A ready preview that is up is connected to a database.
THEOREM DatabaseSafety == Spec => []DatabaseReachable
<1>1. ASSUME IInv, Quiet
      PROVE  ~Unsettled /\ \A r \in Starts : pc[r] # "runDb"
  BY <1>1 DEF Quiet, Serving, Busy, Unsettled
<1>2. IInv => DatabaseReachable
  BY <1>1 DEF IInv, NetOK, DbOK, DatabaseReachable, Steady
<1>3. QED
  BY <1>2, Invariance, PTL

\* A ready preview whose container is its own serves the directory on disk and
\* the database that runs.
THEOREM OwnBuildSafety == Spec => []ServesOwnBuild
<1>1. IInv => ServesOwnBuild
  BY DEF IInv, OwnOK, ServesOwnBuild, Steady
<1>2. QED
  BY <1>1, Invariance, PTL
-----------------------------------------------------------------------------
(* How far an operation has to go.                                          *)

\* The steps an operation may still take, by where it stands and where its
\* cleanup leads: a start through a ghost's removal, its build and the verdict,
\* a stop through the key and the removal.
Ahead(label, next) ==
    CASE label = "idle" -> 26 [] label = "readState" -> 25 [] label = "ghostInspect" -> 24
      [] label = "rmApp" -> IF next = "ghostDel" THEN 23 ELSE 6
      [] label = "rmDb" -> IF next = "ghostDel" THEN 22 ELSE 5
      [] label = "rmNet" -> IF next = "ghostDel" THEN 21 ELSE 4
      [] label = "ghostDel" -> 20 [] label = "announce" -> 19 [] label = "clearDir" -> 18
      [] label = "makeDir" -> 17 [] label = "network" -> 16 [] label = "dropDb" -> 15
      [] label = "runDb" -> 14 [] label = "awaitDb" -> 13 [] label = "inspect" -> 12
      [] label = "replace" -> 11 [] label = "runApp" -> 10 [] label = "connect" -> 9
      [] label = "awaitReady" -> 8 [] label \in {"fail", "stopDel"} -> 7
      [] label \in {"failMark", "markReady", "stopDir"} -> 3
      [] label = "settle" -> 2 [] label = "watch" -> 1 [] label = "done" -> 0

Operations == Starts \cup Stops

OperationStep(a) ==
    \/ a \in Starts /\ StartStep(a)
    \/ a \in Stops /\ StopStep(a)
    \/ CleanStep(a)

OperationOnward(a) ==
    /\ Ahead(pc'[a], then'[a]) <= Ahead(pc[a], then[a])
    /\ OperationStep(a) => Ahead(pc'[a], then'[a]) < Ahead(pc[a], then[a])

\* Every step of an operation leads it on, and nothing that others do leads it
\* back.
Onward == [][\A a \in Operations : OperationOnward(a)]_vars

OperationPcs == {"idle", "done", "watch", "settle", "stopDel", "stopDir"}
                    \cup StartPcs \cup BuildPcs \cup Cleaning

\* The measure is a number.
LEMMA AheadType == \A l \in OperationPcs : \A n : Ahead(l, n) \in 0 .. 26
BY DEF OperationPcs, Ahead

\* Operations stand where operations stand.
LEMMA OperationsPlaced == PlacesOK => \A a \in Operations : pc[a] \in OperationPcs
BY DEF PlacesOK, Operations, OperationPcs

\* A step of an operation leads it on, and no other operation.
LEMMA OperationCloser ==
    ASSUME TypeOK, PlacesOK, NEW a \in Operations, OperationStep(a)
    PROVE  /\ Ahead(pc'[a], then'[a]) < Ahead(pc[a], then[a])
           /\ \A b \in Operations \ {a} : pc'[b] = pc[b] /\ then'[b] = then[b]
<1> USE DEF TypeOK, Operations, Goto, GotoVia, Return, At, Ahead
<1>1. CASE a \in Starts /\ StartStep(a)
  <2>1. CASE StartRequest(a) \/ ReadState(a) \/ GhostInspect(a) \/ GhostDel(a) \/ Announce(a)
    BY <2>1 DEF StartRequest, ReadState, GhostInspect, GhostDel, Announce
  <2>2. CASE ClearDir(a) \/ MakeDir(a) \/ CreateNetwork(a) \/ DropDatabase(a) \/ RunDatabase(a)
    BY <2>2 DEF ClearDir, MakeDir, CreateNetwork, DropDatabase, RunDatabase
  <2>3. CASE AwaitDatabase(a) \/ Reuse(a) \/ NoReuse(a) \/ Replace(a)
    BY <2>3 DEF AwaitDatabase, Reuse, NoReuse, Replace
  <2>4. CASE RunApp(a) \/ RunAppFails(a) \/ Connect(a) \/ AwaitReady(a)
    <3>1. CASE RunApp(a)
      BY <3>1 DEF RunApp
    <3>2. CASE RunAppFails(a)
      BY <3>2 DEF RunAppFails
    <3>3. CASE Connect(a)
      BY <3>3 DEF Connect
    <3>4. CASE AwaitReady(a)
      BY <3>4 DEF AwaitReady
    <3>5. QED
      BY <2>4, <3>1, <3>2, <3>3, <3>4
  <2>5. CASE MarkReady(a) \/ Fail(a) \/ FailMark(a)
    BY <2>5 DEF MarkReady, Fail, FailMark
  <2>6. CASE Settle(a)
    BY <2>6 DEF Settle, PlacesOK
  <2>7. CASE WatchFlip(a) \/ WatchEnd(a)
    BY <2>7 DEF WatchFlip, WatchEnd
  <2>8. QED
    BY <1>1, <2>1, <2>2, <2>3, <2>4, <2>5, <2>6, <2>7 DEF StartStep
<1>2. CASE a \in Stops /\ StopStep(a)
  BY <1>2 DEF StopStep, StopRequest, StopDel, StopDir
<1>3. CASE RemoveApp(a) \/ RemoveDatabase(a)
  BY <1>3 DEF RemoveApp, RemoveDatabase
<1>4. CASE RemoveNetwork(a)
  <2>1. then[a] \in {"ghostDel", "failMark", "stopDir"}
    BY <1>4 DEF RemoveNetwork, PlacesOK
  <2>2. QED
    BY <1>4, <2>1 DEF RemoveNetwork
<1>5. QED
  BY <1>1, <1>2, <1>3, <1>4 DEF OperationStep, CleanStep

\* No step leads an operation back.
LEMMA OperationKept ==
    ASSUME TypeOK, PlacesOK, [Next]_vars, NEW a \in Operations
    PROVE  Ahead(pc'[a], then'[a]) <= Ahead(pc[a], then[a])
<1>1. Ahead(pc[a], then[a]) \in 0 .. 26 /\ Ahead(pc'[a], then'[a]) \in 0 .. 26
  <2>1. pc[a] \in OperationPcs
    BY OperationsPlaced
  <2>2. PlacesOK'
    BY PlacesStep
  <2>3. pc'[a] \in OperationPcs
    BY <2>2 DEF PlacesOK, Operations, OperationPcs
  <2>4. QED
    BY <2>1, <2>3, AheadType
<1>2. CASE pc'[a] = pc[a] /\ then'[a] = then[a]
  BY <1>1, <1>2
<1>3. ASSUME NEW b \in Operations, OperationStep(b)
      PROVE  Ahead(pc'[a], then'[a]) <= Ahead(pc[a], then[a])
  <2>1. CASE b = a
    BY <1>1, <1>3, <2>1, OperationCloser
  <2>2. CASE b # a
    <3>1. pc'[a] = pc[a] /\ then'[a] = then[a]
      BY <1>3, <2>2, OperationCloser
    <3>2. QED
      BY <1>2, <3>1
  <2>3. QED
    BY <2>1, <2>2
<1>4. CASE Crash
  <2>1. CASE pc[a] = "idle"
    <3>1. pc'[a] = "idle"
      BY <1>4, <2>1 DEF Crash, Operations
    <3>2. Ahead(pc'[a], then'[a]) = 26 /\ Ahead(pc[a], then[a]) = 26
      BY <2>1, <3>1 DEF Ahead
    <3>3. QED
      BY <3>2
  <2>2. CASE pc[a] # "idle"
    <3>1. pc'[a] = "done"
      BY <1>4, <2>2 DEF Crash, Operations
    <3>2. Ahead(pc'[a], then'[a]) = 0
      BY <3>1 DEF Ahead
    <3>3. QED
      BY <1>1, <3>2
  <2>3. QED
    BY <2>1, <2>2
<1>5. CASE Restart \/ BootDel \/ CleanStep(Boot)
  <2>1. a # Boot
    BY DEF Operations
  <2>2. pc'[a] = pc[a] /\ then'[a] = then[a]
    BY <1>5, <2>1 DEF Restart, BootDel, CleanStep, RemoveApp, RemoveDatabase, RemoveNetwork,
                      TypeOK, Operations, Goto, GotoVia, Return
  <2>3. QED
    BY <1>2, <2>2
<1>6. CASE PushSchema \/ ContainerExit \/ Expire \/ UNCHANGED vars
  BY <1>2, <1>6 DEF PushSchema, ContainerExit, Expire, vars
<1>7. QED
  BY <1>3, <1>4, <1>5, <1>6 DEF Next, OperationStep, Operations

\* For any number of starts, stops and deaths: a start takes at most 26 steps
\* from its request to the end of its watcher, a ghost's removal included, and a
\* stop at most as many; no other operation, exit, expiry or death leads one
\* back.
THEOREM OperationProgress == Spec => Onward
<1>1. IInv /\ [Next]_vars => [\A a \in Operations : OperationOnward(a)]_vars
  BY OperationCloser, OperationKept DEF IInv, OperationOnward
<1>2. QED
  BY <1>1, Invariance, PTL DEF Spec, Onward
=============================================================================
