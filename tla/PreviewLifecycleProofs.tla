----------------------- MODULE PreviewLifecycleProofs -----------------------
(***************************************************************************)
(* Proofs about PreviewLifecycle, for any number of projects, users,       *)
(* requests and crashes, and any limits.                                   *)
(*                                                                         *)
(* FlagBacked and BuildingBacked speak of the build that holds a nonce.    *)
(* They are not inductive alone: that the holder's target cannot change    *)
(* has to be known (NonceOwner), and that it is a project (TargetOK).      *)
(***************************************************************************)
EXTENDS PreviewLifecycle, TLAPS

\* Whoever works on a project has one.
TargetOK ==
    /\ \A a \in Actors :
        pc[a] \in StartPcs \cup StopPcs \cup {"reapAccess"} => target[a] \in Projects
    /\ \A r \in Requests : bpc[r] # "unused" => target[r] \in Projects

\* The holder of a project's nonce is a request for this project that has
\* answered, so its target no longer changes.
NonceOwner ==
    \A p \in Projects :
        nonce[p] \in Requests => target[nonce[p]] = p /\ pc[nonce[p]] = "done"

\* While the process boots, a tracked project that is still "building" waits
\* for its turn in the reset loop.
BootPending ==
    mode \in {"bootRead", "bootSrem", "bootCleanup"} =>
        \A p \in globalSet : status[p] = "building" => p \in bootTodo

\* The inductive invariant.
IInv == TypeOK /\ TargetOK /\ NonceOwner /\ FlagBacked /\ BuildingBacked /\ BootPending

USE ConstantsAssumption
USE DEF redisVars, memVars, hostVars, actorVars, buildVars, procVars, Actors,
        Statuses, StartPcs, StopPcs, ReapPcs, InFlight

\* Nothing runs at first.
LEMMA InitIInv == Init => IInv
BY DEF Init, IInv, TypeOK, TargetOK, NonceOwner, FlagBacked, BuildingBacked, BootPending

-----------------------------------------------------------------------------
(* One lemma per part of the next-state relation, one step per action.      *)

\* The steps of startPreview, up to the launch of its build.
LEMMA StartStepIInv ==
    ASSUME IInv, NEW r \in Requests, StartStep(r)
    PROVE  IInv'
<1>1. CASE CountMember(r, "globalCount", "globalDrop")
  BY <1>1, SMTT(30) DEF IInv, TypeOK, TargetOK, NonceOwner, FlagBacked, BuildingBacked, VerdictPending,
         Unreported, StopPending, BootPending,
         CountMember, At, Goto
<1>2. CASE CountMember(r, "userCount", "userDrop")
  BY <1>2, SMTT(30) DEF IInv, TypeOK, TargetOK, NonceOwner, FlagBacked, BuildingBacked, VerdictPending,
         Unreported, StopPending, BootPending,
         CountMember, At, Goto
<1>3. CASE DropGlobal(r)
  BY <1>3 DEF IInv, TypeOK, TargetOK, NonceOwner, FlagBacked, BuildingBacked, VerdictPending,
         Unreported, StopPending, BootPending,
         DropGlobal, At, Goto
<1>4. CASE DropUser(r)
  BY <1>4 DEF IInv, TypeOK, TargetOK, NonceOwner, FlagBacked, BuildingBacked, VerdictPending,
         Unreported, StopPending, BootPending,
         DropUser, At, Goto
<1>5. CASE Refuse(r)
  BY <1>5 DEF IInv, TypeOK, TargetOK, NonceOwner, FlagBacked, BuildingBacked, VerdictPending,
         Unreported, StopPending, BootPending,
         Refuse, At, Goto
<1>6. CASE UserMembers(r)
  BY <1>6 DEF IInv, TypeOK, TargetOK, NonceOwner, FlagBacked, BuildingBacked, VerdictPending,
         Unreported, StopPending, BootPending,
         UserMembers, At, Goto
<1>7. CASE RegisterUser(r)
  BY <1>7 DEF IInv, TypeOK, TargetOK, NonceOwner, FlagBacked, BuildingBacked, VerdictPending,
         Unreported, StopPending, BootPending,
         RegisterUser, At, Goto
<1>8. CASE RegisterGlobal(r)
  BY <1>8 DEF IInv, TypeOK, TargetOK, NonceOwner, FlagBacked, BuildingBacked, VerdictPending,
         Unreported, StopPending, BootPending,
         RegisterGlobal, At, Goto
<1>9. CASE ReadState(r)
  BY <1>9 DEF IInv, TypeOK, TargetOK, NonceOwner, FlagBacked, BuildingBacked, VerdictPending,
         Unreported, StopPending, BootPending,
         ReadState, At, Goto
<1>10. CASE GhostInspect(r)
  BY <1>10 DEF IInv, TypeOK, TargetOK, NonceOwner, FlagBacked, BuildingBacked, VerdictPending,
         Unreported, StopPending, BootPending,
         GhostInspect, At, Goto
<1>11. CASE GhostCleanup(r)
  BY <1>11 DEF IInv, TypeOK, TargetOK, NonceOwner, FlagBacked, BuildingBacked, VerdictPending,
         Unreported, StopPending, BootPending,
         GhostCleanup, At, Goto, RemoveContainer
<1>12. CASE GhostDel(r)
  BY <1>12 DEF IInv, TypeOK, TargetOK, NonceOwner, FlagBacked, BuildingBacked, VerdictPending,
         Unreported, StopPending, BootPending,
         GhostDel, At, Goto, SetStatus
<1>13. CASE Announce(r)
  <2>1. TypeOK' /\ TargetOK'
    BY <1>13 DEF IInv, TypeOK, TargetOK, NonceOwner, Announce, At, Goto, SetStatus
  <2>2. NonceOwner' /\ FlagBacked'
    BY <1>13 DEF IInv, TypeOK, TargetOK, NonceOwner, FlagBacked, Announce, At, Goto, SetStatus
  <2>3. BuildingBacked'
    BY <1>13 DEF IInv, TypeOK, TargetOK, NonceOwner, BuildingBacked, VerdictPending,
                Unreported, StopPending, Announce, At, Goto, SetStatus
  <2>4. BootPending'
    BY <1>13 DEF IInv, TypeOK, TargetOK, BootPending, Announce, At, Goto, SetStatus
  <2>5. QED
    BY <2>1, <2>2, <2>3, <2>4 DEF IInv
<1>14. QED
  BY <1>1, <1>2, <1>3, <1>4, <1>5, <1>6, <1>7, <1>8, <1>9, <1>10, <1>11, <1>12, <1>13 DEF StartStep

\* The steps of buildAndStart and of its catch and finally handlers.
LEMMA BuildStepIInv ==
    ASSUME IInv, NEW r \in Requests, BuildStep(r)
    PROVE  IInv'
<1>1. CASE BuildFiles(r)
  BY <1>1 DEF IInv, TypeOK, TargetOK, NonceOwner, FlagBacked, BuildingBacked, VerdictPending,
         Unreported, StopPending, BootPending,
         BuildFiles, BuildAt, Advance
<1>2. CASE BuildInspect(r)
  BY <1>2, SMTT(30) DEF IInv, TypeOK, TargetOK, NonceOwner, FlagBacked, BuildingBacked, VerdictPending,
         Unreported, StopPending, BootPending,
         BuildInspect, BuildAt, Advance
<1>3. CASE BuildReplace(r)
  BY <1>3 DEF IInv, TypeOK, TargetOK, NonceOwner, FlagBacked, BuildingBacked, VerdictPending,
         Unreported, StopPending, BootPending,
         BuildReplace, BuildAt, Advance, RemoveContainer
<1>4. CASE BuildRun(r)
  BY <1>4 DEF IInv, TypeOK, TargetOK, NonceOwner, FlagBacked, BuildingBacked, VerdictPending,
         Unreported, StopPending, BootPending,
         BuildRun, BuildAt, Advance
<1>5. CASE BuildReady(r)
  BY <1>5 DEF IInv, TypeOK, TargetOK, NonceOwner, FlagBacked, BuildingBacked, VerdictPending,
         Unreported, StopPending, BootPending,
         BuildReady, BuildAt, Advance
<1>6. CASE MarkReady(r)
  <2>1. TypeOK' /\ TargetOK'
    BY <1>6 DEF IInv, TypeOK, TargetOK, NonceOwner, MarkReady, BuildAt, Advance, SetStatus
  <2>2. NonceOwner' /\ FlagBacked'
    BY <1>6 DEF IInv, TypeOK, TargetOK, NonceOwner, FlagBacked, MarkReady, BuildAt, Advance, SetStatus
  <2>3. BuildingBacked'
    BY <1>6 DEF IInv, TypeOK, TargetOK, NonceOwner, BuildingBacked, VerdictPending,
                Unreported, StopPending, MarkReady, BuildAt, Advance, SetStatus
  <2>4. BootPending'
    BY <1>6 DEF IInv, TypeOK, TargetOK, BootPending, MarkReady, BuildAt, Advance, SetStatus
  <2>5. QED
    BY <2>1, <2>2, <2>3, <2>4 DEF IInv
<1>7. CASE TouchReady(r)
  <2>1. TypeOK' /\ TargetOK'
    BY <1>7 DEF IInv, TypeOK, TargetOK, NonceOwner, TouchReady, BuildAt, Advance, ClearFlag
  <2>2. NonceOwner' /\ FlagBacked'
    BY <1>7 DEF IInv, TypeOK, TargetOK, NonceOwner, FlagBacked, TouchReady, BuildAt, Advance, ClearFlag
  <2>3. BuildingBacked'
    BY <1>7 DEF IInv, TypeOK, TargetOK, NonceOwner, BuildingBacked, VerdictPending,
                Unreported, StopPending, TouchReady, BuildAt, Advance, ClearFlag
  <2>4. BootPending'
    BY <1>7 DEF IInv, TypeOK, TargetOK, BootPending, TouchReady, BuildAt, Advance, ClearFlag
  <2>5. QED
    BY <2>1, <2>2, <2>3, <2>4 DEF IInv
<1>8. CASE BuildFail(r)
  <2>1. TypeOK' /\ TargetOK'
    BY <1>8 DEF IInv, TypeOK, TargetOK, NonceOwner, BuildFail, BuildAt, Advance
  <2>2. NonceOwner' /\ FlagBacked'
    BY <1>8 DEF IInv, TypeOK, TargetOK, NonceOwner, FlagBacked, BuildFail, BuildAt, Advance
  <2>3. BuildingBacked'
    BY <1>8 DEF IInv, TypeOK, TargetOK, NonceOwner, BuildingBacked, VerdictPending,
                Unreported, StopPending, BuildFail, BuildAt, Advance
  <2>4. BootPending'
    BY <1>8 DEF IInv, TypeOK, TargetOK, BootPending, BuildFail, BuildAt, Advance
  <2>5. QED
    BY <2>1, <2>2, <2>3, <2>4 DEF IInv
<1>9. CASE FailCleanup(r)
  BY <1>9 DEF IInv, TypeOK, TargetOK, NonceOwner, FlagBacked, BuildingBacked, VerdictPending,
         Unreported, StopPending, BootPending,
         FailCleanup, BuildAt, Advance, RemoveContainer
<1>10. CASE FailMark(r)
  <2>1. TypeOK' /\ TargetOK'
    BY <1>10 DEF IInv, TypeOK, TargetOK, NonceOwner, FailMark, BuildAt, Advance, SetStatus, ClearFlag
  <2>2. NonceOwner' /\ FlagBacked'
    BY <1>10 DEF IInv, TypeOK, TargetOK, NonceOwner, FlagBacked, FailMark, BuildAt, Advance, SetStatus, ClearFlag
  <2>3. BuildingBacked'
    BY <1>10 DEF IInv, TypeOK, TargetOK, NonceOwner, BuildingBacked, VerdictPending,
                Unreported, StopPending, FailMark, BuildAt, Advance, SetStatus, ClearFlag
  <2>4. BootPending'
    BY <1>10 DEF IInv, TypeOK, TargetOK, BootPending, FailMark, BuildAt, Advance, SetStatus, ClearFlag
  <2>5. QED
    BY <2>1, <2>2, <2>3, <2>4 DEF IInv
<1>11. QED
  BY <1>1, <1>2, <1>3, <1>4, <1>5, <1>6, <1>7, <1>8, <1>9, <1>10 DEF BuildStep

\* The watcher of the container.
LEMMA WatchStepIInv ==
    ASSUME IInv, NEW r \in Requests, WatchStep(r)
    PROVE  IInv'
<1>1. CASE WatchTrip(r)
  BY <1>1 DEF IInv, TypeOK, TargetOK, NonceOwner, FlagBacked, BuildingBacked, VerdictPending,
         Unreported, StopPending, BootPending,
         WatchTrip, BuildAt, Advance
<1>2. CASE WatchEnd(r)
  BY <1>2 DEF IInv, TypeOK, TargetOK, NonceOwner, FlagBacked, BuildingBacked, VerdictPending,
         Unreported, StopPending, BootPending,
         WatchEnd, BuildAt, Advance
<1>3. CASE WatchFlip(r)
  BY <1>3 DEF IInv, TypeOK, TargetOK, NonceOwner, FlagBacked, BuildingBacked, VerdictPending,
         Unreported, StopPending, BootPending,
         WatchFlip, BuildAt, Advance, SetStatus
<1>4. QED
  BY <1>1, <1>2, <1>3 DEF WatchStep

\* A request arrives.
LEMMA ArrivalIInv ==
    ASSUME IInv, NEW r \in Requests, NEW p \in Projects, StartRequest(r, p) \/ StopRequest(r, p)
    PROVE  IInv'
<1>1. CASE StartRequest(r, p)
  BY <1>1 DEF IInv, TypeOK, TargetOK, NonceOwner, FlagBacked, BuildingBacked, VerdictPending,
         Unreported, StopPending, BootPending,
         StartRequest, At, Goto
<1>2. CASE StopRequest(r, p)
  <2>1. TypeOK' /\ TargetOK'
    BY <1>2 DEF IInv, TypeOK, TargetOK, NonceOwner, StopRequest, Invalidate, At, Goto
  <2>2. NonceOwner' /\ FlagBacked'
    BY <1>2 DEF IInv, TypeOK, TargetOK, NonceOwner, FlagBacked, StopRequest, Invalidate, At, Goto
  <2>3. BuildingBacked'
    BY <1>2 DEF IInv, TypeOK, TargetOK, NonceOwner, BuildingBacked, VerdictPending,
                Unreported, StopPending, StopRequest, Invalidate, At, Goto
  <2>4. BootPending'
    BY <1>2 DEF IInv, TypeOK, TargetOK, BootPending, StopRequest, Invalidate, At, Goto
  <2>5. QED
    BY <2>1, <2>2, <2>3, <2>4 DEF IInv
<1>3. QED
  BY <1>1, <1>2

\* A stop leaves the set of its owner.
LEMMA StopUserIInv ==
    ASSUME IInv, NEW r \in Requests, StopUser(r)
    PROVE  IInv'
BY DEF IInv, TypeOK, TargetOK, NonceOwner, FlagBacked, BuildingBacked, VerdictPending,
       Unreported, StopPending, BootPending,
       StopUser, At, Goto

\* The rest of a stop, by a request or by the reaper.
LEMMA StopStepIInv ==
    ASSUME IInv, NEW a \in Actors, StopStep(a)
    PROVE  IInv'
<1>1. CASE StopGlobal(a)
  BY <1>1 DEF IInv, TypeOK, TargetOK, NonceOwner, FlagBacked, BuildingBacked, VerdictPending,
         Unreported, StopPending, BootPending,
         StopGlobal, At, Goto
<1>2. CASE StopDel(a)
  <2>1. TypeOK' /\ TargetOK'
    BY <1>2 DEF IInv, TypeOK, TargetOK, NonceOwner, StopDel, At, Goto, SetStatus
  <2>2. NonceOwner' /\ FlagBacked'
    BY <1>2 DEF IInv, TypeOK, TargetOK, NonceOwner, FlagBacked, StopDel, At, Goto, SetStatus
  <2>3. BuildingBacked'
    BY <1>2 DEF IInv, TypeOK, TargetOK, NonceOwner, BuildingBacked, VerdictPending,
                Unreported, StopPending, StopDel, At, Goto, SetStatus
  <2>4. BootPending'
    BY <1>2 DEF IInv, TypeOK, TargetOK, BootPending, StopDel, At, Goto, SetStatus
  <2>5. QED
    BY <2>1, <2>2, <2>3, <2>4 DEF IInv
<1>3. CASE StopCleanup(a)
  BY <1>3 DEF IInv, TypeOK, TargetOK, NonceOwner, FlagBacked, BuildingBacked, VerdictPending,
         Unreported, StopPending, BootPending,
         StopCleanup, At, Goto, RemoveContainer
<1>4. QED
  BY <1>1, <1>2, <1>3 DEF StopStep

\* The reaper looks for idle previews.
LEMMA ReapIInv ==
    ASSUME IInv, ReapBegin \/ ReapCheck \/ ReapAccess \/ ReapEnd
    PROVE  IInv'
<1>1. CASE ReapBegin
  BY <1>1 DEF IInv, TypeOK, TargetOK, NonceOwner, FlagBacked, BuildingBacked, VerdictPending,
         Unreported, StopPending, BootPending,
         ReapBegin, At, Goto
<1>2. CASE ReapCheck
  BY <1>2, SMTT(30) DEF IInv, TypeOK, TargetOK, NonceOwner, FlagBacked, BuildingBacked, VerdictPending,
         Unreported, StopPending, BootPending,
         ReapCheck, At, Goto
<1>3. CASE ReapAccess
  <2>1. TypeOK' /\ TargetOK'
    BY <1>3 DEF IInv, TypeOK, TargetOK, NonceOwner, ReapAccess, Invalidate, At, Goto
  <2>2. NonceOwner' /\ FlagBacked'
    BY <1>3 DEF IInv, TypeOK, TargetOK, NonceOwner, FlagBacked, ReapAccess, Invalidate, At, Goto
  <2>3. BuildingBacked'
    BY <1>3 DEF IInv, TypeOK, TargetOK, NonceOwner, BuildingBacked, VerdictPending,
                Unreported, StopPending, ReapAccess, Invalidate, At, Goto
  <2>4. BootPending'
    BY <1>3 DEF IInv, TypeOK, TargetOK, BootPending, ReapAccess, Invalidate, At, Goto
  <2>5. QED
    BY <2>1, <2>2, <2>3, <2>4 DEF IInv
<1>4. CASE ReapEnd
  BY <1>4, SMTT(30) DEF IInv, TypeOK, TargetOK, NonceOwner, FlagBacked, BuildingBacked, VerdictPending,
         Unreported, StopPending, BootPending,
         ReapEnd, At, Goto
<1>5. QED
  BY <1>1, <1>2, <1>3, <1>4

\* Access, idleness, expiry and containers that exit.
LEMMA EnvironmentIInv ==
    ASSUME IInv, NEW p \in Projects, Environment(p)
    PROVE  IInv'
<1>1. CASE Touch(p)
  BY <1>1 DEF IInv, TypeOK, TargetOK, NonceOwner, FlagBacked, BuildingBacked, VerdictPending,
         Unreported, StopPending, BootPending,
         Touch
<1>2. CASE GrowIdle(p)
  BY <1>2 DEF IInv, TypeOK, TargetOK, NonceOwner, FlagBacked, BuildingBacked, VerdictPending,
         Unreported, StopPending, BootPending,
         GrowIdle
<1>3. CASE Expire(p)
  BY <1>3 DEF IInv, TypeOK, TargetOK, NonceOwner, FlagBacked, BuildingBacked, VerdictPending,
         Unreported, StopPending, BootPending,
         Expire, SetStatus
<1>4. CASE ContainerExit(p)
  BY <1>4 DEF IInv, TypeOK, TargetOK, NonceOwner, FlagBacked, BuildingBacked, VerdictPending,
         Unreported, StopPending, BootPending,
         ContainerExit
<1>5. QED
  BY <1>1, <1>2, <1>3, <1>4 DEF Environment

\* Death, restart and recovery.
LEMMA ProcessIInv ==
    ASSUME IInv, Crash \/ BootStep
    PROVE  IInv'
<1>1. CASE Crash
  <2>1. TypeOK' /\ TargetOK'
    BY <1>1 DEF IInv, TypeOK, TargetOK, NonceOwner, Crash
  <2>2. NonceOwner' /\ FlagBacked'
    BY <1>1 DEF IInv, TypeOK, TargetOK, NonceOwner, FlagBacked, Crash
  <2>3. BuildingBacked'
    BY <1>1 DEF IInv, TypeOK, TargetOK, NonceOwner, BuildingBacked, VerdictPending,
                Unreported, StopPending, Crash
  <2>4. BootPending'
    BY <1>1 DEF IInv, TypeOK, TargetOK, BootPending, Crash
  <2>5. QED
    BY <2>1, <2>2, <2>3, <2>4 DEF IInv
<1>2. CASE Restart
  BY <1>2 DEF IInv, TypeOK, TargetOK, NonceOwner, FlagBacked, BuildingBacked, VerdictPending,
         Unreported, StopPending, BootPending,
         Restart
<1>3. CASE BootReset
  <2>1. TypeOK' /\ TargetOK'
    BY <1>3 DEF IInv, TypeOK, TargetOK, NonceOwner, BootReset, SetStatus
  <2>2. NonceOwner' /\ FlagBacked'
    BY <1>3 DEF IInv, TypeOK, TargetOK, NonceOwner, FlagBacked, BootReset, SetStatus
  <2>3. BuildingBacked'
    BY <1>3 DEF IInv, TypeOK, TargetOK, NonceOwner, BuildingBacked, VerdictPending,
                Unreported, StopPending, BootReset, SetStatus
  <2>4. BootPending'
    BY <1>3 DEF IInv, TypeOK, TargetOK, BootPending, BootReset, SetStatus
  <2>5. QED
    BY <2>1, <2>2, <2>3, <2>4 DEF IInv
<1>4. CASE BootSrem
  BY <1>4 DEF IInv, TypeOK, TargetOK, NonceOwner, FlagBacked, BuildingBacked, VerdictPending,
         Unreported, StopPending, BootPending,
         BootSrem
<1>5. CASE BootCleanup
  BY <1>5 DEF IInv, TypeOK, TargetOK, NonceOwner, FlagBacked, BuildingBacked, VerdictPending,
         Unreported, StopPending, BootPending,
         BootCleanup, RemoveContainer
<1>6. CASE BootDone
  BY <1>6 DEF IInv, TypeOK, TargetOK, NonceOwner, FlagBacked, BuildingBacked, VerdictPending,
         Unreported, StopPending, BootPending,
         BootDone
<1>7. QED
  BY <1>1, <1>2, <1>3, <1>4, <1>5, <1>6 DEF BootStep

\* The invariant is inductive.
LEMMA NextIInv == IInv /\ [Next]_vars => IInv'
<1> SUFFICES ASSUME IInv, [Next]_vars PROVE IInv'
  OBVIOUS
<1>1. CASE Next
  <2>1. ASSUME NEW r \in Requests, NEW p \in Projects, StartRequest(r, p) \/ StopRequest(r, p)
        PROVE  IInv'
    BY <2>1, ArrivalIInv
  <2>2. ASSUME NEW r \in Requests, RequestStep(r) \/ BuildStep(r) \/ WatchStep(r)
        PROVE  IInv'
    BY <2>2, StartStepIInv, StopUserIInv, StopStepIInv, BuildStepIInv, WatchStepIInv
       DEF RequestStep
  <2>3. CASE ReapBegin \/ ReapStep
    BY <2>3, ReapIInv, StopStepIInv DEF ReapStep
  <2>4. ASSUME NEW p \in Projects, Environment(p)
        PROVE  IInv'
    BY <2>4, EnvironmentIInv
  <2>5. CASE Crash \/ BootStep
    BY <2>5, ProcessIInv
  <2>6. QED
    BY <1>1, <2>1, <2>2, <2>3, <2>4, <2>5 DEF Next
<1>2. CASE UNCHANGED vars
  BY <1>2 DEF vars, IInv, TypeOK, TargetOK, NonceOwner, FlagBacked, BuildingBacked,
              VerdictPending, Unreported, StopPending, BootPending
<1>3. QED
  BY <1>1, <1>2

\* The inductive invariant holds in every reachable state.
THEOREM Invariance == Spec => []IInv
BY InitIInv, NextIInv, PTL DEF Spec

-----------------------------------------------------------------------------
\* Every variable keeps its type.
THEOREM TypeCorrectness == Spec => []TypeOK
<1>1. IInv => TypeOK
  BY DEF IInv
<1>2. QED
  BY <1>1, Invariance, PTL

\* A project flagged as building always has a current build in flight: no
\* interleaving leaves a flag behind that blocks every later start.
THEOREM FlagSafety == Spec => []FlagBacked
<1>1. IInv => FlagBacked
  BY DEF IInv
<1>2. QED
  BY <1>1, Invariance, PTL

\* A status "building" always has something behind it that will replace it.
THEOREM BuildingSafety == Spec => []BuildingBacked
<1>1. IInv => BuildingBacked
  BY DEF IInv
<1>2. QED
  BY <1>1, Invariance, PTL

\* A step into service leaves no tracked project behind.
LEMMA StepBootRecovers ==
    ASSUME IInv, [Next]_vars, mode # "serving", mode' = "serving"
    PROVE  \A p \in globalSet' : status'[p] # "building"
<1>1. mode' # mode
  OBVIOUS
<1>2. BootDone
  BY <1>1, ZenonT(40) DEF Next, vars, StartRequest, StopRequest, RequestStep, StartStep, CountMember,
     DropGlobal, DropUser, Refuse, UserMembers, RegisterUser, RegisterGlobal, ReadState,
     GhostInspect, GhostCleanup, GhostDel, Announce, StopUser, StopStep, StopGlobal, StopDel,
     StopCleanup, BuildStep, BuildFiles, BuildInspect, BuildReplace, BuildRun, BuildReady,
     MarkReady, TouchReady, BuildFail, FailCleanup, FailMark, WatchStep, WatchTrip, WatchEnd,
     WatchFlip, ReapBegin, ReapStep, ReapCheck, ReapAccess, ReapEnd, Environment, Touch,
     GrowIdle, Expire, ContainerExit, Crash, BootStep, Restart, BootReset, BootSrem, BootCleanup
<1>3. QED
  BY <1>2 DEF IInv, BootPending, BootDone

\* A process that begins to serve tracks no "building" project, whatever the
\* crash, or several crashes during the reset itself, left in Redis.
THEOREM RecoverySafety == Spec => BootRecovers
<1>1. IInv /\ [Next]_vars =>
        [mode # "serving" /\ mode' = "serving" =>
            \A p \in globalSet' : status'[p] # "building"]_vars
  BY StepBootRecovers
<1>2. QED
  BY <1>1, Invariance, PTL DEF Spec, BootRecovers
-----------------------------------------------------------------------------
(* Flag and nonce as a lock.                                                *)

\* Whoever has launched a build has answered, so a request launches one.
OneBuild == \A r \in Requests : bpc[r] # "unused" => pc[r] = "done"

Alive == {r \in Requests : bpc[r] \in InFlight}
Fresh == {r \in Requests : bpc[r] = "unused"}
LockVars == <<building, nonce, Alive, Fresh>>

\* A step of the service is one of the lock or leaves it alone.
Locks == Lock!Next \/ UNCHANGED LockVars

\* A step that leaves flag, nonce and builds alone leaves the lock alone.
LEMMA LockFrame ==
    ASSUME UNCHANGED <<building, nonce, bpc>>
    PROVE  Locks
BY DEF Locks, LockVars, Alive, Fresh

\* A build that moves on and stays in flight, or stays out of it, does so too.
LEMMA AdvanceFrame ==
    ASSUME TypeOK, NEW r \in Requests, NEW l, bpc' = [bpc EXCEPT ![r] = l],
           bpc[r] # "unused", l # "unused", bpc[r] \in InFlight <=> l \in InFlight,
           UNCHANGED <<building, nonce>>
    PROVE  Locks
<1>1. Alive' = Alive /\ Fresh' = Fresh
  BY DEF TypeOK, Alive, Fresh
<1>2. QED
  BY <1>1 DEF Locks, LockVars

\* The end of a build frees the project it holds, if it holds one.
LEMMA EndLocks ==
    ASSUME IInv, NEW r \in Requests, NEW l, bpc' = [bpc EXCEPT ![r] = l],
           bpc[r] \in InFlight, l \notin InFlight \cup {"unused"},
           ClearFlag(r) \/ (building' = building /\ nonce[target[r]] # r), nonce' = nonce
    PROVE  Locks
<1>0. TypeOK /\ TargetOK /\ NonceOwner
  BY DEF IInv
<1>1. target[r] \in Projects /\ \A p \in Projects : nonce[p] = r => target[r] = p
  BY <1>0 DEF TypeOK, TargetOK, NonceOwner
<1>2. building' = {p \in building : nonce[p] # r}
  BY <1>0, <1>1 DEF TypeOK, ClearFlag
<1>3. Alive' = Alive \ {r} /\ Fresh' = Fresh /\ r \in Alive
  BY <1>0 DEF TypeOK, Alive, Fresh
<1>4. Lock!End(r)
  BY <1>2, <1>3 DEF Lock!End, Alive, Fresh
<1>5. QED
  BY <1>4 DEF Locks, Lock!Next

\* The invariant and OneBuild are inductive together.
LEMMA OneBuildStep == IInv /\ OneBuild /\ [Next]_vars => OneBuild'
<1> SUFFICES ASSUME IInv, OneBuild, [Next]_vars PROVE OneBuild'
  OBVIOUS
<1>0. TypeOK
  BY DEF IInv
<1>1. ASSUME NEW r \in Requests, RequestStep(r) PROVE OneBuild'
  <2>1. CASE Announce(r)
    BY <1>0, <2>1 DEF OneBuild, TypeOK, Announce, At, Goto
  <2>2. CASE ~Announce(r)
    <3>1. pc[r] # "done" /\ (\E l : pc' = [pc EXCEPT ![r] = l]) /\ bpc' = bpc
      BY <1>0, <1>1, <2>2 DEF TypeOK, RequestStep, StartStep, StopStep, CountMember, DropGlobal, DropUser,
         Refuse, UserMembers, RegisterUser, RegisterGlobal, ReadState, GhostInspect, GhostCleanup,
         GhostDel, StopUser, StopGlobal, StopDel, StopCleanup, At, Goto
    <3>2. QED
      BY <1>0, <3>1 DEF OneBuild, TypeOK
  <2>3. QED
    BY <2>1, <2>2
<1>2. ASSUME NEW r \in Requests, NEW p \in Projects, StartRequest(r, p) \/ StopRequest(r, p)
      PROVE  OneBuild'
  BY <1>0, <1>2 DEF OneBuild, TypeOK, StartRequest, StopRequest, At, Goto
<1>3. ASSUME NEW r \in Requests, BuildStep(r) \/ WatchStep(r) PROVE OneBuild'
  <2>1. bpc[r] # "unused" /\ (\E l : bpc' = [bpc EXCEPT ![r] = l]) /\ pc' = pc
    BY <1>3 DEF BuildStep, WatchStep, BuildFiles, BuildInspect, BuildReplace, BuildRun, BuildReady,
       MarkReady, TouchReady, BuildFail, FailCleanup, FailMark, WatchTrip, WatchEnd, WatchFlip,
       BuildAt, Advance
  <2>2. QED
    BY <1>0, <2>1 DEF OneBuild, TypeOK
<1>4. CASE ReapBegin \/ ReapStep
  <2>1. (\E l : pc' = [pc EXCEPT ![Reaper] = l]) \/ pc' = pc
    BY <1>4 DEF ReapBegin, ReapStep, ReapCheck, ReapAccess, ReapEnd, StopStep, StopGlobal, StopDel,
       StopCleanup, Goto
  <2>2. bpc' = bpc
    BY <1>4 DEF ReapBegin, ReapStep, ReapCheck, ReapAccess, ReapEnd, StopStep, StopGlobal, StopDel,
       StopCleanup
  <2>3. QED
    BY <1>0, <2>1, <2>2 DEF OneBuild, TypeOK
<1>5. CASE Crash
  BY <1>0, <1>5 DEF OneBuild, TypeOK, Crash
<1>6. CASE (\E p \in Projects : Environment(p)) \/ BootStep \/ UNCHANGED vars
  <2>1. UNCHANGED <<pc, bpc>>
    BY <1>6 DEF Environment, Touch, GrowIdle, Expire, ContainerExit, BootStep, Restart, BootReset,
       BootSrem, BootCleanup, BootDone, vars
  <2>2. QED
    BY <2>1 DEF OneBuild
<1>7. QED
  BY <1>1, <1>2, <1>3, <1>4, <1>5, <1>6 DEF Next

\* For any number of requests and crashes: a request launches one build, after
\* which it does nothing more.
THEOREM OneBuildEach == Spec => []OneBuild
<1>1. Init => OneBuild
  BY DEF Init, OneBuild
<1>2. QED
  BY <1>1, OneBuildStep, Invariance, PTL DEF Spec

\* The steps of a build, its watcher included.
LEMMA BuildLocks ==
    ASSUME IInv, NEW r \in Requests, BuildStep(r) \/ WatchStep(r)
    PROVE  Locks
<1>0. TypeOK
  BY DEF IInv
<1>1. CASE BuildFiles(r) \/ BuildInspect(r) \/ BuildReplace(r) \/ BuildRun(r) \/ BuildReady(r)
  BY <1>0, <1>1, AdvanceFrame DEF BuildFiles, BuildInspect, BuildReplace, BuildRun, BuildReady,
     BuildAt, Advance
<1>2. CASE MarkReady(r) \/ FailCleanup(r)
  BY <1>0, <1>2, AdvanceFrame DEF MarkReady, FailCleanup, BuildAt, Advance
<1>3. CASE TouchReady(r)
  BY <1>3, EndLocks DEF TouchReady, BuildAt, Advance
<1>4. CASE FailMark(r)
  BY <1>4, EndLocks DEF FailMark, BuildAt, Advance
<1>5. CASE BuildFail(r)
  <2>1. CASE nonce[target[r]] = r
    BY <1>0, <1>5, <2>1, AdvanceFrame DEF BuildFail, BuildAt, Advance
  <2>2. CASE nonce[target[r]] # r
    BY <1>5, <2>2, EndLocks DEF BuildFail, BuildAt, Advance
  <2>3. QED
    BY <2>1, <2>2
<1>6. CASE WatchStep(r)
  BY <1>0, <1>6, AdvanceFrame DEF WatchStep, WatchTrip, WatchEnd, WatchFlip, BuildAt, Advance
<1>7. QED
  BY <1>1, <1>2, <1>3, <1>4, <1>5, <1>6 DEF BuildStep

\* The steps of a request after its arrival.
LEMMA RequestLocks ==
    ASSUME IInv, OneBuild, NEW r \in Requests, RequestStep(r)
    PROVE  Locks
<1>0. TypeOK /\ TargetOK
  BY DEF IInv
<1>1. CASE Announce(r)
  <2>1. bpc[r] = "unused" /\ target[r] \in Projects
    BY <1>0, <1>1 DEF OneBuild, TargetOK, Announce, At
  <2>2. Alive' = Alive \cup {r} /\ Fresh' = Fresh \ {r} /\ r \in Fresh
    BY <1>0, <1>1, <2>1 DEF TypeOK, Alive, Fresh, Announce
  <2>3. Lock!Take(target[r], r)
    BY <1>1, <2>2 DEF Lock!Take, Announce, Alive, Fresh
  <2>4. QED
    BY <2>1, <2>3 DEF Locks, Lock!Next
<1>2. CASE ~Announce(r)
  BY <1>2, LockFrame DEF RequestStep, StartStep, StopStep, CountMember, DropGlobal, DropUser,
     Refuse, UserMembers, RegisterUser, RegisterGlobal, ReadState, GhostInspect, GhostCleanup,
     GhostDel, StopUser, StopGlobal, StopDel, StopCleanup
<1>3. QED
  BY <1>1, <1>2

\* A stop that begins frees the project.
LEMMA InvalidateLocks ==
    ASSUME NEW p \in Projects, Invalidate(p), bpc' = bpc
    PROVE  Locks
<1>1. Lock!Free(p)
  BY DEF Invalidate, Lock!Free
<1>2. QED
  BY <1>1 DEF Locks, Lock!Next

\* The death of the process frees everything.
LEMMA CrashLocks ==
    ASSUME IInv, Crash
    PROVE  Locks
<1>1. Alive' = {} /\ Fresh' = Fresh
  BY DEF IInv, TypeOK, Crash, Alive, Fresh
<1>2. Lock!Lose
  BY <1>1 DEF Crash, Lock!Lose, Alive, Fresh
<1>3. QED
  BY <1>2 DEF Locks, Lock!Next

\* Every step is one of BuildLock or a stutter.
LEMMA StepLocks == IInv /\ OneBuild /\ [Next]_vars => Locks
<1> SUFFICES ASSUME IInv, OneBuild, [Next]_vars PROVE Locks
  OBVIOUS
<1>1. ASSUME NEW r \in Requests, NEW p \in Projects, StartRequest(r, p) \/ StopRequest(r, p)
      PROVE  Locks
  BY <1>1, LockFrame, InvalidateLocks DEF StartRequest, StopRequest
<1>2. CASE ReapBegin \/ ReapStep
  <2>1. CASE ReapAccess
    <3>1. target[Reaper] \in Projects
      BY <2>1 DEF IInv, TargetOK, ReapAccess, At
    <3>2. QED
      BY <2>1, <3>1, LockFrame, InvalidateLocks DEF ReapAccess
  <2>2. CASE ~ReapAccess
    BY <1>2, <2>2, LockFrame DEF ReapBegin, ReapStep, ReapCheck, ReapEnd, StopStep, StopGlobal,
       StopDel, StopCleanup
  <2>3. QED
    BY <2>1, <2>2
<1>3. CASE (\E p \in Projects : Environment(p)) \/ BootStep \/ UNCHANGED vars
  BY <1>3, LockFrame DEF Environment, Touch, GrowIdle, Expire, ContainerExit, BootStep, Restart,
     BootReset, BootSrem, BootCleanup, BootDone, vars
<1>4. QED
  BY <1>1, <1>2, <1>3, RequestLocks, BuildLocks, CrashLocks DEF Next

\* For any number of projects, requests and crashes: flag and nonce are a lock
\* that a superseded or stopped build cannot free, and that the end of the
\* current build does.
THEOREM Implementation == Spec => KeepsLock
<1>1. Init => Lock!Init
  BY DEF Init, Lock!Init
<1>2. IInv /\ OneBuild /\ [Next]_vars => [Lock!Next]_LockVars
  BY StepLocks DEF Locks
<1>3. QED
  BY <1>1, <1>2, Invariance, OneBuildEach, PTL DEF Spec, KeepsLock, Lock!Spec, Lock!vars, LockVars, Alive, Fresh
-----------------------------------------------------------------------------
(* Nothing goes round in circles.                                           *)

\* The stations a build and its watcher have ahead of them.
BuildAhead(label) ==
    CASE label = "unused" -> 10 [] label = "files" -> 9 [] label = "inspect" -> 8
      [] label = "replace" -> 7 [] label = "run" -> 6 [] label = "wait" -> 5
      [] label \in {"markReady", "failCleanup"} -> 4
      [] label \in {"touch", "failMark"} -> 3
      [] label = "watch" -> 2 [] label = "flip" -> 1 [] label = "done" -> 0

\* The same for a request; a counting loop is one station.
RequestAhead(label) ==
    CASE label = "idle" -> 10 [] label \in {"globalCount", "globalDrop"} -> 9
      [] label \in {"userCount", "userDrop"} -> 8 [] label = "registerGlobal" -> 7
      [] label = "readState" -> 6 [] label = "ghostInspect" -> 5
      [] label \in {"ghostCleanup", "stopUser"} -> 4
      [] label \in {"ghostDel", "stopGlobal"} -> 3 [] label = "stopDel" -> 2
      [] label \in {"stopCleanup", "announce"} -> 1 [] label = "done" -> 0

\* A request comes nearer to its answer: it passes a station, or has one member
\* less to count, or returns to the loop from dropping a member.
Closer(r) ==
    \/ RequestAhead(pc'[r]) < RequestAhead(pc[r])
    \/ /\ RequestAhead(pc'[r]) = RequestAhead(pc[r])
       /\ \/ todo'[r] # todo[r] /\ todo'[r] \subseteq todo[r]
          \/ /\ todo'[r] = todo[r]
             /\ pc[r] \in {"globalDrop", "userDrop"} /\ pc'[r] \in {"globalCount", "userCount"}

\* What request r and its build do under a step.
OnwardOf(r) ==
    /\ BuildAhead(bpc'[r]) <= BuildAhead(bpc[r])
    /\ BuildStep(r) \/ WatchStep(r) => BuildAhead(bpc'[r]) < BuildAhead(bpc[r])
    /\ UNCHANGED <<pc[r], todo[r]>> \/ Closer(r)
    /\ RequestStep(r) => Closer(r)

\* Every step of a request or a build leads on, and no step of another, nor the
\* death of the process, leads back.
Onward == [][\A r \in Requests : OnwardOf(r)]_vars

RequestPcs == {"idle", "done"} \cup StartPcs \cup StopPcs \cup ReapPcs
BuildPcs == {"unused", "watch", "flip", "done"} \cup InFlight

\* A step of a build or of its watcher lowers what the build has ahead.
LEMMA BuildCloser ==
    ASSUME TypeOK, NEW r \in Requests, BuildStep(r) \/ WatchStep(r)
    PROVE  /\ BuildAhead(bpc'[r]) < BuildAhead(bpc[r])
           /\ \A s \in Requests \ {r} : bpc'[s] = bpc[s]
           /\ UNCHANGED <<pc, todo>>
<1> USE DEF TypeOK, BuildAt, Advance, BuildAhead
<1>1. CASE BuildFiles(r) \/ BuildInspect(r) \/ BuildReplace(r) \/ BuildRun(r) \/ BuildReady(r)
  BY <1>1 DEF BuildFiles, BuildInspect, BuildReplace, BuildRun, BuildReady
<1>2. CASE MarkReady(r) \/ TouchReady(r) \/ BuildFail(r) \/ FailCleanup(r) \/ FailMark(r)
  BY <1>2 DEF MarkReady, TouchReady, BuildFail, FailCleanup, FailMark
<1>3. CASE WatchStep(r)
  BY <1>3 DEF WatchStep, WatchTrip, WatchEnd, WatchFlip
<1>4. QED
  BY <1>1, <1>2, <1>3 DEF BuildStep

\* A step of a request brings it closer.
LEMMA RequestCloser ==
    ASSUME TypeOK, NEW r \in Requests, RequestStep(r)
    PROVE  /\ Closer(r)
           /\ \A s \in Requests \ {r} : pc'[s] = pc[s] /\ todo'[s] = todo[s]
<1> USE DEF TypeOK, At, Goto, Closer, RequestAhead
<1>1. CASE CountMember(r, "globalCount", "globalDrop")
  BY <1>1 DEF CountMember
<1>2. CASE CountMember(r, "userCount", "userDrop")
  BY <1>2 DEF CountMember
<1>3. CASE DropGlobal(r) \/ DropUser(r) \/ Refuse(r) \/ UserMembers(r) \/ RegisterUser(r)
  BY <1>3 DEF DropGlobal, DropUser, Refuse, UserMembers, RegisterUser
<1>4. CASE RegisterGlobal(r) \/ ReadState(r) \/ GhostInspect(r) \/ GhostCleanup(r)
  BY <1>4 DEF RegisterGlobal, ReadState, GhostInspect, GhostCleanup
<1>5. CASE GhostDel(r) \/ Announce(r) \/ StopUser(r)
  BY <1>5 DEF GhostDel, Announce, StopUser
<1>6. CASE StopStep(r)
  BY <1>6 DEF StopStep, StopGlobal, StopDel, StopCleanup
<1>7. QED
  BY <1>1, <1>2, <1>3, <1>4, <1>5, <1>6 DEF RequestStep, StartStep

\* Only the reaper reaps.
NeverReaps == \A r \in Requests : pc[r] \notin ReapPcs

\* That is inductive.
LEMMA NeverReapsStep == IInv /\ NeverReaps /\ [Next]_vars => NeverReaps'
<1> SUFFICES ASSUME IInv, NeverReaps, [Next]_vars PROVE NeverReaps'
  OBVIOUS
<1>0. TypeOK
  BY DEF IInv
<1>1. ASSUME NEW r \in Requests, RequestStep(r) PROVE NeverReaps'
  <2>1. \E l \in RequestPcs \ ReapPcs : pc' = [pc EXCEPT ![r] = l] \/ pc' = pc
    BY <1>0, <1>1 DEF TypeOK, RequestPcs, RequestStep, StartStep, StopStep, CountMember, DropGlobal, DropUser,
       Refuse, UserMembers, RegisterUser, RegisterGlobal, ReadState, GhostInspect, GhostCleanup,
       GhostDel, Announce, StopUser, StopGlobal, StopDel, StopCleanup, At, Goto
  <2>2. QED
    BY <1>0, <2>1 DEF NeverReaps, TypeOK
<1>2. ASSUME NEW r \in Requests, NEW p \in Projects, StartRequest(r, p) \/ StopRequest(r, p)
      PROVE  NeverReaps'
  BY <1>0, <1>2 DEF NeverReaps, TypeOK, StartRequest, StopRequest, At, Goto
<1>3. ASSUME NEW r \in Requests, BuildStep(r) \/ WatchStep(r) PROVE NeverReaps'
  BY <1>0, <1>3, BuildCloser DEF NeverReaps
<1>4. CASE ReapBegin \/ ReapStep
  <2>1. (\E l : pc' = [pc EXCEPT ![Reaper] = l]) \/ pc' = pc
    BY <1>4 DEF ReapBegin, ReapStep, ReapCheck, ReapAccess, ReapEnd, StopStep, StopGlobal, StopDel,
       StopCleanup, Goto
  <2>2. QED
    BY <1>0, <2>1 DEF NeverReaps, TypeOK
<1>5. CASE Crash
  BY <1>0, <1>5 DEF NeverReaps, TypeOK, Crash
<1>6. CASE (\E p \in Projects : Environment(p)) \/ BootStep \/ UNCHANGED vars
  <2>1. pc' = pc
    BY <1>6 DEF Environment, Touch, GrowIdle, Expire, ContainerExit, BootStep, Restart, BootReset,
       BootSrem, BootCleanup, BootDone, vars
  <2>2. QED
    BY <2>1 DEF NeverReaps
<1>7. QED
  BY <1>1, <1>2, <1>3, <1>4, <1>5, <1>6 DEF Next

\* What a build has ahead is a number.
LEMMA BuildAheadType == \A l \in BuildPcs : BuildAhead(l) \in 0 .. 10
BY DEF BuildPcs, BuildAhead

\* No step leads a build back.
LEMMA BuildKept ==
    ASSUME IInv, OneBuild, [Next]_vars, NEW r \in Requests
    PROVE  BuildAhead(bpc'[r]) <= BuildAhead(bpc[r])
<1>0. TypeOK
  BY DEF IInv
<1>1. BuildAhead(bpc[r]) \in 0 .. 10
  BY <1>0, BuildAheadType DEF TypeOK, BuildPcs
<1>2. CASE bpc'[r] = bpc[r]
  BY <1>1, <1>2
<1>3. ASSUME NEW s \in Requests, BuildStep(s) \/ WatchStep(s)
      PROVE  BuildAhead(bpc'[r]) <= BuildAhead(bpc[r])
  <2>1. CASE s = r
    <3>1. BuildAhead(bpc'[r]) < BuildAhead(bpc[r])
      BY <1>0, <1>3, <2>1, BuildCloser
    <3>2. bpc'[r] \in BuildPcs
      BY NextIInv DEF IInv, TypeOK, BuildPcs
    <3>3. BuildAhead(bpc'[r]) \in 0 .. 10
      BY <3>2, BuildAheadType
    <3>4. QED
      BY <1>1, <3>1, <3>3
  <2>2. CASE s # r
    BY <1>0, <1>2, <1>3, <2>2, BuildCloser
  <2>3. QED
    BY <2>1, <2>2
<1>4. ASSUME NEW s \in Requests, RequestStep(s)
      PROVE  BuildAhead(bpc'[r]) <= BuildAhead(bpc[r])
  <2>1. CASE Announce(s) /\ s = r
    <3>1. bpc[r] = "unused" /\ bpc'[r] = "files"
      BY <1>0, <2>1 DEF OneBuild, TypeOK, Announce, At
    <3>2. BuildAhead("unused") = 10 /\ BuildAhead("files") = 9
      BY DEF BuildAhead
    <3>3. QED
      BY <3>1, <3>2
  <2>2. CASE ~(Announce(s) /\ s = r)
    <3>1. bpc'[r] = bpc[r]
      BY <1>0, <1>4, <2>2 DEF TypeOK, RequestStep, StartStep, StopStep, CountMember, DropGlobal, DropUser,
         Refuse, UserMembers, RegisterUser, RegisterGlobal, ReadState, GhostInspect, GhostCleanup,
         GhostDel, Announce, StopUser, StopGlobal, StopDel, StopCleanup
    <3>2. QED
      BY <1>2, <3>1
  <2>3. QED
    BY <2>1, <2>2
<1>5. CASE Crash
  <2>1. CASE bpc[r] = "unused"
    BY <1>2, <1>5, <2>1 DEF Crash
  <2>2. CASE bpc[r] # "unused"
    <3>1. bpc'[r] = "done" /\ BuildAhead("done") = 0
      BY <1>5, <2>2 DEF Crash, BuildAhead
    <3>2. QED
      BY <1>1, <3>1
  <2>3. QED
    BY <2>1, <2>2
<1>6. CASE (\E s \in Requests, p \in Projects : StartRequest(s, p) \/ StopRequest(s, p))
        \/ ReapBegin \/ ReapStep
  <2>1. bpc' = bpc
    BY <1>6 DEF StartRequest, StopRequest, ReapBegin, ReapStep, ReapCheck, ReapAccess, ReapEnd,
       StopStep, StopGlobal, StopDel, StopCleanup
  <2>2. QED
    BY <1>2, <2>1
<1>7. CASE (\E p \in Projects : Environment(p)) \/ BootStep \/ UNCHANGED vars
  <2>1. bpc' = bpc
    BY <1>7 DEF Environment, Touch, GrowIdle, Expire, ContainerExit, BootStep, Restart, BootReset,
       BootSrem, BootCleanup, BootDone, vars
  <2>2. QED
    BY <1>2, <2>1
<1>8. QED
  BY <1>3, <1>4, <1>5, <1>6, <1>7 DEF Next

\* No step leads a request back.
LEMMA RequestKept ==
    ASSUME IInv, NeverReaps, [Next]_vars, NEW r \in Requests
    PROVE  UNCHANGED <<pc[r], todo[r]>> \/ Closer(r)
<1>0. TypeOK
  BY DEF IInv
<1>1. ASSUME NEW s \in Requests, RequestStep(s)
      PROVE  UNCHANGED <<pc[r], todo[r]>> \/ Closer(r)
  BY <1>0, <1>1, RequestCloser
<1>2. ASSUME NEW s \in Requests, BuildStep(s) \/ WatchStep(s)
      PROVE  UNCHANGED <<pc[r], todo[r]>> \/ Closer(r)
  BY <1>0, <1>2, BuildCloser
<1>3. ASSUME NEW s \in Requests, NEW p \in Projects, StartRequest(s, p) \/ StopRequest(s, p)
      PROVE  UNCHANGED <<pc[r], todo[r]>> \/ Closer(r)
  <2>1. CASE s = r
    BY <1>0, <1>3, <2>1 DEF TypeOK, StartRequest, StopRequest, At, Goto, Closer, RequestAhead
  <2>2. CASE s # r
    BY <1>0, <1>3, <2>2 DEF TypeOK, StartRequest, StopRequest, Goto
  <2>3. QED
    BY <2>1, <2>2
<1>4. CASE ReapBegin \/ ReapStep
  BY <1>0, <1>4 DEF TypeOK, ReapBegin, ReapStep, ReapCheck, ReapAccess, ReapEnd, StopStep,
     StopGlobal, StopDel, StopCleanup, Goto
<1>5. CASE Crash
  <2>1. todo'[r] = {}
    BY <1>5 DEF Crash
  <2>2. CASE pc'[r] = pc[r]
    BY <2>1, <2>2 DEF Closer
  <2>3. CASE pc'[r] # pc[r]
    <3>1. pc'[r] = "done" /\ pc[r] \in (RequestPcs \ ReapPcs) \ {"idle", "done"}
      BY <1>0, <1>5, <2>3 DEF TypeOK, Crash, RequestPcs, NeverReaps
    <3>2. QED
      BY <3>1 DEF Closer, RequestAhead, RequestPcs
  <2>4. QED
    BY <2>2, <2>3
<1>6. CASE (\E p \in Projects : Environment(p)) \/ BootStep \/ UNCHANGED vars
  BY <1>6 DEF Environment, Touch, GrowIdle, Expire, ContainerExit, BootStep, Restart, BootReset,
     BootSrem, BootCleanup, BootDone, vars
<1>7. QED
  BY <1>1, <1>2, <1>3, <1>4, <1>5, <1>6 DEF Next

\* For any number of projects, requests and crashes: a request and its build go
\* through at most ten stations each, and a counting loop through its members
\* once; nothing waits for what goes round in circles.
THEOREM PreviewProgress == Spec => Onward
<1>1. IInv /\ OneBuild /\ NeverReaps /\ [Next]_vars => [\A r \in Requests : OnwardOf(r)]_vars
  BY BuildKept, RequestKept, BuildCloser, RequestCloser DEF OnwardOf, IInv
<1>2. Init => NeverReaps
  BY DEF Init, NeverReaps
<1>3. QED
  BY <1>1, <1>2, NeverReapsStep, Invariance, OneBuildEach, PTL DEF Spec, Onward
=============================================================================
