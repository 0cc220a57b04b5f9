--------------------------- MODULE ApkBuildProofs ---------------------------
(***************************************************************************)
(* Proofs about ApkBuild, for any number of build requests, readers and    *)
(* crashes.                                                                *)
(*                                                                         *)
(* FlagHasBuild and BuildingHasBuild are inductive with the types.         *)
(* SerialBuilds is not: as long as nothing raced, the flag must be known   *)
(* to be held by the one build in flight (FlagHeld).  DownloadServes needs *)
(* that a build past its collection has its artifact on disk.              *)
(***************************************************************************)
EXTENDS ApkBuild, TLAPS

\* While no build was launched under a set flag, at most one is in flight, and
\* the flag is its.
FlagHeld ==
    ~raced => \A r \in Starts : InFlight(r) =>
        flag /\ \A s \in Starts : InFlight(s) => r = s

\* A build about to write "ready" has its artifact on disk.
ArtifactKept ==
    \A r \in Starts : pc[r] \in {"cleanup", "markReady"} =>
        artifact[Ext(want[r].platform, want[r].type)] # None

\* The inductive invariant.
IInv ==
    TypeOK /\ FlagHasBuild /\ BuildingHasBuild /\ FlagHeld /\ ArtifactKept /\ DownloadServes

USE ApkConstants
USE DEF Modes, Platforms, Types, Extensions, Running, InFlight, hostVars, callVars

\* The extension of a download is the one the build was stored under.
LEMMA SameExtension ==
    ASSUME NEW w \in [mode : Modes, platform : Platforms, type : Types]
    PROVE  /\ Ext(w.platform, StoredType(w)) = Ext(w.platform, w.type)
           /\ Ext(w.platform, w.type) \in Extensions
BY DEF Ext, StoredType

\* What the service stores is a state of the build.
LEMMA KeyType ==
    /\ Idle \in Keys
    /\ \A w \in [mode : Modes, platform : Platforms, type : Types] :
         \A s \in {"building", "ready", "error"} : Key(s, w) \in Keys
<1>1. Idle \in Keys
  BY DEF Idle, Keys
<1>2. ASSUME NEW w \in [mode : Modes, platform : Platforms, type : Types],
             NEW s \in {"building", "ready", "error"}
      PROVE  Key(s, w) \in Keys
  BY DEF Key, Keys, StoredType
<1>3. QED
  BY <1>1, <1>2

\* Nothing is built at first.
LEMMA InitIInv == Init => IInv
<1> SUFFICES ASSUME Init
             PROVE  IInv
  OBVIOUS
<1>1. TypeOK
  <2>1. key \in Keys
    BY KeyType DEF Init
  <2>2. flag \in BOOLEAN /\ lateKill \in BOOLEAN /\ raced \in BOOLEAN /\ orphaned \in BOOLEAN
    BY Zenon DEF Init
  <2>3. QED
    BY <2>1, <2>2 DEF Init, TypeOK, Keys
<1>2. FlagHasBuild /\ BuildingHasBuild /\ FlagHeld /\ ArtifactKept /\ DownloadServes
  BY DEF Init, FlagHasBuild, BuildingHasBuild, FlagHeld, ArtifactKept, DownloadServes, Idle
<1>3. QED
  BY <1>1, <1>2 DEF IInv

-----------------------------------------------------------------------------
(* One lemma per part of the next-state relation, one step per action.      *)

\* The call of startBuild, up to the launch of its build.
LEMMA StartIInv ==
    ASSUME IInv, NEW r \in Starts,
           (\E w \in Wanted : Arrive(r, w)) \/ Preflight(r) \/ Announce(r)
    PROVE  IInv'
<1>1. CASE \E w \in Wanted : Arrive(r, w)
  BY <1>1 DEF IInv, TypeOK, FlagHasBuild, BuildingHasBuild, FlagHeld, ArtifactKept,
       DownloadServes, Arrive, Goto
<1>2. CASE Preflight(r)
  BY <1>2 DEF IInv, TypeOK, FlagHasBuild, BuildingHasBuild, FlagHeld, ArtifactKept,
       DownloadServes, Preflight, Goto
<1>3. CASE Announce(r)
  <2>1. key' \in Keys
    BY <1>3, KeyType DEF IInv, TypeOK, Keys, Announce, Goto, Write
  <2>2. flag' \in BOOLEAN /\ lateKill' \in BOOLEAN /\ raced' \in BOOLEAN /\ orphaned' \in BOOLEAN
    BY <1>3, Zenon DEF IInv, TypeOK, Announce, Goto, Write
  <2>3. TypeOK'
    BY <1>3, <2>1, <2>2 DEF IInv, TypeOK, Keys, Announce, Goto, Write
  <2>4. (FlagHasBuild /\ BuildingHasBuild /\ FlagHeld /\ ArtifactKept /\ DownloadServes)'
    BY <1>3 DEF IInv, TypeOK, FlagHasBuild, BuildingHasBuild, FlagHeld, ArtifactKept,
       DownloadServes, Announce, Goto, Write, Key
  <2>5. QED
    BY <2>3, <2>4 DEF IInv
<1>4. QED
  BY <1>1, <1>2, <1>3

\* The steps of a build, its errors and its time limit.
LEMMA BuildStepIInv ==
    ASSUME IInv, NEW r \in Starts, BuildStep(r)
    PROVE  IInv'
<1>1. CASE Files(r)
  BY <1>1 DEF IInv, TypeOK, FlagHasBuild, BuildingHasBuild, FlagHeld, ArtifactKept,
       DownloadServes, Files, Goto
<1>2. CASE Prepare(r)
  BY <1>2 DEF IInv, TypeOK, FlagHasBuild, BuildingHasBuild, FlagHeld, ArtifactKept,
       DownloadServes, Prepare, Goto
<1>3. CASE Run(r)
  BY <1>3 DEF IInv, TypeOK, FlagHasBuild, BuildingHasBuild, FlagHeld, ArtifactKept,
       DownloadServes, Run, Goto
<1>4. CASE Exit(r)
  BY <1>4 DEF IInv, TypeOK, FlagHasBuild, BuildingHasBuild, FlagHeld, ArtifactKept,
       DownloadServes, Exit, Goto
<1>5. CASE TimeOut(r)
  BY <1>5 DEF IInv, TypeOK, FlagHasBuild, BuildingHasBuild, FlagHeld, ArtifactKept,
       DownloadServes, TimeOut, Goto
<1>6. CASE Collect(r)
  BY <1>6 DEF IInv, TypeOK, FlagHasBuild, BuildingHasBuild, FlagHeld, ArtifactKept,
       DownloadServes, Collect, Goto, Ext
<1>7. CASE Cleanup(r)
  BY <1>7 DEF IInv, TypeOK, FlagHasBuild, BuildingHasBuild, FlagHeld, ArtifactKept,
       DownloadServes, Cleanup, Goto
<1>8. CASE Throw(r)
  BY <1>8 DEF IInv, TypeOK, FlagHasBuild, BuildingHasBuild, FlagHeld, ArtifactKept,
       DownloadServes, Throw, Goto
<1>9. CASE MarkReady(r)
  <2>1. key' \in Keys
    BY <1>9, KeyType DEF IInv, TypeOK, Keys, MarkReady, Goto, Write
  <2>2. flag' \in BOOLEAN /\ lateKill' \in BOOLEAN /\ raced' \in BOOLEAN /\ orphaned' \in BOOLEAN
    BY <1>9, Zenon DEF IInv, TypeOK, MarkReady, Goto, Write
  <2>3. TypeOK'
    BY <1>9, <2>1, <2>2 DEF IInv, TypeOK, Keys, MarkReady, Goto, Write
  <2>4. (FlagHasBuild /\ BuildingHasBuild /\ FlagHeld /\ ArtifactKept /\ DownloadServes)'
    BY <1>9, SameExtension DEF IInv, TypeOK, FlagHasBuild, BuildingHasBuild, FlagHeld, ArtifactKept,
       DownloadServes, MarkReady, Goto, Write, Key
  <2>5. QED
    BY <2>3, <2>4 DEF IInv
<1>10. CASE MarkError(r)
  <2>1. key' \in Keys
    BY <1>10, KeyType DEF IInv, TypeOK, Keys, MarkError, Goto, Write
  <2>2. flag' \in BOOLEAN /\ lateKill' \in BOOLEAN /\ raced' \in BOOLEAN /\ orphaned' \in BOOLEAN
    BY <1>10, Zenon DEF IInv, TypeOK, MarkError, Goto, Write
  <2>3. TypeOK'
    BY <1>10, <2>1, <2>2 DEF IInv, TypeOK, Keys, MarkError, Goto, Write
  <2>4. (FlagHasBuild /\ BuildingHasBuild /\ FlagHeld /\ ArtifactKept /\ DownloadServes)'
    BY <1>10 DEF IInv, TypeOK, FlagHasBuild, BuildingHasBuild, FlagHeld, ArtifactKept,
       DownloadServes, MarkError, Goto, Write, Key
  <2>5. QED
    BY <2>3, <2>4 DEF IInv
<1>11. QED
  BY <1>1, <1>2, <1>3, <1>4, <1>5, <1>6, <1>7, <1>8, <1>9, <1>10 DEF BuildStep

\* Polls and downloads.
LEMMA ReadStepIInv ==
    ASSUME IInv, NEW q \in Readers, ReadStep(q)
    PROVE  IInv'
<1>1. CASE ReadKey(q)
  BY <1>1 DEF IInv, TypeOK, FlagHasBuild, BuildingHasBuild, FlagHeld, ArtifactKept,
       DownloadServes, ReadKey, ReaderGoto, Ext
<1>2. CASE Inspect(q)
  BY <1>2 DEF IInv, TypeOK, FlagHasBuild, BuildingHasBuild, FlagHeld, ArtifactKept,
       DownloadServes, Inspect, ReaderGoto
<1>3. CASE Reset(q)
  <2>1. key' \in Keys
    BY <1>3, KeyType DEF IInv, TypeOK, Reset, ReaderGoto, Write
  <2>2. flag' \in BOOLEAN /\ lateKill' \in BOOLEAN /\ raced' \in BOOLEAN /\ orphaned' \in BOOLEAN
    BY <1>3, Zenon DEF IInv, TypeOK, Reset, ReaderGoto, Write
  <2>3. TypeOK'
    BY <1>3, <2>1, <2>2 DEF IInv, TypeOK, Reset, ReaderGoto, Write
  <2>4. (FlagHasBuild /\ BuildingHasBuild /\ FlagHeld /\ ArtifactKept /\ DownloadServes)'
    BY <1>3 DEF IInv, TypeOK, FlagHasBuild, BuildingHasBuild, FlagHeld, ArtifactKept,
       DownloadServes, Reset, ReaderGoto, Write, Idle
  <2>5. QED
    BY <2>3, <2>4 DEF IInv
<1>4. CASE Open(q)
  BY <1>4 DEF IInv, TypeOK, FlagHasBuild, BuildingHasBuild, FlagHeld, ArtifactKept,
       DownloadServes, Open, ReaderGoto
<1>5. QED
  BY <1>1, <1>2, <1>3, <1>4 DEF ReadStep

\* Expiry, the container that runs on, the death of the process.
LEMMA OutsideIInv ==
    ASSUME IInv, LateKill \/ Die \/ OrphanExit \/ Expire
    PROVE  IInv'
<1>1. CASE LateKill
  <2>1. key' \in Keys
    BY <1>1, KeyType DEF IInv, TypeOK, Keys, LateKill
  <2>2. flag' \in BOOLEAN /\ lateKill' \in BOOLEAN /\ raced' \in BOOLEAN /\ orphaned' \in BOOLEAN
    BY <1>1, Zenon DEF IInv, TypeOK, LateKill
  <2>3. TypeOK'
    BY <1>1, <2>1, <2>2 DEF IInv, TypeOK, Keys, LateKill
  <2>4. (FlagHasBuild /\ BuildingHasBuild /\ FlagHeld /\ ArtifactKept /\ DownloadServes)'
    BY <1>1 DEF IInv, TypeOK, FlagHasBuild, BuildingHasBuild, FlagHeld, ArtifactKept,
       DownloadServes, LateKill
  <2>5. QED
    BY <2>3, <2>4 DEF IInv
<1>2. CASE Die
  <2>1. key' \in Keys
    BY <1>2, KeyType DEF IInv, TypeOK, Keys, Die
  <2>2. flag' \in BOOLEAN /\ lateKill' \in BOOLEAN /\ raced' \in BOOLEAN /\ orphaned' \in BOOLEAN
    BY <1>2, Zenon DEF IInv, TypeOK, Die
  <2>3. TypeOK'
    BY <1>2, <2>1, <2>2 DEF IInv, TypeOK, Keys, Die
  <2>4. (FlagHasBuild /\ BuildingHasBuild /\ FlagHeld /\ ArtifactKept /\ DownloadServes)'
    BY <1>2 DEF IInv, TypeOK, FlagHasBuild, BuildingHasBuild, FlagHeld, ArtifactKept,
       DownloadServes, Die
  <2>5. QED
    BY <2>3, <2>4 DEF IInv
<1>3. CASE OrphanExit
  BY <1>3 DEF IInv, TypeOK, FlagHasBuild, BuildingHasBuild, FlagHeld, ArtifactKept,
       DownloadServes, OrphanExit
<1>4. CASE Expire
  <2>1. key' \in Keys
    BY <1>4, KeyType DEF IInv, TypeOK, Expire, Write
  <2>2. flag' \in BOOLEAN /\ lateKill' \in BOOLEAN /\ raced' \in BOOLEAN /\ orphaned' \in BOOLEAN
    BY <1>4, Zenon DEF IInv, TypeOK, Expire, Write
  <2>3. TypeOK'
    BY <1>4, <2>1, <2>2 DEF IInv, TypeOK, Expire, Write
  <2>4. (FlagHasBuild /\ BuildingHasBuild /\ FlagHeld /\ ArtifactKept /\ DownloadServes)'
    BY <1>4 DEF IInv, TypeOK, FlagHasBuild, BuildingHasBuild, FlagHeld, ArtifactKept,
       DownloadServes, Expire, Write, Idle
  <2>5. QED
    BY <2>3, <2>4 DEF IInv
<1>5. QED
  BY <1>1, <1>2, <1>3, <1>4

\* The invariant is inductive.
LEMMA NextIInv == IInv /\ [Next]_vars => IInv'
<1> SUFFICES ASSUME IInv, [Next]_vars
             PROVE  IInv'
  OBVIOUS
<1>1. CASE Next
  BY <1>1, StartIInv, BuildStepIInv, ReadStepIInv, OutsideIInv DEF Next
<1>2. CASE UNCHANGED vars
  BY <1>2 DEF vars, IInv, TypeOK, FlagHasBuild, BuildingHasBuild, FlagHeld, ArtifactKept,
              DownloadServes
<1>3. QED
  BY <1>1, <1>2

\* The inductive invariant holds in every reachable state.
THEOREM Invariance == Spec => []IInv
BY InitIInv, NextIInv, PTL DEF Spec

-----------------------------------------------------------------------------
\* Every variable keeps its type.
THEOREM TypeCorrectness == Spec => []TypeOK
<1>1. IInv => TypeOK
  BY DEF IInv
<1>2. QED
  BY <1>1, Invariance, PTL

\* The guard of startBuild never outlives the builds: whatever fails, times out or
\* races, a set flag has a build in flight that will take it.
THEOREM FlagSafety == Spec => []FlagHasBuild
<1>1. IInv => FlagHasBuild
  BY DEF IInv
<1>2. QED
  BY <1>1, Invariance, PTL

\* A stored "building" is written over by a build in flight or is a leftover of a
\* dead process.
THEOREM BuildingSafety == Spec => []BuildingHasBuild
<1>1. IInv => BuildingHasBuild
  BY DEF IInv
<1>2. QED
  BY <1>1, Invariance, PTL

\* "ready" always names an artifact that is on disk, for any interleaving of
\* builds of different kinds.
THEOREM DownloadSafety == Spec => []DownloadServes
<1>1. IInv => DownloadServes
  BY DEF IInv
<1>2. QED
  BY <1>1, Invariance, PTL

\* The check of the flag at the start of startBuild and its setting after the
\* awaits are the only hole: without a launch under a set flag two builds of the
\* project are never in flight together, for any number of requests.
THEOREM Exclusion == Spec => []SerialBuilds
<1>1. IInv => SerialBuilds
  BY DEF IInv, FlagHeld, SerialBuilds
<1>2. QED
  BY <1>1, Invariance, PTL
-----------------------------------------------------------------------------
(* What exclusion is worth, and the way to the end of a build.              *)

\* What a build finds its own: the key tells of it or was reset by a poll, the
\* directory holds its files, the name of the container is free for it or its
\* own, and the artifact that it is about to announce is the one it made.
Own(r) ==
    /\ InFlight(r) => key \in {Key("building", want[r]), Idle}
    /\ pc[r] \in {"prepare", "run", "running", "collect", "cleanup"} => workDir = r
    /\ pc[r] = "run" => container = None
    /\ pc[r] = "running" => container \in {r, None}
    /\ pc[r] \in {"cleanup", "markReady"} => artifact[Ext(want[r].platform, want[r].type)] = r

\* As long as no build was launched under a set flag, a build works with what is
\* its own, whatever an earlier one, its container that outlived a crash, its
\* late removal or a poll that suspects an orphan still do.
Isolated == ~raced => \A r \in Starts : Own(r)

\* Who is not in flight needs nothing, and who is in flight is alone.
LEMMA OthersOwn ==
    ASSUME IInv, ~raced, NEW r \in Starts, InFlight(r) \/ ~flag, NEW s \in Starts \ {r},
           pc'[s] = pc[s]
    PROVE  Own(s)'
<1>1. ~InFlight(s)
  BY DEF IInv, FlagHeld
<1>2. ~InFlight(s)'
  BY <1>1
<1>3. QED
  BY <1>2 DEF Own

\* Every step leaves the builds what is their own.
LEMMA IsolatedStep == IInv /\ Isolated /\ [Next]_vars => Isolated'
<1> SUFFICES ASSUME IInv, Isolated, [Next]_vars, ~raced', NEW s \in Starts
             PROVE  Own(s)'
  BY DEF Isolated
<1> USE DEF Goto
<1>0. /\ pc \in [Starts -> {"new", "preflight", "announce", "done"} \cup Running]
      /\ want \in [Starts -> [mode : Modes, platform : Platforms, type : Types]]
      /\ artifact \in [Extensions -> Starts \cup {None}]
  BY DEF IInv, TypeOK
<1>1. ASSUME NEW r \in Starts, NEW w \in Wanted, Arrive(r, w) PROVE Own(s)'
  <2>1. Own(s)
    BY <1>1, Zenon DEF Arrive, Isolated
  <2>2. CASE s = r
    <3>1. pc'[s] \in {"preflight", "done"}
      BY <1>0, <1>1, <2>2 DEF Arrive
    <3>2. QED
      BY <3>1 DEF Own
  <2>3. CASE s # r
    <3>1. pc'[s] = pc[s] /\ want'[s] = want[s]
      BY <1>0, <1>1, <2>3 DEF Arrive
    <3>2. UNCHANGED <<key, workDir, container, artifact>>
      BY <1>1 DEF Arrive
    <3>3. QED
      BY <2>1, <3>1, <3>2 DEF Own
  <2>4. QED
    BY <2>2, <2>3
<1>2. ASSUME NEW r \in Starts, Preflight(r) PROVE Own(s)'
  <2>1. Own(s)
    BY <1>2, Zenon DEF Preflight, Isolated
  <2>2. /\ UNCHANGED <<key, workDir, container, artifact, want>>
        /\ pc'[s] = pc[s] \/ pc'[s] \in {"announce", "done"}
    BY <1>0, <1>2 DEF Preflight
  <2>3. QED
    BY <2>1, <2>2 DEF Own
<1>3. ASSUME NEW r \in Starts, Announce(r) PROVE Own(s)'
  <2>1. ~raced /\ ~flag
    BY <1>3, Zenon DEF Announce
  <2>2. CASE s = r
    <3>1. pc'[s] = "files" /\ key' = Key("building", want[r]) /\ want' = want
      BY <1>0, <1>3, <2>2 DEF Announce, Write
    <3>2. QED
      BY <2>2, <3>1 DEF Own, Key
  <2>3. CASE s # r
    <3>1. pc'[s] = pc[s]
      BY <1>0, <1>3, <2>3 DEF Announce
    <3>2. QED
      BY <2>1, <2>3, <3>1, OthersOwn
  <2>4. QED
    BY <2>2, <2>3
<1>4. ASSUME NEW r \in Starts, BuildStep(r) PROVE Own(s)'
  <2> USE DEF Files, Prepare, Run, Exit, TimeOut, Collect, Cleanup, Throw, MarkReady, MarkError
  <2>0. ~raced
    BY <1>4, Zenon DEF BuildStep
  <2>1. InFlight(r)
    BY <1>4 DEF BuildStep
  <2>2. CASE s # r
    <3>1. pc'[s] = pc[s]
      BY <1>0, <1>4, <2>2 DEF BuildStep
    <3>2. QED
      BY <2>0, <2>1, <2>2, <3>1, OthersOwn
  <2>3. CASE s = r
    <3>0. Own(r)
      BY <2>0 DEF Isolated
    <3>1. CASE Files(r)
      BY <1>0, <2>3, <3>0, <3>1 DEF Own, Key
    <3>2. CASE Prepare(r)
      BY <1>0, <2>3, <3>0, <3>2 DEF Own, Key
    <3>3. CASE Run(r)
      BY <1>0, <2>3, <3>0, <3>3 DEF Own, Key
    <3>4. CASE Exit(r)
      BY <1>0, <2>3, <3>0, <3>4 DEF Own, Key
    <3>5. CASE TimeOut(r)
      BY <1>0, <2>3, <3>0, <3>5 DEF Own, Key
    <3>6. CASE Collect(r)
      <4>1. Ext(want[r].platform, want[r].type) \in Extensions
        BY <1>0, SameExtension
      <4>2. artifact'[Ext(want[r].platform, want[r].type)] = r /\ UNCHANGED <<want, key, workDir>>
        BY <1>0, <3>6, <4>1
      <4>3. pc'[r] = "cleanup" /\ pc[r] = "collect"
        BY <1>0, <3>6
      <4>4. QED
        BY <2>3, <3>0, <4>2, <4>3 DEF Own, Key, Ext
    <3>7. CASE Cleanup(r)
      BY <1>0, <2>3, <3>0, <3>7 DEF Own, Key, Ext
    <3>8. CASE Throw(r) \/ MarkReady(r) \/ MarkError(r)
      <4>1. pc'[r] \in {"failed", "done"} /\ (pc'[r] = "failed" => UNCHANGED <<key, want>>)
        BY <1>0, <3>8
      <4>2. QED
        BY <2>1, <2>3, <3>0, <4>1 DEF Own, Key
    <3>9. QED
      BY <1>4, <3>1, <3>2, <3>3, <3>4, <3>5, <3>6, <3>7, <3>8 DEF BuildStep
  <2>4. QED
    BY <2>2, <2>3
<1>5. ASSUME NEW q \in Readers, ReadStep(q) PROVE Own(s)'
  <2>1. Own(s)
    BY <1>5, Zenon DEF ReadStep, ReadKey, Inspect, Reset, Open, Isolated
  <2>2. UNCHANGED <<workDir, container, artifact, want, pc>> /\ key' \in {key, Idle}
    BY <1>5 DEF ReadStep, ReadKey, Inspect, Reset, Open, Write
  <2>3. QED
    BY <2>1, <2>2 DEF Own, Key, Idle, Ext
<1>6. CASE LateKill \/ OrphanExit
  <2>1. Own(s)
    BY <1>6, Zenon DEF LateKill, OrphanExit, Isolated
  <2>2. UNCHANGED <<workDir, artifact, want, pc, key>> /\ container' = None
    BY <1>6 DEF LateKill, OrphanExit
  <2>3. QED
    BY <2>1, <2>2 DEF Own, Key, Ext
<1>7. CASE Die
  <2>1. pc'[s] \in {"new", "done"}
    BY <1>0, <1>7 DEF Die
  <2>2. QED
    BY <2>1 DEF Own
<1>8. CASE Expire
  <2>1. ~InFlight(s) /\ pc'[s] = pc[s]
    BY <1>8 DEF Expire
  <2>2. QED
    BY <2>1 DEF Own
<1>9. CASE UNCHANGED vars
  <2>1. Own(s)
    BY <1>9, Zenon DEF vars, Isolated
  <2>2. UNCHANGED <<workDir, artifact, want, pc, key, container>>
    BY <1>9 DEF vars
  <2>3. QED
    BY <2>1, <2>2 DEF Own, Key, Ext
<1>10. QED
  BY <1>1, <1>2, <1>3, <1>4, <1>5, <1>6, <1>7, <1>8, <1>9 DEF Next

\* For any number of requests, readers and crashes: without a launch under a set
\* flag no build uses, removes or announces what belongs to another.
THEOREM Isolation == Spec => []Isolated
<1>1. Init => Isolated
  BY DEF Init, Isolated, Own
<1>2. QED
  BY <1>1, IsolatedStep, Invariance, PTL DEF Spec

\* The stations a call of startBuild and its build have ahead of them.
Ahead(label) ==
    CASE label = "new" -> 11 [] label = "preflight" -> 10 [] label = "announce" -> 9
      [] label = "files" -> 8 [] label = "prepare" -> 7 [] label = "run" -> 6
      [] label = "running" -> 5 [] label = "collect" -> 4 [] label = "cleanup" -> 3
      [] label = "markReady" -> 2 [] label = "failed" -> 1 [] label = "done" -> 0

StartStep(r) == Preflight(r) \/ Announce(r) \/ BuildStep(r)

\* Every step of a build leads on, and nothing that others do leads back: what is
\* retried is a new call, never the build itself.
Onward ==
    [][\A r \in Starts : /\ Ahead(pc'[r]) <= Ahead(pc[r])
                         /\ StartStep(r) => Ahead(pc'[r]) < Ahead(pc[r])]_vars

\* For any number of requests, readers and crashes a build goes through at most
\* eleven stations, and BuildingSafety says that "building" has such a build
\* behind it, or a dead process.
THEOREM BuildProgress == Spec => Onward
<1>1. IInv /\ [Next]_vars =>
        [\A r \in Starts : /\ Ahead(pc'[r]) <= Ahead(pc[r])
                           /\ StartStep(r) => Ahead(pc'[r]) < Ahead(pc[r])]_vars
  <2>1. SUFFICES ASSUME IInv, Next, NEW r \in Starts
                 PROVE  /\ Ahead(pc'[r]) <= Ahead(pc[r])
                        /\ StartStep(r) => Ahead(pc'[r]) < Ahead(pc[r])
    OBVIOUS
  <2>2. pc \in [Starts -> {"new", "preflight", "announce", "done"} \cup Running]
    BY <2>1 DEF IInv, TypeOK
  <2>2a. pc' \in [Starts -> {"new", "preflight", "announce", "done"} \cup Running]
    BY <2>1, NextIInv DEF IInv, TypeOK
  <2>3. ASSUME NEW s \in Starts, StartStep(s)
        PROVE  Ahead(pc'[s]) < Ahead(pc[s]) /\ \A u \in Starts \ {s} : pc'[u] = pc[u]
    <3> USE DEF Goto, Ahead
    <3>1. CASE Preflight(s) \/ Announce(s)
      BY <2>2, <3>1 DEF Preflight, Announce
    <3>2. CASE Files(s) \/ Prepare(s) \/ Run(s) \/ Exit(s) \/ TimeOut(s)
      BY <2>2, <3>2 DEF Files, Prepare, Run, Exit, TimeOut
    <3>3. CASE Collect(s) \/ Cleanup(s) \/ Throw(s) \/ MarkReady(s) \/ MarkError(s)
      BY <2>2, <3>3 DEF Collect, Cleanup, Throw, MarkReady, MarkError
    <3>4. QED
      BY <2>3, <3>1, <3>2, <3>3 DEF StartStep, BuildStep
  <2>4. \A l \in {"new", "preflight", "announce", "done"} \cup Running : Ahead(l) \in 0 .. 11
    BY DEF Ahead
  <2>5. Ahead(pc[r]) \in 0 .. 11
    BY <2>2, <2>4
  <2>6. CASE \E s \in Starts : StartStep(s)
    <3>1. PICK s \in Starts : StartStep(s)
      BY <2>6
    <3>2. CASE s = r
      <4>1. Ahead(pc'[r]) < Ahead(pc[r])
        BY <2>3, <3>1, <3>2
      <4>2. Ahead(pc'[r]) \in 0 .. 11
        BY <2>4, <2>2a
      <4>3. QED
        BY <2>5, <4>1, <4>2
    <3>3. CASE s # r
      <4>1. pc'[r] = pc[r]
        BY <2>1, <2>3, <3>1, <3>3
      <4>2. Ahead(pc'[r]) <= Ahead(pc[r])
        BY <2>5, <4>1
      <4>3. QED
        BY <2>1, <2>3, <4>2
    <3>4. QED
      BY <3>2, <3>3
  <2>7. CASE \E s \in Starts, w \in Wanted : Arrive(s, w)
    <3>1. pc'[r] = pc[r] \/ (pc[r] = "new" /\ pc'[r] \in {"preflight", "done"})
      BY <2>2, <2>7 DEF Arrive, Goto
    <3>2. CASE pc'[r] = pc[r]
      BY <2>3, <2>5, <3>2
    <3>3. CASE pc[r] = "new" /\ pc'[r] \in {"preflight", "done"}
      <4>1. Ahead("new") = 11 /\ Ahead("preflight") = 10 /\ Ahead("done") = 0
        BY DEF Ahead
      <4>2. Ahead(pc'[r]) <= Ahead(pc[r])
        BY <3>3, <4>1
      <4>3. QED
        BY <2>3, <4>2
    <3>4. QED
      BY <3>1, <3>2, <3>3
  <2>8. CASE Die
    <3>1. pc'[r] = pc[r] \/ pc'[r] = "done"
      BY <2>2, <2>8 DEF Die
    <3>2. CASE pc'[r] = pc[r]
      BY <2>3, <2>5, <3>2
    <3>3. CASE pc'[r] = "done"
      <4>1. Ahead("done") = 0
        BY DEF Ahead
      <4>2. Ahead(pc'[r]) <= Ahead(pc[r])
        BY <2>5, <3>3, <4>1
      <4>3. QED
        BY <2>3, <4>2
    <3>4. QED
      BY <3>1, <3>2, <3>3
  <2>9. CASE (\E q \in Readers : ReadStep(q)) \/ LateKill \/ OrphanExit \/ Expire
    <3>1. pc' = pc
      BY <2>9 DEF ReadStep, ReadKey, Inspect, Reset, Open, LateKill, OrphanExit, Expire
    <3>2. Ahead(pc'[r]) <= Ahead(pc[r])
      BY <2>5, <3>1
    <3>3. QED
      BY <2>3, <3>2
  <2>10. QED
    BY <2>1, <2>6, <2>7, <2>8, <2>9 DEF Next, StartStep
<1>2. QED
  BY <1>1, Invariance, PTL DEF Spec, Onward
=============================================================================
