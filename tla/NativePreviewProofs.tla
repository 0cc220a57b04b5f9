------------------------- MODULE NativePreviewProofs -------------------------
(***************************************************************************)
(* Proofs about NativePreview, for any number of starts, stops and         *)
(* crashes.                                                                *)
(*                                                                         *)
(* BuildingBacked and NoAbandonedTunnel speak of handlers that are under   *)
(* way.  They are inductive only because a handler is never started a      *)
(* second time, which would make it forget where it stands (Once).         *)
(***************************************************************************)
EXTENDS NativePreview, TLAPS

\* A log stream closes once and a timer fires once.
Once ==
    \A r \in Starts :
        /\ r \in streams \cup timers => pc[r] = "done"
        /\ r \in streams \/ pc[r] # "done" => gpc[<<"close", r>>] = "off"
        /\ r \in timers \/ pc[r] # "done" => gpc[<<"timer", r>>] = "off"
        /\ pc[r] # "done" => r \notin url /\ rpc[r] = "off"

\* The inductive invariant.
IInv == TypeOK /\ Once /\ FlagHasStart /\ BuildingBacked /\ NoAbandonedTunnel

USE NativeConstants
USE DEF Calls, Guards, Starting, keyVars, hostVars, logVars, urlVars

\* Nothing runs at first.
LEMMA InitIInv == Init => IInv
<1> SUFFICES ASSUME Init
             PROVE  IInv
  OBVIOUS
<1>1. starting \in BOOLEAN /\ up \in BOOLEAN /\ orphaned \in BOOLEAN
  BY Zenon DEF Init
<1>2. TypeOK /\ Once
  BY <1>1 DEF Init, TypeOK, Once
<1>3. FlagHasStart /\ BuildingBacked /\ NoAbandonedTunnel
  BY DEF Init, FlagHasStart, BuildingBacked, NoAbandonedTunnel
<1>4. QED
  BY <1>2, <1>3 DEF IInv

-----------------------------------------------------------------------------
(* One lemma per conjunct, one step per action that can disturb it.         *)

\* Every step keeps every variable's type.
LEMMA TypeStep == TypeOK /\ [Next]_vars => TypeOK'
<1> SUFFICES ASSUME TypeOK, [Next]_vars
             PROVE  TypeOK'
  OBVIOUS
<1> USE DEF TypeOK, Goto, SetKey, RemoveContainer
<1>1. ASSUME NEW r \in Starts, Start(r) \/ StartStep(r) PROVE TypeOK'
  <2>1. CASE Start(r)
    BY <2>1 DEF Start
  <2>2. CASE StartStatus(r)
    BY <2>2 DEF StartStatus
  <2>3. CASE Announce(r)
    BY <2>3 DEF Announce
  <2>4. CASE Prepare(r)
    BY <2>4 DEF Prepare
  <2>5. CASE Run(r)
    BY <2>5 DEF Run
  <2>6. CASE Fail(r)
    BY <2>6 DEF Fail
  <2>7. CASE FailMark(r)
    BY <2>7 DEF FailMark
  <2>8. CASE FailClear(r)
    BY <2>8 DEF FailClear
  <2>9. QED
    BY <1>1, <2>1, <2>2, <2>3, <2>4, <2>5, <2>6, <2>7, <2>8 DEF StartStep
<1>2. ASSUME NEW r \in Starts, ResolveBegin(r) \/ ResolveStep(r) \/ Close(r) \/ Timer(r)
      PROVE  TypeOK'
  <2>1. CASE ResolveBegin(r)
    BY <2>1 DEF ResolveBegin
  <2>2. CASE ResolveFound(r)
    BY <2>2 DEF ResolveFound
  <2>3. CASE ResolveGiveUp(r)
    BY <2>3 DEF ResolveGiveUp
  <2>4. CASE ResolveMark(r)
    BY <2>4 DEF ResolveMark
  <2>5. CASE Close(r)
    BY <2>5 DEF Close
  <2>6. CASE Timer(r)
    BY <2>6 DEF Timer
  <2>7. QED
    BY <1>2, <2>1, <2>2, <2>3, <2>4, <2>5, <2>6 DEF ResolveStep
<1>3. ASSUME NEW g \in Guards, GuardStep(g) PROVE TypeOK'
  BY <1>3 DEF GuardStep, GuardStatus, GuardMark, GuardClear
<1>4. ASSUME NEW s \in Stops, Stop(s) \/ StopStep(s) PROVE TypeOK'
  <2>1. CASE Stop(s)
    BY <2>1 DEF Stop
  <2>2. CASE StopDel(s) \/ StopClear(s)
    BY <2>2 DEF StopDel, StopClear
  <2>3. QED
    BY <1>4, <2>1, <2>2 DEF StopStep
<1>5. CASE Die
  <2>1. starting' \in BOOLEAN /\ orphaned' \in BOOLEAN /\ key' = key
    BY <1>5, Zenon DEF Die
  <2>2. container' \in Starts \cup {None} /\ up' \in BOOLEAN
    BY <1>5 DEF Die
  <2>3. crashes' \in 0 .. MaxCrashes
    BY <1>5 DEF Die
  <2>4. pc' \in [Calls -> {"new", "done"}]
    BY <1>5 DEF Die
  <2>5. rpc' \in [Starts -> {"off"}] /\ gpc' \in [Guards -> {"off"}]
    BY <1>5 DEF Die
  <2>6. handle' = None /\ streams' = {} /\ killed' = {} /\ timers' = {} /\ url' = {}
    BY <1>5 DEF Die
  <2>7. QED
    BY <2>1, <2>2, <2>3, <2>4, <2>5, <2>6
<1>6. CASE ContainerExit \/ Expire
  BY <1>6, ZenonT(40) DEF ContainerExit, Expire
<1>7. CASE UNCHANGED vars
  BY <1>7 DEF vars
<1>8. QED
  BY <1>1, <1>2, <1>3, <1>4, <1>5, <1>6, <1>7 DEF Next

\* Streams and timers are added when the start is done, and their handlers
\* begin when they go.
LEMMA OnceStep == TypeOK /\ Once /\ [Next]_vars => Once'
<1> SUFFICES ASSUME TypeOK, Once, [Next]_vars, NEW q \in Starts
             PROVE  /\ q \in streams' \cup timers' => pc'[q] = "done"
                    /\ q \in streams' \/ pc'[q] # "done" => gpc'[<<"close", q>>] = "off"
                    /\ q \in timers' \/ pc'[q] # "done" => gpc'[<<"timer", q>>] = "off"
                    /\ pc'[q] # "done" => q \notin url' /\ rpc'[q] = "off"
  BY DEF Once
<1> USE DEF TypeOK, Once, Goto
<1>1. ASSUME NEW r \in Starts, Start(r) \/ StartStep(r)
      PROVE  /\ UNCHANGED <<gpc, url, rpc>>
             /\ pc[r] # "done"
             /\ \A c \in Calls : c # r => pc'[c] = pc[c]
             /\ \/ streams' = streams /\ timers' = timers
                \/ /\ pc'[r] = "done"
                   /\ streams' = streams \cup {r} /\ timers' = timers \cup {r}
  <2>1. CASE Start(r) \/ StartStatus(r)
    BY <2>1 DEF Start, StartStatus
  <2>2. CASE Announce(r)
    BY <2>2 DEF Announce
  <2>3. CASE Prepare(r)
    BY <2>3 DEF Prepare
  <2>4. CASE Run(r)
    BY <2>4 DEF Run
  <2>5. CASE Fail(r)
    BY <2>5 DEF Fail
  <2>6. CASE FailMark(r)
    BY <2>6 DEF FailMark
  <2>7. CASE FailClear(r)
    BY <2>7 DEF FailClear
  <2>8. QED
    BY <1>1, <2>1, <2>2, <2>3, <2>4, <2>5, <2>6, <2>7 DEF StartStep
<1>2. CASE \E r \in Starts : Start(r) \/ StartStep(r)
  <2>1. PICK r \in Starts : Start(r) \/ StartStep(r)
    BY <1>2
  <2>2. CASE q = r
    BY <1>1, <2>1, <2>2
  <2>3. CASE q # r
    BY <1>1, <2>1, <2>3
  <2>4. QED
    BY <2>2, <2>3
<1>3. CASE \E r \in Starts : ResolveBegin(r) \/ ResolveStep(r)
  BY <1>3 DEF ResolveStep, ResolveBegin, ResolveFound, ResolveGiveUp, ResolveMark
<1>4. CASE \E r \in Starts : Close(r)
  BY <1>4 DEF Close
<1>5. CASE \E r \in Starts : Timer(r)
  BY <1>5 DEF Timer
<1>6. CASE \E g \in Guards : GuardStep(g)
  BY <1>6 DEF GuardStep, GuardStatus, GuardMark, GuardClear
<1>7. CASE \E s \in Stops : Stop(s) \/ StopStep(s)
  BY <1>7 DEF Stop, StopStep, StopDel, StopClear
<1>8. CASE Die
  BY <1>8 DEF Die
<1>9. CASE ContainerExit \/ Expire \/ UNCHANGED vars
  BY <1>9 DEF ContainerExit, Expire, vars
<1>10. QED
  BY <1>2, <1>3, <1>4, <1>5, <1>6, <1>7, <1>8, <1>9 DEF Next

\* Whoever takes the flag away may be another start's end or a stop; but only a
\* start under way puts it in, and its own end takes it out.
LEMMA FlagStep == TypeOK /\ FlagHasStart /\ [Next]_vars => FlagHasStart'
<1> SUFFICES ASSUME TypeOK, FlagHasStart, [Next]_vars, starting'
             PROVE  \E r \in Starts : Starting(r)'
  BY DEF FlagHasStart
<1> USE DEF TypeOK, FlagHasStart, Goto
<1>1. CASE \E r \in Starts : Start(r) \/ StartStep(r)
  <2>1. PICK r \in Starts : Start(r) \/ StartStep(r)
    BY <1>1
  <2>2. CASE Start(r) \/ StartStatus(r)
    BY <2>2 DEF Start, StartStatus
  <2>3. CASE Announce(r)
    BY <2>3 DEF Announce
  <2>4. CASE Prepare(r) \/ Fail(r) \/ FailMark(r)
    BY <2>4 DEF Prepare, Fail, FailMark
  <2>5. CASE Run(r) \/ FailClear(r)
    BY <2>5 DEF Run, FailClear
  <2>6. QED
    BY <2>1, <2>2, <2>3, <2>4, <2>5 DEF StartStep
<1>2. CASE \E r \in Starts : ResolveBegin(r) \/ ResolveStep(r) \/ Close(r) \/ Timer(r)
  BY <1>2 DEF ResolveStep, ResolveBegin, ResolveFound, ResolveGiveUp, ResolveMark, Close, Timer
<1>3. CASE \E g \in Guards : GuardStep(g)
  BY <1>3 DEF GuardStep, GuardStatus, GuardMark, GuardClear
<1>4. CASE \E s \in Stops : Stop(s) \/ StopStep(s)
  BY <1>4 DEF Stop, StopStep, StopDel, StopClear
<1>5. CASE Die
  BY <1>5 DEF Die
<1>6. CASE ContainerExit \/ Expire \/ UNCHANGED vars
  BY <1>6 DEF ContainerExit, Expire, vars
<1>7. QED
  BY <1>1, <1>2, <1>3, <1>4, <1>5, <1>6 DEF Next

\* The start that announced last has still to report until it, or somebody
\* else, writes the key.
LEMMA BuildingStep == TypeOK /\ Once /\ BuildingBacked /\ [Next]_vars => BuildingBacked'
<1> SUFFICES ASSUME TypeOK, Once, BuildingBacked, [Next]_vars, key' = "building", ~orphaned'
             PROVE  \E q \in Starts : Unresolved(q)'
  BY DEF BuildingBacked
<1> USE DEF TypeOK, Goto
<1> DEFINE Waits == key = "building" /\ ~orphaned
<1>1. ASSUME Waits PROVE \E q \in Starts : Unresolved(q)
  BY <1>1 DEF BuildingBacked
<1>2. ASSUME NEW r \in Starts, Start(r) \/ StartStep(r) PROVE \E q \in Starts : Unresolved(q)'
  <2>1. CASE Announce(r)
    BY <2>1 DEF Announce, Unresolved
  <2>2. CASE Start(r)
    <3>1. PICK q \in Starts : Unresolved(q)
      BY <1>1, <2>2 DEF Start
    <3>2. QED
      BY <3>1, <2>2 DEF Start, Unresolved
  <2>3. CASE StartStatus(r)
    <3>1. PICK q \in Starts : Unresolved(q)
      BY <1>1, <2>3 DEF StartStatus
    <3>2. QED
      BY <3>1, <2>3 DEF StartStatus, Unresolved
  <2>4. CASE Prepare(r)
    BY <2>4 DEF Prepare, Unresolved
  <2>5. CASE Run(r)
    BY <2>5 DEF Run, Unresolved, Once
  <2>6. CASE Fail(r)
    BY <2>6 DEF Fail, Unresolved
  <2>7. CASE FailMark(r)
    BY <2>7 DEF FailMark, SetKey
  <2>8. CASE FailClear(r)
    <3>1. PICK q \in Starts : Unresolved(q)
      BY <1>1, <2>8 DEF FailClear
    <3>2. QED
      BY <3>1, <2>8 DEF FailClear, Unresolved
  <2>9. QED
    BY <1>2, <2>1, <2>2, <2>3, <2>4, <2>5, <2>6, <2>7, <2>8 DEF StartStep
<1>3. ASSUME NEW r \in Starts, ResolveBegin(r) \/ ResolveStep(r)
      PROVE  \E q \in Starts : Unresolved(q)'
  <2>1. CASE ResolveMark(r)
    BY <2>1 DEF ResolveMark, SetKey
  <2>2. CASE ResolveFound(r)
    BY <2>2 DEF ResolveFound, Unresolved
  <2>3. CASE ResolveBegin(r) \/ ResolveGiveUp(r)
    <3>1. PICK q \in Starts : Unresolved(q)
      BY <1>1, <2>3 DEF ResolveBegin, ResolveGiveUp
    <3>2. QED
      BY <3>1, <2>3 DEF ResolveBegin, ResolveGiveUp, Unresolved
  <2>4. QED
    BY <1>3, <2>1, <2>2, <2>3 DEF ResolveStep
<1>4. ASSUME NEW r \in Starts, Close(r) \/ Timer(r) PROVE \E q \in Starts : Unresolved(q)'
  <2>1. PICK q \in Starts : Unresolved(q)
    BY <1>1, <1>4 DEF Close, Timer
  <2>2. CASE Close(r)
    BY <2>1, <2>2 DEF Close, Unresolved, Once
  <2>3. CASE Timer(r)
    BY <2>1, <2>3 DEF Timer, Unresolved, Once
  <2>4. QED
    BY <1>4, <2>2, <2>3
<1>5. ASSUME NEW g \in Guards, GuardStep(g) PROVE \E q \in Starts : Unresolved(q)'
  <2>1. CASE GuardMark(g)
    BY <2>1 DEF GuardMark, SetKey
  <2>2. CASE GuardStatus(g)
    BY <2>2 DEF GuardStatus, Unresolved
  <2>3. CASE GuardClear(g)
    <3>1. PICK q \in Starts : Unresolved(q)
      BY <1>1, <2>3 DEF GuardClear
    <3>2. QED
      BY <3>1, <2>3 DEF GuardClear, Unresolved
  <2>4. QED
    BY <1>5, <2>1, <2>2, <2>3 DEF GuardStep
<1>6. ASSUME NEW s \in Stops, Stop(s) \/ StopStep(s) PROVE \E q \in Starts : Unresolved(q)'
  <2>1. CASE StopDel(s)
    BY <2>1 DEF StopDel, SetKey
  <2>2. CASE Stop(s) \/ StopClear(s)
    <3>1. PICK q \in Starts : Unresolved(q)
      BY <1>1, <2>2 DEF Stop, StopClear
    <3>2. QED
      BY <3>1, <2>2, NativeConstants DEF Stop, StopClear, Unresolved
  <2>3. QED
    BY <1>6, <2>1, <2>2 DEF StopStep
<1>7. CASE Die
  BY <1>7 DEF Die
<1>8. CASE Expire
  BY <1>8 DEF Expire, SetKey
<1>9. CASE ContainerExit \/ UNCHANGED vars
  BY <1>1, <1>9 DEF ContainerExit, Unresolved, vars
<1>10. QED
  BY <1>2, <1>3, <1>4, <1>5, <1>6, <1>7, <1>8, <1>9 DEF Next

\* Who writes "building" or "error" is about to remove the container; a
\* container appears with its own timer.
LEMMA TunnelStep ==
  TypeOK /\ Once /\ NoAbandonedTunnel /\ [Next]_vars => NoAbandonedTunnel'
<1> SUFFICES ASSUME TypeOK, Once, NoAbandonedTunnel, [Next]_vars,
                    key' \in {"building", "error"}, container' # None, ~orphaned'
             PROVE  RemovalPending' \/ Unresolved(container)'
  BY DEF NoAbandonedTunnel
<1> USE DEF TypeOK, Goto
<1>1. ASSUME UNCHANGED keyVars, container' = container
      PROVE  RemovalPending \/ Unresolved(container)
  BY <1>1 DEF NoAbandonedTunnel
<1>2. container' \in Starts
  BY TypeStep
<1>3. ASSUME NEW r \in Starts, Start(r) \/ StartStep(r)
      PROVE  RemovalPending' \/ Unresolved(container)'
  <2>1. CASE Start(r)
    BY <1>1, <1>2, <2>1 DEF Start, RemovalPending, Unresolved
  <2>2. CASE StartStatus(r)
    BY <1>1, <1>2, <2>2 DEF StartStatus, RemovalPending, Unresolved
  <2>3. CASE Announce(r)
    BY <2>3 DEF Announce, RemovalPending
  <2>4. CASE Prepare(r) \/ FailClear(r)
    BY <2>4 DEF Prepare, FailClear, RemoveContainer
  <2>5. CASE Run(r)
    BY <2>5 DEF Run, Unresolved, Once
  <2>6. CASE Fail(r)
    BY <2>6 DEF Fail, RemovalPending
  <2>7. CASE FailMark(r)
    BY <2>7 DEF FailMark, RemovalPending
  <2>8. QED
    BY <1>3, <2>1, <2>2, <2>3, <2>4, <2>5, <2>6, <2>7 DEF StartStep
<1>4. ASSUME NEW r \in Starts, ResolveBegin(r) \/ ResolveStep(r)
      PROVE  RemovalPending' \/ Unresolved(container)'
  <2>1. CASE ResolveBegin(r)
    BY <1>1, <1>2, <2>1 DEF ResolveBegin, RemovalPending, Unresolved
  <2>2. CASE ResolveFound(r)
    BY <1>1, <1>2, <2>2 DEF ResolveFound, RemovalPending, Unresolved
  <2>3. CASE ResolveGiveUp(r)
    BY <1>1, <1>2, <2>3 DEF ResolveGiveUp, RemovalPending, Unresolved
  <2>4. CASE ResolveMark(r)
    BY <2>4 DEF ResolveMark, SetKey
  <2>5. QED
    BY <1>4, <2>1, <2>2, <2>3, <2>4 DEF ResolveStep
<1>5. ASSUME NEW r \in Starts, Close(r) PROVE RemovalPending' \/ Unresolved(container)'
  <2>1. RemovalPending => RemovalPending'
    BY <1>5 DEF Close, Once, RemovalPending
  <2>2. Unresolved(container) => Unresolved(container)'
    BY <1>2, <1>5 DEF Close, Once, Unresolved
  <2>3. QED
    BY <1>1, <1>5, <2>1, <2>2 DEF Close
<1>6. ASSUME NEW r \in Starts, Timer(r) PROVE RemovalPending' \/ Unresolved(container)'
  <2>1. RemovalPending => RemovalPending'
    BY <1>6 DEF Timer, Once, RemovalPending
  <2>2. Unresolved(container) => Unresolved(container)'
    BY <1>2, <1>6 DEF Timer, Once, Unresolved
  <2>3. QED
    BY <1>1, <1>6, <2>1, <2>2 DEF Timer
<1>7. ASSUME NEW g \in Guards, GuardStep(g) PROVE RemovalPending' \/ Unresolved(container)'
  <2>1. CASE GuardStatus(g)
    BY <2>1 DEF GuardStatus, RemovalPending
  <2>2. CASE GuardMark(g)
    BY <2>2 DEF GuardMark, RemovalPending
  <2>3. CASE GuardClear(g)
    BY <2>3 DEF GuardClear, RemoveContainer
  <2>4. QED
    BY <1>7, <2>1, <2>2, <2>3 DEF GuardStep
<1>8. ASSUME NEW s \in Stops, Stop(s) \/ StopStep(s)
      PROVE  RemovalPending' \/ Unresolved(container)'
  BY <1>8 DEF Stop, StopStep, StopDel, StopClear, SetKey, RemoveContainer, RemovalPending
<1>9. CASE Die
  BY <1>9 DEF Die
<1>10. CASE Expire
  BY <1>10 DEF Expire, SetKey
<1>11. CASE ContainerExit \/ UNCHANGED vars
  BY <1>1, <1>11 DEF ContainerExit, RemovalPending, Unresolved, vars
<1>12. QED
  BY <1>3, <1>4, <1>5, <1>6, <1>7, <1>8, <1>9, <1>10, <1>11 DEF Next

\* The invariant is inductive.
LEMMA NextIInv == IInv /\ [Next]_vars => IInv'
  BY TypeStep, OnceStep, FlagStep, BuildingStep, TunnelStep DEF IInv

-----------------------------------------------------------------------------

\* The inductive invariant holds in every reachable state.
THEOREM Invariance == Spec => []IInv
  BY InitIInv, NextIInv, PTL DEF Spec

\* Every variable keeps its type; in particular only streams that are open
\* are killed.
THEOREM TypeCorrectness == Spec => []TypeOK
<1>1. IInv => TypeOK
  BY DEF IInv
<1>2. QED
  BY <1>1, Invariance, PTL

\* Whatever starts and stops overlap, `starting` never refuses a start of a
\* project for which none is under way.
THEOREM FlagSafety == Spec => []FlagHasStart
<1>1. IInv => FlagHasStart
  BY DEF IInv
<1>2. QED
  BY <1>1, Invariance, PTL

\* Short of a crash, "building" always has a start that will report.
THEOREM BuildingSafety == Spec => []BuildingBacked
<1>1. IInv => BuildingBacked
  BY DEF IInv
<1>2. QED
  BY <1>1, Invariance, PTL

\* Short of a crash, no container of a failed or unfinished start is forgotten.
THEOREM TunnelSafety == Spec => []NoAbandonedTunnel
<1>1. IInv => NoAbandonedTunnel
  BY DEF IInv
<1>2. QED
  BY <1>1, Invariance, PTL
-----------------------------------------------------------------------------
(* Nothing goes round in circles.                                           *)

\* The stations a call has ahead of it.
CallAhead(label) ==
    CASE label = "new" -> 7 [] label = "status" -> 6 [] label = "announce" -> 5
      [] label = "prepare" -> 4 [] label = "run" -> 3
      [] label \in {"failMark", "stopDel"} -> 2 [] label \in {"failClear", "stopClear"} -> 1
      [] label = "done" -> 0

\* Those of a handler, which waits as long as its start, its log stream or its
\* timer may still bring it on.
HandlerAhead(label, waits) ==
    CASE label = "status" -> 3 [] label = "mark" -> 2 [] label = "clear" -> 1
      [] label = "off" -> IF waits THEN 4 ELSE 0

CloseAhead(r) == HandlerAhead(gpc[<<"close", r>>], pc[r] # "done" \/ r \in streams)
TimerAhead(r) == HandlerAhead(gpc[<<"timer", r>>], pc[r] # "done" \/ r \in timers)

CallStep(c) ==
    \/ c \in Starts /\ (Start(c) \/ StartStep(c))
    \/ c \in Stops /\ (Stop(c) \/ StopStep(c))

CallOnward(c) ==
    /\ CallAhead(pc'[c]) <= CallAhead(pc[c])
    /\ CallStep(c) => CallAhead(pc'[c]) < CallAhead(pc[c])

HandlersOnward(r) ==
    /\ CloseAhead(r)' <= CloseAhead(r) /\ TimerAhead(r)' <= TimerAhead(r)
    /\ Close(r) \/ GuardStep(<<"close", r>>) => CloseAhead(r)' < CloseAhead(r)
    /\ Timer(r) \/ GuardStep(<<"timer", r>>) => TimerAhead(r)' < TimerAhead(r)

\* Every step of a call or of a handler leads on, and nothing that others do
\* leads back.
Onward == [][(\A c \in Calls : CallOnward(c)) /\ (\A r \in Starts : HandlersOnward(r))]_vars

CallPcs == {"new", "status", "announce", "prepare", "run", "failMark", "failClear",
            "stopDel", "stopClear", "done"}

\* The measures are numbers.
LEMMA AheadType ==
    /\ \A l \in CallPcs : CallAhead(l) \in 0 .. 7
    /\ \A l \in {"off", "status", "mark", "clear"}, w \in BOOLEAN : HandlerAhead(l, w) \in 0 .. 4
<1>1. \A l \in CallPcs : CallAhead(l) \in 0 .. 7
  BY DEF CallPcs, CallAhead
<1>2. \A l \in {"off", "status", "mark", "clear"}, w \in BOOLEAN : HandlerAhead(l, w) \in 0 .. 4
  BY DEF HandlerAhead
<1>3. QED
  BY <1>1, <1>2

\* A step of a call leads it on, and no other call.
LEMMA CallCloser ==
    ASSUME TypeOK, NEW c \in Calls, CallStep(c)
    PROVE  /\ CallAhead(pc'[c]) < CallAhead(pc[c])
           /\ \A d \in Calls \ {c} : pc'[d] = pc[d]
<1> USE DEF TypeOK, Goto, CallAhead
<1>1. CASE c \in Starts /\ (Start(c) \/ StartStep(c))
  <2>1. CASE Start(c) \/ StartStatus(c) \/ Announce(c) \/ Prepare(c)
    BY <2>1 DEF Start, StartStatus, Announce, Prepare
  <2>2. CASE Run(c) \/ Fail(c) \/ FailMark(c) \/ FailClear(c)
    BY <2>2 DEF Run, Fail, FailMark, FailClear
  <2>3. QED
    BY <1>1, <2>1, <2>2 DEF StartStep
<1>2. CASE c \in Stops /\ (Stop(c) \/ StopStep(c))
  BY <1>2 DEF Stop, StopStep, StopDel, StopClear
<1>3. QED
  BY <1>1, <1>2 DEF CallStep

\* No step leads a call back.
LEMMA CallKept ==
    ASSUME TypeOK, [Next]_vars, NEW c \in Calls
    PROVE  CallAhead(pc'[c]) <= CallAhead(pc[c])
<1>1. CallAhead(pc[c]) \in 0 .. 7
  BY AheadType DEF TypeOK, CallPcs
<1>2. CASE pc'[c] = pc[c]
  BY <1>1, <1>2
<1>3. ASSUME NEW d \in Calls, CallStep(d)
      PROVE  CallAhead(pc'[c]) <= CallAhead(pc[c])
  <2>1. CASE d = c
    <3>1. CallAhead(pc'[c]) < CallAhead(pc[c])
      BY <1>3, <2>1, CallCloser
    <3>2. pc'[c] \in CallPcs
      BY TypeStep DEF TypeOK, CallPcs
    <3>3. CallAhead(pc'[c]) \in 0 .. 7
      BY <3>2, AheadType
    <3>4. QED
      BY <1>1, <3>1, <3>3
  <2>2. CASE d # c
    BY <1>2, <1>3, <2>2, CallCloser
  <2>3. QED
    BY <2>1, <2>2
<1>4. CASE Die
  <2>1. CASE pc[c] = "new"
    BY <1>2, <1>4, <2>1 DEF Die
  <2>2. CASE pc[c] # "new"
    <3>1. pc'[c] = "done" /\ CallAhead("done") = 0
      BY <1>4, <2>2 DEF Die, CallAhead
    <3>2. QED
      BY <1>1, <3>1
  <2>3. QED
    BY <2>1, <2>2
<1>5. CASE \E r \in Starts : ResolveBegin(r) \/ ResolveStep(r) \/ Close(r) \/ Timer(r)
  BY <1>2, <1>5 DEF ResolveBegin, ResolveStep, ResolveFound, ResolveGiveUp, ResolveMark, Close, Timer
<1>6. CASE (\E g \in Guards : GuardStep(g)) \/ ContainerExit \/ Expire \/ UNCHANGED vars
  BY <1>2, <1>6 DEF GuardStep, GuardStatus, GuardMark, GuardClear, ContainerExit, Expire, vars
<1>7. QED
  BY <1>3, <1>4, <1>5, <1>6 DEF Next, CallStep

\* A handler is left alone, begins, moves on or ends.
Moves(label, next, waits, still) ==
    \/ next = label /\ (still => waits)
    \/ label = "off" /\ waits /\ next = "status"
    \/ label = "status" /\ next = "mark"
    \/ label = "mark" /\ next = "clear"
    \/ next = "off" /\ ~still

CloseMoves(r) ==
    Moves(gpc[<<"close", r>>], gpc'[<<"close", r>>],
          pc[r] # "done" \/ r \in streams, pc'[r] # "done" \/ r \in streams')
TimerMoves(r) ==
    Moves(gpc[<<"timer", r>>], gpc'[<<"timer", r>>],
          pc[r] # "done" \/ r \in timers, pc'[r] # "done" \/ r \in timers')

\* That is what every step does.
LEMMA HandlerMoves ==
    ASSUME TypeOK, Once, [Next]_vars, NEW r \in Starts
    PROVE  CloseMoves(r) /\ TimerMoves(r)
<1> USE DEF TypeOK, Once, Goto, CloseMoves, TimerMoves, Moves
<1>1. ASSUME NEW q \in Starts, Start(q) \/ StartStep(q)
      PROVE  CloseMoves(r) /\ TimerMoves(r)
  <2>1. CASE Start(q) \/ StartStatus(q) \/ Announce(q) \/ Prepare(q)
    BY <2>1 DEF Start, StartStatus, Announce, Prepare
  <2>2. CASE Run(q)
    BY <2>2 DEF Run
  <2>3. CASE Fail(q) \/ FailMark(q) \/ FailClear(q)
    BY <2>3 DEF Fail, FailMark, FailClear
  <2>4. QED
    BY <1>1, <2>1, <2>2, <2>3 DEF StartStep
<1>2. ASSUME NEW q \in Starts, ResolveBegin(q) \/ ResolveStep(q)
      PROVE  CloseMoves(r) /\ TimerMoves(r)
  BY <1>2 DEF ResolveBegin, ResolveStep, ResolveFound, ResolveGiveUp, ResolveMark
<1>3. ASSUME NEW q \in Starts, Close(q)
      PROVE  CloseMoves(r) /\ TimerMoves(r)
  BY <1>3 DEF Close
<1>4. ASSUME NEW q \in Starts, Timer(q)
      PROVE  CloseMoves(r) /\ TimerMoves(r)
  BY <1>4 DEF Timer
<1>5. ASSUME NEW g \in Guards, GuardStep(g)
      PROVE  CloseMoves(r) /\ TimerMoves(r)
  BY <1>5 DEF GuardStep, GuardStatus, GuardMark, GuardClear
<1>6. ASSUME NEW s \in Stops, Stop(s) \/ StopStep(s)
      PROVE  CloseMoves(r) /\ TimerMoves(r)
  BY <1>6 DEF Stop, StopStep, StopDel, StopClear
<1>7. CASE Die
  BY <1>7 DEF Die
<1>8. CASE ContainerExit \/ Expire \/ UNCHANGED vars
  BY <1>8 DEF ContainerExit, Expire, vars
<1>9. QED
  BY <1>1, <1>2, <1>3, <1>4, <1>5, <1>6, <1>7, <1>8 DEF Next

\* Whoever moves has less ahead.
LEMMA MovesOn ==
    ASSUME NEW label \in {"off", "status", "mark", "clear"}, NEW next, NEW waits \in BOOLEAN,
           NEW still \in BOOLEAN, Moves(label, next, waits, still)
    PROVE  /\ HandlerAhead(next, still) <= HandlerAhead(label, waits)
           /\ next # label \/ (waits /\ ~still /\ next = "off") =>
                 HandlerAhead(next, still) < HandlerAhead(label, waits)
<1>1. \A w \in BOOLEAN : /\ HandlerAhead("status", w) = 3 /\ HandlerAhead("mark", w) = 2
                         /\ HandlerAhead("clear", w) = 1
                         /\ HandlerAhead("off", w) = IF w THEN 4 ELSE 0
  BY DEF HandlerAhead
<1>2. CASE next = label
  BY <1>1, <1>2 DEF Moves
<1>3. CASE next # label
  BY <1>1, <1>3 DEF Moves
<1>4. QED
  BY <1>2, <1>3

\* The handlers of one start.
LEMMA HandlersStep ==
    ASSUME TypeOK, Once, [Next]_vars, NEW r \in Starts
    PROVE  HandlersOnward(r)
<1> DEFINE cw == pc[r] # "done" \/ r \in streams
           cs == pc'[r] # "done" \/ r \in streams'
           tw == pc[r] # "done" \/ r \in timers
           ts == pc'[r] # "done" \/ r \in timers'
<1>1. cw \in BOOLEAN /\ cs \in BOOLEAN /\ tw \in BOOLEAN /\ ts \in BOOLEAN
  BY Zenon
<1>2. /\ gpc[<<"close", r>>] \in {"off", "status", "mark", "clear"}
      /\ gpc[<<"timer", r>>] \in {"off", "status", "mark", "clear"}
  BY DEF TypeOK
<1>3. /\ HandlerAhead(gpc'[<<"close", r>>], cs) <= HandlerAhead(gpc[<<"close", r>>], cw)
      /\ gpc'[<<"close", r>>] # gpc[<<"close", r>>] \/ (cw /\ ~cs /\ gpc'[<<"close", r>>] = "off") =>
            HandlerAhead(gpc'[<<"close", r>>], cs) < HandlerAhead(gpc[<<"close", r>>], cw)
  <2>1. Moves(gpc[<<"close", r>>], gpc'[<<"close", r>>], cw, cs)
    BY HandlerMoves DEF CloseMoves
  <2>2. QED
    BY <1>1, <1>2, <2>1, MovesOn
<1>4. /\ HandlerAhead(gpc'[<<"timer", r>>], ts) <= HandlerAhead(gpc[<<"timer", r>>], tw)
      /\ gpc'[<<"timer", r>>] # gpc[<<"timer", r>>] \/ (tw /\ ~ts /\ gpc'[<<"timer", r>>] = "off") =>
            HandlerAhead(gpc'[<<"timer", r>>], ts) < HandlerAhead(gpc[<<"timer", r>>], tw)
  <2>1. Moves(gpc[<<"timer", r>>], gpc'[<<"timer", r>>], tw, ts)
    BY HandlerMoves DEF TimerMoves
  <2>2. QED
    BY <1>1, <1>2, <2>1, MovesOn
<1>5. /\ CloseAhead(r) = HandlerAhead(gpc[<<"close", r>>], cw)
      /\ CloseAhead(r)' = HandlerAhead(gpc'[<<"close", r>>], cs)
      /\ TimerAhead(r) = HandlerAhead(gpc[<<"timer", r>>], tw)
      /\ TimerAhead(r)' = HandlerAhead(gpc'[<<"timer", r>>], ts)
  BY DEF CloseAhead, TimerAhead
<1>6. \A g \in Guards : GuardStep(g) => gpc'[g] # gpc[g]
  BY DEF TypeOK, GuardStep, GuardStatus, GuardMark, GuardClear
<1>7. Close(r) => gpc'[<<"close", r>>] # gpc[<<"close", r>>] \/ (cw /\ ~cs /\ gpc'[<<"close", r>>] = "off")
  BY DEF TypeOK, Once, Close
<1>8. Timer(r) => gpc'[<<"timer", r>>] # gpc[<<"timer", r>>] \/ (tw /\ ~ts /\ gpc'[<<"timer", r>>] = "off")
  BY DEF TypeOK, Once, Timer
<1> HIDE DEF cw, cs, tw, ts
<1>9. QED
  BY <1>3, <1>4, <1>5, <1>6, <1>7, <1>8 DEF HandlersOnward

\* For any number of starts, stops and crashes: every call goes through at most
\* seven stations, and the two handlers that every start leaves behind are begun
\* at most once and go through three.
THEOREM HandlerProgress == Spec => Onward
<1>1. IInv /\ [Next]_vars =>
        [(\A c \in Calls : CallOnward(c)) /\ (\A r \in Starts : HandlersOnward(r))]_vars
  BY CallKept, CallCloser, HandlersStep DEF CallOnward, IInv
<1>2. QED
  BY <1>1, Invariance, PTL DEF Spec, Onward
=============================================================================
