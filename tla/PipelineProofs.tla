---------------------------- MODULE PipelineProofs -----------------------------
(***************************************************************************)
(* Proofs about Pipeline, for any number of tasks and paths and any change *)
(* lists.                                                                  *)
(***************************************************************************)
EXTENDS Pipeline, TLAPS

Applying == {"apply", "write", "version", "erase", "complete", "lookup", "post"}

\* The rows of the agents follow the one whose turn it is.
StepsOK ==
    \A t \in Tasks :
        /\ \A k \in Agents : /\ k < agent[t] => steps[t][k] = "COMPLETED"
                             /\ k > agent[t] => steps[t][k] = None
        /\ pc[t] \in {"new", "check", "status", "step", "cancel", "skip"} =>
              steps[t][agent[t]] = None
        /\ pc[t] \in {"agent", "finish"} => steps[t][agent[t]] = "RUNNING"
        /\ pc[t] \in Applying \/ touched[t] \/ status[t] = "COMPLETED" =>
              agent[t] = 3 /\ steps[t][3] = "COMPLETED"

\* A task's row says where its end was reached.
StatusOK ==
    \A t \in Tasks :
        /\ pc[t] = "done" => status[t] \in Terminal
        /\ pc[t] = "skip" => status[t] = "CANCELLED"
        /\ pc[t] \in {"lookup", "post"} => status[t] = "COMPLETED"
        /\ status[t] = "FAILED" => pc[t] = "done"
        /\ status[t] = "CANCELLED" =>
              /\ pc[t] \in {"skip", "done", "rejected", "dead"}
              /\ steps[t][agent[t]] = None
        /\ status[t] = "COMPLETED" =>
              pc[t] \in {"lookup", "post", "fail", "done", "rejected", "dead"}

\* A cancellation that is due is seen by a check to come, or was seen.
DueOK ==
    \A t \in Tasks : due[t] =>
        /\ steps[t][3] # "COMPLETED"
        /\ \/ flag[t] /\ BeforeLastCheck(t)
           \/ pc[t] \in {"cancel", "skip", "fail", "done", "rejected", "dead"}

MessagesOK ==
    \A t \in Tasks :
        /\ t \in messages => status[t] = "COMPLETED" /\ pc[t] = "done"
        /\ status[t] = "COMPLETED" /\ pc[t] = "done" /\ conversation => t \in messages

\* Whoever has a row in hand has a change to make with it.
TodoOK ==
    \A t \in Tasks : pc[t] \in {"write", "version", "erase"} => todo[t] # <<>>

\* The inductive invariant.
IInv == TypeOK /\ StepsOK /\ StatusOK /\ DueOK /\ MessagesOK /\ TodoOK /\ Attributed

USE PipelineConstants
USE DEF rowVars, chatVars, fileVars, cancelVars, Agents

\* An agent that runs is not at the end of its task.
LEMMA RunningStatus ==
  \A k \in Agents : Running[k] \in {"PLANNING", "DEVELOPING", "REFACTORING"}
BY DEF Running

\* What skipping makes of the steps of a task.
LEMMA SkipFacts ==
  ASSUME TypeOK, NEW t \in Tasks,
         steps' = [steps EXCEPT ![t] = [k \in Agents |->
                      IF @[k] = "RUNNING" THEN "SKIPPED" ELSE @[k]]]
  PROVE  /\ steps' \in [Tasks -> [Agents -> StepStatuses]]
         /\ \A u \in Tasks : u # t => steps'[u] = steps[u]
         /\ \A k \in Agents :
               steps'[t][k] = IF steps[t][k] = "RUNNING" THEN "SKIPPED" ELSE steps[t][k]
<1>1. steps \in [Tasks -> [Agents -> StepStatuses]]
  BY DEF TypeOK
<1> DEFINE new == [k \in Agents |-> IF steps[t][k] = "RUNNING" THEN "SKIPPED" ELSE steps[t][k]]
<1>2. new \in [Agents -> StepStatuses]
  BY <1>1 DEF StepStatuses
<1>3. steps' = [steps EXCEPT ![t] = new]
  OBVIOUS
<1>4. \A k \in Agents : new[k] = IF steps[t][k] = "RUNNING" THEN "SKIPPED" ELSE steps[t][k]
  OBVIOUS
<1> HIDE DEF new
<1>5. QED
  BY <1>1, <1>2, <1>3, <1>4

\* The same for the step of the agent whose turn it is.
LEMMA StepFacts ==
  ASSUME TypeOK, NEW t \in Tasks, NEW s \in StepStatuses, SetStep(t, s)
  PROVE  /\ steps' \in [Tasks -> [Agents -> StepStatuses]]
         /\ \A u \in Tasks : u # t => steps'[u] = steps[u]
         /\ \A k \in Agents : steps'[t][k] = IF k = agent[t] THEN s ELSE steps[t][k]
BY DEF TypeOK, SetStep

\* An agent that is not the last passes the turn on.
LEMMA FinishFacts ==
  ASSUME TypeOK, NEW t \in Tasks, agent[t] # 3, FinishStep(t)
  PROVE  /\ SetStep(t, "COMPLETED") /\ Goto(t, "check")
         /\ agent' = [agent EXCEPT ![t] = @ + 1]
         /\ agent' \in [Tasks -> Agents]
         /\ UNCHANGED <<status, flag, due, conversation, messages, files, versions, held,
                        touched, todo>>
<1>1. /\ SetStep(t, "COMPLETED") /\ Goto(t, "check")
      /\ agent' = [agent EXCEPT ![t] = @ + 1]
      /\ UNCHANGED <<status, flag, due, conversation, messages, files, versions, held,
                     touched, todo>>
  BY SMT DEF FinishStep
<1>2. agent \in [Tasks -> 1 .. 3]
  BY DEF TypeOK
<1>3. agent[t] + 1 \in 1 .. 3
  BY <1>2
<1>4. agent' \in [Tasks -> 1 .. 3]
  BY <1>1, <1>2, <1>3
<1>5. QED
  BY <1>1, <1>4

\* The first change is to one of the paths.
LEMMA TodoFacts ==
  ASSUME TypeOK, NEW t \in Tasks, todo[t] # <<>>
  PROVE  Path(t) \in Paths /\ Tail(todo[t]) \in Seq(Change)
<1>1. todo[t] \in Seq(Change)
  BY DEF TypeOK
<1>2. Head(todo[t]) \in Change /\ Tail(todo[t]) \in Seq(Change)
  BY <1>1
<1>3. QED
  BY <1>2 DEF Change, Path

\* A request is due where a check is to come, and no last step is completed then.
LEMMA RequestFacts ==
  ASSUME TypeOK, StepsOK, NEW t \in Tasks, RequestCancellation(t)
  PROVE  /\ \A u \in Tasks : due'[u] => due[u] \/ (u = t /\ BeforeLastCheck(t))
         /\ BeforeLastCheck(t) => steps[t][3] = None
<1> DEFINE new == due[t] \/ BeforeLastCheck(t)
<1>1. due' = [due EXCEPT ![t] = new]
  BY Zenon DEF RequestCancellation
<1>2. due \in [Tasks -> BOOLEAN]
  BY DEF TypeOK
<1>3. \A u \in Tasks : due'[u] = IF u = t THEN new ELSE due[u]
  <2> HIDE DEF new
  <2>1. QED
    BY <1>1, <1>2, Zenon
<1>4. \A u \in Tasks : due'[u] => due[u] \/ (u = t /\ BeforeLastCheck(t))
  BY <1>3, Zenon
<1>5. agent[t] \in 1 .. 3
  BY DEF TypeOK
<1>6. ASSUME agent[t] = 3, BeforeLastCheck(t) PROVE steps[t][3] = None
  BY <1>6 DEF StepsOK, BeforeLastCheck
<1>7. ASSUME agent[t] < 3 PROVE steps[t][3] = None
  BY <1>7 DEF StepsOK
<1>8. BeforeLastCheck(t) => steps[t][3] = None
  BY <1>5, <1>6, <1>7 DEF BeforeLastCheck
<1>9. QED
  BY <1>4, <1>8, Zenon

\* No task has begun at first.
LEMMA InitIInv == Init => IInv
<1> SUFFICES ASSUME Init
             PROVE  IInv
  OBVIOUS
<1>1. TypeOK
  BY DEF Init, TypeOK, Statuses, StepStatuses, Labels, Terminal
<1>2. StepsOK /\ StatusOK /\ DueOK /\ MessagesOK /\ TodoOK
  BY DEF Init, StepsOK, StatusOK, DueOK, MessagesOK, TodoOK, Applying, Terminal
<1>3. Attributed
  BY DEF Init, Attributed
<1>4. QED
  BY <1>1, <1>2, <1>3 DEF IInv

-----------------------------------------------------------------------------
(* One lemma per conjunct, one step per action.                             *)

\* Every step keeps every variable's type.
LEMMA TypeStep == TypeOK /\ TodoOK /\ [Next]_vars => TypeOK'
<1> SUFFICES ASSUME TypeOK, TodoOK, [Next]_vars
             PROVE  TypeOK'
  OBVIOUS
<1> USE DEF TypeOK, Goto, SetStatus, SetStep, Next1, DeleteRow, Labels, Try, Terminal, Statuses, StepStatuses
<1>1. ASSUME NEW t \in Tasks, AgentStep(t) PROVE TypeOK'
  <2>1. CASE Check(t)
    BY <2>1 DEF Check
  <2>2. CASE UpdateTaskStatus(t)
    <3>1. PICK s \in {"PLANNING", "DEVELOPING", "REFACTORING"} : SetStatus(t, s)
      BY <2>2, RunningStatus DEF UpdateTaskStatus, TypeOK
    <3>2. QED
      BY <2>2, <3>1 DEF UpdateTaskStatus
  <2>3. CASE CreateStep(t)
    BY <2>3 DEF CreateStep
  <2>4. CASE RunAgent(t)
    <3>1. PICK c \in Outputs \cup {todo[t]} : todo' = [todo EXCEPT ![t] = c]
      BY <2>4 DEF RunAgent
    <3>2. c \in Seq(Change)
      OBVIOUS
    <3>3. QED
      BY <2>4, <3>1, <3>2 DEF RunAgent
  <2>5. CASE FinishStep(t)
    <3>1. CASE agent[t] = 3
      BY <2>5, <3>1 DEF FinishStep
    <3>2. CASE agent[t] # 3
      <4>1. /\ SetStep(t, "COMPLETED") /\ Goto(t, "check") /\ agent' \in [Tasks -> Agents]
            /\ UNCHANGED <<status, flag, due, conversation, messages, files, versions, held,
                           touched, todo>>
        BY <2>5, <3>2, FinishFacts
      <4>3. steps' \in [Tasks -> [Agents -> StepStatuses]]
        BY <4>1, StepFacts
      <4>4. pc' \in [Tasks -> Labels]
        BY <4>1
      <4>5. QED
        BY <4>1, <4>3, <4>4, Zenon
    <3>3. QED
      BY <3>1, <3>2
  <2>6. QED
    BY <1>1, <2>1, <2>2, <2>3, <2>4, <2>5 DEF AgentStep
<1>2. ASSUME NEW t \in Tasks, ApplyStep(t) PROVE TypeOK'
  <2>1. CASE InsertFile(t)
    BY <2>1 DEF InsertFile, Path
  <2>2. CASE FindFile(t)
    <3>1. pc[t] = "apply" /\ todo[t] # <<>>
      BY <2>2 DEF FindFile
    <3>2. Tail(todo[t]) \in Seq(Change)
      BY <3>1 DEF TodoOK
    <3>3. CASE files[Path(t)] = None
      <4>1. Next1(t) /\ UNCHANGED <<rowVars, cancelVars, chatVars, fileVars, pc, agent>>
        BY <2>2, <3>3, Zenon DEF FindFile
      <4>2. QED
        BY <3>2, <4>1
    <3>4. CASE files[Path(t)] # None
      <4>1. PICK l \in {"write", "erase"} : Goto(t, l)
        BY <2>2, <3>4 DEF FindFile
      <4>2. /\ held' = [held EXCEPT ![t] = TRUE]
            /\ UNCHANGED <<rowVars, cancelVars, chatVars, files, versions, touched, agent, todo>>
        BY <2>2, <3>4, Zenon DEF FindFile
      <4>3. QED
        BY <4>1, <4>2
    <3>5. QED
      BY <3>3, <3>4
  <2>3. CASE UpdateFile(t)
    BY <2>3 DEF UpdateFile, Path, Change
  <2>4. CASE CreateVersion(t)
    <3>1. pc[t] = "version" /\ todo[t] # <<>>
      BY <2>4 DEF CreateVersion, TodoOK
    <3>2. Tail(todo[t]) \in Seq(Change) /\ Path(t) \in Paths
      BY <3>1, TodoFacts
    <3>3. versions' \subseteq [path : Paths, task : Tasks]
      BY <2>4, <3>2 DEF CreateVersion
    <3>4. todo' \in [Tasks -> Seq(Change)]
      BY <2>4, <3>2 DEF CreateVersion
    <3>5. held' \in [Tasks -> BOOLEAN] /\ pc' \in [Tasks -> Labels]
      BY <2>4 DEF CreateVersion
    <3>6. UNCHANGED <<status, steps, flag, due, conversation, messages, files, touched, agent>>
      BY <2>4, Zenon DEF CreateVersion
    <3>7. QED
      BY <3>3, <3>4, <3>5, <3>6, Zenon
  <2>5. CASE DeleteFile(t)
    <3>1. pc[t] = "erase" /\ todo[t] # <<>>
      BY <2>5 DEF DeleteFile, TodoOK
    <3>2. Tail(todo[t]) \in Seq(Change)
      BY <3>1 DEF TodoOK
    <3>3. QED
      BY <2>5, <3>1, <3>2 DEF DeleteFile, Path
  <2>6. QED
    BY <1>2, <2>1, <2>2, <2>3, <2>4, <2>5 DEF ApplyStep
<1>3. ASSUME NEW t \in Tasks, EndStep(t) PROVE TypeOK'
  <2>1. CASE SyncToPreview(t)
    BY <2>1 DEF SyncToPreview
  <2>2. CASE Complete(t)
    BY <2>2 DEF Complete
  <2>3. CASE Lookup(t)
    BY <2>3 DEF Lookup
  <2>4. CASE PostSummary(t)
    BY <2>4 DEF PostSummary
  <2>5. CASE CancelTask(t)
    BY <2>5 DEF CancelTask
  <2>6. CASE SkipSteps(t)
    <3>1. UNCHANGED steps \/ steps' = [steps EXCEPT ![t] = [k \in Agents |->
                                IF @[k] = "RUNNING" THEN "SKIPPED" ELSE @[k]]]
      BY <2>6 DEF SkipSteps
    <3>2. CASE UNCHANGED steps
      BY <2>6, <3>2 DEF SkipSteps
    <3>3. CASE steps' = [steps EXCEPT ![t] = [k \in Agents |->
                            IF @[k] = "RUNNING" THEN "SKIPPED" ELSE @[k]]]
      <4>1. UNCHANGED <<status, agent, conversation, messages, flag, due, files, versions, touched, held, todo>>
            /\ pc[t] = "skip" /\ \E l \in {"done", "rejected"} : pc' = [pc EXCEPT ![t] = l]
        BY <2>6, Zenon DEF SkipSteps
      <4>2. QED
        BY <3>3, <4>1, SkipFacts
    <3>4. QED
      BY <3>1, <3>2, <3>3
  <2>7. CASE Throw(t)
    BY <2>7 DEF Throw, Try
  <2>8. CASE FailTask(t)
    BY <2>8 DEF FailTask
  <2>9. QED
    BY <1>3, <2>1, <2>2, <2>3, <2>4, <2>5, <2>6, <2>7, <2>8 DEF EndStep
<1>4. ASSUME NEW t \in Tasks, Create(t) PROVE TypeOK'
  BY <1>4 DEF Create
<1>5. ASSUME NEW t \in Tasks, RequestCancellation(t) PROVE TypeOK'
  BY <1>5 DEF RequestCancellation
<1>6. ASSUME NEW t \in Tasks, Expire(t) PROVE TypeOK'
  BY <1>6 DEF Expire
<1>7. ASSUME NEW p \in Paths, UserWrites(p) PROVE TypeOK'
  BY <1>7 DEF UserWrites
<1>8. ASSUME NEW p \in Paths, UserDeletes(p) PROVE TypeOK'
  BY <1>8 DEF UserDeletes
<1>9. CASE RemoveConversation
  BY <1>9 DEF RemoveConversation
<1>10. CASE Crash
  BY <1>10 DEF Crash, Over
<1>11. CASE UNCHANGED vars
  BY <1>11 DEF vars
<1>12. QED
  BY <1>1, <1>2, <1>3, <1>4, <1>5, <1>6, <1>7, <1>8, <1>9, <1>10, <1>11 DEF Next, TaskStep

\* The agents take their turns in order.
LEMMA StepsStep == TypeOK /\ StepsOK /\ StatusOK /\ [Next]_vars => StepsOK'
<1> SUFFICES ASSUME TypeOK, StepsOK, StatusOK, [Next]_vars
             PROVE  StepsOK'
  OBVIOUS
<1> USE DEF TypeOK, StepsOK, StatusOK, Applying, Goto, SetStatus, SetStep, Next1, DeleteRow
<1>1. ASSUME NEW t \in Tasks, AgentStep(t) PROVE StepsOK'
  <2>1. CASE Check(t)
    BY <2>1 DEF Check
  <2>2. CASE UpdateTaskStatus(t)
    <3>1. PICK s \in {"PLANNING", "DEVELOPING", "REFACTORING"} : SetStatus(t, s)
      BY <2>2, RunningStatus, ZenonT(40) DEF UpdateTaskStatus, TypeOK
    <3>2. QED
      BY <2>2, <3>1 DEF UpdateTaskStatus
  <2>3. CASE CreateStep(t)
    BY <2>3 DEF CreateStep
  <2>4. CASE RunAgent(t)
    BY <2>4 DEF RunAgent
  <2>5. CASE FinishStep(t)
    BY <2>5 DEF FinishStep
  <2>6. QED
    BY <1>1, <2>1, <2>2, <2>3, <2>4, <2>5 DEF AgentStep
<1>2. ASSUME NEW t \in Tasks, ApplyStep(t) PROVE StepsOK'
  <2>1. CASE InsertFile(t)
    BY <2>1 DEF InsertFile
  <2>2. CASE FindFile(t)
    BY <2>2 DEF FindFile
  <2>3. CASE UpdateFile(t)
    BY <2>3 DEF UpdateFile
  <2>4. CASE CreateVersion(t)
    BY <2>4 DEF CreateVersion
  <2>5. CASE DeleteFile(t)
    BY <2>5 DEF DeleteFile
  <2>6. QED
    BY <1>2, <2>1, <2>2, <2>3, <2>4, <2>5 DEF ApplyStep
<1>3. ASSUME NEW t \in Tasks, EndStep(t) PROVE StepsOK'
  <2>1. CASE SyncToPreview(t)
    BY <2>1 DEF SyncToPreview
  <2>2. CASE Complete(t)
    BY <2>2 DEF Complete
  <2>3. CASE Lookup(t)
    BY <2>3 DEF Lookup
  <2>4. CASE PostSummary(t)
    BY <2>4 DEF PostSummary
  <2>5. CASE CancelTask(t)
    BY <2>5 DEF CancelTask
  <2>6. CASE SkipSteps(t)
    <3>1. UNCHANGED steps \/ steps' = [steps EXCEPT ![t] = [k \in Agents |->
                                IF @[k] = "RUNNING" THEN "SKIPPED" ELSE @[k]]]
      BY <2>6 DEF SkipSteps
    <3>2. CASE UNCHANGED steps
      BY <2>6, <3>2 DEF SkipSteps
    <3>3. CASE steps' = [steps EXCEPT ![t] = [k \in Agents |->
                            IF @[k] = "RUNNING" THEN "SKIPPED" ELSE @[k]]]
      <4>1. UNCHANGED <<status, agent, conversation, messages, flag, due, files, versions, touched, held, todo>>
            /\ pc[t] = "skip" /\ \E l \in {"done", "rejected"} : pc' = [pc EXCEPT ![t] = l]
        BY <2>6, Zenon DEF SkipSteps
      <4>2. QED
        BY <3>3, <4>1, SkipFacts
    <3>4. QED
      BY <3>1, <3>2, <3>3
  <2>7. CASE Throw(t)
    BY <2>7 DEF Throw, Try
  <2>8. CASE FailTask(t)
    BY <2>8 DEF FailTask
  <2>9. QED
    BY <1>3, <2>1, <2>2, <2>3, <2>4, <2>5, <2>6, <2>7, <2>8 DEF EndStep
<1>4. ASSUME NEW t \in Tasks, Create(t) PROVE StepsOK'
  BY <1>4 DEF Create
<1>5. ASSUME NEW t \in Tasks, RequestCancellation(t) PROVE StepsOK'
  BY <1>5 DEF RequestCancellation
<1>6. ASSUME NEW t \in Tasks, Expire(t) PROVE StepsOK'
  BY <1>6 DEF Expire
<1>7. ASSUME NEW p \in Paths, UserWrites(p) PROVE StepsOK'
  BY <1>7 DEF UserWrites
<1>8. ASSUME NEW p \in Paths, UserDeletes(p) PROVE StepsOK'
  BY <1>8 DEF UserDeletes
<1>9. CASE RemoveConversation
  BY <1>9 DEF RemoveConversation
<1>10. CASE Crash
  BY <1>10 DEF Crash, Over
<1>11. CASE UNCHANGED vars
  BY <1>11 DEF vars
<1>12. QED
  BY <1>1, <1>2, <1>3, <1>4, <1>5, <1>6, <1>7, <1>8, <1>9, <1>10, <1>11 DEF Next, TaskStep

\* The end that is reached is the one that is stored.
LEMMA StatusStep == TypeOK /\ StepsOK /\ StatusOK /\ [Next]_vars => StatusOK'
<1> SUFFICES ASSUME TypeOK, StepsOK, StatusOK, [Next]_vars
             PROVE  StatusOK'
  OBVIOUS
<1> USE DEF TypeOK, StepsOK, StatusOK, Terminal, Goto, SetStatus, SetStep, Next1, DeleteRow
<1>1. ASSUME NEW t \in Tasks, AgentStep(t) PROVE StatusOK'
  <2>1. CASE Check(t)
    BY <2>1 DEF Check
  <2>2. CASE UpdateTaskStatus(t)
    <3>1. PICK s \in {"PLANNING", "DEVELOPING", "REFACTORING"} : SetStatus(t, s)
      BY <2>2, RunningStatus, ZenonT(40) DEF UpdateTaskStatus, TypeOK
    <3>2. QED
      BY <2>2, <3>1 DEF UpdateTaskStatus
  <2>3. CASE CreateStep(t)
    BY <2>3 DEF CreateStep
  <2>4. CASE RunAgent(t)
    BY <2>4 DEF RunAgent
  <2>5. CASE FinishStep(t)
    BY <2>5 DEF FinishStep
  <2>6. QED
    BY <1>1, <2>1, <2>2, <2>3, <2>4, <2>5 DEF AgentStep
<1>2. ASSUME NEW t \in Tasks, ApplyStep(t) PROVE StatusOK'
  <2>1. CASE InsertFile(t)
    BY <2>1 DEF InsertFile
  <2>2. CASE FindFile(t)
    BY <2>2 DEF FindFile
  <2>3. CASE UpdateFile(t)
    BY <2>3 DEF UpdateFile
  <2>4. CASE CreateVersion(t)
    BY <2>4 DEF CreateVersion
  <2>5. CASE DeleteFile(t)
    BY <2>5 DEF DeleteFile
  <2>6. QED
    BY <1>2, <2>1, <2>2, <2>3, <2>4, <2>5 DEF ApplyStep
<1>3. ASSUME NEW t \in Tasks, EndStep(t) PROVE StatusOK'
  <2>1. CASE SyncToPreview(t)
    BY <2>1 DEF SyncToPreview
  <2>2. CASE Complete(t)
    BY <2>2 DEF Complete
  <2>3. CASE Lookup(t)
    BY <2>3 DEF Lookup
  <2>4. CASE PostSummary(t)
    BY <2>4 DEF PostSummary
  <2>5. CASE CancelTask(t)
    <3>1. CASE SetStatus(t, "CANCELLED") /\ Goto(t, "skip")
      BY <2>5, <3>1 DEF CancelTask
    <3>2. CASE UNCHANGED status /\ Goto(t, "rejected")
      BY <2>5, <3>2 DEF CancelTask
    <3>3. QED
      BY <2>5, <3>1, <3>2, Zenon DEF CancelTask
  <2>6. CASE SkipSteps(t)
    <3>1. UNCHANGED steps \/ steps' = [steps EXCEPT ![t] = [k \in Agents |->
                                IF @[k] = "RUNNING" THEN "SKIPPED" ELSE @[k]]]
      BY <2>6 DEF SkipSteps
    <3>2. CASE UNCHANGED steps
      BY <2>6, <3>2 DEF SkipSteps
    <3>3. CASE steps' = [steps EXCEPT ![t] = [k \in Agents |->
                            IF @[k] = "RUNNING" THEN "SKIPPED" ELSE @[k]]]
      <4>1. UNCHANGED <<status, agent, conversation, messages, flag, due, files, versions, touched, held, todo>>
            /\ pc[t] = "skip" /\ \E l \in {"done", "rejected"} : pc' = [pc EXCEPT ![t] = l]
        BY <2>6, Zenon DEF SkipSteps
      <4>2. QED
        BY <3>3, <4>1, SkipFacts
    <3>4. QED
      BY <3>1, <3>2, <3>3
  <2>7. CASE Throw(t)
    BY <2>7 DEF Throw, Try
  <2>8. CASE FailTask(t)
    <3>1. CASE SetStatus(t, "FAILED") /\ Goto(t, "done")
      BY <2>8, <3>1 DEF FailTask
    <3>2. CASE UNCHANGED status /\ Goto(t, "rejected")
      BY <2>8, <3>2 DEF FailTask
    <3>3. QED
      BY <2>8, <3>1, <3>2, Zenon DEF FailTask
  <2>9. QED
    BY <1>3, <2>1, <2>2, <2>3, <2>4, <2>5, <2>6, <2>7, <2>8 DEF EndStep
<1>4. ASSUME NEW t \in Tasks, Create(t) PROVE StatusOK'
    <3>1. CASE SetStatus(t, "PENDING") /\ Goto(t, "check")
    BY <1>4, <3>1 DEF Create
  <3>2. CASE UNCHANGED status /\ Goto(t, "rejected")
    BY <1>4, <3>2 DEF Create
  <3>3. QED
    BY <1>4, <3>1, <3>2, Zenon DEF Create
<1>5. ASSUME NEW t \in Tasks, RequestCancellation(t) PROVE StatusOK'
  BY <1>5 DEF RequestCancellation
<1>6. ASSUME NEW t \in Tasks, Expire(t) PROVE StatusOK'
  BY <1>6 DEF Expire
<1>7. ASSUME NEW p \in Paths, UserWrites(p) PROVE StatusOK'
  BY <1>7 DEF UserWrites
<1>8. ASSUME NEW p \in Paths, UserDeletes(p) PROVE StatusOK'
  BY <1>8 DEF UserDeletes
<1>9. CASE RemoveConversation
  BY <1>9 DEF RemoveConversation
<1>10. CASE Crash
  BY <1>10 DEF Crash, Over
<1>11. CASE UNCHANGED vars
  BY <1>11 DEF vars
<1>12. QED
  BY <1>1, <1>2, <1>3, <1>4, <1>5, <1>6, <1>7, <1>8, <1>9, <1>10, <1>11 DEF Next, TaskStep

\* A cancellation that is due meets a check before the agents are through.
LEMMA DueStep == TypeOK /\ StepsOK /\ DueOK /\ [Next]_vars => DueOK'
<1> SUFFICES ASSUME TypeOK, StepsOK, DueOK, [Next]_vars
             PROVE  DueOK'
  OBVIOUS
<1> USE DEF TypeOK, StepsOK, DueOK, BeforeLastCheck, Goto, SetStatus, SetStep, Next1, DeleteRow
<1>1. ASSUME NEW t \in Tasks, AgentStep(t) PROVE DueOK'
  <2>1. CASE Check(t)
    BY <2>1 DEF Check
  <2>2. CASE UpdateTaskStatus(t)
    BY <2>2 DEF UpdateTaskStatus
  <2>3. CASE CreateStep(t)
    BY <2>3 DEF CreateStep
  <2>4. CASE RunAgent(t)
    BY <2>4 DEF RunAgent
  <2>5. CASE FinishStep(t)
    BY <2>5 DEF FinishStep
  <2>6. QED
    BY <1>1, <2>1, <2>2, <2>3, <2>4, <2>5 DEF AgentStep
<1>2. ASSUME NEW t \in Tasks, ApplyStep(t) PROVE DueOK'
  <2>1. CASE InsertFile(t)
    BY <2>1 DEF InsertFile
  <2>2. CASE FindFile(t)
    BY <2>2 DEF FindFile
  <2>3. CASE UpdateFile(t)
    BY <2>3 DEF UpdateFile
  <2>4. CASE CreateVersion(t)
    BY <2>4 DEF CreateVersion
  <2>5. CASE DeleteFile(t)
    BY <2>5 DEF DeleteFile
  <2>6. QED
    BY <1>2, <2>1, <2>2, <2>3, <2>4, <2>5 DEF ApplyStep
<1>3. ASSUME NEW t \in Tasks, EndStep(t) PROVE DueOK'
  <2>1. CASE SyncToPreview(t)
    BY <2>1 DEF SyncToPreview
  <2>2. CASE Complete(t)
    BY <2>2 DEF Complete
  <2>3. CASE Lookup(t)
    BY <2>3 DEF Lookup
  <2>4. CASE PostSummary(t)
    BY <2>4 DEF PostSummary
  <2>5. CASE CancelTask(t)
    <3>1. CASE SetStatus(t, "CANCELLED") /\ Goto(t, "skip")
      BY <2>5, <3>1 DEF CancelTask
    <3>2. CASE UNCHANGED status /\ Goto(t, "rejected")
      BY <2>5, <3>2 DEF CancelTask
    <3>3. QED
      BY <2>5, <3>1, <3>2, Zenon DEF CancelTask
  <2>6. CASE SkipSteps(t)
    <3>1. UNCHANGED steps \/ steps' = [steps EXCEPT ![t] = [k \in Agents |->
                                IF @[k] = "RUNNING" THEN "SKIPPED" ELSE @[k]]]
      BY <2>6 DEF SkipSteps
    <3>2. /\ pc[t] = "skip" /\ UNCHANGED <<flag, due, agent>>
          /\ \E l \in {"done", "rejected"} : Goto(t, l)
      BY <2>6, Zenon DEF SkipSteps
    <3>3. \A u \in Tasks : steps'[u][3] = "COMPLETED" => steps[u][3] = "COMPLETED"
      BY <3>1, SkipFacts, SMTT(30)
    <3>4. QED
      BY <3>2, <3>3
  <2>7. CASE Throw(t)
    BY <2>7 DEF Throw, Try
  <2>8. CASE FailTask(t)
    <3>1. CASE SetStatus(t, "FAILED") /\ Goto(t, "done")
      BY <2>8, <3>1 DEF FailTask
    <3>2. CASE UNCHANGED status /\ Goto(t, "rejected")
      BY <2>8, <3>2 DEF FailTask
    <3>3. QED
      BY <2>8, <3>1, <3>2, Zenon DEF FailTask
  <2>9. QED
    BY <1>3, <2>1, <2>2, <2>3, <2>4, <2>5, <2>6, <2>7, <2>8 DEF EndStep
<1>4. ASSUME NEW t \in Tasks, Create(t) PROVE DueOK'
    <3>1. CASE SetStatus(t, "PENDING") /\ Goto(t, "check")
    BY <1>4, <3>1 DEF Create
  <3>2. CASE UNCHANGED status /\ Goto(t, "rejected")
    BY <1>4, <3>2 DEF Create
  <3>3. QED
    BY <1>4, <3>1, <3>2, Zenon DEF Create
<1>5. ASSUME NEW t \in Tasks, RequestCancellation(t) PROVE DueOK'
    <3>1. /\ pc[t] \notin Over /\ flag' = [flag EXCEPT ![t] = TRUE]
        /\ UNCHANGED <<steps, pc, agent>>
    BY <1>5, Zenon DEF RequestCancellation
  <3>2. /\ \A u \in Tasks : due'[u] => due[u] \/ (u = t /\ BeforeLastCheck(t))
        /\ BeforeLastCheck(t) => steps[t][3] = None
    BY <1>5, RequestFacts
  <3>3. QED
    BY <3>1, <3>2
<1>6. ASSUME NEW t \in Tasks, Expire(t) PROVE DueOK'
  BY <1>6 DEF Expire
<1>7. ASSUME NEW p \in Paths, UserWrites(p) PROVE DueOK'
  BY <1>7 DEF UserWrites
<1>8. ASSUME NEW p \in Paths, UserDeletes(p) PROVE DueOK'
  BY <1>8 DEF UserDeletes
<1>9. CASE RemoveConversation
  BY <1>9 DEF RemoveConversation
<1>10. CASE Crash
  BY <1>10 DEF Crash, Over
<1>11. CASE UNCHANGED vars
  BY <1>11 DEF vars
<1>12. QED
  BY <1>1, <1>2, <1>3, <1>4, <1>5, <1>6, <1>7, <1>8, <1>9, <1>10, <1>11 DEF Next, TaskStep

\* A summary is posted once COMPLETED is stored, if the conversation is there.
LEMMA MessagesStep == TypeOK /\ StatusOK /\ MessagesOK /\ [Next]_vars => MessagesOK'
<1> SUFFICES ASSUME TypeOK, StatusOK, MessagesOK, [Next]_vars
             PROVE  MessagesOK'
  OBVIOUS
<1> USE DEF TypeOK, StatusOK, MessagesOK, Goto, SetStatus, SetStep, Next1, DeleteRow
<1>1. ASSUME NEW t \in Tasks, AgentStep(t) PROVE MessagesOK'
  <2>1. CASE Check(t)
    BY <2>1 DEF Check
  <2>2. CASE UpdateTaskStatus(t)
    <3>1. PICK s \in {"PLANNING", "DEVELOPING", "REFACTORING"} : SetStatus(t, s)
      BY <2>2, RunningStatus DEF UpdateTaskStatus, TypeOK
    <3>2. QED
      BY <2>2, <3>1 DEF UpdateTaskStatus
  <2>3. CASE CreateStep(t)
    BY <2>3 DEF CreateStep
  <2>4. CASE RunAgent(t)
    BY <2>4 DEF RunAgent
  <2>5. CASE FinishStep(t)
    BY <2>5 DEF FinishStep
  <2>6. QED
    BY <1>1, <2>1, <2>2, <2>3, <2>4, <2>5 DEF AgentStep
<1>2. ASSUME NEW t \in Tasks, ApplyStep(t) PROVE MessagesOK'
  <2>1. CASE InsertFile(t)
    BY <2>1 DEF InsertFile
  <2>2. CASE FindFile(t)
    BY <2>2 DEF FindFile
  <2>3. CASE UpdateFile(t)
    BY <2>3 DEF UpdateFile
  <2>4. CASE CreateVersion(t)
    BY <2>4 DEF CreateVersion
  <2>5. CASE DeleteFile(t)
    BY <2>5 DEF DeleteFile
  <2>6. QED
    BY <1>2, <2>1, <2>2, <2>3, <2>4, <2>5 DEF ApplyStep
<1>3. ASSUME NEW t \in Tasks, EndStep(t) PROVE MessagesOK'
  <2>1. CASE SyncToPreview(t)
    BY <2>1 DEF SyncToPreview
  <2>2. CASE Complete(t)
    BY <2>2 DEF Complete
  <2>3. CASE Lookup(t)
    BY <2>3 DEF Lookup
  <2>4. CASE PostSummary(t)
    BY <2>4 DEF PostSummary
  <2>5. CASE CancelTask(t)
    <3>1. CASE SetStatus(t, "CANCELLED") /\ Goto(t, "skip")
      BY <2>5, <3>1 DEF CancelTask
    <3>2. CASE UNCHANGED status /\ Goto(t, "rejected")
      BY <2>5, <3>2 DEF CancelTask
    <3>3. QED
      BY <2>5, <3>1, <3>2, Zenon DEF CancelTask
  <2>6. CASE SkipSteps(t)
    BY <2>6 DEF SkipSteps
  <2>7. CASE Throw(t)
    BY <2>7 DEF Throw, Try
  <2>8. CASE FailTask(t)
    <3>1. CASE SetStatus(t, "FAILED") /\ Goto(t, "done")
      BY <2>8, <3>1 DEF FailTask
    <3>2. CASE UNCHANGED status /\ Goto(t, "rejected")
      BY <2>8, <3>2 DEF FailTask
    <3>3. QED
      BY <2>8, <3>1, <3>2, Zenon DEF FailTask
  <2>9. QED
    BY <1>3, <2>1, <2>2, <2>3, <2>4, <2>5, <2>6, <2>7, <2>8 DEF EndStep
<1>4. ASSUME NEW t \in Tasks, Create(t) PROVE MessagesOK'
    <3>1. CASE SetStatus(t, "PENDING") /\ Goto(t, "check")
    BY <1>4, <3>1 DEF Create
  <3>2. CASE UNCHANGED status /\ Goto(t, "rejected")
    BY <1>4, <3>2 DEF Create
  <3>3. QED
    BY <1>4, <3>1, <3>2, Zenon DEF Create
<1>5. ASSUME NEW t \in Tasks, RequestCancellation(t) PROVE MessagesOK'
  BY <1>5 DEF RequestCancellation
<1>6. ASSUME NEW t \in Tasks, Expire(t) PROVE MessagesOK'
  BY <1>6 DEF Expire
<1>7. ASSUME NEW p \in Paths, UserWrites(p) PROVE MessagesOK'
  BY <1>7 DEF UserWrites
<1>8. ASSUME NEW p \in Paths, UserDeletes(p) PROVE MessagesOK'
  BY <1>8 DEF UserDeletes
<1>9. CASE RemoveConversation
  BY <1>9 DEF RemoveConversation
<1>10. CASE Crash
  BY <1>10 DEF Crash, Over
<1>11. CASE UNCHANGED vars
  BY <1>11 DEF vars
<1>12. QED
  BY <1>1, <1>2, <1>3, <1>4, <1>5, <1>6, <1>7, <1>8, <1>9, <1>10, <1>11 DEF Next, TaskStep

\* The change a row was found for stays the first one.
LEMMA TodoStep == TypeOK /\ TodoOK /\ [Next]_vars => TodoOK'
<1> SUFFICES ASSUME TypeOK, TodoOK, [Next]_vars
             PROVE  TodoOK'
  OBVIOUS
<1> USE DEF TypeOK, TodoOK, Goto, SetStatus, SetStep, Next1, DeleteRow
<1>1. ASSUME NEW t \in Tasks, AgentStep(t) PROVE TodoOK'
  <2>1. CASE Check(t)
    BY <2>1 DEF Check
  <2>2. CASE UpdateTaskStatus(t)
    BY <2>2 DEF UpdateTaskStatus
  <2>3. CASE CreateStep(t)
    BY <2>3 DEF CreateStep
  <2>4. CASE RunAgent(t)
    BY <2>4 DEF RunAgent
  <2>5. CASE FinishStep(t)
    BY <2>5 DEF FinishStep
  <2>6. QED
    BY <1>1, <2>1, <2>2, <2>3, <2>4, <2>5 DEF AgentStep
<1>2. ASSUME NEW t \in Tasks, ApplyStep(t) PROVE TodoOK'
  <2>1. CASE InsertFile(t)
    BY <2>1 DEF InsertFile
  <2>2. CASE FindFile(t)
    BY <2>2 DEF FindFile
  <2>3. CASE UpdateFile(t)
    BY <2>3 DEF UpdateFile
  <2>4. CASE CreateVersion(t)
    BY <2>4 DEF CreateVersion
  <2>5. CASE DeleteFile(t)
    BY <2>5 DEF DeleteFile
  <2>6. QED
    BY <1>2, <2>1, <2>2, <2>3, <2>4, <2>5 DEF ApplyStep
<1>3. ASSUME NEW t \in Tasks, EndStep(t) PROVE TodoOK'
  <2>1. CASE SyncToPreview(t)
    BY <2>1 DEF SyncToPreview
  <2>2. CASE Complete(t)
    BY <2>2 DEF Complete
  <2>3. CASE Lookup(t)
    BY <2>3 DEF Lookup
  <2>4. CASE PostSummary(t)
    BY <2>4 DEF PostSummary
  <2>5. CASE CancelTask(t)
    BY <2>5 DEF CancelTask
  <2>6. CASE SkipSteps(t)
    BY <2>6 DEF SkipSteps
  <2>7. CASE Throw(t)
    BY <2>7 DEF Throw, Try
  <2>8. CASE FailTask(t)
    BY <2>8 DEF FailTask
  <2>9. QED
    BY <1>3, <2>1, <2>2, <2>3, <2>4, <2>5, <2>6, <2>7, <2>8 DEF EndStep
<1>4. ASSUME NEW t \in Tasks, Create(t) PROVE TodoOK'
  BY <1>4 DEF Create
<1>5. ASSUME NEW t \in Tasks, RequestCancellation(t) PROVE TodoOK'
  BY <1>5 DEF RequestCancellation
<1>6. ASSUME NEW t \in Tasks, Expire(t) PROVE TodoOK'
  BY <1>6 DEF Expire
<1>7. ASSUME NEW p \in Paths, UserWrites(p) PROVE TodoOK'
  BY <1>7 DEF UserWrites
<1>8. ASSUME NEW p \in Paths, UserDeletes(p) PROVE TodoOK'
  BY <1>8 DEF UserDeletes
<1>9. CASE RemoveConversation
  BY <1>9 DEF RemoveConversation
<1>10. CASE Crash
  BY <1>10 DEF Crash, Over
<1>11. CASE UNCHANGED vars
  BY <1>11 DEF vars
<1>12. QED
  BY <1>1, <1>2, <1>3, <1>4, <1>5, <1>6, <1>7, <1>8, <1>9, <1>10, <1>11 DEF Next, TaskStep

\* A text comes with its version or with the end of its task.
LEMMA AttributedStep == TypeOK /\ StatusOK /\ TodoOK /\ Attributed /\ [Next]_vars => Attributed'
<1> SUFFICES ASSUME TypeOK, StatusOK, TodoOK, Attributed, [Next]_vars
             PROVE  Attributed'
  OBVIOUS
<1> USE DEF TypeOK, StatusOK, TodoOK, Attributed, At, Goto, SetStatus, SetStep, Next1, DeleteRow
<1>1. ASSUME NEW t \in Tasks, AgentStep(t) PROVE Attributed'
  <2>1. CASE Check(t)
    BY <2>1 DEF Check
  <2>2. CASE UpdateTaskStatus(t)
    <3>1. PICK s \in {"PLANNING", "DEVELOPING", "REFACTORING"} : SetStatus(t, s)
      BY <2>2, RunningStatus DEF UpdateTaskStatus, TypeOK
    <3>2. QED
      BY <2>2, <3>1 DEF UpdateTaskStatus
  <2>3. CASE CreateStep(t)
    BY <2>3 DEF CreateStep
  <2>4. CASE RunAgent(t)
    BY <2>4 DEF RunAgent
  <2>5. CASE FinishStep(t)
    <3>1. /\ pc[t] = "finish" /\ UNCHANGED <<status, files, versions, todo>>
          /\ \E l \in {"apply", "check"} : Goto(t, l)
      BY <2>5, Zenon DEF FinishStep
    <3>2. QED
      BY <3>1
  <2>6. QED
    BY <1>1, <2>1, <2>2, <2>3, <2>4, <2>5 DEF AgentStep
<1>2. ASSUME NEW t \in Tasks, ApplyStep(t) PROVE Attributed'
  <2>1. CASE InsertFile(t)
    BY <2>1 DEF InsertFile, Path
  <2>2. CASE FindFile(t)
    BY <2>2 DEF FindFile, Path
  <2>3. CASE UpdateFile(t)
    BY <2>3 DEF UpdateFile, Path
  <2>4. CASE CreateVersion(t)
    BY <2>4 DEF CreateVersion, Path
  <2>5. CASE DeleteFile(t)
    BY <2>5 DEF DeleteFile, Path
  <2>6. QED
    BY <1>2, <2>1, <2>2, <2>3, <2>4, <2>5 DEF ApplyStep
<1>3. ASSUME NEW t \in Tasks, EndStep(t) PROVE Attributed'
  <2>1. CASE SyncToPreview(t)
    BY <2>1 DEF SyncToPreview
  <2>2. CASE Complete(t)
    BY <2>2 DEF Complete
  <2>3. CASE Lookup(t)
    BY <2>3 DEF Lookup
  <2>4. CASE PostSummary(t)
    BY <2>4 DEF PostSummary
  <2>5. CASE CancelTask(t)
    <3>1. CASE SetStatus(t, "CANCELLED") /\ Goto(t, "skip")
      BY <2>5, <3>1 DEF CancelTask
    <3>2. CASE UNCHANGED status /\ Goto(t, "rejected")
      BY <2>5, <3>2 DEF CancelTask
    <3>3. QED
      BY <2>5, <3>1, <3>2, Zenon DEF CancelTask
  <2>6. CASE SkipSteps(t)
    <3>1. /\ pc[t] = "skip" /\ UNCHANGED <<status, files, versions, todo>>
          /\ \E l \in {"done", "rejected"} : Goto(t, l)
      BY <2>6, Zenon DEF SkipSteps
    <3>2. QED
      BY <3>1
  <2>7. CASE Throw(t)
    BY <2>7 DEF Throw, Try
  <2>8. CASE FailTask(t)
    <3>1. CASE SetStatus(t, "FAILED") /\ Goto(t, "done")
      BY <2>8, <3>1 DEF FailTask
    <3>2. CASE UNCHANGED status /\ Goto(t, "rejected")
      BY <2>8, <3>2 DEF FailTask
    <3>3. QED
      BY <2>8, <3>1, <3>2, Zenon DEF FailTask
  <2>9. QED
    BY <1>3, <2>1, <2>2, <2>3, <2>4, <2>5, <2>6, <2>7, <2>8 DEF EndStep
<1>4. ASSUME NEW t \in Tasks, Create(t) PROVE Attributed'
    <3>1. CASE SetStatus(t, "PENDING") /\ Goto(t, "check")
    BY <1>4, <3>1 DEF Create
  <3>2. CASE UNCHANGED status /\ Goto(t, "rejected")
    BY <1>4, <3>2 DEF Create
  <3>3. QED
    BY <1>4, <3>1, <3>2, Zenon DEF Create
<1>5. ASSUME NEW t \in Tasks, RequestCancellation(t) PROVE Attributed'
  BY <1>5 DEF RequestCancellation
<1>6. ASSUME NEW t \in Tasks, Expire(t) PROVE Attributed'
  BY <1>6 DEF Expire
<1>7. ASSUME NEW p \in Paths, UserWrites(p) PROVE Attributed'
  BY <1>7 DEF UserWrites
<1>8. ASSUME NEW p \in Paths, UserDeletes(p) PROVE Attributed'
  BY <1>8 DEF UserDeletes
<1>9. CASE RemoveConversation
  BY <1>9 DEF RemoveConversation
<1>10. CASE Crash
  BY <1>10 DEF Crash, Over
<1>11. CASE UNCHANGED vars
  BY <1>11 DEF vars
<1>12. QED
  BY <1>1, <1>2, <1>3, <1>4, <1>5, <1>6, <1>7, <1>8, <1>9, <1>10, <1>11 DEF Next, TaskStep

-----------------------------------------------------------------------------
\* The conjuncts together are inductive.
LEMMA NextIInv == IInv /\ [Next]_vars => IInv'
  BY TypeStep, StepsStep, StatusStep, DueStep, MessagesStep, TodoStep, AttributedStep DEF IInv

\* The inductive invariant holds in every reachable state.
THEOREM Invariance == Spec => []IInv
  BY InitIInv, NextIInv, PTL DEF Spec

\* Every variable keeps its type.
THEOREM TypeCorrectness == Spec => []TypeOK
<1>1. IInv => TypeOK
  BY DEF IInv
<1>2. QED
  BY <1>1, Invariance, PTL

\* The rows of a task and of its steps agree, wherever it is interrupted.
THEOREM StepsSafety == Spec => []StepsAgree
<1>1. ASSUME IInv, NEW t \in Tasks
      PROVE  /\ \A k \in Agents : steps[t][k] # None =>
                   \A j \in 1 .. k - 1 : steps[t][j] = "COMPLETED"
             /\ status[t] = "COMPLETED" => \A k \in Agents : steps[t][k] = "COMPLETED"
             /\ pc[t] = "done" => status[t] \in Terminal
             /\ pc[t] = "done" /\ status[t] = "CANCELLED" =>
                   \A k \in Agents : steps[t][k] # "RUNNING"
  <2>1. /\ agent[t] \in Agents
        /\ \A k \in Agents : /\ k < agent[t] => steps[t][k] = "COMPLETED"
                             /\ k > agent[t] => steps[t][k] = None
    BY <1>1 DEF IInv, TypeOK, StepsOK
  <2>2. status[t] = "COMPLETED" => agent[t] = 3 /\ steps[t][3] = "COMPLETED"
    BY <1>1 DEF IInv, StepsOK
  <2>3. /\ pc[t] = "done" => status[t] \in Terminal
        /\ status[t] = "CANCELLED" => steps[t][agent[t]] = None
    BY <1>1 DEF IInv, StatusOK
  <2>4. ASSUME NEW k \in Agents, steps[t][k] # None, NEW j \in 1 .. k - 1
        PROVE  steps[t][j] = "COMPLETED"
    BY <2>1, <2>4
  <2>5. status[t] = "COMPLETED" => \A k \in Agents : steps[t][k] = "COMPLETED"
    BY <2>1, <2>2
  <2>6. status[t] = "CANCELLED" => \A k \in Agents : steps[t][k] # "RUNNING"
    <3>1. SUFFICES ASSUME status[t] = "CANCELLED", NEW k \in Agents
                   PROVE  steps[t][k] # "RUNNING"
      OBVIOUS
    <3>2. steps[t][k] \in {"COMPLETED", None}
      BY <2>1, <2>3, <3>1
    <3>3. QED
      BY <3>2
  <2>7. QED
    BY <2>3, <2>4, <2>5, <2>6
<1>2. IInv => StepsAgree
  BY <1>1 DEF StepsAgree
<1>3. QED
  BY <1>2, Invariance, PTL

\* A cancellation asked for in time, and not expired, leaves the files alone.
THEOREM CancelSafety == Spec => []CancelHonoured
<1>1. ASSUME IInv, NEW t \in Tasks
      PROVE  /\ due[t] => ~touched[t] /\ status[t] # "COMPLETED"
             /\ touched[t] => status[t] # "CANCELLED"
  <2>1. touched[t] \/ status[t] = "COMPLETED" => agent[t] = 3 /\ steps[t][3] = "COMPLETED"
    BY <1>1 DEF IInv, StepsOK
  <2>2. due[t] => steps[t][3] # "COMPLETED"
    BY <1>1 DEF IInv, DueOK
  <2>3. status[t] = "CANCELLED" => steps[t][agent[t]] = None
    BY <1>1 DEF IInv, StatusOK
  <2>4. ~(touched[t] /\ status[t] = "CANCELLED")
    BY <2>1, <2>3
  <2>5. QED
    BY <2>1, <2>2, <2>4, Zenon
<1>2. IInv => CancelHonoured
  BY <1>1 DEF CancelHonoured
<1>3. QED
  BY <1>2, Invariance, PTL

\* The conversation has the summaries of the completed tasks.
THEOREM AnswerSafety == Spec => []Answered
<1>1. IInv => Answered
  BY DEF IInv, MessagesOK, Answered
<1>2. QED
  BY <1>1, Invariance, PTL

\* What an agent wrote has its version, unless its task did not get through.
THEOREM AttributionSafety == Spec => []Attributed
<1>1. IInv => Attributed
  BY DEF IInv
<1>2. QED
  BY <1>1, Invariance, PTL
-----------------------------------------------------------------------------
(* The refinement of TaskLife.  On the way a task's status names the agent   *)
(* whose turn it is, or the one before while the next has not begun.         *)

Stage(t) ==
    /\ pc[t] = "new" => status[t] = None /\ agent[t] = 1
    /\ pc[t] \in {"check", "status", "cancel"} =>
          status[t] = IF agent[t] = 1 THEN "PENDING" ELSE Running[agent[t] - 1]
    /\ pc[t] \in {"step", "agent", "finish", "apply", "write", "version", "erase",
                  "complete"} => status[t] = Running[agent[t]]
    /\ pc[t] = "fail" => status[t] \notin {None, "CANCELLED", "FAILED"}

StageOK == \A t \in Tasks : Stage(t)

\* A task has a stage of its own.
LEMMA StageKept ==
  ASSUME StageOK, NEW u \in Tasks, pc'[u] = pc[u], status'[u] = status[u], agent'[u] = agent[u]
  PROVE  Stage(u)'
BY DEF StageOK, Stage

\* The statuses of running agents are none of the others.
LEMMA RunningApart ==
  \A k \in Agents : Running[k] \notin {None, "CANCELLED", "FAILED"}
BY DEF Running

\* What throws has begun and has not ended.
LEMMA StageOfTry ==
  ASSUME TypeOK, StatusOK, NEW t \in Tasks, Stage(t), pc[t] \in Try
  PROVE  status[t] \notin {None, "CANCELLED", "FAILED"}
<1>1. agent[t] \in 1 .. 3
  BY DEF TypeOK
<1>2. CASE pc[t] \in {"check", "status"}
  <2>1. CASE agent[t] = 1
    BY <1>2, <2>1 DEF Stage
  <2>2. CASE agent[t] # 1
    <3>1. agent[t] - 1 \in Agents /\ status[t] = Running[agent[t] - 1]
      BY <1>1, <1>2, <2>2 DEF Stage
    <3>2. QED
      BY <3>1, RunningApart
  <2>3. QED
    BY <2>1, <2>2
<1>3. CASE pc[t] \in {"lookup", "post"}
  BY <1>3 DEF StatusOK
<1>4. CASE pc[t] \in {"step", "agent", "finish", "apply", "write", "version", "erase", "complete"}
  <2>1. status[t] = Running[agent[t]]
    BY <1>4 DEF Stage
  <2>2. QED
    BY <1>1, <2>1, RunningApart
<1>5. QED
  BY <1>2, <1>3, <1>4 DEF Try

\* Every step keeps the stages.
LEMMA StageStep == IInv /\ StageOK /\ [Next]_vars => StageOK'
<1> SUFFICES ASSUME TypeOK, StatusOK, StageOK, [Next]_vars
             PROVE  StageOK'
  BY DEF IInv
<1>t. \A u \in Tasks : agent[u] \in 1 .. 3
  BY DEF TypeOK
<1>s. \A u \in Tasks : Stage(u)
  BY DEF StageOK
<1>1. ASSUME NEW t \in Tasks, TaskStep(t) \/ Create(t)
      PROVE  Stage(t)' /\ \A u \in Tasks \ {t} :
                pc'[u] = pc[u] /\ status'[u] = status[u] /\ agent'[u] = agent[u]
  <2> USE DEF TypeOK, Stage, Goto, SetStatus
  <2>1. CASE Check(t)
    BY <1>s, <2>1 DEF Check
  <2>2. CASE UpdateTaskStatus(t)
    BY <1>s, <2>2 DEF UpdateTaskStatus
  <2>3. CASE CreateStep(t)
    BY <1>s, <2>3 DEF CreateStep
  <2>4. CASE RunAgent(t)
    BY <1>s, <2>4 DEF RunAgent
  <2>5. CASE FinishStep(t)
    <3>1. CASE agent[t] = 3
      BY <1>s, <2>5, <3>1 DEF FinishStep
    <3>2. CASE agent[t] # 3
      <4>1. pc[t] = "finish"
        BY <2>5 DEF FinishStep
      <4>2. /\ Goto(t, "check") /\ UNCHANGED status
            /\ agent' = [agent EXCEPT ![t] = @ + 1]
        BY <2>5, <3>2, FinishFacts
      <4>0. agent'[t] = agent[t] + 1
        BY <4>2
      <4>a. \A n \in 1 .. 3 : n + 1 # 1 /\ (n + 1) - 1 = n
        OBVIOUS
      <4>3. agent'[t] # 1 /\ agent'[t] - 1 = agent[t]
        BY <1>t, <4>0, <4>a, Zenon
      <4>4. status'[t] = Running[agent'[t] - 1]
        BY <1>s, <4>1, <4>2, <4>3
      <4>5. QED
        BY <4>2, <4>3, <4>4
    <3>3. QED
      BY <3>1, <3>2
  <2>6. CASE ApplyStep(t)
    <3>1. /\ pc[t] \in {"apply", "write", "version", "erase"}
          /\ \E l \in {"apply", "write", "version", "erase"} : pc' = pc \/ Goto(t, l)
          /\ UNCHANGED <<status, agent>>
      BY <2>6, Zenon DEF ApplyStep, InsertFile, FindFile, UpdateFile, CreateVersion, DeleteFile
    <3>2. QED
      BY <1>s, <3>1
  <2>7. CASE SyncToPreview(t)
    BY <1>s, <2>7 DEF SyncToPreview
  <2>8. CASE Complete(t)
    BY <1>s, <2>8 DEF Complete
  <2>9. CASE Lookup(t)
    BY <1>s, <2>9 DEF Lookup
  <2>10. CASE PostSummary(t)
    BY <1>s, <2>10 DEF PostSummary
  <2>11. CASE CancelTask(t)
    <3>1. CASE SetStatus(t, "CANCELLED") /\ Goto(t, "skip")
      BY <2>11, <3>1 DEF CancelTask
    <3>2. CASE UNCHANGED status /\ Goto(t, "rejected")
      BY <2>11, <3>2 DEF CancelTask
    <3>3. QED
      BY <2>11, <3>1, <3>2, Zenon DEF CancelTask
  <2>12. CASE SkipSteps(t)
    <3>1. /\ \E l \in {"done", "rejected"} : Goto(t, l)
          /\ UNCHANGED <<status, agent>>
      BY <2>12, Zenon DEF SkipSteps
    <3>2. QED
      BY <3>1
  <2>13. CASE Throw(t)
    <3>1. pc[t] \in Try /\ Goto(t, "fail") /\ UNCHANGED <<status, agent>>
      BY <2>13 DEF Throw
    <3>2. status[t] \notin {None, "CANCELLED", "FAILED"}
      BY <1>s, <3>1, StageOfTry
    <3>3. QED
      BY <3>1, <3>2
  <2>14. CASE FailTask(t)
    <3>1. CASE SetStatus(t, "FAILED") /\ Goto(t, "done")
      BY <2>14, <3>1 DEF FailTask
    <3>2. CASE UNCHANGED status /\ Goto(t, "rejected")
      BY <2>14, <3>2 DEF FailTask
    <3>3. QED
      BY <2>14, <3>1, <3>2, Zenon DEF FailTask
  <2>15. CASE Create(t)
    <3>1. CASE SetStatus(t, "PENDING") /\ Goto(t, "check")
      BY <1>s, <2>15, <3>1 DEF Create
    <3>2. CASE UNCHANGED status /\ Goto(t, "rejected")
      BY <2>15, <3>2 DEF Create
    <3>3. QED
      BY <2>15, <3>1, <3>2, Zenon DEF Create
  <2>16. QED
    BY <1>1, <2>1, <2>2, <2>3, <2>4, <2>5, <2>6, <2>7, <2>8, <2>9, <2>10, <2>11, <2>12, <2>13,
       <2>14, <2>15 DEF TaskStep, AgentStep, EndStep
<1>2. ASSUME NEW t \in Tasks, TaskStep(t) \/ Create(t) PROVE StageOK'
  BY <1>1, <1>2, StageKept DEF StageOK
<1>3. ASSUME UNCHANGED <<pc, status, agent>> PROVE StageOK'
  BY <1>3, StageKept DEF StageOK
<1>4. CASE Crash
  <2>1. UNCHANGED <<status, agent>>
        /\ \A u \in Tasks : pc'[u] = pc[u] \/ pc'[u] = "dead"
    BY <1>4 DEF Crash
  <2>2. QED
    BY <1>s, <2>1 DEF StageOK, Stage
<1>5. ASSUME NEW t \in Tasks, RequestCancellation(t) \/ Expire(t) PROVE StageOK'
  BY <1>3, <1>5, Zenon DEF RequestCancellation, Expire
<1>6. ASSUME NEW p \in Paths, UserWrites(p) \/ UserDeletes(p) PROVE StageOK'
  BY <1>3, <1>6, Zenon DEF UserWrites, UserDeletes
<1>7. CASE RemoveConversation
  BY <1>3, <1>7, Zenon DEF RemoveConversation
<1>8. CASE UNCHANGED vars
  BY <1>3, <1>8, Zenon DEF vars
<1>9. QED
  BY <1>2, <1>4, <1>5, <1>6, <1>7, <1>8, Zenon DEF Next

\* The stages hold in every reachable state.
LEMMA StageInvariance == Spec => []StageOK
<1>1. Init => StageOK
  BY ZenonT(40) DEF Init, StageOK, Stage
<1>2. QED
  BY <1>1, StageStep, Invariance, PTL DEF Spec

\* What one step of the tasks is to TaskLife.
Lived == [Life!Next]_<<status, Finished, touched, conversation, messages, Returned>>

\* Agents finish when a step becomes COMPLETED or stops being it.
LEMMA FinishedKept ==
  ASSUME \A u \in Tasks : \A k \in Agents : steps'[u][k] = "COMPLETED" <=> steps[u][k] = "COMPLETED"
  PROVE  Finished' = Finished
<1>1. \A u \in Tasks : {k \in Agents : steps'[u][k] = "COMPLETED"} = {k \in Agents : steps[u][k] = "COMPLETED"}
  OBVIOUS
<1>2. QED
  BY <1>1, Zenon DEF Finished

\* A task that goes anywhere but to its end leaves the others where they were.
LEMMA ReturnedKept ==
  ASSUME TypeOK, NEW t \in Tasks, NEW l \in Labels \ {"done"}, Goto(t, l), pc[t] # "done"
  PROVE  Returned' = Returned
BY DEF TypeOK, Goto, Returned

\* A task that goes to its end is over.
LEMMA ReturnedGrows ==
  ASSUME TypeOK, NEW t \in Tasks, Goto(t, "done")
  PROVE  Returned' = Returned \cup {t}
BY DEF TypeOK, Goto, Returned

\* The agents before the one whose turn it is have finished, and no others.
LEMMA FinishedBelow ==
  ASSUME TypeOK, StepsOK, NEW t \in Tasks, steps[t][agent[t]] # "COMPLETED"
  PROVE  Finished[t] = 1 .. agent[t] - 1
<1>1. agent[t] \in 1 .. 3
  BY DEF TypeOK
<1>2. \A k \in Agents : /\ k < agent[t] => steps[t][k] = "COMPLETED"
                        /\ k > agent[t] => steps[t][k] = None
  BY DEF StepsOK
<1>3. \A k \in Agents : steps[t][k] = "COMPLETED" <=> k < agent[t]
  BY <1>1, <1>2
<1>4. \A k \in Agents : k < agent[t] <=> k \in 1 .. agent[t] - 1
  BY <1>1
<1>5. 1 .. agent[t] - 1 \subseteq Agents
  BY <1>1
<1>6. {k \in Agents : steps[t][k] = "COMPLETED"} = 1 .. agent[t] - 1
  BY <1>3, <1>4, <1>5, Zenon
<1>7. QED
  BY <1>6 DEF Finished

\* Files change and tasks complete when all three have.
LEMMA FinishedAll ==
  ASSUME TypeOK, StepsOK, NEW t \in Tasks, agent[t] = 3, steps[t][3] = "COMPLETED"
  PROVE  Finished[t] = 1 .. 3
<1>1. \A k \in Agents : steps[t][k] = "COMPLETED"
  BY DEF StepsOK
<1>2. QED
  BY <1>1 DEF Finished

\* A step that TaskLife does not see.
LEMMA LifeStutter ==
  ASSUME TypeOK, UNCHANGED <<status, steps, touched, conversation, messages>>,
         \/ UNCHANGED pc
         \/ \E t \in Tasks : \E l \in Labels \ {"done"} : Goto(t, l) /\ pc[t] # "done"
  PROVE  Lived
<1>1. Finished' = Finished
  BY FinishedKept
<1>2. Returned' = Returned
  BY ReturnedKept DEF Returned
<1>3. QED
  BY <1>1, <1>2 DEF Lived

\* An agent's step, one by one: a begin, an end, or nothing to see.
LEMMA AgentLived ==
  ASSUME IInv, StageOK, NEW t \in Tasks, AgentStep(t)
  PROVE  Lived
<1> USE DEF Goto, SetStatus
<1>0. /\ TypeOK /\ StepsOK /\ agent[t] \in 1 .. 3 /\ Stage(t)
      /\ "check" \in Labels /\ "cancel" \in Labels /\ "status" \in Labels /\ "step" \in Labels
      /\ "agent" \in Labels /\ "finish" \in Labels /\ "apply" \in Labels
  BY DEF IInv, TypeOK, StageOK, Labels, Try
<1>1. CASE Check(t)
  <2>1. \E l \in Labels \ {"done"} : Goto(t, l) /\ pc[t] # "done"
    BY <1>0, <1>1 DEF Check
  <2>2. QED
    BY <1>0, <1>1, <2>1, LifeStutter, Zenon DEF Check
<1>2. CASE UpdateTaskStatus(t)
  <2>1. pc[t] = "status" /\ Goto(t, "step") /\ SetStatus(t, Running[agent[t]])
        /\ UNCHANGED <<steps, touched, conversation, messages>>
    BY <1>2 DEF UpdateTaskStatus
  <2>2. Finished' = Finished /\ Returned' = Returned
    BY <1>0, <2>1, FinishedKept, ReturnedKept
  <2>3. steps[t][agent[t]] # "COMPLETED"
    BY <2>1 DEF IInv, StepsOK
  <2>4. Finished[t] = 1 .. agent[t] - 1
    BY <1>0, <2>3, FinishedBelow
  <2>5. status[t] = IF agent[t] = 1 THEN "PENDING" ELSE Running[agent[t] - 1]
    BY <1>0, <2>1 DEF Stage
  <2>6. Life!Begin(t, agent[t])
    BY <2>1, <2>2, <2>4, <2>5 DEF Life!Begin, Life!Before, Life!SetStatus, Life!Stage, Running
  <2>7. QED
    BY <1>0, <2>6 DEF Lived, Life!Next
<1>3. CASE CreateStep(t)
  <2>1. /\ pc[t] = "step" /\ SetStep(t, "RUNNING") /\ Goto(t, "agent")
        /\ UNCHANGED <<status, touched, conversation, messages>>
    BY <1>3 DEF CreateStep
  <2>2. steps[t][agent[t]] = None
    BY <2>1 DEF IInv, StepsOK
  <2>3. \A u \in Tasks : \A k \in Agents : steps'[u][k] = "COMPLETED" <=> steps[u][k] = "COMPLETED"
    BY <1>0, <2>1, <2>2, StepFacts DEF StepStatuses
  <2>4. Finished' = Finished /\ Returned' = Returned
    BY <1>0, <2>1, <2>3, FinishedKept, ReturnedKept
  <2>5. QED
    BY <2>1, <2>4 DEF Lived
<1>4. CASE RunAgent(t)
  BY <1>0, <1>4, LifeStutter DEF RunAgent
<1>5. CASE FinishStep(t)
  <2>1. /\ pc[t] = "finish" /\ SetStep(t, "COMPLETED")
        /\ \E l \in {"apply", "check"} : Goto(t, l)
        /\ UNCHANGED <<status, touched, conversation, messages>>
    BY <1>5, Zenon DEF FinishStep
  <2>2. steps[t][agent[t]] # "COMPLETED"
    BY <2>1 DEF IInv, StepsOK
  <2>3. Finished[t] = 1 .. agent[t] - 1
    BY <1>0, <2>2, FinishedBelow
  <2>4. \A u \in Tasks : \A k \in Agents :
           steps'[u][k] = "COMPLETED" <=> (u = t /\ k = agent[t]) \/ steps[u][k] = "COMPLETED"
    BY <1>0, <2>1, StepFacts DEF StepStatuses
  <2>5. Finished' = [Finished EXCEPT ![t] = 1 .. agent[t]]
    <3>1. \A u \in Tasks \ {t} : Finished'[u] = Finished[u]
      BY <2>4 DEF Finished
    <3>2. Finished'[t] = {k \in Agents : k = agent[t] \/ steps[t][k] = "COMPLETED"}
      BY <2>4 DEF Finished
    <3>3. Finished[t] = {k \in Agents : steps[t][k] = "COMPLETED"}
      BY DEF Finished
    <3>4. Finished'[t] = Finished[t] \cup {agent[t]}
      BY <1>0, <3>2, <3>3
    <3>5. Finished'[t] = 1 .. agent[t]
      BY <1>0, <2>3, <3>4
    <3>6. QED
      BY <3>1, <3>5 DEF Finished
  <2>6. Returned' = Returned
    BY <1>0, <2>1, ReturnedKept
  <2>7. status[t] = Running[agent[t]]
    BY <1>0, <2>1 DEF Stage
  <2>8. Life!Finish(t, agent[t])
    BY <2>1, <2>3, <2>5, <2>6, <2>7 DEF Life!Finish, Life!Stage, Running
  <2>9. QED
    BY <1>0, <2>8 DEF Lived, Life!Next
<1>6. QED
  BY <1>1, <1>2, <1>3, <1>4, <1>5 DEF AgentStep

\* No change is applied before the third agent has finished.
LEMMA AppliedDeveloped ==
  ASSUME IInv, StageOK, NEW t \in Tasks,
         pc[t] \in {"apply", "write", "version", "erase", "complete"}
  PROVE  Life!Developed(t)
<1>1. agent[t] = 3 /\ steps[t][3] = "COMPLETED"
  BY DEF IInv, StepsOK, Applying
<1>2. status[t] = "REFACTORING"
  BY <1>1 DEF StageOK, Stage, Running
<1>3. Finished[t] = 1 .. 3
  BY <1>1, FinishedAll DEF IInv
<1>4. QED
  BY <1>2, <1>3 DEF Life!Developed

\* Where the changes are applied.
LEMMA ApplyLived ==
  ASSUME IInv, StageOK, NEW t \in Tasks, ApplyStep(t)
  PROVE  Lived
<1>0. TypeOK
  BY DEF IInv
<1>1. /\ pc[t] \in {"apply", "write", "version", "erase"}
      /\ UNCHANGED pc \/ \E l \in {"apply", "write", "version", "erase"} : Goto(t, l)
      /\ UNCHANGED touched \/ touched' = [touched EXCEPT ![t] = TRUE]
      /\ UNCHANGED <<status, steps, conversation, messages>>
  BY Zenon DEF ApplyStep, InsertFile, FindFile, UpdateFile, CreateVersion, DeleteFile
<1>2. Finished' = Finished
  BY <1>1, FinishedKept
<1>3. Returned' = Returned
  BY <1>0, <1>1, ReturnedKept DEF Labels, Try, Returned
<1>4. CASE UNCHANGED touched
  BY <1>1, <1>2, <1>3, <1>4 DEF Lived
<1>5. CASE touched' = [touched EXCEPT ![t] = TRUE]
  <2>1. Life!Developed(t)
    BY <1>1, AppliedDeveloped
  <2>2. Life!Apply(t)
    BY <1>1, <1>2, <1>3, <1>5, <2>1 DEF Life!Apply
  <2>3. QED
    BY <2>2 DEF Lived, Life!Next
<1>6. QED
  BY <1>1, <1>4, <1>5

\* How a task ends.
LEMMA EndLived ==
  ASSUME IInv, StageOK, NEW t \in Tasks, EndStep(t)
  PROVE  Lived
<1> USE DEF Goto, SetStatus
<1>0. /\ TypeOK /\ StepsOK /\ agent[t] \in 1 .. 3 /\ Stage(t)
      /\ "complete" \in Labels /\ "lookup" \in Labels /\ "post" \in Labels /\ "skip" \in Labels
      /\ "rejected" \in Labels /\ "fail" \in Labels
  BY DEF IInv, TypeOK, StageOK, Labels, Try
<1>1. CASE SyncToPreview(t)
  BY <1>0, <1>1, LifeStutter DEF SyncToPreview
<1>2. CASE Complete(t)
  <2>1. /\ pc[t] = "complete" /\ SetStatus(t, "COMPLETED") /\ Goto(t, "lookup")
        /\ UNCHANGED <<steps, touched, conversation, messages>>
    BY <1>2 DEF Complete
  <2>2. Finished' = Finished /\ Returned' = Returned
    BY <1>0, <2>1, FinishedKept, ReturnedKept
  <2>3. Life!Complete(t)
    BY <2>1, <2>2, AppliedDeveloped DEF Life!Complete, Life!SetStatus
  <2>4. QED
    BY <2>3 DEF Lived, Life!Next
<1>3. CASE Lookup(t) /\ conversation
  BY <1>0, <1>3, LifeStutter DEF Lookup
<1>4. CASE (Lookup(t) /\ ~conversation) \/ PostSummary(t)
  <2>1. /\ pc[t] \in {"lookup", "post"} /\ Goto(t, "done")
        /\ messages' = IF conversation THEN messages \cup {t} ELSE messages
        /\ UNCHANGED <<status, steps, touched, conversation>>
    BY <1>4 DEF Lookup, PostSummary
  <2>2. Finished' = Finished /\ Returned' = Returned \cup {t}
    BY <1>0, <2>1, FinishedKept, ReturnedGrows
  <2>3. status[t] = "COMPLETED" /\ t \notin Returned
    BY <2>1 DEF IInv, StatusOK, Returned
  <2>4. Life!Answer(t)
    BY <2>1, <2>2, <2>3 DEF Life!Answer, Life!End
  <2>5. QED
    BY <2>4 DEF Lived, Life!Next
<1>5. CASE CancelTask(t)
  <2>1. CASE SetStatus(t, "CANCELLED") /\ Goto(t, "skip")
    <3>1. pc[t] = "cancel" /\ UNCHANGED <<steps, touched, conversation, messages>>
      BY <1>5 DEF CancelTask
    <3>2. Finished' = Finished /\ Returned' = Returned
      BY <1>0, <2>1, <3>1, FinishedKept, ReturnedKept
    <3>3. steps[t][agent[t]] = None
      BY <1>0, <3>1 DEF StepsOK
    <3>4. Finished[t] = 1 .. agent[t] - 1
      BY <1>0, <3>3, FinishedBelow
    <3>5. ~touched[t]
      BY <1>0, <3>3 DEF StepsOK
    <3>6. status[t] = IF agent[t] = 1 THEN "PENDING" ELSE Running[agent[t] - 1]
      BY <1>0, <3>1 DEF Stage
    <3>7. Life!Before(t, agent[t])
      BY <3>4, <3>6 DEF Life!Before, Life!Stage, Running
    <3>8. Life!Cancel(t)
      BY <1>0, <2>1, <3>1, <3>2, <3>5, <3>7 DEF Life!Cancel, Life!SetStatus
    <3>9. QED
      BY <3>8 DEF Lived, Life!Next
  <2>2. CASE UNCHANGED status /\ Goto(t, "rejected")
    BY <1>0, <1>5, <2>2, LifeStutter DEF CancelTask
  <2>3. QED
    BY <1>5, <2>1, <2>2, Zenon DEF CancelTask
<1>6. CASE SkipSteps(t)
  <2>1. /\ pc[t] = "skip" /\ UNCHANGED <<status, touched, conversation, messages>>
        /\ \/ UNCHANGED steps
           \/ steps' = [steps EXCEPT ![t] = [k \in Agents |->
                           IF @[k] = "RUNNING" THEN "SKIPPED" ELSE @[k]]]
        /\ Goto(t, "done") \/ Goto(t, "rejected")
    BY <1>6, Zenon DEF SkipSteps
  <2>2. \A u \in Tasks : \A k \in Agents : steps'[u][k] = "COMPLETED" <=> steps[u][k] = "COMPLETED"
    BY <1>0, <2>1, SkipFacts
  <2>3. Finished' = Finished
    BY <2>2, FinishedKept
  <2>4. CASE Goto(t, "done")
    <3>1. Returned' = Returned \cup {t}
      BY <1>0, <2>4, ReturnedGrows
    <3>2. Life!Cancelled(t)
      BY <2>1, <2>3, <3>1 DEF Life!Cancelled, Life!End, IInv, StatusOK
    <3>3. QED
      BY <3>2 DEF Lived, Life!Next
  <2>5. CASE Goto(t, "rejected")
    BY <1>0, <2>1, <2>3, <2>5, ReturnedKept DEF Lived
  <2>6. QED
    BY <2>1, <2>4, <2>5
<1>7. CASE Throw(t)
  BY <1>0, <1>7, LifeStutter DEF Throw, Try
<1>8. CASE FailTask(t)
  <2>1. CASE SetStatus(t, "FAILED") /\ Goto(t, "done")
    <3>1. pc[t] = "fail" /\ UNCHANGED <<steps, touched, conversation, messages>>
      BY <1>8 DEF FailTask
    <3>2. Finished' = Finished /\ Returned' = Returned \cup {t}
      BY <1>0, <2>1, <3>1, FinishedKept, ReturnedGrows
    <3>3. status[t] \notin {None, "CANCELLED"} /\ t \notin Returned
      BY <1>0, <3>1 DEF Stage, Returned
    <3>4. Life!Fail(t)
      BY <2>1, <3>1, <3>2, <3>3 DEF Life!Fail, Life!SetStatus, Life!End
    <3>5. QED
      BY <3>4 DEF Lived, Life!Next
  <2>2. CASE UNCHANGED status /\ Goto(t, "rejected")
    BY <1>0, <1>8, <2>2, LifeStutter DEF FailTask
  <2>3. QED
    BY <1>8, <2>1, <2>2, Zenon DEF FailTask
<1>9. QED
  BY <1>1, <1>2, <1>3, <1>4, <1>5, <1>6, <1>7, <1>8 DEF EndStep

\* Every step of the tasks is one of TaskLife or a stutter.
LEMMA LifeStep == IInv /\ StageOK /\ [Next]_vars => Lived
<1> SUFFICES ASSUME IInv, StageOK, [Next]_vars
             PROVE  Lived
  OBVIOUS
<1>0. TypeOK
  BY DEF IInv
<1>1. ASSUME NEW t \in Tasks, Create(t) PROVE Lived
  <2>1. pc[t] = "new" /\ UNCHANGED <<steps, touched, conversation, messages>>
    BY <1>1 DEF Create
  <2>2. CASE conversation /\ SetStatus(t, "PENDING") /\ Goto(t, "check")
    <3>1. Finished' = Finished /\ Returned' = Returned
      BY <1>0, <2>1, <2>2, FinishedKept, ReturnedKept DEF Labels, Try
    <3>2. Life!Submit(t)
      BY <2>1, <2>2, <3>1 DEF Life!Submit, Life!SetStatus, SetStatus, StageOK, Stage
    <3>3. QED
      BY <3>2 DEF Lived, Life!Next
  <2>3. CASE Goto(t, "rejected") /\ UNCHANGED status
    BY <1>0, <2>1, <2>3, LifeStutter DEF Labels
  <2>4. QED
    BY <1>1, <2>2, <2>3, Zenon DEF Create
<1>2. ASSUME NEW t \in Tasks, RequestCancellation(t) \/ Expire(t) PROVE Lived
  <2>1. UNCHANGED <<status, steps, touched, conversation, messages, pc>>
    BY <1>2, Zenon DEF RequestCancellation, Expire
  <2>2. QED
    BY <1>0, <2>1, LifeStutter
<1>3. ASSUME NEW p \in Paths, UserWrites(p) \/ UserDeletes(p) PROVE Lived
  <2>1. UNCHANGED <<status, steps, touched, conversation, messages, pc>>
    BY <1>3, Zenon DEF UserWrites, UserDeletes
  <2>2. QED
    BY <1>0, <2>1, LifeStutter
<1>4. CASE RemoveConversation
  <2>1. Finished' = Finished /\ Returned' = Returned
    BY <1>4, FinishedKept DEF RemoveConversation, Returned
  <2>2. Life!Forget
    BY <1>4, <2>1 DEF RemoveConversation, Life!Forget
  <2>3. QED
    BY <2>2 DEF Lived, Life!Next
<1>5. CASE Crash
  <2>1. UNCHANGED <<status, steps, touched, conversation, messages>>
    BY <1>5 DEF Crash
  <2>2. Returned' = Returned
    BY <1>5 DEF Crash, Over, Returned
  <2>3. Finished' = Finished
    BY <2>1, FinishedKept
  <2>4. QED
    BY <2>1, <2>2, <2>3 DEF Lived
<1>6. CASE UNCHANGED vars
  <2>1. UNCHANGED <<status, steps, touched, conversation, messages, pc>>
    BY <1>6 DEF vars
  <2>2. QED
    BY <1>0, <2>1, LifeStutter
<1>7. QED
  BY <1>1, <1>2, <1>3, <1>4, <1>5, <1>6, AgentLived, ApplyLived, EndLived DEF Next, TaskStep

\* For any number of tasks, files and changes: the agents finish in their order,
\* files change only when all have, a task ends once and the way its status
\* says, and its answer is there as long as the conversation is.
THEOREM Implementation == Spec => KeepsLife
<1>1. Init => Life!Init
  <2>1. Init => Finished = [t \in Tasks |-> {}] /\ Returned = {}
    BY DEF Init, Finished, Returned
  <2>2. QED
    BY <2>1 DEF Init, Life!Init
<1>2. IInv /\ StageOK /\ [Next]_vars =>
        [Life!Next]_<<status, Finished, touched, conversation, messages, Returned>>
  BY LifeStep DEF Lived
<1>3. QED
  BY <1>1, <1>2, Invariance, StageInvariance, PTL DEF Spec, KeepsLife, Life!Spec, Life!vars
-----------------------------------------------------------------------------
(* How far a task has to go.                                                *)

\* The stations a task may still reach: three agents of five steps each, the
\* changes, and the end.
Phase(label, k) ==
    CASE label = "new" -> 21
      [] label = "check" -> 5 * (4 - k) + 5 [] label = "status" -> 5 * (4 - k) + 4
      [] label = "step" -> 5 * (4 - k) + 3 [] label = "agent" -> 5 * (4 - k) + 2
      [] label = "finish" -> 5 * (4 - k) + 1
      [] label \in {"apply", "write", "version", "erase"} -> 5
      [] label = "complete" -> 4 [] label \in {"lookup", "cancel"} -> 3
      [] label \in {"post", "skip"} -> 2 [] label = "fail" -> 1
      [] label \in {"done", "rejected", "dead"} -> 0

\* The steps among n changes that are still to be applied, at most three each.
Work(label, n) ==
    CASE label = "apply" -> 3 * n [] label = "write" -> 3 * n - 1
      [] label \in {"version", "erase"} -> 3 * n - 2
      [] label \notin {"apply", "write", "version", "erase"} -> 0

TaskPhase(t) == Phase(pc[t], agent[t])
TaskWork(t) == Work(pc[t], Len(todo[t]))

TaskCloser(t) ==
    \/ TaskPhase(t)' < TaskPhase(t)
    \/ TaskPhase(t)' = TaskPhase(t) /\ TaskWork(t)' < TaskWork(t)

TaskStays(t) == TaskPhase(t)' = TaskPhase(t) /\ TaskWork(t)' = TaskWork(t)

TaskOnward(t) ==
    /\ TaskCloser(t) \/ TaskStays(t)
    /\ Create(t) \/ TaskStep(t) => TaskCloser(t)

\* Every step of a task leads it on, and nothing that others do leads it back.
Onward == [][\A t \in Tasks : TaskOnward(t)]_vars

\* The measures are numbers.
LEMMA AheadType ==
    /\ \A l \in Labels, k \in Agents : Phase(l, k) \in 0 .. 21
    /\ \A l \in Labels, n \in Nat : n > 0 \/ l \notin {"write", "version", "erase"} =>
          Work(l, n) \in Nat
<1> USE DEF Labels, Try
<1>1. \A l \in Labels, k \in Agents : Phase(l, k) \in 0 .. 21
  BY SMTT(30) DEF Phase
<1>2. \A l \in Labels, n \in Nat : n > 0 \/ l \notin {"write", "version", "erase"} =>
          Work(l, n) \in Nat
  BY DEF Work
<1>3. QED
  BY <1>1, <1>2

\* The phases of the stations one by one, and what is left of an exception.
LEMMA Phases ==
    /\ \A k \in Agents :
          /\ Phase("new", k) = 21 /\ Phase("check", k) = 25 - 5 * k
          /\ Phase("status", k) = 24 - 5 * k /\ Phase("step", k) = 23 - 5 * k
          /\ Phase("agent", k) = 22 - 5 * k /\ Phase("finish", k) = 21 - 5 * k
          /\ Phase("apply", k) = 5 /\ Phase("cancel", k) = 3 /\ Phase("fail", k) = 1
          /\ Phase("rejected", k) = 0
    /\ \A l \in Try, k \in Agents : Phase(l, k) > 1
<1>1. \A k \in 1 .. 3 :
          /\ 5 * (4 - k) + 5 = 25 - 5 * k /\ 5 * (4 - k) + 4 = 24 - 5 * k
          /\ 5 * (4 - k) + 3 = 23 - 5 * k /\ 5 * (4 - k) + 2 = 22 - 5 * k
          /\ 5 * (4 - k) + 1 = 21 - 5 * k /\ 5 * (4 - k) + 1 > 1
  OBVIOUS
<1>2. \A k \in Agents :
          /\ Phase("new", k) = 21 /\ Phase("check", k) = 25 - 5 * k
          /\ Phase("status", k) = 24 - 5 * k /\ Phase("step", k) = 23 - 5 * k
          /\ Phase("agent", k) = 22 - 5 * k /\ Phase("finish", k) = 21 - 5 * k
          /\ Phase("apply", k) = 5 /\ Phase("cancel", k) = 3 /\ Phase("fail", k) = 1
          /\ Phase("rejected", k) = 0
  BY <1>1 DEF Phase
<1>3. \A l \in Try, k \in Agents : Phase(l, k) > 1
  BY <1>1 DEF Phase, Try
<1>4. QED
  BY <1>2, <1>3

\* A task in whose place nothing changes.
LEMMA TaskRests ==
    ASSUME NEW t \in Tasks, pc'[t] = pc[t], agent'[t] = agent[t], todo'[t] = todo[t]
    PROVE  TaskStays(t)
BY DEF TaskStays, TaskPhase, TaskWork

\* An agent's steps lead its task on.
LEMMA AgentCloser ==
    ASSUME TypeOK, NEW t \in Tasks, Create(t) \/ AgentStep(t)
    PROVE  TaskPhase(t)' < TaskPhase(t)
<1> USE DEF TaskPhase
<1>1. agent[t] \in Agents /\ agent[t] \in 1 .. 3
  BY DEF TypeOK
<1>2. CASE Create(t) \/ Check(t)
  <2>1. /\ agent'[t] = agent[t]
        /\ \/ pc[t] = "new" /\ pc'[t] \in {"check", "rejected"}
           \/ pc[t] = "check" /\ pc'[t] \in {"cancel", "status"}
    BY <1>2 DEF TypeOK, Goto, Create, Check
  <2>2. QED
    BY <1>1, <2>1, Phases
<1>3. CASE UpdateTaskStatus(t) \/ CreateStep(t) \/ RunAgent(t)
  <2>1. /\ agent'[t] = agent[t]
        /\ \/ pc[t] = "status" /\ pc'[t] = "step"
           \/ pc[t] = "step" /\ pc'[t] = "agent"
           \/ pc[t] = "agent" /\ pc'[t] = "finish"
    BY <1>3 DEF TypeOK, Goto, UpdateTaskStatus, CreateStep, RunAgent
  <2>2. QED
    BY <1>1, <2>1, Phases
<1>4. CASE FinishStep(t)
  <2>1. pc[t] = "finish"
    BY <1>4 DEF FinishStep
  <2>2. CASE agent[t] = 3
    <3>1. pc'[t] = "apply" /\ agent'[t] = agent[t]
      BY <1>4, <2>2 DEF TypeOK, Goto, FinishStep
    <3>2. QED
      BY <1>1, <2>1, <2>2, <3>1, Phases
  <2>3. CASE agent[t] # 3
    <3>1. pc'[t] = "check" /\ agent'[t] = agent[t] + 1
      BY <1>4, <2>3, FinishFacts DEF TypeOK, Goto
    <3>2. agent'[t] \in Agents
      BY <1>1, <2>3, <3>1
    <3>3. TaskPhase(t) = 21 - 5 * agent[t] /\ TaskPhase(t)' = 25 - 5 * agent'[t]
      BY <1>1, <2>1, <3>1, <3>2, Phases
    <3>4. QED
      BY <1>1, <3>1, <3>3
  <2>4. QED
    BY <2>2, <2>3
<1>5. QED
  BY <1>2, <1>3, <1>4 DEF AgentStep

\* Applying a change leaves the phase and one step less to do.
LEMMA ApplyCloser ==
    ASSUME TypeOK, TodoOK, NEW t \in Tasks, ApplyStep(t)
    PROVE  TaskPhase(t)' = TaskPhase(t) /\ TaskWork(t)' < TaskWork(t)
<1>1. todo[t] \in Seq(Change) /\ todo[t] # <<>>
  BY DEF TypeOK, TodoOK, ApplyStep, InsertFile, FindFile, UpdateFile, CreateVersion, DeleteFile
<1>2. /\ Len(todo[t]) \in Nat /\ Len(todo[t]) > 0
      /\ Len(Tail(todo[t])) = Len(todo[t]) - 1
  BY <1>1
<1>3. /\ pc[t] \in {"apply", "write", "version", "erase"}
      /\ pc'[t] \in {"apply", "write", "version", "erase"}
  BY DEF TypeOK, Goto, ApplyStep, InsertFile, FindFile, UpdateFile, CreateVersion, DeleteFile
<1>4. TaskPhase(t)' = TaskPhase(t)
  BY <1>3 DEF TaskPhase, Phase
<1>5. TaskWork(t)' < TaskWork(t)
  <2> USE <1>2 DEF TypeOK, Goto, Next1, TaskWork, Work
  <2>1. CASE InsertFile(t)
    BY <2>1 DEF InsertFile
  <2>2. CASE FindFile(t)
    <3>1. CASE files[Path(t)] = None
      BY <2>2, <3>1 DEF FindFile
    <3>2. CASE files[Path(t)] # None
      BY <2>2, <3>2 DEF FindFile
    <3>3. QED
      BY <3>1, <3>2
  <2>3. CASE UpdateFile(t)
    BY <2>3 DEF UpdateFile
  <2>4. CASE CreateVersion(t)
    BY <2>4 DEF CreateVersion
  <2>5. CASE DeleteFile(t)
    BY <2>5 DEF DeleteFile
  <2>6. QED
    BY <2>1, <2>2, <2>3, <2>4, <2>5 DEF ApplyStep
<1>6. QED
  BY <1>4, <1>5

\* The steps at the end, a failure among them.
LEMMA EndCloser ==
    ASSUME TypeOK, NEW t \in Tasks, EndStep(t)
    PROVE  TaskPhase(t)' < TaskPhase(t)
<1> USE DEF TypeOK, Goto, TaskPhase, Phase
<1>1. CASE SyncToPreview(t) \/ Complete(t) \/ Lookup(t) \/ PostSummary(t)
  BY <1>1 DEF SyncToPreview, Complete, Lookup, PostSummary
<1>2. CASE CancelTask(t) \/ SkipSteps(t) \/ FailTask(t)
  BY <1>2 DEF CancelTask, SkipSteps, FailTask
<1>3. CASE Throw(t)
  <2>1. pc[t] \in Try /\ pc'[t] = "fail" /\ agent'[t] = agent[t] /\ agent[t] \in Agents
    BY <1>3 DEF Throw
  <2>2. QED
    BY <2>1, Phases
<1>4. QED
  BY <1>1, <1>2, <1>3 DEF EndStep

\* No other task is led anywhere by it.
LEMMA OthersRest ==
    ASSUME TypeOK, NEW t \in Tasks, Create(t) \/ TaskStep(t), NEW u \in Tasks \ {t}
    PROVE  pc'[u] = pc[u] /\ agent'[u] = agent[u] /\ todo'[u] = todo[u]
<1> USE DEF TypeOK, Goto, Next1
<1>1. CASE Create(t) \/ Check(t) \/ UpdateTaskStatus(t) \/ CreateStep(t)
  BY <1>1 DEF Create, Check, UpdateTaskStatus, CreateStep
<1>2. CASE RunAgent(t)
  BY <1>2 DEF RunAgent
<1>3. CASE FinishStep(t)
  BY <1>3 DEF FinishStep
<1>4. CASE ApplyStep(t)
  BY <1>4 DEF ApplyStep, InsertFile, FindFile, UpdateFile, CreateVersion, DeleteFile
<1>5. CASE EndStep(t)
  BY <1>5 DEF EndStep, SyncToPreview, Complete, Lookup, PostSummary, CancelTask, SkipSteps,
              Throw, FailTask
<1>6. QED
  BY <1>1, <1>2, <1>3, <1>4, <1>5 DEF TaskStep, AgentStep

\* What a step makes of a task.
LEMMA TaskMoves ==
    ASSUME TypeOK, TodoOK, [Next]_vars, NEW t \in Tasks
    PROVE  TaskOnward(t)
<1>1. ASSUME Create(t) \/ TaskStep(t)
      PROVE  TaskCloser(t)
  <2>1. CASE Create(t) \/ AgentStep(t)
    BY <2>1, AgentCloser DEF TaskCloser
  <2>2. CASE ApplyStep(t)
    BY <2>2, ApplyCloser DEF TaskCloser
  <2>3. CASE EndStep(t)
    BY <2>3, EndCloser DEF TaskCloser
  <2>4. QED
    BY <1>1, <2>1, <2>2, <2>3 DEF TaskStep
<1>2. ASSUME ~(Create(t) \/ TaskStep(t))
      PROVE  TaskCloser(t) \/ TaskStays(t)
  <2>1. CASE \E u \in Tasks : Create(u) \/ TaskStep(u)
    <3>1. PICK u \in Tasks : Create(u) \/ TaskStep(u)
      BY <2>1
    <3>2. pc'[t] = pc[t] /\ agent'[t] = agent[t] /\ todo'[t] = todo[t]
      BY <1>2, <3>1, OthersRest
    <3>3. QED
      BY <3>2, TaskRests
  <2>2. CASE Crash
    <3>1. agent'[t] = agent[t] /\ todo'[t] = todo[t]
      BY <2>2 DEF Crash
    <3>2. CASE pc[t] \in Over
      <4>1. pc'[t] = pc[t]
        BY <2>2, <3>2 DEF Crash
      <4>2. QED
        BY <3>1, <4>1, TaskRests
    <3>3. CASE pc[t] \notin Over
      <4>1. pc'[t] = "dead"
        BY <2>2, <3>3 DEF Crash
      <4>2. TaskPhase(t)' = 0
        BY <4>1 DEF TaskPhase, Phase
      <4>3. pc[t] \in Labels \ Over /\ agent[t] \in Agents
        BY <3>3 DEF TypeOK
      <4>4. TaskPhase(t) > 0
        BY <4>3 DEF TaskPhase, Phase, Labels, Try, Over
      <4>5. QED
        BY <4>2, <4>4 DEF TaskCloser
    <3>4. QED
      BY <3>2, <3>3
  <2>3. CASE \/ \E u \in Tasks : RequestCancellation(u) \/ Expire(u)
             \/ \E p \in Paths : UserWrites(p) \/ UserDeletes(p)
             \/ RemoveConversation \/ UNCHANGED vars
    <3>1. pc' = pc /\ agent' = agent /\ todo' = todo
      BY <2>3 DEF RequestCancellation, Expire, UserWrites, UserDeletes, RemoveConversation, vars
    <3>2. QED
      BY <3>1, TaskRests
  <2>4. QED
    BY <2>1, <2>2, <2>3 DEF Next
<1>3. QED
  BY <1>1, <1>2 DEF TaskOnward

\* Whatever change lists the agents give, however many tasks, users, removals
\* and failures there are: a task takes at most twenty-one steps and three for
\* each change, and no step of anybody leads it back.
THEOREM TaskProgress == Spec => Onward
<1>1. IInv /\ [Next]_vars => [\A t \in Tasks : TaskOnward(t)]_vars
  BY TaskMoves DEF IInv
<1>2. QED
  BY <1>1, Invariance, PTL DEF Spec, Onward
=============================================================================
