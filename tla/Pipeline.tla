------------------------------- MODULE Pipeline --------------------------------
(***************************************************************************)
(* Tasks of AgentOrchestratorService on one project and one conversation:  *)
(* executeTask with its three agents, the request to cancel it, and the    *)
(* files it changes, while users edit them and may remove the conversation.*)
(*                                                                         *)
(* A file is named by its path and stands for whoever wrote it last.       *)
(***************************************************************************)
EXTENDS Naturals, Sequences

CONSTANTS
    Tasks,
    Paths,
    Outputs,      \* the change lists the developer and the refactorer give
    User,
    None

Change == [op : {"create", "update", "delete"}, path : Paths]

ASSUME PipelineConstants ==
    /\ Outputs \subseteq Seq(Change)
    /\ User \notin Tasks /\ None \notin Tasks /\ User # None
    /\ None \notin {"PENDING", "PLANNING", "DEVELOPING", "REFACTORING", "COMPLETED",
                   "FAILED", "CANCELLED", "RUNNING", "SKIPPED"}

Agents == 1 .. 3      \* the planner, the developer, the refactorer

VARIABLES
    status,       \* AgentTask.status, None before the row is there
    steps,        \* AgentStep.status per agent, None likewise
    flag,         \* task:cancel:<t> in Redis
    conversation, \* the conversation exists
    messages,     \* the tasks whose summary is among its messages
    files,        \* who wrote the file last, None when there is none
    versions,     \* FileVersion rows with an agent's step
    pc,           \* where executeTask stands
    agent,        \* whose turn it is
    todo,         \* the changes still to be applied
    held,         \* the row that was found at the first of them is still there
    due,          \* history: a cancellation is still to be seen
    touched       \* history: the task changed a file

vars == <<status, steps, flag, conversation, messages, files, versions, pc, agent,
          todo, held, due, touched>>

rowVars == <<status, steps>>
chatVars == <<conversation, messages>>
fileVars == <<files, versions, held, touched>>
cancelVars == <<flag, due>>

Running == <<"PLANNING", "DEVELOPING", "REFACTORING">>
Terminal == {"COMPLETED", "FAILED", "CANCELLED"}
Statuses == {None, "PENDING", "PLANNING", "DEVELOPING", "REFACTORING"} \cup Terminal
StepStatuses == {None, "RUNNING", "COMPLETED", "SKIPPED"}

\* Where an exception is caught: cancelTask is returned, not awaited.
Try == {"check", "status", "step", "agent", "finish", "apply", "write",
        "version", "erase", "complete", "lookup", "post"}
Labels == Try \cup {"new", "cancel", "skip", "fail", "done", "rejected", "dead"}

\* Not begun, or over.
Over == {"new", "done", "rejected", "dead"}

TypeOK ==
    /\ status \in [Tasks -> Statuses]
    /\ steps \in [Tasks -> [Agents -> StepStatuses]]
    /\ flag \in [Tasks -> BOOLEAN]
    /\ conversation \in BOOLEAN
    /\ messages \subseteq Tasks
    /\ files \in [Paths -> Tasks \cup {User, None}]
    /\ versions \subseteq [path : Paths, task : Tasks]
    /\ pc \in [Tasks -> Labels]
    /\ agent \in [Tasks -> Agents]
    /\ todo \in [Tasks -> Seq(Change)]
    /\ held \in [Tasks -> BOOLEAN]
    /\ due \in [Tasks -> BOOLEAN]
    /\ touched \in [Tasks -> BOOLEAN]

Init ==
    /\ status = [t \in Tasks |-> None]
    /\ steps = [t \in Tasks |-> [k \in Agents |-> None]]
    /\ flag = [t \in Tasks |-> FALSE]
    /\ conversation = TRUE /\ messages = {}
    /\ files \in [Paths -> {User, None}]
    /\ versions = {}
    /\ pc = [t \in Tasks |-> "new"]
    /\ agent = [t \in Tasks |-> 1]
    /\ todo = [t \in Tasks |-> <<>>]
    /\ held = [t \in Tasks |-> FALSE]
    /\ due = [t \in Tasks |-> FALSE]
    /\ touched = [t \in Tasks |-> FALSE]

Goto(t, label) == pc' = [pc EXCEPT ![t] = label]
SetStatus(t, s) == status' = [status EXCEPT ![t] = s]
SetStep(t, s) == steps' = [steps EXCEPT ![t][agent[t]] = s]

\* The task works on a path, with or without a row of it in hand.
At(t, p) == todo[t] # <<>> /\ Head(todo[t]).path = p
Path(t) == Head(todo[t]).path
Next1(t) == todo' = [todo EXCEPT ![t] = Tail(@)]

-----------------------------------------------------------------------------
(* The three agents                                                          *)

\* Outside the try block; a conversation that is gone refuses the row.  What the
\* prompts are made of is read next, and changes nothing.
Create(t) ==
    /\ pc[t] = "new"
    /\ \/ /\ conversation
          /\ SetStatus(t, "PENDING")
          /\ Goto(t, "check")
       \/ Goto(t, "rejected") /\ UNCHANGED status
    /\ UNCHANGED <<steps, cancelVars, chatVars, fileVars, agent, todo>>

Check(t) ==
    /\ pc[t] = "check"
    /\ Goto(t, IF flag[t] THEN "cancel" ELSE "status")
    /\ UNCHANGED <<rowVars, cancelVars, chatVars, fileVars, agent, todo>>

UpdateTaskStatus(t) ==
    /\ pc[t] = "status"
    /\ SetStatus(t, Running[agent[t]])
    /\ Goto(t, "step")
    /\ UNCHANGED <<steps, cancelVars, chatVars, fileVars, agent, todo>>

CreateStep(t) ==
    /\ pc[t] = "step"
    /\ SetStep(t, "RUNNING")
    /\ Goto(t, "agent")
    /\ UNCHANGED <<status, cancelVars, chatVars, fileVars, agent, todo>>

\* The refactorer's changes replace the developer's, unless it has none.
RunAgent(t) ==
    /\ pc[t] = "agent"
    /\ \/ agent[t] = 1 /\ UNCHANGED todo
       \/ agent[t] = 2 /\ \E c \in Outputs : todo' = [todo EXCEPT ![t] = c]
       \/ /\ agent[t] = 3
          /\ \E c \in Outputs : todo' = IF c = <<>> THEN todo ELSE [todo EXCEPT ![t] = c]
    /\ Goto(t, "finish")
    /\ UNCHANGED <<rowVars, cancelVars, chatVars, fileVars, agent>>

\* Mutant: nobody looks at the flag before the refactorer begins.
FinishStepUnchecked(t) ==
    /\ pc[t] = "finish"
    /\ SetStep(t, "COMPLETED")
    /\ IF agent[t] = 3 THEN Goto(t, "apply") /\ UNCHANGED agent
       ELSE /\ agent' = [agent EXCEPT ![t] = @ + 1]
            /\ Goto(t, IF agent[t] = 2 THEN "status" ELSE "check")
    /\ UNCHANGED <<status, cancelVars, chatVars, fileVars, todo>>

\* Mutant: there is a fourth turn.
FinishStepGoesOn(t) ==
    /\ pc[t] = "finish"
    /\ SetStep(t, "COMPLETED")
    /\ agent' = [agent EXCEPT ![t] = @ + 1]
    /\ Goto(t, IF agent[t] = 3 THEN "apply" ELSE "check")
    /\ UNCHANGED <<status, cancelVars, chatVars, fileVars, todo>>

\* The flag is looked at before each agent, and not after the last.  The
\* planner's plan is saved here as well.
FinishStep(t) ==
    /\ pc[t] = "finish"
    /\ SetStep(t, "COMPLETED")
    /\ IF agent[t] = 3 THEN Goto(t, "apply") /\ UNCHANGED agent
       ELSE agent' = [agent EXCEPT ![t] = @ + 1] /\ Goto(t, "check")
    /\ UNCHANGED <<status, cancelVars, chatVars, fileVars, todo>>

-----------------------------------------------------------------------------
(* applyFileChanges, one change after the other                              *)

\* A path that is taken is one of the failures.
InsertFile(t) ==
    /\ pc[t] = "apply" /\ todo[t] # <<>> /\ Head(todo[t]).op = "create"
    /\ files[Path(t)] = None
    /\ files' = [files EXCEPT ![Path(t)] = t]
    /\ held' = [held EXCEPT ![t] = TRUE] /\ touched' = [touched EXCEPT ![t] = TRUE]
    /\ Goto(t, "version")
    /\ UNCHANGED <<rowVars, cancelVars, chatVars, versions, agent, todo>>

\* What is not there is passed over.
FindFile(t) ==
    /\ pc[t] = "apply" /\ todo[t] # <<>> /\ Head(todo[t]).op # "create"
    /\ IF files[Path(t)] = None THEN Next1(t) /\ UNCHANGED <<held, pc>>
       ELSE /\ held' = [held EXCEPT ![t] = TRUE]
            /\ Goto(t, IF Head(todo[t]).op = "update" THEN "write" ELSE "erase")
            /\ UNCHANGED todo
    /\ UNCHANGED <<rowVars, cancelVars, chatVars, files, versions, touched, agent>>

\* Mutant: the agent's version is not written.
UpdateFileUnversioned(t) ==
    /\ pc[t] = "write" /\ held[t]
    /\ files' = [files EXCEPT ![Path(t)] = t]
    /\ touched' = [touched EXCEPT ![t] = TRUE] /\ held' = [held EXCEPT ![t] = FALSE]
    /\ Next1(t)
    /\ Goto(t, "apply")
    /\ UNCHANGED <<rowVars, cancelVars, chatVars, versions, agent>>

\* By its id: a row that has gone since is a failure.
UpdateFile(t) ==
    /\ pc[t] = "write" /\ held[t]
    /\ files' = [files EXCEPT ![Path(t)] = t]
    /\ touched' = [touched EXCEPT ![t] = TRUE]
    /\ Goto(t, "version")
    /\ UNCHANGED <<rowVars, cancelVars, chatVars, versions, held, agent, todo>>

CreateVersion(t) ==
    /\ pc[t] = "version" /\ held[t]
    /\ versions' = versions \cup {[path |-> Path(t), task |-> t]}
    /\ held' = [held EXCEPT ![t] = FALSE]
    /\ Next1(t)
    /\ Goto(t, "apply")
    /\ UNCHANGED <<rowVars, cancelVars, chatVars, files, touched, agent>>

\* A row goes with its versions, whoever has it in hand.
DeleteRow(p) ==
    /\ files' = [files EXCEPT ![p] = None]
    /\ versions' = {v \in versions : v.path # p}
    /\ held' = [t \in Tasks |-> held[t] /\ ~At(t, p)]

DeleteFile(t) ==
    /\ pc[t] = "erase" /\ held[t]
    /\ DeleteRow(Path(t)) /\ touched' = [touched EXCEPT ![t] = TRUE]
    /\ Next1(t)
    /\ Goto(t, "apply")
    /\ UNCHANGED <<rowVars, cancelVars, chatVars, agent>>

-----------------------------------------------------------------------------
(* The end of a task                                                         *)

\* Mutant: the summary is posted before COMPLETED is stored.
SyncToPreviewAndPost(t) ==
    /\ pc[t] = "apply" /\ todo[t] = <<>>
    /\ Goto(t, "lookup")
    /\ UNCHANGED <<rowVars, cancelVars, chatVars, fileVars, agent, todo>>

\* One syncFile for each change, a missing content like a deletion.  What they do to
\* the preview's working directory is left out.
SyncToPreview(t) ==
    /\ pc[t] = "apply" /\ todo[t] = <<>>
    /\ Goto(t, "complete")
    /\ UNCHANGED <<rowVars, cancelVars, chatVars, fileVars, agent, todo>>

Complete(t) ==
    /\ pc[t] = "complete"
    /\ SetStatus(t, "COMPLETED")
    /\ Goto(t, "lookup")
    /\ UNCHANGED <<steps, cancelVars, chatVars, fileVars, agent, todo>>

\* remove sets the task's conversationId to null.
Lookup(t) ==
    /\ pc[t] = "lookup"
    /\ Goto(t, IF conversation THEN "post" ELSE "done")
    /\ UNCHANGED <<rowVars, cancelVars, chatVars, fileVars, agent, todo>>

PostSummary(t) ==
    /\ pc[t] = "post" /\ conversation
    /\ messages' = messages \cup {t}
    /\ Goto(t, "done")
    /\ UNCHANGED <<rowVars, cancelVars, conversation, fileVars, agent, todo>>

CancelTask(t) ==
    /\ pc[t] = "cancel"
    /\ \/ SetStatus(t, "CANCELLED") /\ Goto(t, "skip")
       \/ Goto(t, "rejected") /\ UNCHANGED status
    /\ UNCHANGED <<steps, cancelVars, chatVars, fileVars, agent, todo>>

SkipSteps(t) ==
    /\ pc[t] = "skip"
    /\ \/ /\ steps' = [steps EXCEPT ![t] = [k \in Agents |->
                          IF @[k] = "RUNNING" THEN "SKIPPED" ELSE @[k]]]
          /\ Goto(t, "done")
       \/ Goto(t, "rejected") /\ UNCHANGED steps
    /\ UNCHANGED <<status, cancelVars, chatVars, fileVars, agent, todo>>

\* Whatever is awaited may fail: an agent, a query, a Redis command.
Throw(t) ==
    /\ pc[t] \in Try
    /\ Goto(t, "fail")
    /\ UNCHANGED <<rowVars, cancelVars, chatVars, fileVars, agent, todo>>

\* Mutant: the catch block only reports.
FailTaskSilently(t) ==
    /\ pc[t] = "fail"
    /\ Goto(t, "done")
    /\ UNCHANGED <<rowVars, cancelVars, chatVars, fileVars, agent, todo>>

\* The catch block, also of what fails after COMPLETED was stored.
FailTask(t) ==
    /\ pc[t] = "fail"
    /\ \/ SetStatus(t, "FAILED") /\ Goto(t, "done")
       \/ Goto(t, "rejected") /\ UNCHANGED status
    /\ UNCHANGED <<steps, cancelVars, chatVars, fileVars, agent, todo>>

-----------------------------------------------------------------------------
(* The others                                                                *)

BeforeLastCheck(t) ==
    \/ pc[t] = "check"
    \/ agent[t] < 3 /\ pc[t] \in {"status", "step", "agent", "finish"}

\* The client learns the task's id when it is created; of a task that is over
\* nobody reads the flag.
RequestCancellation(t) ==
    /\ pc[t] \notin Over
    /\ flag' = [flag EXCEPT ![t] = TRUE]
    /\ due' = [due EXCEPT ![t] = @ \/ BeforeLastCheck(t)]
    /\ UNCHANGED <<rowVars, chatVars, fileVars, pc, agent, todo>>

\* The flag lives five minutes; an agent may take longer.
Expire(t) ==
    /\ flag[t]
    /\ flag' = [flag EXCEPT ![t] = FALSE] /\ due' = [due EXCEPT ![t] = FALSE]
    /\ UNCHANGED <<rowVars, chatVars, fileVars, pc, agent, todo>>

\* A user creates, updates or deletes the file, by REST or by the chat.
UserWrites(p) ==
    /\ files' = [files EXCEPT ![p] = User]
    /\ UNCHANGED <<rowVars, cancelVars, chatVars, versions, held, touched, pc, agent, todo>>

UserDeletes(p) ==
    /\ files[p] # None
    /\ DeleteRow(p)
    /\ UNCHANGED <<rowVars, cancelVars, chatVars, touched, pc, agent, todo>>

\* ConversationsService.remove, a transaction.
RemoveConversation ==
    /\ conversation
    /\ conversation' = FALSE /\ messages' = {}
    /\ UNCHANGED <<rowVars, cancelVars, fileVars, pc, agent, todo>>

\* Nothing takes up a task that died with its process.
Crash ==
    /\ \E t \in Tasks : pc[t] \notin Over
    /\ pc' = [t \in Tasks |-> IF pc[t] \in Over THEN pc[t] ELSE "dead"]
    /\ UNCHANGED <<rowVars, cancelVars, chatVars, fileVars, agent, todo>>

-----------------------------------------------------------------------------
AgentStep(t) ==
    \/ Check(t) \/ UpdateTaskStatus(t) \/ CreateStep(t) \/ RunAgent(t)
    \/ FinishStep(t)

ApplyStep(t) ==
    \/ InsertFile(t) \/ FindFile(t) \/ UpdateFile(t) \/ CreateVersion(t) \/ DeleteFile(t)

EndStep(t) ==
    \/ SyncToPreview(t) \/ Complete(t) \/ Lookup(t) \/ PostSummary(t)
    \/ CancelTask(t) \/ SkipSteps(t) \/ Throw(t) \/ FailTask(t)

TaskStep(t) == AgentStep(t) \/ ApplyStep(t) \/ EndStep(t)

Next ==
    \/ \E t \in Tasks : Create(t) \/ TaskStep(t) \/ RequestCancellation(t) \/ Expire(t)
    \/ \E p \in Paths : UserWrites(p) \/ UserDeletes(p)
    \/ RemoveConversation
    \/ Crash

Spec == Init /\ [][Next]_vars

-----------------------------------------------------------------------------
(* Properties                                                               *)

\* The agents whose step is COMPLETED.
Finished == [t \in Tasks |-> {k \in Agents : steps[t][k] = "COMPLETED"}]

Returned == {t \in Tasks : pc[t] = "done"}

Life ==
    INSTANCE TaskLife WITH
        done <- Finished, open <- conversation, answered <- messages, over <- Returned

\* Whatever fails, is cancelled, expires or dies with the process, a task keeps
\* to the life that its status tells a client about.
KeepsLife == Life!Spec

\* The steps' rows follow the task's: an agent begins when its predecessors are
\* COMPLETED, a COMPLETED task has three of them, and a task that returned is at
\* an end, without a running step if it was cancelled.
StepsAgree ==
    \A t \in Tasks :
        /\ \A k \in Agents : steps[t][k] # None =>
              \A j \in 1 .. k - 1 : steps[t][j] = "COMPLETED"
        /\ status[t] = "COMPLETED" => \A k \in Agents : steps[t][k] = "COMPLETED"
        /\ pc[t] = "done" => status[t] \in Terminal
        /\ pc[t] = "done" /\ status[t] = "CANCELLED" =>
              \A k \in Agents : steps[t][k] # "RUNNING"

\* A cancellation that was asked for before the refactorer began, and did not
\* expire, is honoured: the task changes no file and is never COMPLETED.  And
\* no task that changed a file ends CANCELLED.
CancelHonoured ==
    \A t \in Tasks :
        /\ due[t] => ~touched[t] /\ status[t] # "COMPLETED"
        /\ touched[t] => status[t] # "CANCELLED"

\* The conversation shows the summaries of the COMPLETED tasks and of no other.
Answered ==
    \A t \in Tasks :
        /\ t \in messages => status[t] = "COMPLETED"
        /\ status[t] = "COMPLETED" /\ pc[t] = "done" /\ conversation => t \in messages

\* A text that an agent wrote has a version that names the agent's step, or the
\* task is about to write it, or did not get through.
Attributed ==
    \A t \in Tasks, p \in Paths : files[p] = t =>
        \/ [path |-> p, task |-> t] \in versions
        \/ pc[t] = "version" /\ At(t, p)
        \/ pc[t] \in {"fail", "rejected", "dead"} \/ status[t] = "FAILED"
=============================================================================
