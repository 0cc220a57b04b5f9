-------------------------------- MODULE TaskLife --------------------------------
(***************************************************************************)
(* What a client may rely on when it watches the tasks of a conversation:  *)
(* three agents in their order, files change only when all of them are     *)
(* done, a task ends once, and it is answered when it ends COMPLETED, as   *)
(* long as there is a conversation to answer in.                           *)
(***************************************************************************)
EXTENDS Naturals

CONSTANTS Tasks, None

VARIABLES
    status,
    done,         \* the agents of a task that have finished
    touched,      \* the task has changed files
    open,         \* the conversation exists
    answered,     \* the tasks whose summary it shows
    over          \* the tasks that have come to their end

vars == <<status, done, touched, open, answered, over>>

Stage == <<"PLANNING", "DEVELOPING", "REFACTORING">>

Init ==
    /\ status = [t \in Tasks |-> None]
    /\ done = [t \in Tasks |-> {}]
    /\ touched = [t \in Tasks |-> FALSE]
    /\ open = TRUE /\ answered = {} /\ over = {}

SetStatus(t, s) ==
    /\ status' = [status EXCEPT ![t] = s]
    /\ UNCHANGED <<done, touched, open, answered>>

End(t) == over' = over \cup {t}

Submit(t) == open /\ status[t] = None /\ SetStatus(t, "PENDING") /\ UNCHANGED over

\* Before the k-th agent, after all the ones before it.
Before(t, k) ==
    /\ status[t] = IF k = 1 THEN "PENDING" ELSE Stage[k - 1]
    /\ done[t] = 1 .. k - 1

Begin(t, k) == Before(t, k) /\ SetStatus(t, Stage[k]) /\ UNCHANGED over

Finish(t, k) ==
    /\ status[t] = Stage[k] /\ done[t] = 1 .. k - 1
    /\ done' = [done EXCEPT ![t] = 1 .. k]
    /\ UNCHANGED <<status, touched, open, answered, over>>

\* No file changes before the refactorer is done.
Developed(t) == status[t] = "REFACTORING" /\ done[t] = 1 .. 3

Apply(t) ==
    /\ Developed(t)
    /\ touched' = [touched EXCEPT ![t] = TRUE]
    /\ UNCHANGED <<status, done, open, answered, over>>

Complete(t) == Developed(t) /\ SetStatus(t, "COMPLETED") /\ UNCHANGED over

Answer(t) ==
    /\ status[t] = "COMPLETED" /\ t \notin over
    /\ answered' = IF open THEN answered \cup {t} ELSE answered
    /\ End(t)
    /\ UNCHANGED <<status, done, touched, open>>

\* The conversation goes with its answers.
Forget ==
    /\ open /\ open' = FALSE /\ answered' = {}
    /\ UNCHANGED <<status, done, touched, over>>

\* Only between two agents, and never once files have changed.
Cancel(t) ==
    /\ ~touched[t]
    /\ \E k \in 1 .. 3 : Before(t, k)
    /\ SetStatus(t, "CANCELLED") /\ UNCHANGED over

Cancelled(t) ==
    /\ status[t] = "CANCELLED"
    /\ End(t)
    /\ UNCHANGED <<status, done, touched, open, answered>>

\* A cancelled task does not fail, a COMPLETED one may until it is answered.
Fail(t) ==
    /\ status[t] \notin {None, "CANCELLED"} /\ t \notin over
    /\ SetStatus(t, "FAILED") /\ End(t)

Next ==
    \/ \E t \in Tasks :
          \/ Submit(t) \/ Apply(t) \/ Complete(t) \/ Answer(t) \/ Cancel(t) \/ Cancelled(t)
          \/ Fail(t) \/ \E k \in 1 .. 3 : Begin(t, k) \/ Finish(t, k)
    \/ Forget

Spec == Init /\ [][Next]_vars
=============================================================================
