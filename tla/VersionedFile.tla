----------------------------- MODULE VersionedFile -----------------------------
(***************************************************************************)
(* What a file promises its owner: it has one text, and a history that is  *)
(* only ever added to, by texts that were written to it, each with the     *)
(* next number.  The history goes with the file and with nothing else.     *)
(***************************************************************************)
EXTENDS Naturals

CONSTANTS
    Ids,          \* of files; a text is named after the call that wrote it
    Nothing

VARIABLES
    file,         \* the file's id, Nothing when there is none
    text,
    pending,      \* what was written to it and may still be recorded
    count,        \* the number of the newest version
    history       \* the versions

vars == <<file, text, pending, count, history>>

Init ==
    /\ file \in Ids \cup {Nothing} /\ text = file
    /\ pending = {} /\ count = 0 /\ history = {}

\* Whoever creates a file may mean to record it or not.
Create(i) ==
    /\ file = Nothing
    /\ file' = i /\ text' = i
    /\ pending' \in {{}, {i}}
    /\ UNCHANGED <<count, history>>

\* So may whoever writes it.
Write(t) ==
    /\ file # Nothing
    /\ text' = t
    /\ pending' \in {pending, pending \cup {t}}
    /\ UNCHANGED <<file, count, history>>

\* A text may be pending twice.
Record(t) ==
    /\ t \in pending
    /\ pending' \in {pending, pending \ {t}}
    /\ count' = count + 1
    /\ history' = history \cup {[n |-> count + 1, content |-> t]}
    /\ UNCHANGED <<file, text>>

\* A recording that does not get through.
Forget(t) ==
    /\ pending' = pending \ {t}
    /\ UNCHANGED <<file, text, count, history>>

Delete ==
    /\ file # Nothing
    /\ file' = Nothing /\ text' = Nothing
    /\ pending' = {} /\ count' = 0 /\ history' = {}

Next ==
    \/ \E i \in Ids : Create(i) \/ Write(i) \/ Record(i) \/ Forget(i)
    \/ Delete

Spec == Init /\ [][Next]_vars
=============================================================================
