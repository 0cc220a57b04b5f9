----------------------------- MODULE TurnTaking -----------------------------
(***************************************************************************)
(* What a conversation promises: one exchange at a time has the floor, a   *)
(* newer one or a stop takes it away, and only the exchange that has the   *)
(* floor asks the model for a turn, a bounded number of times.             *)
(***************************************************************************)
EXTENDS Naturals

CONSTANTS Exchanges, Nobody, MaxTurns

VARIABLES
    floor,    \* the exchange that has the floor
    turns     \* how often each exchange has asked the model

Init ==
    /\ floor = Nobody
    /\ turns = [x \in Exchanges |-> 0]

\* An exchange takes the floor, whoever had it, and asks for its first turn.
Open(x) ==
    /\ turns[x] = 0
    /\ floor' = x
    /\ turns' = [turns EXCEPT ![x] = 1]

Turn(x) ==
    /\ floor = x
    /\ turns[x] < MaxTurns
    /\ turns' = [turns EXCEPT ![x] = @ + 1]
    /\ UNCHANGED floor

Close ==
    /\ floor' = Nobody
    /\ UNCHANGED turns

Next == Close \/ \E x \in Exchanges : Open(x) \/ Turn(x)

Spec == Init /\ [][Next]_<<floor, turns>>
=============================================================================
