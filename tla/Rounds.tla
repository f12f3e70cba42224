------------------------------- MODULE Rounds -------------------------------
(***************************************************************************)
(* What a barrier promises a team: each thread arrives and crosses in      *)
(* turn, and nobody crosses the round that somebody has not arrived at.    *)
(***************************************************************************)
EXTENDS Integers

CONSTANT Threads

VARIABLES arrived, crossed   \* per thread, the rounds it has

Init ==
    /\ arrived = [t \in Threads |-> 0]
    /\ crossed = [t \in Threads |-> 0]

Arrive(t) ==
    /\ arrived[t] = crossed[t]
    /\ arrived' = [arrived EXCEPT ![t] = @ + 1]
    /\ UNCHANGED crossed

Cross(t) ==
    /\ crossed[t] < arrived[t]
    /\ \A u \in Threads : arrived[t] <= arrived[u]
    /\ crossed' = [crossed EXCEPT ![t] = @ + 1]
    /\ UNCHANGED arrived

Next == \E t \in Threads : Arrive(t) \/ Cross(t)

Spec == Init /\ [][Next]_<<arrived, crossed>>

=============================================================================
