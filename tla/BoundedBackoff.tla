--------------------------- MODULE BoundedBackoff ---------------------------
(***************************************************************************)
(* What a reconnect backoff promises its supervisor: every delay lies      *)
(* between a floor and the maximum, and the floor never falls until the    *)
(* sequence is reset after a success.                                      *)
(***************************************************************************)
EXTENDS Integers

CONSTANTS MinDelay, MaxDelay

VARIABLES floor, delay

Init == floor = MinDelay /\ delay = 0

Retry ==
    /\ delay' \in floor .. MaxDelay
    /\ floor' \in floor .. MaxDelay

Reset == floor' = MinDelay /\ UNCHANGED delay

Next == Retry \/ Reset

Spec == Init /\ [][Next]_<<floor, delay>>

=============================================================================
