-------------------------- MODULE TelemetryOutbox ---------------------------
(***************************************************************************)
(* What the firmware promises the producers of best-effort telemetry: a    *)
(* message is refused only when the bounded channel is full, and refusals  *)
(* are counted; an accepted message is published once, or lost, and never  *)
(* both.                                                                   *)
(***************************************************************************)
EXTENDS Integers

CONSTANT Depth      \* entries of the channel

VARIABLES
    waiting,        \* accepted, in the channel
    taken,          \* in the hands of the publisher, one at most
    dropped,        \* refused and counted
    published,
    lost

vars == <<waiting, taken, dropped, published, lost>>

Init == waiting = 0 /\ taken = 0 /\ dropped = 0 /\ published = 0 /\ lost = 0

Accept ==
    /\ waiting < Depth
    /\ waiting' = waiting + 1
    /\ UNCHANGED <<taken, dropped, published, lost>>

Refuse ==
    /\ waiting = Depth
    /\ dropped' = dropped + 1
    /\ UNCHANGED <<waiting, taken, published, lost>>

Take ==
    /\ waiting > 0 /\ taken = 0
    /\ waiting' = waiting - 1
    /\ taken' = 1
    /\ UNCHANGED <<dropped, published, lost>>

Publish ==
    /\ taken = 1
    /\ taken' = 0
    /\ published' = published + 1
    /\ UNCHANGED <<waiting, dropped, lost>>

Lose ==
    /\ taken = 1
    /\ taken' = 0
    /\ lost' = lost + 1
    /\ UNCHANGED <<waiting, dropped, published>>

Next == Accept \/ Refuse \/ Take \/ Publish \/ Lose

Spec == Init /\ [][Next]_vars

=============================================================================
