---------------------------- MODULE WifiBackoff -----------------------------
(***************************************************************************)
(* ReconnectBackoff of crates/wifi: the delay between two association      *)
(* attempts of the station supervisor.                                     *)
(***************************************************************************)
EXTENDS Integers

CONSTANTS
    InitialDelay,   \* initial_delay_ms
    MaximumDelay,   \* maximum_delay_ms, bounds the delay with its jitter
    MaximumJitter,  \* maximum_jitter_ms
    AttemptsMax     \* u32::MAX, where the attempt counter saturates

\* The policies ReconnectPolicy::new accepts.
ValidPolicy ==
    /\ InitialDelay # 0
    /\ InitialDelay <= MaximumDelay
    /\ MaximumJitter < MaximumDelay

ASSUME PolicyAssumption ==
    /\ InitialDelay \in Nat /\ MaximumDelay \in Nat /\ MaximumJitter \in Nat
    /\ ValidPolicy
    /\ AttemptsMax \in Nat \ {0}

VARIABLES
    next_base,      \* next_base_delay_ms
    attempts,
    delay           \* what the last next_delay_ms returned, 0 before

vars == <<next_base, attempts, delay>>

Smaller(a, b) == IF a <= b THEN a ELSE b

\* maximum_delay_ms.saturating_sub(maximum_jitter_ms), positive by the policy.
MaximumBase == MaximumDelay - MaximumJitter

Base == Smaller(next_base, MaximumBase)

TypeOK ==
    /\ next_base \in 1 .. MaximumDelay
    /\ attempts \in 0 .. AttemptsMax
    /\ delay \in 0 .. MaximumDelay

Init ==
    /\ next_base = InitialDelay
    /\ attempts = 0
    /\ delay = 0

\* Mutants of DoubledBase: not cut at the maximum, growing by addition, and
\* starting over at the maximum.
DoubledBaseUncut == 2 * Base
DoubledBaseLinear == Smaller(Base + InitialDelay, MaximumBase)
DoubledBaseRestarting ==
    IF 2 * Base > MaximumBase THEN InitialDelay ELSE 2 * Base

\* The doubling saturates at u32::MAX, above every MaximumBase.
DoubledBase == Smaller(2 * Base, MaximumBase)

\* next_delay_ms(entropy), with jitter = entropy % (maximum_jitter_ms + 1).
NextDelay(jitter) ==
    /\ delay' = Smaller(Base + jitter, MaximumDelay)
    /\ next_base' = DoubledBase
    /\ attempts' = Smaller(attempts + 1, AttemptsMax)

Reset ==
    /\ next_base' = InitialDelay
    /\ attempts' = 0
    /\ UNCHANGED delay

Next == (\E jitter \in 0 .. MaximumJitter : NextDelay(jitter)) \/ Reset

Spec == Init /\ [][Next]_vars

-----------------------------------------------------------------------------
\* The backoff implements the bounded, never-shrinking schedule: the floor is
\* the base the next delay starts from.
Schedule == INSTANCE BoundedBackoff WITH
                floor <- Base,
                delay <- delay,
                MinDelay <- Smaller(InitialDelay, MaximumBase),
                MaxDelay <- MaximumDelay

\* Every delay the Wi-Fi supervisor sleeps keeps to the schedule of
\* BoundedBackoff: never above maximum_delay_ms, jitter included, never below
\* the base reached so far, and the base only falls on reset().
KeepsSchedule == Schedule!Spec

\* A reset and the retries after it follow the doubling sequence exactly: the
\* base after n retries is InitialDelay * 2^n, cut at MaximumBase.
Doubles ==
    attempts <= 30 /\ InitialDelay <= MaximumBase =>
        Base = IF InitialDelay > MaximumBase \div 2^attempts
               THEN MaximumBase
               ELSE InitialDelay * 2^attempts

=============================================================================
