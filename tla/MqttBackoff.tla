---------------------------- MODULE MqttBackoff -----------------------------
(***************************************************************************)
(* ReconnectBackoff of crates/mqtt: the delay between two attempts of the  *)
(* MQTT service.  The base is initial_delay_ms.checked_shl(attempts), a    *)
(* shift in a word of WordBits bits: checked_shl refuses a shift by the    *)
(* word size, which never happens here, and drops the bits that leave the  *)
(* word.                                                                   *)
(***************************************************************************)
EXTENDS Integers

CONSTANTS
    WordBits,       \* 32
    InitialDelay,   \* initial_delay_ms
    MaximumDelay,   \* maximum_delay_ms
    Jitter,         \* jitter_ms
    AttemptsMax     \* u8::MAX

\* The policies ReconnectPolicy::new accepts.
ValidPolicy == InitialDelay # 0 /\ InitialDelay <= MaximumDelay

\* The delays are words; a quarter of one is compared, for TLC's integers end
\* below 2^31.
ASSUME PolicyAssumption ==
    /\ InitialDelay \in Nat /\ MaximumDelay \in Nat /\ Jitter \in Nat
    /\ ValidPolicy
    /\ WordBits \in Nat \ {0, 1}
    /\ InitialDelay \div 4 < 2^(WordBits - 2)
    /\ MaximumDelay \div 4 < 2^(WordBits - 2)
    /\ AttemptsMax \in Nat \ {0}

VARIABLES
    attempts,
    base,       \* the base of the last next_delay_ms, 0 before
    delay       \* what it returned

vars == <<attempts, base, delay>>

Least(a, b) == IF a <= b THEN a ELSE b

TypeOK ==
    /\ attempts \in 0 .. AttemptsMax
    /\ base \in 0 .. MaximumDelay
    /\ delay \in 0 .. MaximumDelay

\* min((n << shift) mod 2^WordBits, limit), computed without leaving TLC's
\* integers: the bits that survive the shift are the WordBits - shift low ones.
ShiftedAtMost(n, shift, limit) ==
    LET low == 2 * ((n \div 2) % 2^(WordBits - shift - 1)) + (n % 2)
    IN  CASE shift = 0 -> Least(n, limit)
          [] OTHER -> IF low > (limit \div 2) \div 2^(shift - 1) THEN limit
                      ELSE (2 * low) * 2^(shift - 1)

Init == attempts = 0 /\ base = 0 /\ delay = 0

\* Mutant: the jitter is added after the bound was applied.
NextDelayUnbounded(jitter) ==
    LET shift == Least(attempts, WordBits - 1)
        shifted == ShiftedAtMost(InitialDelay, shift, MaximumDelay)
    IN  /\ base' = shifted
        /\ attempts' = Least(attempts + 1, AttemptsMax)
        /\ delay' = shifted + jitter

\* Mutant: the attempt is counted before the shift.
NextDelayCountedFirst(jitter) ==
    LET shift == Least(attempts + 1, WordBits - 1)
        shifted == ShiftedAtMost(InitialDelay, shift, MaximumDelay)
    IN  /\ base' = shifted
        /\ attempts' = Least(attempts + 1, AttemptsMax)
        /\ delay' = Least(shifted + jitter, MaximumDelay)

\* next_delay_ms(entropy), with jitter = entropy % (jitter_ms + 1).
NextDelay(jitter) ==
    LET shift == Least(attempts, WordBits - 1)
        shifted == ShiftedAtMost(InitialDelay, shift, MaximumDelay)
    IN  /\ base' = shifted
        /\ attempts' = Least(attempts + 1, AttemptsMax)
        /\ delay' = Least(shifted + jitter, MaximumDelay)

Reset == attempts' = 0 /\ UNCHANGED <<base, delay>>

Next == (\E jitter \in 0 .. Jitter : NextDelay(jitter)) \/ Reset

Spec == Init /\ [][Next]_vars

-----------------------------------------------------------------------------
\* The doubling sequence the policy stands for: the base of retry n + 1.
Doubling[n \in Nat] ==
    IF n = 0 THEN InitialDelay ELSE Least(2 * Doubling[n - 1], MaximumDelay)

\* No bit of the initial delay leaves the word in a shift this long.
Fits(shift) ==
    \/ shift = 0
    \/ shift < WordBits /\ InitialDelay \div 2 < 2^(WordBits - shift - 1)

\* As long as no bit is lost, the base of every retry is the one of the
\* doubling sequence and the jitter only adds to it, within the maximum.
FollowsDoubling ==
    (attempts # 0 /\ attempts < AttemptsMax /\ Fits(attempts - 1)) =>
        /\ base = Doubling[attempts - 1]
        /\ delay \in base .. MaximumDelay
        /\ delay <= base + Jitter

\* crates/mqtt/src/lib.rs: a "bounded exponential reconnect policy".  Between
\* two resets the base of a retry is never below the one before it.
NeverShrinks == [][attempts' # 0 /\ attempts # 0 => base' >= base]_vars

=============================================================================
