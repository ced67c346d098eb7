--------------------------- MODULE KeyValueStore ----------------------------
(***************************************************************************)
(* What the KeyValueStore trait of crates/storage promises its callers.    *)
(* The store is owned by one caller at a time (&mut self), so at most one  *)
(* operation is under way.  A mutation takes effect in one step, before it *)
(* reports success; interrupted by an error, a cancellation or a power     *)
(* loss it may have taken effect or not, and nothing in between is seen.   *)
(* clear is the exception: until it has completed, an erased page may      *)
(* uncover an older value of the same key, but only one the medium still   *)
(* holds, and a completed clear leaves none.                               *)
(***************************************************************************)
CONSTANTS
    Keys,
    Values,
    Absent      \* no live value

VARIABLES
    value,      \* the logical value of every key
    older,      \* the values of every key the medium may still hold
    op,         \* the operation under way
    outcome,    \* what the last finished mutation or clear returned
    fetched     \* what the last get returned

vars == <<value, older, op, outcome, fetched>>

Idle == [kind |-> "idle"]

Mutation(k, v) == [kind |-> "mutate", key |-> k, value |-> v]

Settled(k, v) == [kind |-> "settled", key |-> k, value |-> v]

Clearing == [kind |-> "clear"]

NothingFetched == [kind |-> "none"]

Result(k, v) == [kind |-> "value", key |-> k, value |-> v]

TooSmall(k) == [kind |-> "too_small", key |-> k]

Failed(k) == [kind |-> "error", key |-> k]

Init ==
    /\ value = [k \in Keys |-> Absent]
    /\ older = [k \in Keys |-> {}]
    /\ op = Idle
    /\ outcome = "none"
    /\ fetched = NothingFetched

\* put(k, v), or delete(k) with v = Absent.
Begin(k, v) ==
    /\ op = Idle
    /\ op' = Mutation(k, v)
    /\ UNCHANGED <<value, older, outcome, fetched>>

TakeEffect(k, v) ==
    /\ op = Mutation(k, v)
    /\ value' = [value EXCEPT ![k] = v]
    /\ older' = [older EXCEPT ![k] = @ \cup ({v} \cap Values)]
    /\ op' = Settled(k, v)
    /\ UNCHANGED <<outcome, fetched>>

Succeed(k, v) ==
    /\ op = Settled(k, v)
    /\ op' = Idle
    /\ outcome' = "Ok"
    /\ UNCHANGED <<value, older, fetched>>

\* An error, a cancelled future or a power loss; or an operation refused from
\* the start.
Fail ==
    /\ op' = Idle
    /\ outcome' = "Err"
    /\ UNCHANGED <<value, older, fetched>>

\* Superseded values are given up, whenever the medium makes room.
GivesUp ==
    /\ older' \in [Keys -> SUBSET Values]
    /\ \A k \in Keys : older'[k] \subseteq older[k]

MakeRoom(k, v) ==
    /\ op = Mutation(k, v)
    /\ GivesUp
    /\ UNCHANGED <<value, op, outcome, fetched>>

BeginClear ==
    /\ op = Idle
    /\ op' = Clearing
    /\ UNCHANGED <<value, older, outcome, fetched>>

Erase ==
    /\ op = Clearing
    /\ GivesUp
    /\ value' \in [Keys -> Values \cup {Absent}]
    /\ \A k \in Keys : value'[k] \in older'[k] \cup {Absent}
    /\ UNCHANGED <<op, outcome, fetched>>

FinishClear ==
    /\ op = Clearing
    /\ value' = [k \in Keys |-> Absent]
    /\ older' = [k \in Keys |-> {}]
    /\ op' = Idle
    /\ outcome' = "Ok"
    /\ UNCHANGED fetched

\* get(k): the complete value, or nothing at all.
Get(k) ==
    /\ op = Idle
    /\ \/ fetched' = Result(k, value[k])
       \/ value[k] # Absent /\ fetched' = TooSmall(k)
       \/ fetched' = Failed(k)
    /\ UNCHANGED <<value, older, op, outcome>>

Next ==
    \/ \E k \in Keys, v \in Values \cup {Absent} :
            \/ Begin(k, v)
            \/ MakeRoom(k, v)
            \/ TakeEffect(k, v)
            \/ Succeed(k, v)
    \/ Fail
    \/ BeginClear
    \/ Erase
    \/ FinishClear
    \/ \E k \in Keys : Get(k)

Spec == Init /\ [][Next]_vars

=============================================================================
