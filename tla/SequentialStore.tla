-------------------------- MODULE SequentialStore ---------------------------
(***************************************************************************)
(* SequentialStore of crates/storage: a key-value store that appends       *)
(* tagged records to the log-structured map of sequential-storage.  The    *)
(* map is external: it appends an item, ignores one whose CRC does not     *)
(* match, makes room by copying newest items into a page it keeps free and *)
(* erasing what is superseded, and erases its pages one after the other.   *)
(* What the SDK adds, and this module models, is the record format (a live *)
(* value or a tombstone), the size limits, and the operations built on     *)
(* them.  A dropped future and a power loss leave the same thing behind:   *)
(* whatever the flash holds.                                               *)
(***************************************************************************)
EXTENDS Integers, Sequences, FiniteSets, SequencesExt

CONSTANTS
    Keys,
    Values,         \* the byte strings callers store ...
    SizeOf,         \* ... and their length
    Absent,
    Scratch,        \* SCRATCH, the size of the working buffer
    LogCapacity,    \* items the flash range holds ...
    Reserve         \* ... beside the page kept free for migration

\* size_of::<u32>() for the key and one byte for the tag.
EncodingOverhead == 5

\* new refuses a working buffer that cannot hold an empty value.
ASSUME StoreAssumption ==
    /\ IsFiniteSet(Keys)
    /\ SizeOf \in [Values -> Nat]
    /\ Absent \notin Values
    /\ Scratch \in Nat /\ Scratch >= EncodingOverhead
    /\ LogCapacity \in Nat \ {0}
    /\ Reserve \in Nat

VARIABLES
    log,        \* items in the flash range, oldest first
    op,         \* the operation under way
    fetched,    \* what the last get returned
    outcome     \* what the last mutation returned

vars == <<log, op, fetched, outcome>>

\* Mutant: the tag byte is forgotten.
MaxValueSizeUntagged == IF Scratch > 4 THEN Scratch - 4 ELSE 0

MaxValueSize ==
    IF Scratch > EncodingOverhead THEN Scratch - EncodingOverhead ELSE 0

(* StoredValue: the tag, and the value behind tag 1.                       *)

Tombstone == [tag |-> 0]

Live(v) == [tag |-> 1, value |-> v]

EncodedSize(s) ==
    EncodingOverhead + IF s.tag = 1 THEN SizeOf[s.value] ELSE 0

Item(k, s) == [key |-> k, stored |-> s, intact |-> TRUE]

Torn(k) == [key |-> k, stored |-> Tombstone, intact |-> FALSE]

(* The map of sequential-storage.                                          *)

\* The places of a key's items that pass their CRC.
Intact(k) == {i \in DOMAIN log : log[i].key = k /\ log[i].intact}

IsNewest(i) == i \in Intact(log[i].key) /\ \A j \in Intact(log[i].key) : j <= i

\* fetch_item: the newest intact item of the key.
fetch_item(k) == log[CHOOSE i \in Intact(k) : IsNewest(i)].stored

\* The values of a key that the flash holds, superseded ones included.
Held(k) == {v \in Values : \E i \in Intact(k) : log[i].stored = Live(v)}

(* What the store's caller sees.                                           *)

\* get: nothing stored and a tombstone are both NotFound.
LogicalValue(k) ==
    IF Intact(k) = {} \/ fetch_item(k) = Tombstone THEN Absent
    ELSE fetch_item(k).value

Idle == [kind |-> "idle"]

Store(k, s) == [kind |-> "store", key |-> k, stored |-> s]

Written(k, s) == [kind |-> "written", key |-> k, stored |-> s]

Clear == [kind |-> "clear"]

StoredValues == {Live(v) : v \in Values} \cup {Tombstone}

Operations ==
    {Idle, Clear} \cup {Store(k, s) : k \in Keys, s \in StoredValues}
                  \cup {Written(k, s) : k \in Keys, s \in StoredValues}

Fetches ==
    {[kind |-> "none"]}
        \cup {[kind |-> "value", key |-> k, value |-> v]
                : k \in Keys, v \in Values \cup {Absent}}
        \cup {[kind |-> "too_small", key |-> k] : k \in Keys}
        \cup {[kind |-> "error", key |-> k] : k \in Keys}

\* ErrorKind, as far as the model tells the errors of a mutation apart: an
\* interrupted one reports the flash's error, or nothing to anybody.
ErrorKind == {"Backend", "Full", "ValueTooLarge"}

Outcomes == {"none", "Ok"} \cup ErrorKind

Items == [key : Keys, stored : StoredValues, intact : BOOLEAN]

TypeOK ==
    /\ log \in Seq(Items)
    /\ Len(log) <= LogCapacity + Reserve
    /\ op \in Operations
    /\ fetched \in Fetches
    /\ outcome \in Outcomes

Init ==
    /\ log = <<>>
    /\ op = Idle
    /\ fetched = [kind |-> "none"]
    /\ outcome = "none"

-----------------------------------------------------------------------------
(* put and delete.                                                         *)

PutStart(k, v) ==
    /\ op = Idle
    /\ SizeOf[v] <= MaxValueSize
    /\ op' = Store(k, Live(v))
    /\ UNCHANGED <<log, fetched, outcome>>

PutTooLarge(v) ==
    /\ op = Idle
    /\ SizeOf[v] > MaxValueSize
    /\ outcome' = "ValueTooLarge"
    /\ UNCHANGED <<log, op, fetched>>

\* Mutant: deletion is left to the next compaction.
DeleteStartLazy(k) ==
    /\ op = Idle
    /\ op' = Written(k, Tombstone)
    /\ UNCHANGED <<log, fetched, outcome>>

DeleteStart(k) ==
    /\ op = Idle
    /\ op' = Store(k, Tombstone)
    /\ UNCHANGED <<log, fetched, outcome>>

\* store_item appends the item; only its last write makes it intact.
AppendItem ==
    /\ op.kind = "store"
    /\ Len(log) < LogCapacity
    /\ log' = log \o <<Item(op.key, op.stored)>>
    /\ op' = Written(op.key, op.stored)
    /\ UNCHANGED <<fetched, outcome>>

\* ... and an interruption before it leaves an item that fails its CRC.
AppendTorn ==
    /\ op.kind = "store"
    /\ Len(log) < LogCapacity
    /\ log' = log \o <<Torn(op.key)>>
    /\ op' = Idle
    /\ outcome' = "Backend"
    /\ UNCHANGED fetched

\* The value fits the working buffer but no page of the flash.  The map's
\* page size is not modelled: any value may be too big for it.
ItemTooBig ==
    /\ op.kind = "store"
    /\ op.stored.tag = 1
    /\ op' = Idle
    /\ outcome' = "ValueTooLarge"
    /\ UNCHANGED <<log, fetched>>

(* The range is full: the newest items of the oldest page are copied, one  *)
(* after the other, into the page kept free, and the page is erased.       *)

Migrate ==
    /\ op.kind = "store"
    /\ Len(log) >= LogCapacity
    /\ Len(log) < LogCapacity + Reserve
    /\ \E i \in DOMAIN log :
            IsNewest(i) /\ log' = log \o <<Item(log[i].key, log[i].stored)>>
    /\ UNCHANGED <<op, fetched, outcome>>

MigrateTorn ==
    /\ op.kind = "store"
    /\ Len(log) >= LogCapacity
    /\ Len(log) < LogCapacity + Reserve
    /\ \E i \in DOMAIN log :
            IsNewest(i) /\ log' = log \o <<Torn(log[i].key)>>
    /\ op' = Idle
    /\ outcome' = "Backend"
    /\ UNCHANGED fetched

\* A page is erased item by item: any superseded or torn one may be gone.
Reclaim ==
    /\ op.kind = "store"
    /\ \E i \in DOMAIN log : ~IsNewest(i) /\ log' = RemoveAt(log, i)
    /\ UNCHANGED <<op, fetched, outcome>>

\* Every item is the newest of its key: nothing can be reclaimed.
NothingToReclaim ==
    Len(log) >= LogCapacity /\ \A i \in DOMAIN log : IsNewest(i)

\* Mutant: the error of the map reaches the caller unconverted.
StoreFullUnmapped ==
    /\ op.kind = "store"
    /\ NothingToReclaim
    /\ op' = Idle
    /\ outcome' = "FullStorage"
    /\ UNCHANGED <<log, fetched>>

StoreFull ==
    /\ op.kind = "store"
    /\ NothingToReclaim
    /\ op' = Idle
    /\ outcome' = "Full"
    /\ UNCHANGED <<log, fetched>>

StoreDone ==
    /\ op.kind = "written"
    /\ op' = Idle
    /\ outcome' = "Ok"
    /\ UNCHANGED <<log, fetched>>

\* The flash fails, the future is dropped or the power goes.
Interrupt ==
    /\ op # Idle
    /\ op' = Idle
    /\ outcome' = "Backend"
    /\ UNCHANGED <<log, fetched>>

-----------------------------------------------------------------------------
(* clear: erase_all goes through the pages in the order of the flash, in   *)
(* which any item, also the newest of its key, may be the first to go.     *)

ClearStart ==
    /\ op = Idle
    /\ op' = Clear
    /\ UNCHANGED <<log, fetched, outcome>>

ErasePage ==
    /\ op = Clear
    /\ \E i \in DOMAIN log : log' = RemoveAt(log, i)
    /\ UNCHANGED <<op, fetched, outcome>>

ClearDone ==
    /\ op = Clear
    /\ log = <<>>
    /\ op' = Idle
    /\ outcome' = "Ok"
    /\ UNCHANGED <<log, fetched>>

-----------------------------------------------------------------------------
\* get with an output buffer of room bytes.
Get(k, room) ==
    /\ op = Idle
    /\ LET v == LogicalValue(k)
       IN  fetched' = IF v # Absent /\ room < SizeOf[v]
                      THEN [kind |-> "too_small", key |-> k]
                      ELSE [kind |-> "value", key |-> k, value |-> v]
    /\ UNCHANGED <<log, op, outcome>>

\* The flash fails, or what it holds does not decode: Backend, Corrupted or
\* InvalidData, and no bytes.
GetFailed(k) ==
    /\ op = Idle
    /\ fetched' = [kind |-> "error", key |-> k]
    /\ UNCHANGED <<log, op, outcome>>

Rooms == {SizeOf[v] : v \in Values}

Next ==
    \/ \E k \in Keys, v \in Values : PutStart(k, v)
    \/ \E v \in Values : PutTooLarge(v)
    \/ \E k \in Keys : DeleteStart(k)
    \/ AppendItem
    \/ AppendTorn
    \/ ItemTooBig
    \/ Migrate
    \/ MigrateTorn
    \/ Reclaim
    \/ StoreFull
    \/ StoreDone
    \/ Interrupt
    \/ ClearStart
    \/ ErasePage
    \/ ClearDone
    \/ \E k \in Keys, room \in Rooms : Get(k, room)
    \/ \E k \in Keys : GetFailed(k)

Spec == Init /\ [][Next]_vars

-----------------------------------------------------------------------------
(* The trait's promise.                                                    *)

\* The operation as its caller knows it.
CallersOp ==
    LET v == IF op.stored.tag = 1 THEN op.stored.value ELSE Absent
    IN  CASE op.kind = "idle" -> [kind |-> "idle"]
          [] op.kind = "clear" -> [kind |-> "clear"]
          [] op.kind = "store" ->
                [kind |-> "mutate", key |-> op.key, value |-> v]
          [] op.kind = "written" ->
                [kind |-> "settled", key |-> op.key, value |-> v]

Promise == INSTANCE KeyValueStore WITH
               value <- [k \in Keys |-> LogicalValue(k)],
               older <- [k \in Keys |-> Held(k)],
               op <- CallersOp,
               outcome <- IF outcome \in ErrorKind THEN "Err" ELSE outcome

\* SequentialStore keeps the promise of the KeyValueStore trait: whatever is
\* interrupted, torn, half migrated or reclaimed, a mutation is seen completely
\* or not at all and is there once it succeeded, a failed one changes nothing
\* else, and get returns the current value or no bytes.  An interrupted clear
\* shows no value but one stored under that very key since the last clear
\* that completed.
KeepsStorePromise == Promise!Spec

\* Every intact item fits the working buffer, so that get can always decode
\* what put accepted: MAX_VALUE_SIZE leaves room for the key and the tag.
FetchFitsScratch ==
    \A i \in DOMAIN log : log[i].intact => EncodedSize(log[i].stored) <= Scratch

\* crates/storage/src/lib.rs, Error::Full: "The store cannot retain the
\* requested value and all live records."
FullMeansLiveRecords ==
    [][ StoreFull =>
            Cardinality({k \in Keys : LogicalValue(k) # Absent})
                >= LogCapacity ]_vars

=============================================================================
