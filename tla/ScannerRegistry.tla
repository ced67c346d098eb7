-------------------------- MODULE ScannerRegistry --------------------------
(***************************************************************************)
(* The device registry of the beacon scanner firmware and the loop that   *)
(* closes a scan window every five seconds.  Two futures share the        *)
(* registry: the Bluetooth host runner records every advertising report   *)
(* it takes from the controller, and the scan loop opens a window, sleeps *)
(* and prints a snapshot.  Neither awaits while it holds the registry, so *)
(* each of them is one action; but reports the controller had already     *)
(* queued reach the runner in every phase of the loop, also after a       *)
(* window was closed or while a failed scan waits for its retry.          *)
(*                                                                         *)
(* Names, manufacturer and beacon labels of a device are left out: no     *)
(* decision of the registry depends on them.                              *)
(***************************************************************************)
EXTENDS Integers, FiniteSets, FiniteSetsExt

CONSTANTS
    Addresses,      \* advertiser identities (address and kind)
    Rssi,           \* signal strengths a report can carry (i8)
    Capacity,       \* DEVICE_CAPACITY, 128 in the firmware
    Remembered,     \* REMEMBERED_DEVICE_CAPACITY, 48 in the firmware
    WindowTicks,    \* SCAN_WINDOW, in ticks of the model's clock
    RetryTicks,     \* the pause after a failed scan start
    StaleTicks,     \* DEVICE_STALE_AFTER_MS
    MaxNow,         \* bound: the clock stops here
    MaxReports      \* bound: reports, malformed ones included, in one window

ASSUME ScannerAssumption ==
    /\ IsFiniteSet(Addresses)
    /\ Rssi \subseteq -128..127
    /\ Capacity \in Nat \ {0}
    /\ Remembered \in Nat \ {0}
    /\ WindowTicks \in Nat
    /\ RetryTicks \in Nat
    /\ StaleTicks \in Nat
    /\ MaxNow \in Nat
    /\ MaxReports \in Nat

VARIABLES
    now,            \* Instant::now()
    phase,          \* what the scan loop is waiting for
    deadline,       \* when its timer fires
    entries,        \* the slots of the registry
    remembered,     \* previous_remembered
    reports,        \* window_reports
    evictions,      \* window_evictions
    malformed,      \* window_malformed_reports
    \* The variables below record history for the properties.
    heard,          \* addresses with a report in this window
    lastHeard,      \* when each address was last reported, -1 for never
    purged,         \* when the last snapshot removed stale entries
    forgotten,      \* reports of this window whose entry was evicted
    announced       \* addresses printed as lost and not heard again since

registry == <<entries, remembered, reports, evictions, malformed>>
history == <<heard, lastHeard, purged, forgotten, announced>>
vars == <<now, phase, deadline, registry, history>>

Slots == 1..Capacity

NoEntry == [used |-> FALSE]

NoAverage == -1000  \* None of previous_window_average: outside i16 averages of i8

Averages == (-128..127) \cup {NoAverage}

DeviceEntry ==
    [used : {TRUE},
     address : Addresses,
     previous : Averages,
     sum : Int,
     count : Nat,
     peak : -128..127,
     seen : Nat]

\* Integer division of Rust rounds towards zero.
Quotient(a, b) == IF a < 0 THEN -((-a) \div b) ELSE a \div b

window_average(e) ==
    IF e.count = 0 THEN NoAverage ELSE Quotient(e.sum, e.count)

Used(s) == entries[s].used

Active(s) == Used(s) /\ entries[s].count > 0

TypeOK ==
    /\ now \in Nat
    /\ phase \in {"starting", "scanning", "retrying"}
    /\ deadline \in Nat
    /\ entries \in [Slots -> DeviceEntry \cup {NoEntry}]
    /\ remembered \subseteq Addresses
    /\ reports \in Nat
    /\ evictions \in Nat
    /\ malformed \in Nat
    /\ heard \subseteq Addresses
    /\ lastHeard \in [Addresses -> Nat \cup {-1}]
    /\ purged \in Nat
    /\ forgotten \in Nat
    /\ announced \subseteq Addresses

Init ==
    /\ now = 0
    /\ phase = "starting"
    /\ deadline = 0
    /\ entries = [s \in Slots |-> NoEntry]
    /\ remembered = {}
    /\ reports = 0
    /\ evictions = 0
    /\ malformed = 0
    /\ heard = {}
    /\ lastHeard = [a \in Addresses |-> -1]
    /\ purged = 0
    /\ forgotten = 0
    /\ announced = {}

Tick ==
    /\ now < MaxNow
    /\ now' = now + 1
    /\ UNCHANGED <<phase, deadline, registry, history>>

----------------------------------------------------------------------------
(* The scan loop of scanner_task.                                          *)

ScanStarted ==
    /\ phase = "starting"
    /\ phase' = "scanning"
    /\ deadline' = now + WindowTicks
    /\ UNCHANGED <<now, registry, history>>

ScanFailed ==
    /\ phase = "starting"
    /\ phase' = "retrying"
    /\ deadline' = now + RetryTicks
    /\ UNCHANGED <<now, registry, history>>

RetryElapsed ==
    /\ phase = "retrying"
    /\ now >= deadline
    /\ phase' = "starting"
    /\ UNCHANGED <<now, deadline, registry, history>>

----------------------------------------------------------------------------
(* Reports, as the host runner hands them over.                            *)

Heard(a) ==
    /\ heard' = heard \cup {a}
    /\ lastHeard' = [lastHeard EXCEPT ![a] = now]
    /\ announced' = announced \ {a}
    /\ UNCHANGED purged

NewEntry(a, r) ==
    [used |-> TRUE, address |-> a, previous |-> NoAverage, sum |-> r,
     count |-> 1, peak |-> r, seen |-> now]

\* Mutant of IsKnownAt: a device without a report in this window counts as new.
IsKnownAtActive(s, a) == Active(s) /\ entries[s].address = a

\* The slot of a known device.
IsKnownAt(s, a) == Used(s) /\ entries[s].address = a

Absent(a) == \A s \in Slots : ~IsKnownAt(s, a)

RecordKnown(a, r) ==
    /\ reports + malformed < MaxReports
    /\ \E s \in Slots :
        /\ IsKnownAt(s, a)
        /\ entries' = [entries EXCEPT ![s].sum = @ + r,
                                      ![s].count = @ + 1,
                                      ![s].peak = IF r > @ THEN r ELSE @,
                                      ![s].seen = now]
    /\ reports' = reports + 1
    /\ Heard(a)
    /\ UNCHANGED <<now, phase, deadline, remembered, evictions, malformed,
                   forgotten>>

\* The first empty slot.
IsFirstFree(s) ==
    /\ ~Used(s)
    /\ \A t \in Slots : t < s => Used(t)

RecordNew(a, r) ==
    /\ reports + malformed < MaxReports
    /\ Absent(a)
    /\ \E s \in Slots :
        /\ IsFirstFree(s)
        /\ entries' = [entries EXCEPT ![s] = NewEntry(a, r)]
    /\ reports' = reports + 1
    /\ Heard(a)
    /\ UNCHANGED <<now, phase, deadline, remembered, evictions, malformed,
                   forgotten>>

\* Mutant of IsOldest: the weakest device of the window goes instead of the oldest one.
IsOldestByPeak(s) ==
    \A t \in Slots : entries[s].peak <= entries[t].peak

\* The first of the slots that were heard of longest ago.
IsOldest(s) ==
    /\ \A t \in Slots : entries[s].seen <= entries[t].seen
    /\ \A t \in Slots : t < s => entries[s].seen < entries[t].seen

RecordEvicting(a, r) ==
    /\ reports + malformed < MaxReports
    /\ Absent(a)
    /\ \A s \in Slots : Used(s)
    /\ \E s \in Slots :
        /\ IsOldest(s)
        /\ entries' = [entries EXCEPT ![s] = NewEntry(a, r)]
        /\ forgotten' = forgotten + entries[s].count
    /\ evictions' = evictions + 1
    /\ reports' = reports + 1
    /\ Heard(a)
    /\ UNCHANGED <<now, phase, deadline, remembered, malformed>>

RecordMalformed ==
    /\ reports + malformed < MaxReports
    /\ malformed' = malformed + 1
    /\ UNCHANGED <<now, phase, deadline, entries, remembered, reports,
                   evictions, history>>

\* One report of a batch the controller delivers.
on_adv_reports ==
    \/ \E a \in Addresses, r \in Rssi : RecordKnown(a, r)
    \/ \E a \in Addresses, r \in Rssi : RecordNew(a, r)
    \/ \E a \in Addresses, r \in Rssi : RecordEvicting(a, r)
    \/ RecordMalformed

----------------------------------------------------------------------------
(* print_snapshot, when a window has run its time.                         *)

IsStale(s) == Used(s) /\ now - entries[s].seen > StaleTicks

\* The slots remove_stale leaves alone.
NotStale == {s \in Slots : Used(s) /\ ~IsStale(s)}

\* Mutants of Rolled: the count, or the sum, outlives its window.
RolledKeepingCount(s) == [entries[s] EXCEPT !.sum = 0, !.peak = -128]

RolledKeepingSum(s) == [entries[s] EXCEPT !.count = 0, !.peak = -128]

\* Mutant of Rolled: the sum is remembered where the average should be.
RolledRememberingSum(s) ==
    [entries[s] EXCEPT
        !.previous = IF entries[s].count > 0 THEN entries[s].sum ELSE @,
        !.sum = 0, !.count = 0, !.peak = -128]

Rolled(s) ==
    [entries[s] EXCEPT
        !.previous = IF entries[s].count > 0
                     THEN window_average(entries[s]) ELSE @,
        !.sum = 0, !.count = 0, !.peak = -128]

Shown == {s \in NotStale : entries[s].count > 0}

\* Mutant of Lost: only the slots that will be remembered are searched.
LostAmongFirst ==
    {a \in remembered :
        \A s \in Shown : s > Remembered \/ entries[s].address # a}

\* Devices of the preceding snapshot that this one does not show.
Lost == {a \in remembered : \A s \in Shown : entries[s].address # a}

\* The sort by average is unstable: among equally strong devices any may be
\* among the first ones.
IsStrongest(T) ==
    /\ T \subseteq Shown
    /\ Cardinality(T) = Min({Cardinality(Shown), Remembered})
    /\ \A s \in T, t \in Shown \ T :
            window_average(entries[s]) >= window_average(entries[t])

\* Mutant of print_snapshot: devices that were lost stay on the list for another window.
print_snapshot_keeping ==
    /\ entries' = [s \in Slots |-> IF s \in NotStale THEN Rolled(s)
                                   ELSE NoEntry]
    /\ \E T \in SUBSET Shown :
        /\ IsStrongest(T)
        /\ remembered' = remembered \cup {entries[s].address : s \in T}
    /\ reports' = 0
    /\ evictions' = 0
    /\ malformed' = 0

print_snapshot ==
    /\ entries' = [s \in Slots |-> IF s \in NotStale THEN Rolled(s)
                                   ELSE NoEntry]
    /\ \E T \in SUBSET Shown :
        /\ IsStrongest(T)
        /\ remembered' = {entries[s].address : s \in T}
    /\ reports' = 0
    /\ evictions' = 0
    /\ malformed' = 0

WindowElapsed ==
    /\ phase = "scanning"
    /\ now >= deadline
    /\ phase' = "starting"
    /\ print_snapshot
    /\ heard' = {}
    /\ purged' = now
    /\ forgotten' = 0
    /\ announced' = announced \cup Lost
    /\ UNCHANGED <<now, deadline, lastHeard>>

Next ==
    \/ Tick
    \/ ScanStarted
    \/ ScanFailed
    \/ RetryElapsed
    \/ on_adv_reports
    \/ WindowElapsed

Spec == Init /\ [][Next]_vars

----------------------------------------------------------------------------
(* Properties.                                                             *)

\* No device ever occupies two slots: record looks for the address before it
\* takes a free slot or the oldest one, and a report, a rolled window or a
\* stale entry in between never makes it miss a device it already knows.
UniqueAddresses ==
    \A s, t \in Slots :
        Used(s) /\ Used(t) /\ entries[s].address = entries[t].address => s = t

\* Every packet the summary line counts belongs to a device in the registry
\* or to one that was evicted in the same window: the packet counter and the
\* entries are reset together, although only one of them loses reports when
\* a slot changes hands.
WindowAccounting ==
    /\ reports = MapThenSumSet(LAMBDA s : entries[s].count,
                               {s \in Slots : Used(s)}) + forgotten
    /\ evictions = 0 => forgotten = 0

\* The figures of an entry are those of the window being scanned: it counts
\* a packet exactly when its device was heard in this window, and its average
\* is one a device could have been received at, no stronger than its peak.
FiguresOfThisWindow ==
    \A s \in Slots : Used(s) =>
        /\ Active(s) <=> entries[s].address \in heard
        /\ Active(s) => /\ Min(Rssi) <= window_average(entries[s])
                        /\ window_average(entries[s]) <= entries[s].peak

\* The registry is a true least-recently-heard cache: a device that is not
\* in it, though it was not stale when entries were last purged, made room
\* for as many other devices heard no earlier as the registry has slots.
ForgetsOldestFirst ==
    \A a \in Addresses :
        /\ lastHeard[a] # -1
        /\ purged - lastHeard[a] <= StaleTicks
        /\ Absent(a)
        => Cardinality({b \in Addresses \ {a} : lastHeard[b] >= lastHeard[a]})
               >= Capacity

\* A device that falls silent is announced as lost once: no snapshot lists a
\* device that an earlier one listed and that was not heard since.
AnnouncedOnce == [][WindowElapsed => Lost \cap announced = {}]_vars

\* A device is announced as lost although it was heard in this window only if
\* its entry did not live to the end of the window: its last packet is older
\* than an entry may be, or it was evicted, which is counted in this window,
\* for as many devices heard no earlier as the registry has slots.
LostUnlessForgotten ==
    [][WindowElapsed =>
        \A a \in Lost \cap heard :
            \/ now - lastHeard[a] > StaleTicks
            \/ /\ evictions > 0
               /\ Capacity <= Cardinality({b \in Addresses \ {a} :
                                                lastHeard[b] >= lastHeard[a]})]_vars

============================================================================
