--------------------------- MODULE Neighbourhood ----------------------------
(***************************************************************************)
(* The Bluetooth images of the repository within radio range of each       *)
(* other: the beacon firmware or the reference firmware's peripheral       *)
(* advertises, and the scanner firmware merges what it hears of it, and of *)
(* foreign devices, into the labels of its entries.  Frames                *)
(* get lost, repeat, and reach the registry after their sender went        *)
(* silent; entries are evicted or go stale (ScannerRegistry says when).    *)
(***************************************************************************)
EXTENDS BluetoothPeripheral, BeaconFirmware, Sequences

CONSTANTS
    ForeignFrames,  \* what other devices in range advertise
    MaxQueued       \* bound on the reports between controller and registry

ASSUME NeighbourhoodAssumption == MaxQueued \in Nat \ {0}

VARIABLES
    queued,     \* reports the controller holds for the host runner
    labels,     \* the label fields of each device's entry, if it has one
    recorded    \* history: the frames recorded since the entry was made

scannerVars == <<queued, labels, recorded>>
vars == <<peripheralVars, beaconVars, scannerVars, mishaps>>

Devices == {"beacon", "peripheral", "other"}

NoEntry == [used |-> FALSE]

Entry(m) == [used |-> TRUE, name |-> m.name, company |-> m.company,
             formats |-> m.formats]

Known(d) == labels[d].used

TypeOK ==
    /\ PeripheralTypeOK /\ BeaconTypeOK
    /\ mishaps \in 0 .. MaxMishaps
    /\ Len(queued) <= MaxQueued
    /\ \A d \in Devices : Known(d) =>
            /\ labels[d].name \in 0 .. LocalNameCapacity
            /\ labels[d].formats \subseteq Formats

\* One of the two advertisers is in range, the other has no power: they share
\* nothing but the scanner, which keeps devices apart by their addresses.
Init ==
    /\ \/ PeripheralInit /\ BeaconAbsent
       \/ PeripheralAbsent /\ BeaconInit
    /\ mishaps = 0
    /\ queued = <<>>
    /\ labels = [d \in Devices |-> NoEntry]
    /\ recorded = [d \in Devices |-> {}]

-----------------------------------------------------------------------------
\* What a device has on the air: the scanner asks for scan responses.
OnAir(d) ==
    CASE d = "beacon" ->
            IF beacon = "broadcast" THEN {BeaconFrame, ScanResponse} ELSE {}
      [] d = "peripheral" -> IF gap = "accept" THEN {PeripheralFrame} ELSE {}
      [] d = "other" -> ForeignFrames

\* A report a scanner's controller takes from the air; a frame it does not
\* hear, or has no room for, is lost.
Hear(d, frame) ==
    /\ frame \in OnAir(d)
    /\ Len(queued) < MaxQueued
    /\ queued' = Append(queued, [from |-> d, frame |-> frame])
    /\ UNCHANGED <<peripheralVars, beaconVars, labels, recorded, mishaps>>

\* Mutant: the fields of a frame replace those of the frames before.
MergedReplacing(e, m) == Entry(m)

\* DeviceRegistry::record of a known device, BeaconMetadata::merge included.
Merged(e, m) ==
    [e EXCEPT !.name = IF m.name # NoName THEN m.name ELSE @,
              !.company = IF m.company # NoCompany THEN m.company ELSE @,
              !.formats = @ \cup m.formats]

Record ==
    /\ queued # <<>>
    /\ queued' = Tail(queued)
    /\ LET d == Head(queued).from
           frame == Head(queued).frame
       IN  /\ \E m \in parse(frame) :
                  labels' = [labels EXCEPT ![d] = IF Known(d) THEN Merged(@, m)
                                                  ELSE Entry(m)]
           /\ recorded' = [recorded EXCEPT ![d] = @ \cup {frame}]
    /\ UNCHANGED <<peripheralVars, beaconVars, mishaps>>

\* The entry is evicted, or removed as stale.
Forget(d) ==
    /\ Known(d)
    /\ labels' = [labels EXCEPT ![d] = NoEntry]
    /\ recorded' = [recorded EXCEPT ![d] = {}]
    /\ UNCHANGED <<peripheralVars, beaconVars, queued, mishaps>>

Peripheral == PeripheralNext /\ UNCHANGED <<beaconVars, scannerVars>>

Beacon == BeaconNext /\ UNCHANGED <<peripheralVars, scannerVars>>

Scanner ==
    \/ \E d \in Devices : \E frame \in OnAir(d) : Hear(d, frame)
    \/ Record
    \/ \E d \in Devices : Forget(d)

Next == Peripheral \/ Beacon \/ Scanner

Spec == Init /\ [][Next]_vars

-----------------------------------------------------------------------------
InPeripheral(A) == A /\ UNCHANGED <<beaconVars, scannerVars>>
InBeacon(A) == A /\ UNCHANGED <<peripheralVars, scannerVars>>

\* On each board timers fire, the host answers commands and delivers events.
\* Of a beacon that keeps broadcasting the scanner hears every frame now and
\* then, and its runner records what the controller queued.
Fairness ==
    /\ WF_vars(InPeripheral(StartBluetooth))
    /\ WF_vars(InPeripheral(AdvertiseStarted))
    /\ WF_vars(InPeripheral(RetryElapsed))
    /\ WF_vars(InPeripheral(ReplySent))
    /\ WF_vars(InPeripheral(Disconnected))
    /\ WF_vars(InPeripheral(RunnerRestarted))
    /\ WF_vars(InPeripheral(SlotFreed))
    /\ WF_vars(InBeacon(BeaconStarted))
    /\ WF_vars(InBeacon(BeaconRetryElapsed))
    /\ WF_vars(InBeacon(BeaconRunnerRestarted))
    /\ WF_vars(Record)
    /\ SF_vars(Hear("beacon", BeaconFrame))
    /\ SF_vars(Hear("beacon", ScanResponse))

FairSpec == Spec /\ Fairness

-----------------------------------------------------------------------------
\* Whatever ends a connection or an advertisement of the peripheral, it is
\* soon discoverable again with its one connection slot free: after a
\* disconnect, a failed notification with the central still there, a refused
\* advertisement, and failures of the host runner between any two of them.
AdvertisesAgain ==
    (gap \notin {"main", "off"} /\ ~(Connected /\ central))
        ~> (gap = "accept" /\ host = "run" /\ ~central)

\* A central that knows the current status is never told an older one: a
\* reply built before the status moved on is not overtaken by the
\* notification of the new value, because the select polls the event loop
\* first.
NeverToldOlder == (Connected /\ central /\ told /\ reply # NoValue) => ~old

\* The labels of an entry are those of all frames recorded since it was made:
\* the advertisement and the scan response carry different labels, arrive in
\* any order and repeat, and neither takes away what the other brought.  A
\* label is missing only if every frame can be read without one, and is never
\* one that no frame of the device carried.
LabelsAccumulate ==
    \A d \in Devices : Known(d) =>
        LET M == UNION {parse(frame) : frame \in recorded[d]} IN
        /\ labels[d].formats = UNION {m.formats : m \in M}
        /\ IF labels[d].name = NoName
           THEN \A frame \in recorded[d] : \E m \in parse(frame) : m.name = NoName
           ELSE \E m \in M : m.name = labels[d].name
        /\ IF labels[d].company = NoCompany
           THEN \A frame \in recorded[d] : \E m \in parse(frame) : m.company = NoCompany
           ELSE \E m \in M : m.company = labels[d].company

\* End to end: a beacon whose settings were accepted is listed under its
\* configured name as an iBeacon once the failures stop and its entry stays,
\* whatever settings it was built with.
BeaconIdentified ==
    (<>(beacon = "advertise") /\ <>[]Known("beacon")) =>
        <>[](Known("beacon") /\ labels["beacon"].name = NameLength
             /\ "iBeacon" \in labels["beacon"].formats)

=============================================================================
