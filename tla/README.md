# A TLA+ model of embedded-sdk-rs

embedded-sdk-rs is a Rust SDK for small connected devices: portable contracts
(`crates/`), adapters and ports to Espressif's ESP32-C6 (`ports/`), board
descriptions (`boards/`) and three firmwares (`firmware/`). Everything runs on
one core under the Embassy executor, which is cooperative: a task runs from one
`await` to the next without interruption. The model follows that: **an action is
what a task does between two awaits**, and a variable such as `task` or `phase`
says at which await the task is suspended.

Paths below are relative to `src/`; `main.rs` without a directory is
`firmware/seeed/xiao-esp32c6/src/main.rs`.

## 1. Inventory

### The reference firmware (`main.rs`)

| part | state | operations | talks to |
|---|---|---|---|
| `wifi_station_task`, `supervise_station` | `ReconnectBackoff`, the controller's `WifiState` | associate, await the loss, sleep | the radio driver through `ports/.../wifi.rs` |
| `network_monitor_task`, `run_network_probe` | none but its await point | report link and DHCP, probe DNS and TCP for a new lease | the IP stack |
| `mqtt_telemetry_producer_task` | `MQTT_OUTBOUND` (bounded channel), `MQTT_QUEUE_DROPS` (atomic) | `try_send` every thirty seconds, count a drop | `mqtt_task` |
| `mqtt_task`, `run_mqtt_connection`, `mqtt_backoff` | client session, `Snapshot`, `ReconnectBackoff` | wait for IP, resolve, connect, subscribe, receive/publish, back off | IP stack, minimq, broker |
| `bluetooth_task` | attribute table, notifier's counter | advertise, serve GATT, notify | the TrouBLE host |

The tasks share the IP stack (`Stack` is copied into each), whose link follows
the station's association, and the one executor, which a task that never awaits
keeps from all others. The producer and the MQTT task share a channel and an
atomic counter. Within `bluetooth_task` the host runner, the GATT event loop and
the notifier share one connection.

What is hard there: cancellation (a `select` that ends on IPv4 loss drops a
publish half way), level-triggered waits that miss what happens between two
polls, a broker whose session outlives the client's knowledge of it, error paths
that record a failure in one of two layers, retry delays that have to restart
after a success, and streams that stall without an error.

Correct means: no telemetry message is counted twice or vanishes from the
counts; a retry delay follows exactly one failure; the lifecycle state names the
task's wait; the subscription survives reconnects; a central is never told an
older status than it knows; every loop comes back to work once the environment
behaves.

### Contracts and adapters

- `crates/mqtt`: `Snapshot` (lifecycle state, last error, six saturating
  counters), `ReconnectPolicy` and `ReconnectBackoff`; validated names and
  configuration.
- `crates/mqtt-minimq`: `Client` and `Connection`; map minimq's errors to kinds
  and record them (`observe`) in the snapshot.
- `crates/networking`, `crates/networking-embassy-net`: link and IPv4 state,
  readiness predicates, level-triggered waits, resolve.
- `crates/wifi`: `WifiState`, `ReconnectPolicy`, `ReconnectBackoff`; validated
  SSIDs and credentials. `ports/espressif/esp32c6/src/wifi.rs`: scan, configure,
  connect, wait for the disconnect.
- `crates/storage`: the `KeyValueStore` trait and `SequentialStore`, which adds
  a live/tombstone tag and size limits to the external log-structured map.
  Hard: power loss and cancellation between any two flash writes, those that
  migrate a page included, an interrupted `clear`, the sizes at the limit.
- `crates/bluetooth`: device names, advertising intervals, iBeacon frames and
  addresses. `ports/espressif/esp32c6/src/bluetooth.rs` hands the controller to
  the host.
- `crates/config`, `crates/runtime`, `crates/core`, `crates/telemetry`:
  immutable value types.

### The beacon scanner firmware

A registry of 128 advertisers shared by two futures (the host runner records
reports, the scan loop closes a window every five seconds and prints a
snapshot). Hard: reports that arrive after their window, eviction when the
registry is full, entries that are stale, figures that must not leak from one
window into the next. Correct means: one slot per device, packets counted in the
window they arrive in, the least recently heard device evicted first, a lost
device announced once.

The labels of an entry (name, manufacturer, beacon formats) come from a decoder
of advertising frames and are merged over frames that arrive in any order.

### The beacon firmware

Settings fixed at build time are checked once at boot; a bad one halts `main`
with a message. One task then keeps an advertisement (iBeacon) and a scan
response (the name) on the air beside the host runner. Hard: settings at the
limit of a 31-byte frame, an advertisement the controller stops, a runner that
fails at any await. Correct means: what the checks accept can be encoded, and
the beacon is back on the air after every failure, as something the scanner
recognises.

### The build tool (`tools/xtask`)

A registry of boards and firmware is discovered from the metadata of the
workspace's packages, in the order cargo reports them; each task runs cargo,
rustup or a flash tool one after the other until one fails. Hard: order,
duplicates and references between packages, names that are both a selector and a
package, partial failure. Correct means: discovery depends on the set of
packages only, and success means all that was asked for was done.

The board descriptor is listed in section 7.

## 2. Modules

| module | models | composed of |
|---|---|---|
| `NetStack` | embassy-net's link and DHCP lease (external) and the readiness predicates and waits of the adapter | |
| `MqttLifecycle` | `Snapshot` with its `record_*` operations, `observe()`, the error kinds | |
| `MqttService` | producer, channel, `mqtt_task`, adapter; minimq's session and the broker as environment | extends `NetStack`, `MqttLifecycle` |
| `TelemetryOutbox` | abstract: what a producer of telemetry may rely on | refined by `MqttService` |
| `MqttBackoff` | the MQTT `ReconnectBackoff` in words of a fixed size | |
| `BoundedBackoff` | abstract: a bounded delay whose floor falls only on reset | refined by `WifiBackoff` |
| `WifiBackoff` | the Wi-Fi `ReconnectBackoff` | |
| `StationSupervisor` | boot scan, configuration, the station controller, `supervise_station` | extends `WifiBackoff` |
| `NetworkMonitor` | `network_monitor_task`, `run_network_probe` | extends `NetStack` |
| `Connectivity` | the station, the network runner and the monitor on one executor | extends `StationSupervisor`, `NetworkMonitor` |
| `BluetoothAir` | advertising frames: their sizes, the encoders' limit, the scanner's decoder | |
| `BluetoothPeripheral` | `bluetooth_task`: runner, advertising, GATT event loop, notifier | extends `BluetoothAir` |
| `BeaconFirmware` | `beacon_settings` and `advertise_forever` | extends `BluetoothAir` |
| `Neighbourhood`, `MCNeighbourhood` | the two advertisers in range of the scanner, which merges labels; values for TLC | extends both |
| `BuildTool`, `MCBuildTool` | `tools/xtask`; workspaces and command lines for TLC | |
| `ScannerRegistry`, `MCScannerRegistry` | the scanner's registry, scan loop and snapshot; values for TLC | |
| `KeyValueStore` | abstract: the trait's contract | refined by `SequentialStore` |
| `SequentialStore`, `MCSequentialStore` | `SequentialStore` over the external log; values for TLC | |
| `MqttService_proofs`, `MqttBackoff_proofs`, `StationSupervisor_proofs`, `Connectivity_proofs`, `ScannerRegistry_proofs`, `Neighbourhood_proofs`, `SequentialStore_proofs`, `BuildTool_proofs` | theorems | extend the module in their name |

A definition whose comment starts with "Mutant" is not part of a specification:
it is a deliberately wrong variant of the definition below it, used to show that
a property notices the mistake. `PROJECT.json` pairs each property with one and
gives the source lines of every definition.

### How the state corresponds to the code

**MqttService.** `task` is the await of `mqtt_task`: `wait_ip` and
`wait_ip_down` are the network waits, `state_timer` the pause after a
configuration that cannot be represented, `resolve`, `tcp` and `connect` the
three `with_timeout`s, `subscribe`, `select` and `publish` the awaits of
`run_mqtt_connection`, `backoff` the retry timer. Messages are all alike, so the
channel is its length `queue`; `drops` is `MQTT_QUEUE_DROPS`. minimq's session
lives in RAM across connections: `known` says a CONNACK was seen, `inflight` and
`subPending` are the replay arena. The broker's session and subscription, the
stalled stream, and the lease are the environment's. `produced`, `lost`,
`backoffs`, `silent`, `orphaned`, `refused` and `faults` record history. An
action that ends a session includes what dropping the connection does, and one
that returns to the top of `run_mqtt_connection`'s loop includes the swap of the
drop counter. A CONNECT that fails may or may not have been processed by the
broker. `wait_ip_down()` may win the `select` in any session state; a publish it
cancels may have reached the arena already.

**MqttBackoff** computes the shift the way the word does: bits that leave it are
gone. Delays are any words; intermediate values are halved where they would
leave TLC's own integers. The base is kept as a variable so that two consecutive
ones can be compared.

**StationSupervisor.** `phase` is the await of `main` and, after the spawn, of
the station task: a radio that cannot be initialised and a missing or refused
configuration end in an idle `main`. An attempt to associate may fail any number
of times; other failures are bounded. The early returns of `scan()` and `connect()` on an SSID the
portable type refuses leave `state` as the code leaves it. A sleep is an action
of `WifiBackoff`, with the jitter chosen freely.

**NetworkMonitor.** `spin` is the state in which every wait of the task returns
at once: the task never yields and the stack is never polled again. Acquiring a
lease takes several exchanges, so a task that waits for the loss of the previous
lease has been polled by then; a lease lost and regained while a probe is
awaited is not noticed.

**Connectivity** interleaves the two modules above. `LinkFollows` is embassy-net
seeing the interface's link state when its runner is polled: it may come any time
after the association changed, and an association lost and won again in between
is not seen. `Polled` says that the monitor has not monopolised the executor;
the radio and the access point do not depend on it.

**BluetoothAir.** A frame is a set of AD structures with their sizes and the
leading bytes the decoder looks at; names are told apart by their length. The
encoder's limit is the sum of the structures against the 31-byte buffer.

**BluetoothPeripheral.** `gap` is the await of the connection loop: in `fresh`,
`notify` and `pause` the task is in its `select`, with the notifier at its first
poll, in `notify()` and in its timer. `reply` is the status a reply under way was
built from, `central` the occupied connection slot, which outlives the `select`
until the host has closed the link. `notify()` writes the attribute table before
it awaits the send; a reply that awaits the same queue has been polled first,
because `select` polls its first future first.

**BeaconFirmware.** `build` holds the build's environment variables, checked in
the order of `beacon_settings`; `beacon` is the await of `main` and then of
`advertise_forever`, with `ended` for its early return on an encoding error.

**Neighbourhood.** `queued` are reports between controller and registry; `labels`
are the label fields of the registry's entries. When an entry is forgotten is
`ScannerRegistry`'s subject; here it may happen any time.

**BuildTool.** Texts are numbers, options sets of at most one element. One
invocation is one behaviour: the two loops of `from_packages`, one action per
package, the sort, then the commands of the task one by one. Selectors compare
piece by piece, as the texts do when none is a proper prefix of another; the
order only decides which of two matches a name means. `Sorted` puts an element
where the number of those before it says, and `Picked` keeps the places of a
sequence that qualify, so that both can be reasoned about. A board is looked up
by its id first, then by the name of its package (`Registry::board`). Discovery
does not look at the task, so the command line is chosen after it.

**ScannerRegistry.** Neither future awaits while it holds the registry, so a
report and a snapshot are one action each. Time is a counter; windows, retry
pauses and staleness are numbers of ticks. The sort by average is unstable:
among equal averages any device may be among the remembered ones. Averages use
Rust's division, which rounds towards zero.

**SequentialStore.** The flash is the sequence of items in it. `store_item`
appends an item, or leaves one that fails its CRC, or finds the item too big for
a page (`ItemTooBig`). When the range is full it makes room first: it copies the
newest item of a key into the page kept free (`Migrate`, with `Reserve` items of
room), any number of times, and erases superseded or torn items (`Reclaim`); each
copy can tear (`MigrateTorn`) and the operation can end between any two of them.
`NothingToReclaim` is the map's reason for `FullStorage`. `get` may fail without
returning bytes (`GetFailed`). `Held` are the values of a key the flash still
contains, superseded ones included: the abstract store knows them as `older`, and
they are all that an interrupted `clear` may uncover.
`Interrupt` stands for an I/O error, a dropped future and a power loss alike:
the store keeps no state in RAM that a restart would lose. It reports the
flash's error kind, since nobody is left to see another; the abstract store
tells only success from failure. `ErasePage` removes
items in any order, one at a time, which covers every page size and order.

## 3. Runs

Passing runs:

| run | question | bounds |
|---|---|---|
| `mqtt` | is every message, failure and subscription accounted for, whatever interleaving of faults, cancellations, drops and reconnects happens; does the outbound path implement `TelemetryOutbox`; does the service recover, drain and stop | channel of 2, arena of 1, 3 messages, 3 faults, counters saturating at 3, one recorded and one unrecorded error kind beside the keepalive's, all three kinds of lease; 703 000 states |
| `mqtt_backoff` | do the default policy's delays follow the doubling sequence | the real values: 32 bits, 1000, 60000 and 250 ms, 255 attempts |
| `connectivity` | boot, association, link and lease together: schedule, states, restart of the backoff, reassociation, the monitor behind it | 10, 320 and 2 ms, so that the fifth doubling meets the cut; attempts that fail for ever and 3 other failures, 3 leases of all three kinds |
| `scanner` | is the registry a sound least-recently-heard cache with clean windows | 3 devices in 2 slots, 1 remembered, 2 signal strengths, 3 reports per window, 3 ticks with windows, retries and staleness of 1 |
| `neighbourhood` | do the Bluetooth images come back on the air, keep their promises to a central and recognise each other | one advertiser at a time, 3 failures, 2 queued reports, a status byte of 3 values, settings at and past each limit, a foreign device with two frames |
| `store` | does `SequentialStore` implement `KeyValueStore` and accept only what it can fetch | 3 keys, values of 0, 3 and 4 bytes against a limit of 3, a log of 2 items and a reserve of 2; 248 000 states |
| `xtask` | is discovery independent of the order, and does success mean that everything was done | every sequence of up to 4 of 18 packages, faulty ones included, and 19 command lines; 520 000 states |

Why the bounds are enough: three faults allow a failure, the failure of its
recovery and a loss after that; a channel of two and three messages reach empty,
partly full, full and overflowing; counters that saturate within the behaviour
show saturation, and the accounting holds below the limit only, as in the code.
Three devices in two slots force evictions, and three ticks give two complete
windows, a stale entry and a window after it. A log of two items fills up with
two versions of one key or one of each of two keys, and a reserve of two takes a
complete copy, a torn one and the copy that is made again. Three failures put a failed
notification, a failed runner and a refused advertisement in one recovery. Four
packages hold two boards and an image of each, a duplicate pair with its board,
a board whose package bears the id of another board, and every fault of a single
package. Each foreign frame fills a packet and has a name the scanner cannot
keep, one of them beside a name it can. The remaining constants are the code's
own.

Runs that end in a counterexample, each quoting what the repository says:

| run | statement | what the code does |
|---|---|---|
| `mqtt_backoff_shrinks` | "Bounded exponential reconnect policy" (`crates/mqtt/src/lib.rs:395`) | `checked_shl` drops bits; from the thirtieth retry on the base is 0 instead of 60 s |
| `mqtt_subscription` | "otherwise firmware restores its one subscription" (`docs/connectivity/mqtt.md:110`) | a lost CONNACK leaves a broker session without subscription, which later CONNECTs resume |
| `mqtt_stall` | "the composing application must still apply transport deadlines" (`docs/connectivity/mqtt.md:17`) | publish and subscribe have no deadline |
| `monitor_missed` | "A later lease acquisition runs the optional probe again." (`docs/connectivity/networking.md:116`) | a lease lost and regained during a probe is taken for the one that was probed |
| `store_full` | "The store cannot retain the requested value and all live records." (`crates/storage/src/lib.rs:130`) | tombstones occupy the log like live records |

Other disagreements met while modelling, described here and not run:
`BackingOff` is documented as the state of every retry delay, but after a
`Capacity` or `NotReady` error the snapshot still says `Connected`
(`crates/mqtt-minimq/src/lib.rs:435`; `StateTracksTask` states what does hold);
`docs/plans/mqtt.md:180` waits "for IP and DNS" while the task waits for the
lease to go; `WifiState::Failed` is documented as terminal and is retried;
the scanner's guide says a lost device was silent for a whole window, which
fails after an eviction (`LostUnlessForgotten` states what does hold), and that
DELTA compares with the preceding window, which fails after a silent one; the
GATT status value is called monotonic (`main.rs:563`) and starts again with each
connection. `cargo xtask build NAME` takes a board id for that board's default
image, but a package of that name whose own selector sorts first wins
(`tools/xtask/src/main.rs:198`); no package of the repository has such a name.
The contract refuses a lease with more than three DNS servers, which embassy-net
as configured here never holds: `invalid` leases are the contract's own case, and
`NeverSpins` and `Reassociates` name what would happen.

## 4. Properties

- `MessageAccounting`, `OneLossPerSession`, `KeepsOutboxPromise`: every message
  is in exactly one place; a session loses at most the message its last publish
  held; a message is refused exactly when the channel is full, whether or not the
  publisher holds one more (`TelemetryOutbox` keeps the two apart).
- `FailureAccounting`: retry delays = recorded failures + errors `observe()`
  filters out.
- `SubscriptionKept`: on a live session the subscription is at the broker or in
  the replay arena, except in the two situations it names.
- `StateTracksTask`, `StateTracksSupervisor`: lifecycle states name the wait.
- `CountersNeverDecrease`: saturation at the limit.
- `Recovers`, `Drains`, `StopsWithoutLease`, `Reassociates`,
  `FollowsAssociation`: progress. `Recovers` and `Drains` except a service that
  met a lease without DNS server and waits for its end (`MissedDns`);
  `Reassociates` excepts attempts that fail for ever.
- `AdvertisesAgain`: the peripheral is discoverable, with its slot free, after
  every end of a connection. `NeverToldOlder`: replies and notifications do not
  overtake each other.
- `AcceptedSettingsFit`, `LabelsAccumulate`, `BeaconIdentified`: from the
  beacon's settings to the scanner's list.
- `DiscoveryIsOrderFree`, `TasksCoverWorkspace`: the build tool.
- `NeverSpins`: the cooperative executor gets the processor back.
- `ProbesNewLeasesOnly`: no lease is reported twice.
- `Doubles`, `KeepsSchedule`, `LossRestartsBackoff`, `FollowsDoubling`: retry
  delays.
- `UniqueAddresses`, `WindowAccounting`, `FiguresOfThisWindow`,
  `ForgetsOldestFirst`, `AnnouncedOnce`, `LostUnlessForgotten`: the registry. A
  device heard in the window and yet announced as lost is stale, or a packet was
  evicted and as many devices as there are slots were heard no earlier.
- `KeepsStorePromise`, `FetchFitsScratch`: the store. The promise covers what an
  interrupted `clear` leaves: each key shows nothing or a value once stored under
  it that the flash still held, and a completed `clear` ends that.

Some hazards in `PROJECT.json` name no property: the code has the behaviour they
describe, and a property that passes could only permit it. They are a lease
without DNS server that is waited out, a Wi-Fi state left by an early return, a
refused SUBSCRIBE nobody repeats, and a DELTA against an older window than the
preceding one. Section 3 reports the ones that contradict a document.

Each module has one type invariant, whose interesting conjuncts are the bounds:
the channel's depth, the arena's capacity, the maximum delay, the log's
capacity.

## 5. Fairness

Weak fairness, with one exception below, and only where something in the code or the hardware
guarantees progress:

- timers fire and `with_timeout` ends what it wraps (`Wait`, `Resolve`, `Tcp`,
  `Connect`, the probe steps, `StartConnect`);
- the executor polls a task whose future is ready (`TakeMessage`, `IpLost`,
  `Monitor`, the producer);
- a stream that is not stalled moves and the broker acknowledges on it
  (`Subscribe`, `Publish`, `Acknowledge`, `SubscribeAccepted`); minimq's
  keepalive ends a receive on a stalled stream (`KeepaliveFailed`);
- the radio driver finishes a scan and an association attempt, and reports a
  loss; the network runner sees the link state;
- a Bluetooth host whose runner runs answers commands, delivers events and
  closes dropped links; the retry timers of both Bluetooth images fire.

Strong fairness is assumed of one thing: of each frame of a beacon that keeps
broadcasting, the scanner hears one now and then, although it may be off the air
in between (`BeaconIdentified`).

No fairness is assumed for faults, renewals, link changes or incoming commands.
Faults are finite by `MaxFaults`; where a property needs a lasting lease or a
moving stream, it says so in its premise (`NetworkStays`, `StreamMoves`).
Deadlock is not checked where the bounds on messages, faults or time end a
behaviour or a process exits; `Neighbourhood`, `MqttBackoff` and
`SequentialStore` are checked for it.

## 6. Proofs

Every safety property of the passing runs is a theorem: proved for every value of the constants the modules' assumptions allow,
where the runs show it for one. `PROJECT.json` lists the theorems with the
properties they state. Each follows from an inductive invariant; what follows
names that invariant where it is more than the property itself.

**MQTT service** (`MqttService_proofs`).

- `TypeCorrect` is inductive as it stands. Lemmas about the snapshot's operations
  (what each changes, that saturation stays in range) carry the record
  reasoning; `FlagsStep` treats the Boolean variables apart.
- `MessagesAccounted`: the counters saturate, so the sum is exact only below
  the limit. `CountsExactly` shows that a counter whose true total is below the
  limit has not saturated; `AccountingSelect` and `AccountingLoss`, that the swap
  of the drop counter and the loss of a held message move a message from one
  term to another.
- `StateTracked` needs `LiveSessionShowsNoError`: else an error that `observe()`
  filters out would leave an older one on display.
- `LossesBounded` needs `LossBudget`, which reserves a loss for the session
  under way before it happens.
- `SubscriptionHeld` needs `SessionInv`: a session implies that the client knows
  it, a moving one that the broker has it, and the two together that the
  subscription is somewhere.
- `FailuresAccounted` and `CountersMonotonic` need `TypeOK` only.
- `OutboxPromiseKept`, the refinement of `TelemetryOutbox`, holds while no more
  messages are produced than the counters hold (`MaxProduced <= CounterMax`):
  the abstract outbox counts exactly, the code's counters saturate. At one
  message in thirty seconds a `u32` lasts four thousand years.

**MQTT backoff** (`MqttBackoff_proofs`), for every word size of two bits or more
and every policy whose delays are words. `ShiftIsModulo` shows that the model's
shift, written to stay within TLC's integers, is multiplication modulo the word;
`DoublingIs` gives the closed form of the reference sequence. Powers of two come
from counting subsets (`PowerCountsSubsets`, `OneMoreDoubles`): the library has
no facts about exponentiation, but it has the cardinality of `SUBSET S`.

**Station and connectivity** (`StationSupervisor_proofs`,
`Connectivity_proofs`), for every policy `ReconnectPolicy::new` accepts. The
jitter reserve leaves a positive largest base (`BaseRange`), from which the
type invariant, the refinement of `BoundedBackoff` and the doubling follow for
the calculator. The supervisor touches it only through its two operations
(`StepsOfTheCalculator`), and every step of the composition is a step of the
station or leaves it alone (`StationInside`), so the results carry over twice.
`LossRestarts` needs `FreshWhileConnected`: while the task awaits the loss of
its association the calculator is reset. The doubling theorems assume
`AttemptsMax > 30`, which a `u32` satisfies: `Doubles` speaks of the first
thirty retries, where the powers of two stay within TLC's integers, and a counter
that saturates among them would no longer tell which one comes next. `MonitorYields` needs `LeaseNeedsLink`,
and `ProbesOnlyNewLeases` needs `FreshLeaseAhead`, which says at which awaits a
lease may still be unreported.

**Scanner** (`ScannerRegistry_proofs`), for every capacity, set of advertisers,
range of signals and staleness. The invariant `Inv` adds to the type and to
unique addresses that sums and peaks are plausible (`FiguresPlausible`), that
an entry with packets was heard in this window, that its time is that of the
last report, and that an announced device is silent. `HeardAreKept` and
`Accounts` strengthen `LostUnlessForgotten` and `WindowAccounting`; the former
also uses `ForgetsOldestFirst`, which says who is in the slots of an evicted
device. The packet
total is a fold over a set; `SumExists`, `SumAgrees` and `SumTakesAny` develop
what is needed about such sums.

**Bluetooth** (`Neighbourhood_proofs`), for every set of builds and foreign
frames. `ReplyIsCurrent`: once the central has been told the current status, a
reply under way is not an older one. `BeaconSettingsFit` follows the checks of
`beacon_settings` in their order and adds up the sizes of the structures.
`LabelsKept`: an entry holds the labels of the frames recorded since it was
made. Nothing is assumed of foreign frames: of two names in one frame the code
keeps the last, and none if that one is not UTF-8, so a label may be missing
where each frame can be read without one, and nowhere else.

**Store** (`SequentialStore_proofs`), for every finite set of keys, every set of
values, every log capacity and every working buffer the constructor accepts
(`new` refuses one that cannot hold an empty record,
`crates/storage/src/lib.rs:381`). `Fits` adds the record on its way into the log
to those in it. `StorePromiseKept` is the refinement of `KeyValueStore`; its
core are lemmas on the log: an append sets the value of its key and no other
(`AppendSetsValue`); a torn append (`TornKeepsValues`), a copy of a newest item
(`CopyKeepsValues`) and the removal of one that is not (`ReclaimKeepsValues`) set
none. A second set says what each does to the values held (`AppendAddsHeld`,
`TornKeepsHeld`, `CopyKeepsHeld`, `RemoveLosesHeld`), and `ValueIsHeld` that a
visible value is one of them. `RanksAreOnto` serves only to show that a key's
intact items have a newest one (`GreatestExists`).

**Build tool** (`BuildTool_proofs`), for every set of workspaces. `DiscoveryInv`
says what each stage of `from_packages` knows: the boards, firmware and
exclusions are those of the packages read so far, and the firmware registered so
far has distinct selectors. A refusal then exposes a fault of the set
(`RefusedPackage`, `RefusedFirmware`), and the end of the second loop leaves
none (`Complete`). `WorkspacesAssumption` demands that packages have distinct
names, which cargo requires of the members of a workspace (`discover` asks for
those only), and at most one board and one firmware table each, which the
metadata's format implies, and that their fields are texts, which the model
numbers.

`TasksCover` goes on from there. `ExecutionInv`: with the commands that ran and
those still pending, the task does its part (`DoneWith`); a task that was refused
had nothing to do (`NothingMeant`). A command that succeeds moves from one set to
the other, and `MoreDoMore` keeps the claim. The work is at the start of a task,
where `CommandsServe` shows, task by task, that the commands computed from the
registry are the ones the workspace demands:

- sorting: `RanksAreOnto` and `NumberingEnumerates` show that a finite set whose
  elements are placed by the number of those before them is gone through once;
  `ImagesSorted`, `BoardsSorted` and `NumbersSorted` that selectors, ids and
  places are ordered so;
- choosing: `PickedHas` says what a selection holds, `NoCheckLost` that `doctor`
  leaves out repetitions and nothing else, `FirmwareFound` that a lookup fails
  only if nothing matches;
- meaning: `BoardsMeant` and `SelectedMeant` relate the lookups to the
  workspace. The first attempt at `BoardsMeant` failed for a good reason: the
  property said that an argument means a board of that id *or* of that package,
  while a package that bears another board's id is not found under its name.
  `Means` now says what the code does, and the run has such a package.

`LinesAssumption` demands that the task is one clap knows, and that `build` and
`run` have a name: clap refuses any other command line before `execute`.

Induction over numbers and finite sets is used in the form "a set that contains
the first and the successor of each of its members contains all"
(`SetInduction`, `InductionInSet`): a set can be given to the provers where the
library's operator parameter cannot.

Only model-checked:

- liveness (`Recovers`, `Drains`, `StopsWithoutLease`, `FollowsAssociation`,
  `Reassociates`, `AdvertisesAgain`, `BeaconIdentified`): the prover handles
  neither fairness nor `ENABLED`;
- the counterexamples of section 3.

No module uses a `RECURSIVE` operator.

## 7. Not modelled

- Validated value types (SSIDs, topics, the text of UUIDs, the bits of random
  addresses), configuration structures and the board descriptor: immutable, no
  state, covered by unit tests.
- `unsubscribe`, `drive` and `disconnect` of the MQTT adapter: no firmware calls
  them.
- The layout of the scanner's output and all other printed text.
- The ESP32-C6 Bluetooth port: it hands over the controller once and keeps
  nothing; that it may fail is in the firmwares' models.
- Flash range checks and `BlockingFlash`: one-time arithmetic and a
  pass-through.
- `heartbeat`: a timer and a pin nobody reads.

## 8. Plan

Done: MQTT service and its abstract outbox, both backoffs, station and monitor
and their composition, scanner, store, the Bluetooth peripheral, the beacon and
their composition with the scanner, the build tool; the theorems above.

Proved: every safety invariant, action property and refinement of the passing
runs.

Left to TLC: the liveness properties named in section 6. Left out: the parts of
section 7.
