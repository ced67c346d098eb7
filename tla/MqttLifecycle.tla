--------------------------- MODULE MqttLifecycle ----------------------------
(***************************************************************************)
(* The portable MQTT lifecycle snapshot of crates/mqtt and the way the     *)
(* minimq adapter feeds errors into it.  Every counter of the snapshot is  *)
(* a u32 that saturates at CounterMax (u32::MAX in the code).              *)
(***************************************************************************)
EXTENDS Integers

CONSTANT
    CounterMax  \* the value a snapshot counter saturates at

ASSUME CounterMaxAssumption == CounterMax \in Nat \ {0}

ConnectionState ==
    { "Disabled", "WaitingForNetwork", "ResolvingBroker",
      "ConnectingTransport", "AuthenticatingTransport", "ConnectingSession",
      "Connected", "Resumed", "BackingOff" }

ErrorKind ==
    { "Configuration", "NotReady", "Disconnected", "Transport", "Protocol",
      "Capacity" }

\* Option<ErrorKind>
LastError == ErrorKind \cup {"None"}

Counter == 0 .. CounterMax

Snapshot ==
    [ state : ConnectionState, connections : Counter, resumptions : Counter,
      failures : Counter, publishes : Counter, received : Counter,
      queue_drops : Counter, last_error : LastError ]

DefaultSnapshot ==
    [ state |-> "Disabled", connections |-> 0, resumptions |-> 0,
      failures |-> 0, publishes |-> 0, received |-> 0, queue_drops |-> 0,
      last_error |-> "None" ]

WrappingAdd(a, b) == (a + b) % (CounterMax + 1)

SaturatingAdd(a, b) == IF a + b > CounterMax THEN CounterMax ELSE a + b

Transition(s, state) == [s EXCEPT !.state = state]

RecordConnected(s) ==
    [s EXCEPT !.state = "Connected",
              !.connections = SaturatingAdd(@, 1),
              !.last_error = "None"]

RecordResumed(s) ==
    [s EXCEPT !.state = "Resumed",
              !.resumptions = SaturatingAdd(@, 1),
              !.last_error = "None"]

RecordFailure(s, kind) ==
    [s EXCEPT !.state = "BackingOff",
              !.failures = SaturatingAdd(@, 1),
              !.last_error = kind]

RecordPublish(s) == [s EXCEPT !.publishes = SaturatingAdd(@, 1)]

RecordReceive(s) == [s EXCEPT !.received = SaturatingAdd(@, 1)]

RecordQueueDrops(s, n) == [s EXCEPT !.queue_drops = SaturatingAdd(@, n)]

\* The error kinds the adapter's observe() treats as the end of the session.
ObservedKinds == {"Transport", "Protocol", "Disconnected"}

Observe(s, kind) == IF kind \in ObservedKinds THEN RecordFailure(s, kind) ELSE s

=============================================================================
