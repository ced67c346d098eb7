------------------------ MODULE BluetoothPeripheral -------------------------
(***************************************************************************)
(* bluetooth_task of the reference firmware: advertise, accept the one     *)
(* central, serve GATT requests and notify the status byte until either    *)
(* side ends the connection.  Three futures of the task share the          *)
(* connection: the host runner, the GATT event loop and the notifier; a    *)
(* select ends the last two together, and polls the event loop first.      *)
(* The TrouBLE host and the central are external.                          *)
(***************************************************************************)
EXTENDS BluetoothAir

CONSTANTS
    ByteMax,        \* u8::MAX
    DeviceName      \* the length of BLUETOOTH_DEVICE_NAME

ASSUME PeripheralAssumption ==
    /\ ByteMax \in Nat \ {0}
    /\ IsDeviceName(DeviceName)

NoValue == -1

VARIABLES
    gap,        \* where main, then the connection loop, is suspended
    host,       \* bluetooth_runner: "run", or "sleep" after a failure
    central,    \* a central holds the one connection slot
    status,     \* the status characteristic in the attribute table
    value,      \* the notifier's local counter
    reply,      \* the status a reply under way carries, or NoValue
    \* The variables below record history for the properties.
    old,        \* the status moved on since the reply under way was built
    told        \* the central was told the current status

history == <<old, told>>
peripheralVars == <<gap, host, central, status, value, reply, history>>

\* bluetooth_task is in its select.
Connected == gap \in {"fresh", "notify", "pause"}

Bytes == 0 .. ByteMax

PeripheralTypeOK ==
    /\ gap \in {"main", "off", "advertise", "accept", "retry",
                "fresh", "notify", "pause"}
    /\ host \in {"run", "sleep"}
    /\ central \in BOOLEAN
    /\ status \in Bytes /\ value \in Bytes
    /\ reply \in Bytes \cup {NoValue}
    /\ old \in BOOLEAN /\ told \in BOOLEAN

PeripheralInit ==
    /\ gap = "main" /\ host = "run" /\ central = FALSE
    /\ status = 0 /\ value = 0 /\ reply = NoValue
    /\ old = FALSE /\ told = FALSE

\* A board without power.
PeripheralAbsent ==
    /\ gap = "off" /\ host = "run" /\ central = FALSE
    /\ status = 0 /\ value = 0 /\ reply = NoValue
    /\ old = FALSE /\ told = FALSE

-----------------------------------------------------------------------------
(* main and bluetooth_task up to its loop.                                 *)

StartBluetooth ==
    /\ gap = "main"
    /\ gap' = "advertise"
    /\ UNCHANGED <<host, central, status, value, reply, history, mishaps>>

\* The controller, the task or the GATT server is refused: the firmware goes
\* on without Bluetooth.
BluetoothInitFailed ==
    /\ gap = "main"
    /\ Mishap
    /\ gap' = "off"
    /\ UNCHANGED <<host, central, status, value, reply, history>>

-----------------------------------------------------------------------------
(* advertise_bluetooth.                                                    *)

PeripheralFrame == {Flags, LocalName(DeviceName)}

\* The host sends the HCI commands, so its runner must run.
AdvertiseStarted ==
    /\ gap = "advertise" /\ host = "run"
    /\ Encodes(PeripheralFrame)
    /\ gap' = "accept"
    /\ UNCHANGED <<host, central, status, value, reply, history, mishaps>>

\* advertise(), accept() or with_attribute_server() returns an error.
AdvertiseFailed ==
    /\ gap \in {"advertise", "accept"}
    /\ \/ gap = "advertise" /\ ~Encodes(PeripheralFrame) /\ UNCHANGED mishaps
       \/ Mishap
    /\ gap' = "retry"
    /\ UNCHANGED <<host, central, status, value, reply, history>>

RetryElapsed ==
    /\ gap = "retry"
    /\ gap' = "advertise"
    /\ UNCHANGED <<host, central, status, value, reply, history, mishaps>>

\* accept() returns the connection; each connection counts from zero.
Accepted ==
    /\ gap = "accept" /\ host = "run" /\ ~central
    /\ gap' = "fresh" /\ central' = TRUE
    /\ value' = 0 /\ told' = FALSE
    /\ UNCHANGED <<host, status, reply, old, mishaps>>

-----------------------------------------------------------------------------
(* bluetooth_status_notifications.                                         *)

\* Mutant: the counter is added to without wrapping.
NotifyStartUnwrapped ==
    /\ gap \in {"fresh", "pause"}
    /\ value' = value + 1
    /\ status' = value'
    /\ gap' = "notify"
    /\ old' = TRUE /\ told' = FALSE
    /\ UNCHANGED <<host, central, reply, mishaps>>

\* The head of the loop: notify() stores the value in the attribute table
\* before it awaits the send.
NotifyStart ==
    /\ gap \in {"fresh", "pause"}
    /\ value' = (value + 1) % (ByteMax + 1)
    /\ status' = value'
    /\ gap' = "notify"
    /\ old' = TRUE /\ told' = FALSE
    /\ UNCHANGED <<host, central, reply, mishaps>>

\* Mutant: the select polls the notifier first.
NotifyDoneFirst ==
    /\ gap = "notify"
    /\ told' \in {told, central}
    /\ gap' = "pause"
    /\ UNCHANGED <<host, central, status, value, reply, old, mishaps>>

\* The notification goes out, if the central subscribed to it.  A reply that
\* waits for the same queue was polled first.
NotifyDone ==
    /\ gap = "notify" /\ reply = NoValue
    /\ told' \in {told, central}
    /\ gap' = "pause"
    /\ UNCHANGED <<host, central, status, value, reply, old, mishaps>>

\* notify() fails, the packet pool is empty for instance: the select drops
\* the event loop, a reply under way, and the connection.
NotifyFailed ==
    /\ gap = "notify"
    /\ Mishap
    /\ gap' = "advertise" /\ reply' = NoValue
    /\ UNCHANGED <<host, central, status, value, history>>

-----------------------------------------------------------------------------
(* bluetooth_gatt_events.                                                  *)

\* A read of the status: accept() builds the reply from the attribute table.
ReadAccepted ==
    /\ Connected /\ central /\ host = "run" /\ reply = NoValue
    /\ reply' = status /\ old' = FALSE
    /\ UNCHANGED <<gap, host, central, status, value, told, mishaps>>

\* accept() fails and the request stays unanswered.
ReadRefused ==
    /\ Connected /\ central /\ host = "run" /\ reply = NoValue
    /\ Mishap
    /\ UNCHANGED peripheralVars

ReplySent ==
    /\ Connected /\ reply # NoValue
    /\ reply' = NoValue
    /\ told' = (told \/ ~old)
    /\ UNCHANGED <<gap, host, central, status, value, old, mishaps>>

\* Mutant: the event loop goes on after the disconnect event.
DisconnectedIgnored ==
    /\ Connected /\ ~central /\ reply = NoValue
    /\ UNCHANGED <<peripheralVars, mishaps>>

\* connection.next() delivers the disconnect event after the last reply.
Disconnected ==
    /\ Connected /\ ~central /\ reply = NoValue
    /\ gap' = "advertise"
    /\ UNCHANGED <<host, central, status, value, reply, history, mishaps>>

-----------------------------------------------------------------------------
(* bluetooth_runner, and what the host and the central do.                 *)

RunnerFailed ==
    /\ host = "run" /\ gap \notin {"main", "off"}
    /\ Mishap
    /\ host' = "sleep"
    /\ UNCHANGED <<gap, central, status, value, reply, history>>

RunnerRestarted ==
    /\ host = "sleep"
    /\ host' = "run"
    /\ UNCHANGED <<gap, central, status, value, reply, history, mishaps>>

CentralLeaves ==
    /\ Connected /\ central
    /\ central' = FALSE
    /\ UNCHANGED <<gap, host, status, value, reply, history, mishaps>>

\* The host closes the link of a connection the firmware dropped.
SlotFreed ==
    /\ ~Connected /\ central /\ host = "run"
    /\ central' = FALSE
    /\ UNCHANGED <<gap, host, status, value, reply, history, mishaps>>

-----------------------------------------------------------------------------
\* Timers fire, the host answers and delivers its events.
PeripheralProgress ==
    \/ StartBluetooth \/ AdvertiseStarted \/ RetryElapsed
    \/ NotifyDone \/ ReplySent \/ Disconnected
    \/ RunnerRestarted \/ SlotFreed

PeripheralNext ==
    \/ PeripheralProgress
    \/ BluetoothInitFailed \/ AdvertiseFailed \/ Accepted
    \/ NotifyStart \/ NotifyFailed
    \/ ReadAccepted \/ ReadRefused
    \/ RunnerFailed \/ CentralLeaves

=============================================================================
