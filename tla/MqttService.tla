---------------------------- MODULE MqttService -----------------------------
(***************************************************************************)
(* The MQTT service of the reference firmware                              *)
(* (firmware/seeed/xiao-esp32c6/src/main.rs): the telemetry producer, the  *)
(* bounded outbound channel, the task that resolves, connects, subscribes, *)
(* publishes and backs off, and the minimq adapter it drives.  The IP      *)
(* stack, the minimq session in RAM and the broker are external.           *)
(*                                                                         *)
(* The executor is cooperative: an action is what a task does between two  *)
(* awaits.  task is the await point mqtt_task is suspended at.             *)
(***************************************************************************)
EXTENDS NetStack, MqttLifecycle

CONSTANTS
    Depth,          \* MQTT_OUTBOUND_CHANNEL_DEPTH
    ArenaCapacity,  \* QoS 1 publishes the TX replay arena retains
    AttemptsMax,    \* u8::MAX, where ReconnectBackoff's counter saturates
    Kinds,          \* the error kinds the environment provokes
    MaxProduced,    \* bound on the telemetry messages of a behaviour
    MaxFaults       \* bound on the environment's faults

ASSUME ServiceAssumption ==
    /\ Depth \in Nat \ {0}
    /\ ArenaCapacity \in Nat \ {0}
    /\ AttemptsMax \in Nat \ {0}
    /\ Kinds \subseteq ErrorKind
    /\ MaxProduced \in Nat
    /\ MaxFaults \in Nat

VARIABLES
    (* firmware *)
    task,           \* where mqtt_task is suspended
    resumed,        \* connection.resumed() of the live connection
    snap,           \* Client::snapshot
    attempts,       \* ReconnectBackoff::attempts
    queue,          \* messages in MQTT_OUTBOUND (they are all alike)
    drops,          \* MQTT_QUEUE_DROPS
    (* minimq session, in RAM *)
    known,          \* a CONNACK has been seen: CONNECT asks to resume
    inflight,       \* QoS 1 publishes retained until acknowledged
    subPending,     \* SUBSCRIBE retained until acknowledged
    (* transport and broker *)
    stalled,        \* the established byte stream makes no progress
    brokerSession,  \* the broker holds a session for the client id
    brokerSub,      \* that session holds the command subscription
    (* history *)
    produced,       \* messages the producer generated
    lost,           \* messages taken from the channel and never published
    backoffs,       \* retry delays taken
    silent,         \* session errors observe() did not record
    orphaned,       \* broker session made by a CONNECT whose CONNACK was lost
    refused,        \* the broker refused the SUBSCRIBE of its session
    faults          \* environment faults spent

queueVars == <<queue, drops, produced, lost>>
sessionVars == <<known, inflight, subPending>>
brokerVars == <<stalled, brokerSession, brokerSub, orphaned, refused>>
retryVars == <<attempts, backoffs, silent>>
vars == <<netVars, task, resumed, snap, queueVars, sessionVars, brokerVars,
          retryVars, faults>>

InSession == task \in {"subscribe", "select", "publish"}

TaskPoints ==
    { "wait_ip", "state_timer", "wait_ip_down", "resolve", "tcp", "connect",
      "subscribe", "select", "publish", "backoff" }

FlagsOK ==
    /\ resumed \in BOOLEAN /\ known \in BOOLEAN /\ subPending \in BOOLEAN
    /\ stalled \in BOOLEAN /\ brokerSession \in BOOLEAN
    /\ brokerSub \in BOOLEAN /\ orphaned \in BOOLEAN /\ refused \in BOOLEAN

TypeOK ==
    /\ FlagsOK
    /\ NetTypeOK
    /\ task \in TaskPoints
    /\ snap \in Snapshot
    /\ attempts \in 0 .. AttemptsMax
    /\ queue \in 0 .. Depth
    /\ drops \in Counter
    /\ inflight \in 0 .. ArenaCapacity
    /\ produced \in Nat /\ lost \in Nat /\ backoffs \in Nat
    /\ silent \in Nat /\ faults \in Nat

Init ==
    /\ NetInit
    /\ task = "wait_ip"
    /\ resumed = FALSE
    /\ snap = Transition(DefaultSnapshot, "WaitingForNetwork")
    /\ attempts = 0
    /\ queue = 0 /\ drops = 0
    /\ known = FALSE /\ inflight = 0 /\ subPending = FALSE
    /\ stalled = FALSE /\ brokerSession = FALSE /\ brokerSub = FALSE
    /\ produced = 0 /\ lost = 0 /\ backoffs = 0 /\ silent = 0
    /\ orphaned = FALSE /\ refused = FALSE /\ faults = 0

\* A step only a misbehaving environment makes possible.
Fault == faults < MaxFaults /\ faults' = faults + 1

\* mqtt_backoff() up to its Timer: next_delay_ms counts the attempt.
EnterBackoff ==
    /\ task' = "backoff"
    /\ attempts' = IF attempts < AttemptsMax THEN attempts + 1 ELSE attempts
    /\ backoffs' = backoffs + 1

\* Mutant: the drop counter is loaded and not swapped.
EnterSelectLoaded(s) ==
    /\ task' = "select"
    /\ snap' = RecordQueueDrops(s, drops)
    /\ UNCHANGED drops

\* The top of run_mqtt_connection's loop, from snapshot s to its select.
EnterSelect(s) ==
    /\ task' = "select"
    /\ snap' = RecordQueueDrops(s, drops)
    /\ drops' = 0

\* Mutant: the lifecycle state is left as it was.
EnterWaitIpStale ==
    /\ task' = "wait_ip"
    /\ UNCHANGED snap

\* The top of mqtt_task's loop, up to wait_ip_ready().
EnterWaitIp ==
    /\ task' = "wait_ip"
    /\ snap' = Transition(snap, "WaitingForNetwork")

-----------------------------------------------------------------------------
(* mqtt_telemetry_producer_task: try_send, or count the drop.              *)

\* Mutant: the channel accepts one entry too many.
ProduceQueuedUnchecked ==
    /\ produced < MaxProduced
    /\ queue <= Depth
    /\ queue' = queue + 1
    /\ produced' = produced + 1
    /\ UNCHANGED <<netVars, task, resumed, snap, drops, lost, sessionVars,
                   brokerVars, retryVars, faults>>

ProduceQueued ==
    /\ produced < MaxProduced
    /\ queue < Depth
    /\ queue' = queue + 1
    /\ produced' = produced + 1
    /\ UNCHANGED <<netVars, task, resumed, snap, drops, lost, sessionVars,
                   brokerVars, retryVars, faults>>

\* Mutant: a message is dropped whether the channel is full or not.
ProduceDroppedEarly ==
    /\ produced < MaxProduced
    /\ drops' = (drops + 1) % (CounterMax + 1)
    /\ produced' = produced + 1
    /\ UNCHANGED <<netVars, task, resumed, snap, queue, lost, sessionVars,
                   brokerVars, retryVars, faults>>

ProduceDropped ==
    /\ produced < MaxProduced
    /\ queue = Depth
    /\ drops' = (drops + 1) % (CounterMax + 1)
    /\ produced' = produced + 1
    /\ UNCHANGED <<netVars, task, resumed, snap, queue, lost, sessionVars,
                   brokerVars, retryVars, faults>>

-----------------------------------------------------------------------------
(* mqtt_task: readiness, DNS, TCP and CONNECT.                             *)

WaitIpReady ==
    /\ task = "wait_ip"
    /\ IpReadyReturns
    /\ \/ /\ SnapshotFails
          /\ task' = "state_timer"
          /\ UNCHANGED snap
       \/ /\ ~SnapshotFails /\ ~IsDnsReady
          /\ task' = "wait_ip_down"
          /\ UNCHANGED snap
       \/ /\ IsDnsReady
          /\ task' = "resolve"
          /\ snap' = Transition(snap, "ResolvingBroker")
    /\ UNCHANGED <<netVars, resumed, queueVars, sessionVars, brokerVars,
                   retryVars, faults>>

StateTimerElapsed ==
    /\ task = "state_timer"
    /\ EnterWaitIp
    /\ UNCHANGED <<netVars, resumed, queueVars, sessionVars, brokerVars,
                   retryVars, faults>>

WaitedForDns ==
    /\ task = "wait_ip_down"
    /\ IpDownReturns
    /\ EnterWaitIp
    /\ UNCHANGED <<netVars, resumed, queueVars, sessionVars, brokerVars,
                   retryVars, faults>>

\* An operation under with_timeout that the network cannot carry fails, by
\* an error or by the ten-second timeout; any other fails only by a fault.
MayFail(reachable) == IF reachable THEN Fault ELSE UNCHANGED faults

BrokerReachable == lease # "none"

ResolveDone ==
    /\ task = "resolve"
    /\ ResolveReturns
    /\ task' = "tcp"
    /\ snap' = Transition(snap, "ConnectingTransport")
    /\ UNCHANGED <<netVars, resumed, queueVars, sessionVars, brokerVars,
                   retryVars, faults>>

ResolveFailed ==
    /\ task = "resolve"
    /\ MayFail(ResolveReturns)
    /\ snap' = RecordFailure(snap, "Transport")
    /\ EnterBackoff
    /\ UNCHANGED <<netVars, resumed, queueVars, sessionVars, brokerVars,
                   silent>>

TcpDone ==
    /\ task = "tcp"
    /\ BrokerReachable
    /\ task' = "connect"
    /\ snap' = Transition(snap, "ConnectingSession")
    /\ UNCHANGED <<netVars, resumed, queueVars, sessionVars, brokerVars,
                   retryVars, faults>>

TcpFailed ==
    /\ task = "tcp"
    /\ MayFail(BrokerReachable)
    /\ snap' = RecordFailure(snap, "Transport")
    /\ EnterBackoff
    /\ UNCHANGED <<netVars, resumed, queueVars, sessionVars, brokerVars,
                   silent>>

\* The broker resumes a session the client asks for and it still holds.
SessionPresent == known /\ brokerSession

\* Client::connect returns a resumed connection; the loop is entered at once.
ConnectResumed ==
    /\ task = "connect"
    /\ BrokerReachable
    /\ SessionPresent
    /\ resumed' = TRUE
    /\ attempts' = 0
    /\ EnterSelect(RecordResumed(snap))
    /\ UNCHANGED <<netVars, queue, produced, lost, sessionVars, brokerVars,
                   backoffs, silent, faults>>

\* Mutant: a fresh session is run like a resumed one.
ConnectFreshUnsubscribed ==
    /\ task = "connect"
    /\ BrokerReachable
    /\ ~SessionPresent
    /\ resumed' = FALSE
    /\ attempts' = 0
    /\ EnterSelect(RecordConnected(snap))
    /\ known' = TRUE /\ inflight' = 0 /\ subPending' = FALSE
    /\ brokerSession' = TRUE /\ brokerSub' = FALSE
    /\ orphaned' = FALSE /\ refused' = FALSE
    /\ UNCHANGED <<netVars, queue, produced, lost, stalled, backoffs, silent,
                   faults>>

\* A fresh session: both sides forget the old one, and the first poll of
\* subscribe() puts the SUBSCRIBE into the replay arena.
ConnectFresh ==
    /\ task = "connect"
    /\ BrokerReachable
    /\ ~SessionPresent
    /\ resumed' = FALSE
    /\ attempts' = 0
    /\ snap' = RecordConnected(snap)
    /\ task' = "subscribe"
    /\ known' = TRUE /\ inflight' = 0 /\ subPending' = TRUE
    /\ brokerSession' = TRUE /\ brokerSub' = FALSE
    /\ orphaned' = FALSE /\ refused' = FALSE
    /\ UNCHANGED <<netVars, queueVars, stalled, backoffs, silent, faults>>

\* Mutant: the adapter and the task both record the failure.
ConnectFailedTwice(kind, processed) ==
    /\ task = "connect"
    /\ MayFail(BrokerReachable)
    /\ snap' = RecordFailure(RecordFailure(snap, kind), "Transport")
    /\ EnterBackoff
    /\ UNCHANGED <<netVars, resumed, queueVars, sessionVars, brokerVars,
                   silent>>

\* CONNECT fails or times out.  The broker may have accepted it all the same
\* (processed) and then holds a session the client does not know it opened.
ConnectFailed(kind, processed) ==
    /\ task = "connect"
    /\ MayFail(BrokerReachable)
    /\ processed => BrokerReachable
    /\ snap' = RecordFailure(snap, kind)
    /\ EnterBackoff
    /\ IF processed /\ ~SessionPresent
       THEN /\ brokerSession' = TRUE /\ brokerSub' = FALSE
            /\ orphaned' = TRUE /\ refused' = FALSE
            /\ UNCHANGED stalled
       ELSE UNCHANGED brokerVars
    /\ UNCHANGED <<netVars, resumed, queueVars, sessionVars, silent>>

-----------------------------------------------------------------------------
(* run_mqtt_connection under select with wait_ip_down().                   *)

SubscribeDone ==
    /\ task = "subscribe"
    /\ ~stalled
    /\ EnterSelect(snap)
    /\ UNCHANGED <<netVars, resumed, queue, produced, lost, sessionVars,
                   brokerVars, retryVars, faults>>

\* The session ends with an error of this kind, whoever met it; the socket
\* goes with the connection.
SessionError(kind) ==
    /\ snap' = Observe(snap, kind)
    /\ silent' = IF kind \in ObservedKinds THEN silent ELSE silent + 1
    /\ stalled' = FALSE
    /\ EnterBackoff

SubscribeFailed(kind) ==
    /\ task = "subscribe"
    /\ kind \in ObservedKinds
    /\ ~stalled
    /\ Fault
    /\ SessionError(kind)
    /\ UNCHANGED <<netVars, resumed, queueVars, sessionVars, brokerSession,
                   brokerSub, orphaned, refused>>

\* receive() delivers a command and the loop starts over.
Receive ==
    /\ task = "select"
    /\ ~stalled /\ lease # "none" /\ brokerSub
    /\ EnterSelect(RecordReceive(snap))
    /\ UNCHANGED <<netVars, resumed, queue, produced, lost, sessionVars,
                   brokerVars, retryVars, faults>>

ReceiveFailed(kind) ==
    /\ task = "select"
    /\ ~stalled
    /\ Fault
    /\ SessionError(kind)
    /\ UNCHANGED <<netVars, resumed, queueVars, sessionVars, brokerSession,
                   brokerSub, orphaned, refused>>

\* On a stalled stream minimq's keepalive gives up, and receive() reports it.
KeepaliveFailed ==
    /\ task = "select"
    /\ stalled
    /\ SessionError("Disconnected")
    /\ UNCHANGED <<netVars, resumed, queueVars, sessionVars, brokerSession,
                   brokerSub, orphaned, refused, faults>>

\* Mutant: only a fresh session serves the channel.
TakeMessageFresh ==
    /\ task = "select"
    /\ queue > 0
    /\ ~resumed
    /\ queue' = queue - 1
    /\ task' = "publish"
    /\ UNCHANGED <<netVars, resumed, snap, drops, produced, lost, sessionVars,
                   brokerVars, retryVars, faults>>

\* MQTT_OUTBOUND.receive() wins the select: the message leaves the channel.
TakeMessage ==
    /\ task = "select"
    /\ queue > 0
    /\ queue' = queue - 1
    /\ task' = "publish"
    /\ UNCHANGED <<netVars, resumed, snap, drops, produced, lost, sessionVars,
                   brokerVars, retryVars, faults>>

PublishDone ==
    /\ task = "publish"
    /\ ~stalled
    /\ inflight < ArenaCapacity
    /\ inflight' = inflight + 1
    /\ EnterSelect(RecordPublish(snap))
    /\ UNCHANGED <<netVars, resumed, queue, produced, lost, known, subPending,
                   brokerVars, retryVars, faults>>

\* The arena may have retained the packet of a publish that did not return.
MayRetain ==
    \/ UNCHANGED inflight
    \/ inflight < ArenaCapacity /\ inflight' = inflight + 1

\* The transport or the session fails under the publish.
PublishFailed(kind) ==
    /\ task = "publish"
    /\ kind \in ObservedKinds
    /\ ~stalled
    /\ Fault
    /\ SessionError(kind)
    /\ lost' = lost + 1
    /\ MayRetain
    /\ UNCHANGED <<netVars, resumed, queue, drops, produced, known, subPending,
                   brokerSession, brokerSub, orphaned, refused>>

\* Mutant: the loop ignores the error and goes on.
PublishRefusedIgnored(kind) ==
    /\ task = "publish"
    /\ kind \in {"Capacity", "NotReady"}
    /\ inflight = ArenaCapacity
    /\ EnterSelect(snap)
    /\ lost' = lost + 1
    /\ UNCHANGED <<netVars, resumed, queue, produced, sessionVars, brokerVars,
                   retryVars, faults>>

\* The arena is full: publish() is refused locally.
PublishRefused(kind) ==
    /\ task = "publish"
    /\ kind \in {"Capacity", "NotReady"}
    /\ inflight = ArenaCapacity
    /\ SessionError(kind)
    /\ lost' = lost + 1
    /\ UNCHANGED <<netVars, resumed, queue, drops, produced, sessionVars,
                   brokerSession, brokerSub, orphaned, refused, faults>>

\* Mutant: IP loss is only awaited together with receive().
IpLostIdle ==
    /\ task = "select"
    /\ IpDownReturns
    /\ EnterWaitIp
    /\ stalled' = FALSE
    /\ UNCHANGED <<netVars, resumed, queueVars, sessionVars, brokerSession,
                   brokerSub, orphaned, refused, retryVars, faults>>

\* wait_ip_down() wins the select and cancels whatever was awaited.
IpLost ==
    /\ InSession
    /\ IpDownReturns
    /\ EnterWaitIp
    /\ stalled' = FALSE
    /\ IF task = "publish"
       THEN lost' = lost + 1 /\ MayRetain
       ELSE UNCHANGED <<lost, inflight>>
    /\ UNCHANGED <<netVars, resumed, queue, drops, produced, known, subPending,
                   brokerSession, brokerSub, orphaned, refused, retryVars, faults>>

\* Mutant: the retry waits for the lease to go.
BackoffElapsedOnIpDown ==
    /\ task = "backoff"
    /\ IpDownReturns
    /\ EnterWaitIp
    /\ UNCHANGED <<netVars, resumed, queueVars, sessionVars, brokerVars,
                   retryVars, faults>>

BackoffElapsed ==
    /\ task = "backoff"
    /\ EnterWaitIp
    /\ UNCHANGED <<netVars, resumed, queueVars, sessionVars, brokerVars,
                   retryVars, faults>>

-----------------------------------------------------------------------------
(* The environment: acknowledgements minimq processes inside receive(),    *)
(* the broker's session expiry, stalls and the IP stack.                   *)

Acknowledge ==
    /\ task = "select" /\ ~stalled /\ lease # "none"
    /\ inflight > 0
    /\ inflight' = inflight - 1
    /\ UNCHANGED <<netVars, task, resumed, snap, queueVars, known, subPending,
                   brokerVars, retryVars, faults>>

SubscribeAccepted ==
    /\ task = "select" /\ ~stalled /\ lease # "none"
    /\ subPending
    /\ subPending' = FALSE
    /\ brokerSub' = TRUE
    /\ UNCHANGED <<netVars, task, resumed, snap, queueVars, known, inflight,
                   stalled, brokerSession, orphaned, refused, retryVars, faults>>

\* A SUBACK with a failure code surfaces from receive() as a peer error.
SubscribeRefused ==
    /\ task = "select" /\ ~stalled /\ lease # "none"
    /\ subPending
    /\ subPending' = FALSE
    /\ refused' = TRUE
    /\ Fault
    /\ SessionError("Protocol")
    /\ UNCHANGED <<netVars, resumed, queueVars, known, inflight,
                   brokerSession, brokerSub, orphaned>>

\* The broker forgets a session whose client it no longer hears.
BrokerExpires ==
    /\ brokerSession
    /\ ~InSession \/ stalled
    /\ Fault
    /\ brokerSession' = FALSE /\ brokerSub' = FALSE
    /\ UNCHANGED <<netVars, task, resumed, snap, queueVars, sessionVars,
                   stalled, orphaned, refused, retryVars>>

Stall ==
    /\ InSession
    /\ ~stalled
    /\ Fault
    /\ stalled' = TRUE
    /\ UNCHANGED <<netVars, task, resumed, snap, queueVars, sessionVars,
                   brokerSession, brokerSub, orphaned, refused, retryVars>>

NetUp ==
    /\ LinkUp \/ \E l \in Leases : LeaseAcquired(l)
    /\ UNCHANGED <<task, resumed, snap, queueVars, sessionVars, brokerVars,
                   retryVars, faults>>

NetFault ==
    /\ LinkDown \/ LeaseLost \/ \E l \in Leases : LeaseRenewed(l)
    /\ Fault
    /\ UNCHANGED <<task, resumed, snap, queueVars, sessionVars, brokerVars,
                   retryVars>>

-----------------------------------------------------------------------------
Produce == ProduceQueued \/ ProduceDropped

Wait == WaitIpReady \/ StateTimerElapsed \/ WaitedForDns \/ BackoffElapsed

Resolve == ResolveDone \/ ResolveFailed

Tcp == TcpDone \/ TcpFailed

Connect ==
    \/ ConnectResumed
    \/ ConnectFresh
    \/ \E kind \in Kinds, processed \in BOOLEAN :
            ConnectFailed(kind, processed)

Subscribe == SubscribeDone \/ \E kind \in Kinds : SubscribeFailed(kind)

Select ==
    \/ Receive
    \/ TakeMessage
    \/ KeepaliveFailed
    \/ \E kind \in Kinds : ReceiveFailed(kind)

Publish ==
    \/ PublishDone
    \/ \E kind \in Kinds : PublishFailed(kind) \/ PublishRefused(kind)

Broker == Acknowledge \/ SubscribeAccepted \/ SubscribeRefused

Environment == BrokerExpires \/ Stall \/ NetUp \/ NetFault

Next ==
    \/ Produce \/ Wait \/ Resolve \/ Tcp \/ Connect \/ Subscribe \/ Select
    \/ Publish \/ IpLost \/ Broker \/ Environment

Spec == Init /\ [][Next]_vars

\* Timers and with_timeout always fire, ready futures are polled, and the
\* transport and the broker answer unless a fault stops them.
Fairness ==
    /\ WF_vars(Produce) /\ WF_vars(Wait) /\ WF_vars(Resolve) /\ WF_vars(Tcp)
    /\ WF_vars(Connect) /\ WF_vars(Subscribe) /\ WF_vars(Publish)
    /\ WF_vars(TakeMessage) /\ WF_vars(KeepaliveFailed)
    /\ WF_vars(IpLost) /\ WF_vars(Acknowledge) /\ WF_vars(SubscribeAccepted)

FairSpec == Spec /\ Fairness

-----------------------------------------------------------------------------
(* Safety.                                                                 *)

\* The message a publish() under way took from the channel.
Held == IF task = "publish" THEN 1 ELSE 0

\* Every telemetry message the producer made is in the channel, in the
\* publish under way, counted as a drop (in MQTT_QUEUE_DROPS or, after the
\* swap, in the snapshot), counted as a publish, or was taken by a publish
\* that never returned Ok; no message is counted twice.  The u32 counters
\* only promise this below u32::MAX.
MessageAccounting ==
    produced <= CounterMax =>
        produced = queue + Held + drops + snap.queue_drops
                   + snap.publishes + lost

\* A session loses at most the one message its last publish held: the error
\* or the cancellation that loses a message also ends the session.
OneLossPerSession ==
    (snap.connections < CounterMax /\ snap.resumptions < CounterMax) =>
        lost <= snap.connections + snap.resumptions

\* Every retry delay follows exactly one failure, recorded once: by the
\* adapter, or by the task for the layers outside it, or by neither when
\* observe() filters the kind out.
FailureAccounting ==
    backoffs <= CounterMax => backoffs = snap.failures + silent

\* On a live session the broker holds the command subscription or the replay
\* arena still holds the SUBSCRIBE, unless the broker refused it or opened
\* the session for a CONNECT whose CONNACK never arrived.
SubscriptionKept ==
    (InSession /\ ~stalled) => brokerSub \/ subPending \/ refused \/ orphaned

\* The snapshot a diagnostics reader sees names the wait the task is in; in
\* a retry delay it may still show the dead session, and then shows no error.
StateTracksTask ==
    /\ task \in {"wait_ip", "state_timer", "wait_ip_down"} =>
            snap.state = "WaitingForNetwork"
    /\ task = "resolve" => snap.state = "ResolvingBroker"
    /\ task = "tcp" => snap.state = "ConnectingTransport"
    /\ task = "connect" => snap.state = "ConnectingSession"
    /\ InSession => snap.state = IF resumed THEN "Resumed" ELSE "Connected"
    /\ task = "backoff" =>
            \/ snap.state = "BackingOff" /\ snap.last_error # "None"
            \/ /\ snap.state \in {"Connected", "Resumed"}
               /\ snap.last_error = "None" /\ silent > 0

\* Counters of the snapshot saturate: no step, at the limit or below it,
\* makes one smaller.
CountersNeverDecrease ==
    [][ /\ snap'.connections >= snap.connections
        /\ snap'.resumptions >= snap.resumptions
        /\ snap'.failures >= snap.failures
        /\ snap'.publishes >= snap.publishes
        /\ snap'.received >= snap.received
        /\ snap'.queue_drops >= snap.queue_drops ]_vars

Outbox == INSTANCE TelemetryOutbox WITH
              waiting <- queue,
              taken <- Held,
              dropped <- drops + snap.queue_drops,
              published <- snap.publishes

\* The producer, the channel, the drop counter and the task together keep the
\* promise of TelemetryOutbox: whatever fails or is cancelled, a message is
\* refused only when the channel is full, and settled once.
KeepsOutboxPromise == Outbox!Spec

-----------------------------------------------------------------------------
(* Liveness, under FairSpec.                                               *)

NetworkStays == <>[](lease = "dns")
StreamMoves == []<>(~stalled)


\* The task read a lease without DNS server and waits for its end: a renewal
\* that brings one does not end the wait.
MissedDns == <>[](task = "wait_ip_down")

\* Once the lease stays and streams move, the retry loop ends in a session
\* that lasts, whatever failures came before; a DNS server that came with a
\* renewal is the only thing the task can miss for good.
Recovers == (NetworkStays /\ StreamMoves) => <>[]InSession \/ MissedDns

\* ... and that session empties the channel and the replay arena.
Drains ==
    (NetworkStays /\ StreamMoves) => <>[](queue = 0 /\ inflight = 0) \/ MissedDns

\* IPv4 loss ends the session, a publish stuck on a stalled stream included,
\* and brings the task back to its readiness wait.
StopsWithoutLease == <>[](lease = "none") => <>[](task = "wait_ip")

-----------------------------------------------------------------------------
(* What the documentation says of the service and the code does not do.    *)

\* docs/connectivity/mqtt.md: a reconnect resumes the session the broker
\* retained, "otherwise firmware restores its one subscription".
SubscriptionRestored ==
    (InSession /\ ~stalled) => brokerSub \/ subPending \/ refused

\* docs/connectivity/mqtt.md: "the composing application must still apply
\* transport deadlines and external wall-clock timeouts".
StalledStreamEnds == stalled ~> ~stalled

=============================================================================
