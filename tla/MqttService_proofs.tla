------------------------- MODULE MqttService_proofs -------------------------
(***************************************************************************)
(* Proofs about MqttService, for every channel depth, arena capacity,      *)
(* counter width, set of lease and error kinds and number of faults.       *)
(***************************************************************************)
EXTENDS MqttService, TLAPS

-----------------------------------------------------------------------------
(* The snapshot's operations.                                              *)

\* saturating_add stays in the counter's range, never shrinks, and adds
\* exactly below the limit.
LEMMA SaturatingAddFacts ==
    ASSUME NEW a \in Counter, NEW b \in Counter
    PROVE  /\ SaturatingAdd(a, b) \in Counter
           /\ SaturatingAdd(a, b) >= a
           /\ a + b <= CounterMax => SaturatingAdd(a, b) = a + b
BY CounterMaxAssumption DEF Counter, SaturatingAdd

\* One counts as a counter value.
LEMMA OneIsCounter == 0 \in Counter /\ 1 \in Counter
BY CounterMaxAssumption DEF Counter

\* The groups of snapshot fields an operation leaves alone.
SameStatus(s, t) == t.state = s.state /\ t.last_error = s.last_error
SameSessions(s, t) ==
    t.connections = s.connections /\ t.resumptions = s.resumptions
SameTraffic(s, t) ==
    /\ t.publishes = s.publishes /\ t.received = s.received
    /\ t.queue_drops = s.queue_drops

\* transition() changes the lifecycle state and nothing else.
LEMMA TransitionFacts ==
    ASSUME NEW s \in Snapshot, NEW state \in ConnectionState
    PROVE  LET t == Transition(s, state)
           IN  /\ t \in Snapshot /\ t.state = state
               /\ t.last_error = s.last_error /\ t.failures = s.failures
               /\ SameSessions(s, t) /\ SameTraffic(s, t)
BY DEF Transition, Snapshot, SameSessions, SameTraffic

\* record_connected() counts one fresh session and clears the error.
LEMMA RecordConnectedFacts ==
    ASSUME NEW s \in Snapshot
    PROVE  LET t == RecordConnected(s)
           IN  /\ t \in Snapshot /\ t.state = "Connected"
               /\ t.last_error = "None" /\ t.failures = s.failures
               /\ t.connections = SaturatingAdd(s.connections, 1)
               /\ t.resumptions = s.resumptions /\ SameTraffic(s, t)
<1>1. SaturatingAdd(s.connections, 1) \in Counter
  BY SaturatingAddFacts, OneIsCounter DEF Snapshot
<1>. QED
  BY <1>1 DEF RecordConnected, Snapshot, ConnectionState, LastError, SameTraffic

\* record_resumed() counts one resumed session and clears the error.
LEMMA RecordResumedFacts ==
    ASSUME NEW s \in Snapshot
    PROVE  LET t == RecordResumed(s)
           IN  /\ t \in Snapshot /\ t.state = "Resumed"
               /\ t.last_error = "None" /\ t.failures = s.failures
               /\ t.resumptions = SaturatingAdd(s.resumptions, 1)
               /\ t.connections = s.connections /\ SameTraffic(s, t)
<1>1. SaturatingAdd(s.resumptions, 1) \in Counter
  BY SaturatingAddFacts, OneIsCounter DEF Snapshot
<1>. QED
  BY <1>1 DEF RecordResumed, Snapshot, ConnectionState, LastError, SameTraffic

\* record_failure() counts one failure and keeps its kind.
LEMMA RecordFailureFacts ==
    ASSUME NEW s \in Snapshot, NEW kind \in ErrorKind
    PROVE  LET t == RecordFailure(s, kind)
           IN  /\ t \in Snapshot /\ t.state = "BackingOff"
               /\ t.last_error = kind
               /\ t.failures = SaturatingAdd(s.failures, 1)
               /\ SameSessions(s, t) /\ SameTraffic(s, t)
<1>1. SaturatingAdd(s.failures, 1) \in Counter
  BY SaturatingAddFacts, OneIsCounter DEF Snapshot
<1>. QED
  BY <1>1 DEF RecordFailure, Snapshot, ConnectionState, LastError,
              SameSessions, SameTraffic

\* record_publish() counts one publish.
LEMMA RecordPublishFacts ==
    ASSUME NEW s \in Snapshot
    PROVE  LET t == RecordPublish(s)
           IN  /\ t \in Snapshot
               /\ t.publishes = SaturatingAdd(s.publishes, 1)
               /\ t.received = s.received /\ t.queue_drops = s.queue_drops
               /\ t.failures = s.failures
               /\ SameStatus(s, t) /\ SameSessions(s, t)
<1>1. SaturatingAdd(s.publishes, 1) \in Counter
  BY SaturatingAddFacts, OneIsCounter DEF Snapshot
<1>. QED
  BY <1>1 DEF RecordPublish, Snapshot, SameStatus, SameSessions

\* record_receive() counts one inbound publish.
LEMMA RecordReceiveFacts ==
    ASSUME NEW s \in Snapshot
    PROVE  LET t == RecordReceive(s)
           IN  /\ t \in Snapshot
               /\ t.received = SaturatingAdd(s.received, 1)
               /\ t.publishes = s.publishes /\ t.queue_drops = s.queue_drops
               /\ t.failures = s.failures
               /\ SameStatus(s, t) /\ SameSessions(s, t)
<1>1. SaturatingAdd(s.received, 1) \in Counter
  BY SaturatingAddFacts, OneIsCounter DEF Snapshot
<1>. QED
  BY <1>1 DEF RecordReceive, Snapshot, SameStatus, SameSessions

\* record_queue_drops() adds what the swap took from MQTT_QUEUE_DROPS.
LEMMA RecordQueueDropsFacts ==
    ASSUME NEW s \in Snapshot, NEW n \in Counter
    PROVE  LET t == RecordQueueDrops(s, n)
           IN  /\ t \in Snapshot
               /\ t.queue_drops = SaturatingAdd(s.queue_drops, n)
               /\ t.publishes = s.publishes /\ t.received = s.received
               /\ t.failures = s.failures
               /\ SameStatus(s, t) /\ SameSessions(s, t)
<1>1. SaturatingAdd(s.queue_drops, n) \in Counter
  BY SaturatingAddFacts DEF Snapshot
<1>. QED
  BY <1>1 DEF RecordQueueDrops, Snapshot, SameStatus, SameSessions

\* observe() records a failure of the kinds that end the session and leaves
\* the snapshot alone for the others.
LEMMA ObserveFacts ==
    ASSUME NEW s \in Snapshot, NEW kind \in ErrorKind
    PROVE  /\ Observe(s, kind) \in Snapshot
           /\ kind \in ObservedKinds => Observe(s, kind) = RecordFailure(s, kind)
           /\ kind \notin ObservedKinds => Observe(s, kind) = s
BY RecordFailureFacts DEF Observe

-----------------------------------------------------------------------------
(* Type correctness.                                                       *)

\* Entering the select of run_mqtt_connection keeps the types: the swapped
\* drop counter is added to the snapshot and cleared.
LEMMA EnterSelectType ==
    ASSUME TypeOK, NEW s \in Snapshot, EnterSelect(s)
    PROVE  task' \in TaskPoints /\ snap' \in Snapshot /\ drops' \in Counter
BY RecordQueueDropsFacts, OneIsCounter DEF EnterSelect, TypeOK, TaskPoints

\* mqtt_backoff() keeps the types: the attempt counter saturates.
LEMMA EnterBackoffType ==
    ASSUME TypeOK, EnterBackoff
    PROVE  /\ task' \in TaskPoints /\ attempts' \in 0 .. AttemptsMax
           /\ backoffs' \in Nat
BY ServiceAssumption DEF EnterBackoff, TypeOK, TaskPoints

\* Going back to wait_ip_ready() keeps the types.
LEMMA EnterWaitIpType ==
    ASSUME TypeOK, EnterWaitIp
    PROVE  task' \in TaskPoints /\ snap' \in Snapshot
BY TransitionFacts DEF EnterWaitIp, TypeOK, TaskPoints, ConnectionState

\* A session that ends with an error keeps the types.
LEMMA SessionErrorType ==
    ASSUME TypeOK, NEW kind \in ErrorKind, SessionError(kind)
    PROVE  /\ task' \in TaskPoints /\ attempts' \in 0 .. AttemptsMax
           /\ backoffs' \in Nat /\ snap' \in Snapshot /\ silent' \in Nat
BY EnterBackoffType, ObserveFacts DEF SessionError, TypeOK

\* The Boolean state of the session, the broker and the transport.
LEMMA FlagsStep ==
    ASSUME FlagsOK, [Next]_vars
    PROVE  FlagsOK'
<1> USE DEF netVars, queueVars, sessionVars, brokerVars, retryVars, FlagsOK
<1>1. CASE Produce
  BY <1>1, Zenon DEF Produce, ProduceQueued, ProduceDropped
<1>2. CASE Wait
  BY <1>2, Zenon
  DEF Wait, WaitIpReady, StateTimerElapsed, WaitedForDns, BackoffElapsed
<1>3. CASE Resolve \/ Tcp
  BY <1>3, Zenon
  DEF Resolve, Tcp, ResolveDone, ResolveFailed, TcpDone, TcpFailed
<1>4. CASE ConnectResumed \/ ConnectFresh
  BY <1>4, Zenon DEF ConnectResumed, ConnectFresh
<1>5. ASSUME NEW kind \in Kinds, NEW processed \in BOOLEAN,
             ConnectFailed(kind, processed)
      PROVE  FlagsOK'
  BY <1>5, Zenon DEF ConnectFailed
<1>6. CASE SubscribeDone \/ Receive \/ TakeMessage \/ PublishDone
  BY <1>6, Zenon DEF SubscribeDone, Receive, TakeMessage, PublishDone
<1>7. ASSUME NEW kind \in Kinds,
             \/ SubscribeFailed(kind) \/ ReceiveFailed(kind)
             \/ PublishFailed(kind) \/ PublishRefused(kind)
      PROVE  FlagsOK'
  BY <1>7, Zenon
  DEF SubscribeFailed, ReceiveFailed, PublishFailed, PublishRefused,
      SessionError
<1>12. CASE KeepaliveFailed
  BY <1>12, Zenon DEF KeepaliveFailed, SessionError
<1>8. CASE IpLost
  BY <1>8, Zenon DEF IpLost
<1>9. CASE Broker
  BY <1>9, Zenon
  DEF Broker, Acknowledge, SubscribeAccepted, SubscribeRefused, SessionError
<1>10. CASE Environment
  BY <1>10, Zenon DEF Environment, BrokerExpires, Stall, NetUp, NetFault
<1>11. CASE UNCHANGED vars
  BY <1>11, Zenon DEF vars
<1>. QED
  BY <1>1, <1>2, <1>3, <1>4, <1>5, <1>6, <1>7, <1>8, <1>9, <1>10, <1>11, <1>12
  DEF Next, Connect, Subscribe, Select, Publish

\* Every variable of the service stays in its range; in particular the
\* channel never holds more than Depth messages and the arena never more
\* than its capacity.
THEOREM TypeCorrect == Spec => []TypeOK
<1>1. Init => TypeOK
  <2>1. DefaultSnapshot \in Snapshot
    BY OneIsCounter DEF DefaultSnapshot, Snapshot, ConnectionState, LastError
  <2>2. Transition(DefaultSnapshot, "WaitingForNetwork") \in Snapshot
    BY <2>1, TransitionFacts DEF ConnectionState
  <2>3. Init => FlagsOK
    BY Zenon DEF Init, FlagsOK
  <2>. QED
    BY <2>2, <2>3, ServiceAssumption, OneIsCounter
    DEF Init, TypeOK, NetInit, NetTypeOK, TaskPoints
<1>2. TypeOK /\ [Next]_vars => TypeOK'
  <2> SUFFICES ASSUME TypeOK, [Next]_vars PROVE TypeOK'
    OBVIOUS
  <2> USE DEF netVars, queueVars, sessionVars, brokerVars, retryVars
  <2>0. FlagsOK'
    BY FlagsStep DEF TypeOK
  <2>1. CASE Produce
    BY <2>0, <2>1, ServiceAssumption, CounterMaxAssumption
    DEF Produce, ProduceQueued, ProduceDropped, TypeOK, NetTypeOK, Counter
  <2>2. CASE WaitIpReady
    BY <2>0, <2>2, TransitionFacts
    DEF WaitIpReady, TypeOK, NetTypeOK, TaskPoints, ConnectionState
  <2>3. CASE StateTimerElapsed \/ WaitedForDns \/ BackoffElapsed
    BY <2>0, <2>3, EnterWaitIpType
    DEF StateTimerElapsed, WaitedForDns, BackoffElapsed, TypeOK, NetTypeOK
  <2>4. CASE ResolveDone \/ TcpDone
    BY <2>0, <2>4, TransitionFacts
    DEF ResolveDone, TcpDone, TypeOK, NetTypeOK, TaskPoints, ConnectionState
  <2>5. CASE ResolveFailed \/ TcpFailed
    <3>1. snap' \in Snapshot
      BY <2>0, <2>5, RecordFailureFacts DEF ResolveFailed, TcpFailed, TypeOK, ErrorKind
    <3>2. faults' \in Nat
      BY <2>0, <2>5 DEF ResolveFailed, TcpFailed, MayFail, Fault, TypeOK
    <3>. QED
      BY <2>0, <2>5, <3>1, <3>2, EnterBackoffType
      DEF ResolveFailed, TcpFailed, TypeOK, NetTypeOK
  <2>6. CASE ConnectResumed
    <3>1. RecordResumed(snap) \in Snapshot
      BY RecordResumedFacts DEF TypeOK
    <3>2. task' \in TaskPoints /\ snap' \in Snapshot /\ drops' \in Counter
      BY <2>6, <3>1, EnterSelectType DEF ConnectResumed
    <3>. QED
      BY <2>0, <2>6, <3>2, ServiceAssumption
      DEF ConnectResumed, TypeOK, NetTypeOK
  <2>7. CASE ConnectFresh
    <3>1. snap' \in Snapshot
      BY <2>7, RecordConnectedFacts DEF ConnectFresh, TypeOK
    <3>. QED
      BY <2>0, <2>7, <3>1, ServiceAssumption
      DEF ConnectFresh, TypeOK, NetTypeOK, TaskPoints
  <2>8. ASSUME NEW kind \in Kinds, NEW processed \in BOOLEAN,
               ConnectFailed(kind, processed)
        PROVE  TypeOK'
    <3>1. snap' \in Snapshot
      BY <2>0, <2>8, RecordFailureFacts, ServiceAssumption DEF ConnectFailed, TypeOK
    <3>2. faults' \in Nat
      BY <2>0, <2>8 DEF ConnectFailed, MayFail, Fault, TypeOK
    <3>. QED
      BY <2>0, <2>8, <3>1, <3>2, EnterBackoffType DEF ConnectFailed, TypeOK, NetTypeOK
  <2>9. CASE SubscribeDone
    BY <2>0, <2>9, EnterSelectType DEF SubscribeDone, TypeOK, NetTypeOK
  <2>10. ASSUME NEW kind \in Kinds,
                SubscribeFailed(kind) \/ ReceiveFailed(kind)
         PROVE  TypeOK'
    BY <2>0, <2>10, SessionErrorType, ServiceAssumption
    DEF SubscribeFailed, ReceiveFailed, Fault, TypeOK, NetTypeOK
  <2>21. CASE KeepaliveFailed
    BY <2>0, <2>21, SessionErrorType
    DEF KeepaliveFailed, ErrorKind, TypeOK, NetTypeOK
  <2>11. CASE Receive
    <3>1. RecordReceive(snap) \in Snapshot
      BY RecordReceiveFacts DEF TypeOK
    <3>2. task' \in TaskPoints /\ snap' \in Snapshot /\ drops' \in Counter
      BY <2>11, <3>1, EnterSelectType DEF Receive
    <3>. QED
      BY <2>0, <2>11, <3>2 DEF Receive, TypeOK, NetTypeOK
  <2>12. CASE TakeMessage
    BY <2>0, <2>12, ServiceAssumption DEF TakeMessage, TypeOK, NetTypeOK, TaskPoints
  <2>13. CASE PublishDone
    <3>1. RecordPublish(snap) \in Snapshot
      BY RecordPublishFacts DEF TypeOK
    <3>2. task' \in TaskPoints /\ snap' \in Snapshot /\ drops' \in Counter
      BY <2>13, <3>1, EnterSelectType DEF PublishDone
    <3>. QED
      BY <2>0, <2>13, <3>2, ServiceAssumption DEF PublishDone, TypeOK, NetTypeOK
  <2>14. ASSUME NEW kind \in Kinds,
                PublishFailed(kind) \/ PublishRefused(kind)
         PROVE  TypeOK'
    BY <2>0, <2>14, SessionErrorType, ServiceAssumption
    DEF PublishFailed, PublishRefused, MayRetain, Fault, TypeOK, NetTypeOK
  <2>15. CASE IpLost
    BY <2>0, <2>15, EnterWaitIpType, ServiceAssumption
    DEF IpLost, MayRetain, TypeOK, NetTypeOK
  <2>16. CASE Acknowledge \/ SubscribeAccepted
    BY <2>0, <2>16, ServiceAssumption
    DEF Acknowledge, SubscribeAccepted, TypeOK, NetTypeOK
  <2>17. CASE SubscribeRefused
    BY <2>0, <2>17, SessionErrorType
    DEF SubscribeRefused, Fault, TypeOK, NetTypeOK, ErrorKind
  <2>18. CASE BrokerExpires \/ Stall
    BY <2>0, <2>18 DEF BrokerExpires, Stall, Fault, TypeOK, NetTypeOK
  <2>19. CASE NetUp \/ NetFault
    BY <2>0, <2>19, LeasesAssumption
    DEF NetUp, NetFault, LinkUp, LinkDown, LeaseAcquired, LeaseLost,
        LeaseRenewed, Fault, TypeOK, NetTypeOK
  <2>20. CASE UNCHANGED vars
    BY <2>0, <2>20 DEF vars, TypeOK, NetTypeOK
  <2>. QED
    BY <2>1, <2>2, <2>3, <2>4, <2>5, <2>6, <2>7, <2>8, <2>9, <2>10, <2>11,
       <2>12, <2>13, <2>14, <2>15, <2>16, <2>17, <2>18, <2>19, <2>20, <2>21
    DEF Next, Wait, Resolve, Tcp, Connect, Subscribe, Select, Publish, Broker,
        Environment
<1>. QED
  BY <1>1, <1>2, PTL DEF Spec

-----------------------------------------------------------------------------
(* What the shared parts of the actions do to the counters.                *)

\* Entering the select changes no counter but the drops.
LEMMA EnterSelectFacts ==
    ASSUME TypeOK, NEW s \in Snapshot, EnterSelect(s)
    PROVE  /\ task' = "select" /\ drops' = 0
           /\ snap'.queue_drops = SaturatingAdd(s.queue_drops, drops)
           /\ snap'.publishes = s.publishes /\ snap'.received = s.received
           /\ snap'.failures = s.failures
           /\ SameStatus(s, snap') /\ SameSessions(s, snap')
BY RecordQueueDropsFacts DEF EnterSelect, TypeOK

\* Going back to wait_ip_ready() changes no counter.
LEMMA EnterWaitIpFacts ==
    ASSUME TypeOK, EnterWaitIp
    PROVE  /\ task' = "wait_ip" /\ snap'.state = "WaitingForNetwork"
           /\ snap'.last_error = snap.last_error
           /\ snap'.failures = snap.failures
           /\ SameSessions(snap, snap') /\ SameTraffic(snap, snap')
BY TransitionFacts DEF EnterWaitIp, TypeOK, ConnectionState

\* A failed session is one retry delay and one failure, recorded or silent.
LEMMA SessionErrorFacts ==
    ASSUME TypeOK, NEW kind \in ErrorKind, SessionError(kind)
    PROVE  /\ task' = "backoff" /\ backoffs' = backoffs + 1
           /\ \/ /\ snap'.failures = SaturatingAdd(snap.failures, 1)
                 /\ silent' = silent
                 /\ snap'.state = "BackingOff" /\ snap'.last_error = kind
              \/ /\ snap'.failures = snap.failures
                 /\ silent' = silent + 1
                 /\ SameStatus(snap, snap')
           /\ SameSessions(snap, snap') /\ SameTraffic(snap, snap')
<1>1. CASE kind \in ObservedKinds
  <2>1. snap' = RecordFailure(snap, kind) /\ silent' = silent
    BY <1>1, ObserveFacts DEF SessionError, TypeOK
  <2>. QED
    BY <2>1, RecordFailureFacts DEF SessionError, EnterBackoff, TypeOK
<1>2. CASE kind \notin ObservedKinds
  <2>1. snap' = snap /\ silent' = silent + 1
    BY <1>2, ObserveFacts DEF SessionError, TypeOK
  <2>. QED
    BY <2>1 DEF SessionError, EnterBackoff, SameStatus, SameSessions, SameTraffic
<1>. QED
  BY <1>1, <1>2

\* A counter below its limit counts exactly.
LEMMA CountsExactly ==
    ASSUME NEW a \in Counter, NEW b \in Counter, a + b <= CounterMax
    PROVE  SaturatingAdd(a, b) = a + b
BY SaturatingAddFacts

-----------------------------------------------------------------------------
(* Message accounting.                                                     *)

\* A step that leaves the channel, the drop counter, the traffic counters
\* and the message in hand alone preserves the accounting.
LEMMA AccountingUntouched ==
    ASSUME MessageAccounting, UNCHANGED queueVars,
           SameTraffic(snap, snap'), Held' = Held
    PROVE  MessageAccounting'
BY DEF MessageAccounting, queueVars, SameTraffic

\* Entering the select moves drops from MQTT_QUEUE_DROPS into the snapshot.
LEMMA AccountingSelect ==
    ASSUME TypeOK, MessageAccounting, NEW s \in Snapshot, EnterSelect(s),
           UNCHANGED <<queue, produced, lost>>, Held = 0,
           s.publishes = snap.publishes, s.queue_drops = snap.queue_drops
    PROVE  MessageAccounting'
<1> SUFFICES ASSUME produced <= CounterMax
             PROVE  produced = queue + Held' + drops' + snap'.queue_drops
                               + snap'.publishes + lost
  BY DEF MessageAccounting
<1>1. produced = queue + drops + snap.queue_drops + snap.publishes + lost
  BY DEF MessageAccounting, TypeOK, Snapshot, Counter
<1>2. snap.queue_drops \in Counter /\ drops \in Counter
      /\ snap.publishes \in Counter /\ lost \in Nat /\ queue \in Nat
  BY DEF TypeOK, Snapshot
<1>3. snap.queue_drops + drops <= CounterMax
  BY <1>1, <1>2, CounterMaxAssumption DEF Counter
<1>4. snap'.queue_drops = snap.queue_drops + drops
  BY <1>2, <1>3, EnterSelectFacts, CountsExactly
<1>5. Held' = 0 /\ drops' = 0 /\ snap'.publishes = snap.publishes
  BY EnterSelectFacts DEF Held
<1>. QED
  BY <1>1, <1>2, <1>4, <1>5 DEF Counter

\* Losing the message in hand settles it.
LEMMA AccountingLoss ==
    ASSUME TypeOK, MessageAccounting, task = "publish", task' # "publish",
           lost' = lost + 1, UNCHANGED <<queue, drops, produced>>,
           SameTraffic(snap, snap')
    PROVE  MessageAccounting'
BY DEF MessageAccounting, Held, TypeOK, Snapshot, Counter, SameTraffic

\* No step, whatever fails or is cancelled, loses count of a message.
LEMMA AccountingStep ==
    ASSUME TypeOK, MessageAccounting, [Next]_vars
    PROVE  MessageAccounting'
<1> USE DEF queueVars
<1>1. CASE ProduceQueued
  BY <1>1, CounterMaxAssumption
  DEF ProduceQueued, MessageAccounting, Held, TypeOK, Snapshot, Counter
<1>2. CASE ProduceDropped
  <2> SUFFICES ASSUME produced' <= CounterMax
               PROVE  produced' = queue' + Held' + drops' + snap'.queue_drops
                                  + snap'.publishes + lost'
    BY DEF MessageAccounting
  <2>1. produced = queue + Held + drops + snap.queue_drops
                   + snap.publishes + lost
    BY <1>2, CounterMaxAssumption DEF ProduceDropped, MessageAccounting, TypeOK
  <2>2. drops + 1 <= CounterMax
    BY <1>2, <2>1, CounterMaxAssumption
    DEF ProduceDropped, Held, TypeOK, Snapshot, Counter
  <2>3. drops' = drops + 1
    BY <1>2, <2>2, CounterMaxAssumption DEF ProduceDropped, TypeOK, Counter
  <2>. QED
    BY <1>2, <2>1, <2>3 DEF ProduceDropped, Held, TypeOK, Snapshot, Counter
<1>3. CASE WaitIpReady
  BY <1>3, TransitionFacts, AccountingUntouched
  DEF WaitIpReady, Held, TypeOK, ConnectionState, SameTraffic
<1>4. CASE StateTimerElapsed \/ WaitedForDns \/ BackoffElapsed
  BY <1>4, EnterWaitIpFacts, AccountingUntouched
  DEF StateTimerElapsed, WaitedForDns, BackoffElapsed, Held
<1>5. CASE ResolveDone \/ TcpDone
  BY <1>5, TransitionFacts, AccountingUntouched
  DEF ResolveDone, TcpDone, Held, TypeOK, ConnectionState
<1>6. CASE ResolveFailed \/ TcpFailed
  BY <1>6, RecordFailureFacts, AccountingUntouched
  DEF ResolveFailed, TcpFailed, EnterBackoff, Held, TypeOK, ErrorKind
<1>7. CASE ConnectResumed
  <2>1. /\ RecordResumed(snap) \in Snapshot
        /\ SameTraffic(snap, RecordResumed(snap))
    BY RecordResumedFacts DEF TypeOK
  <2>. QED
    BY <1>7, <2>1, AccountingSelect DEF ConnectResumed, Held, SameTraffic
<1>8. CASE ConnectFresh
  BY <1>8, RecordConnectedFacts, AccountingUntouched
  DEF ConnectFresh, Held, TypeOK
<1>9. ASSUME NEW kind \in Kinds, NEW processed \in BOOLEAN,
             ConnectFailed(kind, processed)
      PROVE  MessageAccounting'
  BY <1>9, RecordFailureFacts, AccountingUntouched, ServiceAssumption
  DEF ConnectFailed, EnterBackoff, Held, TypeOK
<1>10. CASE SubscribeDone
  BY <1>10, AccountingSelect DEF SubscribeDone, Held, TypeOK
<1>11. ASSUME NEW kind \in Kinds, SubscribeFailed(kind) \/ ReceiveFailed(kind)
       PROVE  MessageAccounting'
  BY <1>11, SessionErrorFacts, AccountingUntouched, ServiceAssumption
  DEF SubscribeFailed, ReceiveFailed, Held
<1>21. CASE KeepaliveFailed
  BY <1>21, SessionErrorFacts, AccountingUntouched
  DEF KeepaliveFailed, ErrorKind, Held
<1>12. CASE Receive
  BY <1>12, RecordReceiveFacts, AccountingSelect DEF Receive, Held, TypeOK
<1>13. CASE TakeMessage
  BY <1>13 DEF TakeMessage, MessageAccounting, Held, TypeOK, Snapshot, Counter
<1>14. CASE PublishDone
  <2> SUFFICES ASSUME produced <= CounterMax
               PROVE  produced = queue + Held' + drops' + snap'.queue_drops
                                 + snap'.publishes + lost
    BY <1>14 DEF PublishDone, MessageAccounting
  <2>1. produced = queue + 1 + drops + snap.queue_drops
                   + snap.publishes + lost
    BY <1>14 DEF PublishDone, MessageAccounting, Held
  <2>2. /\ snap.queue_drops \in Counter /\ drops \in Counter
        /\ snap.publishes \in Counter /\ lost \in Nat /\ queue \in Nat
    BY DEF TypeOK, Snapshot
  <2>3. /\ snap.queue_drops + drops <= CounterMax
        /\ snap.publishes + 1 <= CounterMax
    BY <2>1, <2>2, CounterMaxAssumption DEF Counter
  <2>4. /\ Held' = 0 /\ drops' = 0
        /\ snap'.publishes = SaturatingAdd(snap.publishes, 1)
        /\ snap'.queue_drops = SaturatingAdd(snap.queue_drops, drops)
    BY <1>14, RecordPublishFacts, EnterSelectFacts DEF PublishDone, Held, TypeOK
  <2>5. /\ snap'.publishes = snap.publishes + 1
        /\ snap'.queue_drops = snap.queue_drops + drops
    BY <2>2, <2>3, <2>4, CountsExactly, OneIsCounter
  <2>. QED
    BY <2>1, <2>2, <2>4, <2>5 DEF Counter
<1>15. ASSUME NEW kind \in Kinds, PublishFailed(kind) \/ PublishRefused(kind)
       PROVE  MessageAccounting'
  BY <1>15, SessionErrorFacts, AccountingLoss, ServiceAssumption
  DEF PublishFailed, PublishRefused
<1>16. CASE IpLost
  <2>1. CASE task = "publish"
    BY <1>16, <2>1, EnterWaitIpFacts, AccountingLoss DEF IpLost
  <2>2. CASE task # "publish"
    BY <1>16, <2>2, EnterWaitIpFacts, AccountingUntouched DEF IpLost, Held
  <2>. QED
    BY <2>1, <2>2
<1>17. CASE Acknowledge \/ SubscribeAccepted
  BY <1>17, AccountingUntouched
  DEF Acknowledge, SubscribeAccepted, Held, SameTraffic
<1>18. CASE SubscribeRefused
  BY <1>18, SessionErrorFacts, AccountingUntouched
  DEF SubscribeRefused, Held, ErrorKind
<1>19. CASE Environment
  BY <1>19, AccountingUntouched
  DEF Environment, BrokerExpires, Stall, NetUp, NetFault, Held, SameTraffic
<1>20. CASE UNCHANGED vars
  BY <1>20, AccountingUntouched DEF vars, Held, SameTraffic
<1>. QED
  BY <1>1, <1>2, <1>3, <1>4, <1>5, <1>6, <1>7, <1>8, <1>9, <1>10, <1>11,
     <1>12, <1>13, <1>14, <1>15, <1>16, <1>17, <1>18, <1>19, <1>20, <1>21
  DEF Next, Produce, Wait, Resolve, Tcp, Connect, Subscribe, Select, Publish,
      Broker

\* The conservation law of the outbound path: every message produced is in
\* the channel, in hand, counted as dropped, published, or lost with a session.
THEOREM MessagesAccounted == Spec => []MessageAccounting
<1>1. Init => MessageAccounting
  <2>1. DefaultSnapshot \in Snapshot
    BY OneIsCounter DEF DefaultSnapshot, Snapshot, ConnectionState, LastError
  <2>2. LET t == Transition(DefaultSnapshot, "WaitingForNetwork")
        IN  t.publishes = 0 /\ t.queue_drops = 0
    BY <2>1, TransitionFacts DEF ConnectionState, DefaultSnapshot, SameTraffic
  <2>. QED
    BY <2>2 DEF Init, MessageAccounting, Held
<1>2. TypeOK /\ MessageAccounting /\ [Next]_vars => MessageAccounting'
  BY AccountingStep
<1>. QED
  BY <1>1, <1>2, TypeCorrect, PTL DEF Spec

-----------------------------------------------------------------------------
(* The lifecycle state a diagnostics reader sees.                          *)

\* A session starts by clearing the last error, and nothing but its end sets
\* one again.
LiveSessionShowsNoError == InSession => snap.last_error = "None"

\* What makes StateTracksTask inductive: an error that observe() filters out
\* leaves the snapshot of the session as it was.
StatusInv == StateTracksTask /\ LiveSessionShowsNoError

\* An error that ends a session leaves its snapshot in the failed state, or
\* shows the dead session without an error.
LEMMA StatusAfterError ==
    ASSUME TypeOK, StatusInv, InSession, NEW kind \in ErrorKind,
           SessionError(kind)
    PROVE  StatusInv'
<1>1. /\ snap.state \in {"Connected", "Resumed"} /\ snap.last_error = "None"
      /\ silent \in Nat /\ kind # "None"
  BY DEF StatusInv, StateTracksTask, LiveSessionShowsNoError, TypeOK, ErrorKind
<1>2. /\ task' = "backoff"
      /\ \/ snap'.state = "BackingOff" /\ snap'.last_error = kind
         \/ silent' = silent + 1 /\ SameStatus(snap, snap')
  BY SessionErrorFacts
<1>. QED
  BY <1>1, <1>2
  DEF StatusInv, StateTracksTask, LiveSessionShowsNoError, InSession, SameStatus

\* Staying in a session, or entering its select, keeps what the reader sees.
LEMMA StatusInSelect ==
    ASSUME TypeOK, NEW s \in Snapshot, EnterSelect(s),
           s.state = IF resumed' THEN "Resumed" ELSE "Connected",
           s.last_error = "None"
    PROVE  StatusInv'
<1>1. task' = "select" /\ snap'.state = s.state /\ snap'.last_error = "None"
  BY EnterSelectFacts DEF SameStatus
<1>. QED
  BY <1>1, Zenon
  DEF StatusInv, StateTracksTask, LiveSessionShowsNoError, InSession

\* A step that leaves the task where it is leaves what the reader sees alone.
LEMMA StatusUntouched ==
    ASSUME StatusInv, UNCHANGED <<task, resumed, snap, silent>>
    PROVE  StatusInv'
BY Zenon DEF StatusInv, StateTracksTask, LiveSessionShowsNoError, InSession

\* No step separates the lifecycle state from the await point.
LEMMA StatusStep ==
    ASSUME TypeOK, StatusInv, [Next]_vars
    PROVE  StatusInv'
<1> USE DEF queueVars, retryVars
<1> DEFINE Shown == IF resumed THEN "Resumed" ELSE "Connected"
<1>0. InSession => snap.state = Shown /\ snap.last_error = "None"
  BY DEF StatusInv, StateTracksTask, LiveSessionShowsNoError
<1>1. CASE Produce
  BY <1>1, StatusUntouched DEF Produce, ProduceQueued, ProduceDropped
<1>2. CASE WaitIpReady
  BY <1>2, TransitionFacts
  DEF WaitIpReady, StatusInv, StateTracksTask, LiveSessionShowsNoError,
      InSession, TypeOK, ConnectionState
<1>3. CASE StateTimerElapsed \/ WaitedForDns \/ BackoffElapsed \/ IpLost
  BY <1>3, EnterWaitIpFacts
  DEF StateTimerElapsed, WaitedForDns, BackoffElapsed, IpLost, StatusInv,
      StateTracksTask, LiveSessionShowsNoError, InSession
<1>4. CASE ResolveDone \/ TcpDone
  BY <1>4, TransitionFacts
  DEF ResolveDone, TcpDone, StatusInv, StateTracksTask,
      LiveSessionShowsNoError, InSession, TypeOK, ConnectionState
<1>5. CASE ResolveFailed \/ TcpFailed
  BY <1>5, RecordFailureFacts
  DEF ResolveFailed, TcpFailed, EnterBackoff, StatusInv, StateTracksTask,
      LiveSessionShowsNoError, InSession, TypeOK, ErrorKind
<1>6. CASE ConnectResumed
  <2>1. LET s == RecordResumed(snap)
        IN  s \in Snapshot /\ s.state = "Resumed" /\ s.last_error = "None"
    BY RecordResumedFacts DEF TypeOK
  <2>. QED
    BY <1>6, <2>1, StatusInSelect DEF ConnectResumed
<1>7. CASE ConnectFresh
  BY <1>7, RecordConnectedFacts
  DEF ConnectFresh, StatusInv, StateTracksTask, LiveSessionShowsNoError,
      InSession, TypeOK
<1>8. ASSUME NEW kind \in Kinds, NEW processed \in BOOLEAN,
             ConnectFailed(kind, processed)
      PROVE  StatusInv'
  BY <1>8, RecordFailureFacts, ServiceAssumption
  DEF ConnectFailed, EnterBackoff, StatusInv, StateTracksTask,
      LiveSessionShowsNoError, InSession, TypeOK, ErrorKind
<1>9. CASE SubscribeDone
  BY <1>0, <1>9, StatusInSelect DEF SubscribeDone, InSession, TypeOK
<1>10. CASE Receive
  BY <1>0, <1>10, RecordReceiveFacts, StatusInSelect
  DEF Receive, InSession, SameStatus, TypeOK
<1>11. CASE PublishDone
  BY <1>0, <1>11, RecordPublishFacts, StatusInSelect
  DEF PublishDone, InSession, SameStatus, TypeOK
<1>12. CASE TakeMessage
  BY <1>0, <1>12, Zenon
  DEF TakeMessage, StatusInv, StateTracksTask, LiveSessionShowsNoError,
      InSession
<1>13. ASSUME NEW kind \in Kinds,
              \/ SubscribeFailed(kind) \/ ReceiveFailed(kind)
              \/ PublishFailed(kind) \/ PublishRefused(kind)
       PROVE  StatusInv'
  <2>1. InSession /\ SessionError(kind) /\ kind \in ErrorKind
    BY <1>13, ServiceAssumption
    DEF SubscribeFailed, ReceiveFailed, PublishFailed, PublishRefused, InSession
  <2>. QED
    BY <2>1, StatusAfterError
<1>18. CASE KeepaliveFailed
  BY <1>18, StatusAfterError DEF KeepaliveFailed, InSession, ErrorKind
<1>14. CASE SubscribeRefused
  BY <1>14, StatusAfterError DEF SubscribeRefused, InSession, ErrorKind
<1>15. CASE Acknowledge \/ SubscribeAccepted
  BY <1>15, StatusUntouched DEF Acknowledge, SubscribeAccepted
<1>16. CASE Environment
  BY <1>16, StatusUntouched
  DEF Environment, BrokerExpires, Stall, NetUp, NetFault
<1>17. CASE UNCHANGED vars
  BY <1>17, StatusUntouched DEF vars
<1>. QED
  BY <1>1, <1>2, <1>3, <1>4, <1>5, <1>6, <1>7, <1>8, <1>9, <1>10, <1>11,
     <1>12, <1>13, <1>14, <1>15, <1>16, <1>17, <1>18
  DEF Next, Wait, Resolve, Tcp, Connect, Subscribe, Select, Publish, Broker

\* The lifecycle state names the wait mqtt_task is in; in a retry delay it
\* names the failure, or shows the dead session if observe() kept silent.
THEOREM StateTracked == Spec => []StateTracksTask
<1>1. Init => StatusInv
  <2>1. DefaultSnapshot \in Snapshot
    BY OneIsCounter DEF DefaultSnapshot, Snapshot, ConnectionState, LastError
  <2>2. Transition(DefaultSnapshot, "WaitingForNetwork").state
          = "WaitingForNetwork"
    BY <2>1, TransitionFacts DEF ConnectionState
  <2>. QED
    BY <2>2
    DEF Init, StatusInv, StateTracksTask, LiveSessionShowsNoError, InSession
<1>2. TypeOK /\ StatusInv /\ [Next]_vars => StatusInv'
  BY StatusStep
<1>3. StatusInv => StateTracksTask
  BY DEF StatusInv
<1>. QED
  BY <1>1, <1>2, <1>3, TypeCorrect, PTL DEF Spec

-----------------------------------------------------------------------------
(* Failure accounting.                                                     *)

\* A step that enters no retry delay and records no failure keeps the count.
LEMMA FailuresUntouched ==
    ASSUME FailureAccounting, UNCHANGED <<backoffs, silent>>,
           snap'.failures = snap.failures
    PROVE  FailureAccounting'
BY DEF FailureAccounting

\* One retry delay, one failure: recorded by record_failure() or silent.
LEMMA FailuresAfterOne ==
    ASSUME TypeOK, FailureAccounting, backoffs' = backoffs + 1,
           \/ /\ snap'.failures = SaturatingAdd(snap.failures, 1)
              /\ silent' = silent
           \/ snap'.failures = snap.failures /\ silent' = silent + 1
    PROVE  FailureAccounting'
<1> SUFFICES ASSUME backoffs + 1 <= CounterMax
             PROVE  backoffs + 1 = snap'.failures + silent'
  BY DEF FailureAccounting
<1>1. /\ snap.failures \in Counter /\ silent \in Nat /\ backoffs \in Nat
      /\ CounterMax \in Nat
  BY CounterMaxAssumption DEF TypeOK, Snapshot
<1>2. backoffs = snap.failures + silent
  BY <1>1 DEF FailureAccounting
<1>3. SaturatingAdd(snap.failures, 1) = snap.failures + 1
  BY <1>1, <1>2, CountsExactly, OneIsCounter DEF Counter
<1>. QED
  BY <1>1, <1>2, <1>3 DEF Counter

\* No step takes a retry delay without exactly one failure, nor records a
\* failure without a delay.
LEMMA FailuresStep ==
    ASSUME TypeOK, FailureAccounting, [Next]_vars
    PROVE  FailureAccounting'
<1> USE DEF queueVars, retryVars
<1>1. CASE Produce
  BY <1>1, FailuresUntouched DEF Produce, ProduceQueued, ProduceDropped
<1>2. CASE WaitIpReady
  BY <1>2, TransitionFacts, FailuresUntouched
  DEF WaitIpReady, TypeOK, ConnectionState
<1>3. CASE StateTimerElapsed \/ WaitedForDns \/ BackoffElapsed \/ IpLost
  BY <1>3, EnterWaitIpFacts, FailuresUntouched
  DEF StateTimerElapsed, WaitedForDns, BackoffElapsed, IpLost
<1>4. CASE ResolveDone \/ TcpDone
  BY <1>4, TransitionFacts, FailuresUntouched
  DEF ResolveDone, TcpDone, TypeOK, ConnectionState
<1>5. CASE ResolveFailed \/ TcpFailed
  BY <1>5, RecordFailureFacts, FailuresAfterOne
  DEF ResolveFailed, TcpFailed, EnterBackoff, TypeOK, ErrorKind
<1>6. CASE ConnectResumed
  <2>1. /\ RecordResumed(snap) \in Snapshot
        /\ RecordResumed(snap).failures = snap.failures
    BY RecordResumedFacts DEF TypeOK
  <2>. QED
    BY <1>6, <2>1, EnterSelectFacts, FailuresUntouched DEF ConnectResumed
<1>7. CASE ConnectFresh
  BY <1>7, RecordConnectedFacts, FailuresUntouched DEF ConnectFresh, TypeOK
<1>8. ASSUME NEW kind \in Kinds, NEW processed \in BOOLEAN,
             ConnectFailed(kind, processed)
      PROVE  FailureAccounting'
  BY <1>8, RecordFailureFacts, FailuresAfterOne, ServiceAssumption
  DEF ConnectFailed, EnterBackoff, TypeOK
<1>9. CASE SubscribeDone
  BY <1>9, EnterSelectFacts, FailuresUntouched DEF SubscribeDone, TypeOK
<1>10. CASE Receive
  BY <1>10, RecordReceiveFacts, EnterSelectFacts, FailuresUntouched
  DEF Receive, TypeOK
<1>11. CASE PublishDone
  BY <1>11, RecordPublishFacts, EnterSelectFacts, FailuresUntouched
  DEF PublishDone, TypeOK
<1>12. ASSUME NEW kind \in Kinds,
              \/ SubscribeFailed(kind) \/ ReceiveFailed(kind)
              \/ PublishFailed(kind) \/ PublishRefused(kind)
       PROVE  FailureAccounting'
  BY <1>12, SessionErrorFacts, FailuresAfterOne, ServiceAssumption
  DEF SubscribeFailed, ReceiveFailed, PublishFailed, PublishRefused
<1>17. CASE KeepaliveFailed
  BY <1>17, SessionErrorFacts, FailuresAfterOne
  DEF KeepaliveFailed, ErrorKind
<1>13. CASE SubscribeRefused
  BY <1>13, SessionErrorFacts, FailuresAfterOne
  DEF SubscribeRefused, ErrorKind
<1>14. CASE TakeMessage \/ Acknowledge \/ SubscribeAccepted
  BY <1>14, FailuresUntouched DEF TakeMessage, Acknowledge, SubscribeAccepted
<1>15. CASE Environment
  BY <1>15, FailuresUntouched
  DEF Environment, BrokerExpires, Stall, NetUp, NetFault
<1>16. CASE UNCHANGED vars
  BY <1>16, FailuresUntouched DEF vars
<1>. QED
  BY <1>1, <1>2, <1>3, <1>4, <1>5, <1>6, <1>7, <1>8, <1>9, <1>10, <1>11,
     <1>12, <1>13, <1>14, <1>15, <1>16, <1>17
  DEF Next, Wait, Resolve, Tcp, Connect, Subscribe, Select, Publish, Broker

\* Every retry delay follows exactly one failure, which the snapshot counts
\* once or which observe() filtered out.
THEOREM FailuresAccounted == Spec => []FailureAccounting
<1>1. Init => FailureAccounting
  <2>1. DefaultSnapshot \in Snapshot
    BY OneIsCounter DEF DefaultSnapshot, Snapshot, ConnectionState, LastError
  <2>2. Transition(DefaultSnapshot, "WaitingForNetwork").failures = 0
    BY <2>1, TransitionFacts DEF ConnectionState, DefaultSnapshot
  <2>. QED
    BY <2>2 DEF Init, FailureAccounting
<1>2. TypeOK /\ FailureAccounting /\ [Next]_vars => FailureAccounting'
  BY FailuresStep
<1>. QED
  BY <1>1, <1>2, TypeCorrect, PTL DEF Spec

-----------------------------------------------------------------------------
(* A session loses at most one message.                                    *)

\* What makes OneLossPerSession inductive: the session under way has not yet
\* lost the one message it may lose.
LossBudget ==
    (snap.connections < CounterMax /\ snap.resumptions < CounterMax) =>
        lost + (IF InSession THEN 1 ELSE 0)
            <= snap.connections + snap.resumptions

\* A step that loses nothing and opens no session keeps the budget.
LEMMA BudgetUntouched ==
    ASSUME TypeOK, LossBudget, SameSessions(snap, snap'), lost' = lost,
           InSession' => InSession
    PROVE  LossBudget'
BY DEF LossBudget, SameSessions, TypeOK, Snapshot, Counter

\* A step that loses the message in hand ends the session.
LEMMA BudgetSpent ==
    ASSUME TypeOK, LossBudget, SameSessions(snap, snap'), lost' = lost + 1,
           InSession, ~InSession'
    PROVE  LossBudget'
BY DEF LossBudget, SameSessions, TypeOK, Snapshot, Counter

\* A session that is opened or resumed is counted, and so is its budget.
LEMMA BudgetOpened ==
    ASSUME TypeOK, LossBudget, ~InSession, lost' = lost,
           \/ /\ snap'.connections = SaturatingAdd(snap.connections, 1)
              /\ snap'.resumptions = snap.resumptions
           \/ /\ snap'.connections = snap.connections
              /\ snap'.resumptions = SaturatingAdd(snap.resumptions, 1)
    PROVE  LossBudget'
BY CounterMaxAssumption
DEF LossBudget, SaturatingAdd, TypeOK, Snapshot, Counter

\* Every step keeps the budget of the sessions.
LEMMA BudgetStep ==
    ASSUME TypeOK, LossBudget, [Next]_vars
    PROVE  LossBudget'
<1> USE DEF queueVars, retryVars, InSession
<1>1. CASE Produce
  BY <1>1, BudgetUntouched
  DEF Produce, ProduceQueued, ProduceDropped, SameSessions
<1>2. CASE WaitIpReady
  BY <1>2, TransitionFacts, BudgetUntouched
  DEF WaitIpReady, TypeOK, ConnectionState, SameSessions
<1>3. CASE StateTimerElapsed \/ WaitedForDns \/ BackoffElapsed
  BY <1>3, EnterWaitIpFacts, BudgetUntouched
  DEF StateTimerElapsed, WaitedForDns, BackoffElapsed
<1>4. CASE ResolveDone \/ TcpDone
  BY <1>4, TransitionFacts, BudgetUntouched
  DEF ResolveDone, TcpDone, TypeOK, ConnectionState
<1>5. CASE ResolveFailed \/ TcpFailed
  BY <1>5, RecordFailureFacts, BudgetUntouched
  DEF ResolveFailed, TcpFailed, EnterBackoff, TypeOK, ErrorKind
<1>6. CASE ConnectResumed
  <2>1. LET s == RecordResumed(snap)
        IN  /\ s \in Snapshot
            /\ s.resumptions = SaturatingAdd(snap.resumptions, 1)
            /\ s.connections = snap.connections
    BY RecordResumedFacts DEF TypeOK
  <2>. QED
    BY <1>6, <2>1, EnterSelectFacts, BudgetOpened
    DEF ConnectResumed, SameSessions
<1>7. CASE ConnectFresh
  BY <1>7, RecordConnectedFacts, BudgetOpened DEF ConnectFresh, TypeOK
<1>8. ASSUME NEW kind \in Kinds, NEW processed \in BOOLEAN,
             ConnectFailed(kind, processed)
      PROVE  LossBudget'
  BY <1>8, RecordFailureFacts, BudgetUntouched, ServiceAssumption
  DEF ConnectFailed, EnterBackoff, TypeOK
<1>9. CASE SubscribeDone
  BY <1>9, EnterSelectFacts, BudgetUntouched DEF SubscribeDone, TypeOK
<1>10. CASE Receive
  BY <1>10, RecordReceiveFacts, EnterSelectFacts, BudgetUntouched
  DEF Receive, TypeOK, SameSessions
<1>11. CASE PublishDone
  BY <1>11, RecordPublishFacts, EnterSelectFacts, BudgetUntouched
  DEF PublishDone, TypeOK, SameSessions
<1>12. ASSUME NEW kind \in Kinds, SubscribeFailed(kind) \/ ReceiveFailed(kind)
       PROVE  LossBudget'
  BY <1>12, SessionErrorFacts, BudgetUntouched, ServiceAssumption
  DEF SubscribeFailed, ReceiveFailed
<1>19. CASE KeepaliveFailed
  BY <1>19, SessionErrorFacts, BudgetUntouched DEF KeepaliveFailed, ErrorKind
<1>13. ASSUME NEW kind \in Kinds, PublishFailed(kind) \/ PublishRefused(kind)
       PROVE  LossBudget'
  BY <1>13, SessionErrorFacts, BudgetSpent, ServiceAssumption
  DEF PublishFailed, PublishRefused
<1>14. CASE IpLost
  BY <1>14, EnterWaitIpFacts, BudgetUntouched, BudgetSpent DEF IpLost
<1>15. CASE SubscribeRefused
  BY <1>15, SessionErrorFacts, BudgetUntouched DEF SubscribeRefused, ErrorKind
<1>16. CASE TakeMessage \/ Acknowledge \/ SubscribeAccepted
  BY <1>16, BudgetUntouched
  DEF TakeMessage, Acknowledge, SubscribeAccepted, SameSessions
<1>17. CASE Environment
  BY <1>17, BudgetUntouched
  DEF Environment, BrokerExpires, Stall, NetUp, NetFault, SameSessions
<1>18. CASE UNCHANGED vars
  BY <1>18, BudgetUntouched DEF vars, SameSessions
<1>. QED
  BY <1>1, <1>2, <1>3, <1>4, <1>5, <1>6, <1>7, <1>8, <1>9, <1>10, <1>11,
     <1>12, <1>13, <1>14, <1>15, <1>16, <1>17, <1>18, <1>19
  DEF Next, Wait, Resolve, Tcp, Connect, Subscribe, Select, Publish, Broker

\* However sessions end, by an error, a refusal or a cancellation, no more
\* messages are lost than sessions were opened or resumed.
THEOREM LossesBounded == Spec => []OneLossPerSession
<1>1. Init => LossBudget
  <2>1. DefaultSnapshot \in Snapshot
    BY OneIsCounter DEF DefaultSnapshot, Snapshot, ConnectionState, LastError
  <2>2. LET t == Transition(DefaultSnapshot, "WaitingForNetwork")
        IN  t.connections = 0 /\ t.resumptions = 0
    BY <2>1, TransitionFacts DEF ConnectionState, DefaultSnapshot, SameSessions
  <2>. QED
    BY <2>2 DEF Init, LossBudget, InSession
<1>2. TypeOK /\ LossBudget /\ [Next]_vars => LossBudget'
  BY BudgetStep
<1>3. TypeOK /\ LossBudget => OneLossPerSession
  BY DEF LossBudget, OneLossPerSession, TypeOK, Snapshot, Counter
<1>. QED
  BY <1>1, <1>2, <1>3, TypeCorrect, PTL DEF Spec

-----------------------------------------------------------------------------
(* The command subscription.                                               *)

\* What makes SubscriptionKept inductive, in or out of a session: a client in
\* a session knows it, the broker holds the session of a client it hears, and
\* a session both sides know has its subscription, or a reason to lack it.
SessionInv ==
    /\ InSession => known
    /\ (InSession /\ ~stalled) => brokerSession
    /\ (known /\ brokerSession) => brokerSub \/ subPending \/ refused \/ orphaned

\* A step that opens no session, makes no stalled stream move and leaves both
\* sides' records of the session alone keeps them consistent.
LEMMA SessionUntouched ==
    ASSUME SessionInv, InSession' => InSession,
           InSession' => stalled' = stalled,
           UNCHANGED <<known, subPending, brokerSession, brokerSub, orphaned,
                       refused>>
    PROVE  SessionInv'
BY Zenon DEF SessionInv

\* No step lets the client and the broker disagree about the subscription.
LEMMA SessionStep ==
    ASSUME SessionInv, [Next]_vars
    PROVE  SessionInv'
<1> USE DEF sessionVars, brokerVars
<1>1. CASE Produce
  BY <1>1, SessionUntouched, Zenon
  DEF Produce, ProduceQueued, ProduceDropped, InSession
<1>2. CASE Wait
  <2>1. ~InSession'
    BY <1>2
    DEF Wait, WaitIpReady, StateTimerElapsed, WaitedForDns, BackoffElapsed,
        EnterWaitIp, InSession
  <2>. QED
    BY <1>2, <2>1, SessionUntouched, Zenon
    DEF Wait, WaitIpReady, StateTimerElapsed, WaitedForDns, BackoffElapsed
<1>3. CASE Resolve \/ Tcp
  <2>1. ~InSession'
    BY <1>3
    DEF Resolve, ResolveDone, ResolveFailed, Tcp, TcpDone, TcpFailed,
        EnterBackoff, InSession
  <2>. QED
    BY <1>3, <2>1, SessionUntouched, Zenon
    DEF Resolve, ResolveDone, ResolveFailed, Tcp, TcpDone, TcpFailed
<1>4. CASE ConnectResumed
  BY <1>4, Zenon DEF ConnectResumed, SessionPresent, SessionInv
<1>5. CASE ConnectFresh
  BY <1>5, Zenon DEF ConnectFresh, SessionInv
<1>6. ASSUME NEW kind \in Kinds, NEW processed \in BOOLEAN,
             ConnectFailed(kind, processed)
      PROVE  SessionInv'
  <2>1. ~InSession'
    BY <1>6 DEF ConnectFailed, EnterBackoff, InSession
  <2>2. CASE processed /\ ~SessionPresent
    BY <1>6, <2>1, <2>2, Zenon DEF ConnectFailed, SessionInv
  <2>3. CASE ~(processed /\ ~SessionPresent)
    BY <1>6, <2>1, <2>3, SessionUntouched, Zenon DEF ConnectFailed
  <2>. QED
    BY <2>2, <2>3, Zenon
<1>7. CASE SubscribeDone \/ Receive \/ TakeMessage \/ PublishDone
  <2>1. InSession
    BY <1>7 DEF SubscribeDone, Receive, TakeMessage, PublishDone, InSession
  <2>. QED
    BY <1>7, <2>1, SessionUntouched, Zenon
    DEF SubscribeDone, Receive, TakeMessage, PublishDone
<1>8. ASSUME NEW kind \in Kinds,
             \/ SubscribeFailed(kind) \/ ReceiveFailed(kind)
             \/ PublishFailed(kind) \/ PublishRefused(kind)
      PROVE  SessionInv'
  <2>1. ~InSession'
    BY <1>8
    DEF SubscribeFailed, ReceiveFailed, PublishFailed, PublishRefused,
        SessionError, EnterBackoff, InSession
  <2>. QED
    BY <1>8, <2>1, SessionUntouched, Zenon
    DEF SubscribeFailed, ReceiveFailed, PublishFailed, PublishRefused
<1>17. CASE KeepaliveFailed
  <2>1. ~InSession'
    BY <1>17 DEF KeepaliveFailed, SessionError, EnterBackoff, InSession
  <2>. QED
    BY <1>17, <2>1, SessionUntouched, Zenon DEF KeepaliveFailed
<1>9. CASE IpLost
  <2>1. ~InSession'
    BY <1>9 DEF IpLost, EnterWaitIp, InSession
  <2>. QED
    BY <1>9, <2>1, SessionUntouched, Zenon DEF IpLost
<1>10. CASE Acknowledge
  BY <1>10, SessionUntouched, Zenon DEF Acknowledge, InSession
<1>11. CASE SubscribeAccepted
  BY <1>11, Zenon DEF SubscribeAccepted, SessionInv, InSession
<1>12. CASE SubscribeRefused
  <2>1. ~InSession'
    BY <1>12 DEF SubscribeRefused, SessionError, EnterBackoff, InSession
  <2>. QED
    BY <1>12, <2>1, Zenon DEF SubscribeRefused, SessionInv
<1>13. CASE BrokerExpires
  BY <1>13, Zenon DEF BrokerExpires, SessionInv, InSession
<1>14. CASE Stall
  BY <1>14, Zenon DEF Stall, SessionInv, InSession
<1>15. CASE NetUp \/ NetFault
  BY <1>15, SessionUntouched, Zenon DEF NetUp, NetFault, InSession
<1>16. CASE UNCHANGED vars
  BY <1>16, SessionUntouched, Zenon DEF vars, InSession
<1>. QED
  BY <1>1, <1>2, <1>3, <1>4, <1>5, <1>6, <1>7, <1>8, <1>9, <1>10, <1>11,
     <1>12, <1>13, <1>14, <1>15, <1>16, <1>17, Zenon
  DEF Next, Connect, Subscribe, Select, Publish, Broker, Environment

\* On a live session the command subscription is held or on its way, unless
\* the broker refused it or the client never learnt of the session.
THEOREM SubscriptionHeld == Spec => []SubscriptionKept
<1>1. Init => SessionInv
  BY DEF Init, SessionInv, InSession
<1>2. SessionInv /\ [Next]_vars => SessionInv'
  BY SessionStep
<1>3. SessionInv => SubscriptionKept
  BY Zenon DEF SessionInv, SubscriptionKept
<1>. QED
  BY <1>1, <1>2, <1>3, PTL DEF Spec

-----------------------------------------------------------------------------
(* The counters of the snapshot.                                           *)

\* One snapshot is not behind another in any counter.
NotBehind(s, t) ==
    /\ t.connections >= s.connections /\ t.resumptions >= s.resumptions
    /\ t.failures >= s.failures /\ t.publishes >= s.publishes
    /\ t.received >= s.received /\ t.queue_drops >= s.queue_drops

\* A snapshot is not behind itself.
LEMMA NotBehindItself == ASSUME NEW s \in Snapshot PROVE NotBehind(s, s)
BY CounterMaxAssumption DEF NotBehind, Snapshot, Counter

\* Entering the select after recording at most one event moves no counter
\* backwards.
LEMMA SelectNotBehind ==
    ASSUME TypeOK, NEW s \in Snapshot, EnterSelect(s), NotBehind(snap, s)
    PROVE  NotBehind(snap, snap')
<1>1. snap'.queue_drops = SaturatingAdd(s.queue_drops, drops)
  BY EnterSelectFacts
<1>2. SaturatingAdd(s.queue_drops, drops) >= s.queue_drops
  BY SaturatingAddFacts DEF TypeOK, Snapshot
<1>3. SaturatingAdd(s.queue_drops, drops) \in Counter
  BY SaturatingAddFacts DEF TypeOK, Snapshot
<1>4. snap \in Snapshot
  BY DEF TypeOK
<1>. QED
  BY <1>1, <1>2, <1>3, <1>4, EnterSelectFacts, CounterMaxAssumption
  DEF NotBehind, SameSessions, Snapshot, Counter

\* The operations that record one event move no counter backwards, at the
\* limit included.
LEMMA RecordNotBehind ==
    ASSUME NEW s \in Snapshot, NEW kind \in ErrorKind
    PROVE  /\ NotBehind(s, RecordConnected(s))
           /\ NotBehind(s, RecordResumed(s))
           /\ NotBehind(s, RecordPublish(s))
           /\ NotBehind(s, RecordReceive(s))
           /\ NotBehind(s, RecordFailure(s, kind))
<1> USE DEF NotBehind
<1>0. NotBehind(s, s)
  BY NotBehindItself
<1>1. \A a \in Counter : SaturatingAdd(a, 1) >= a
  BY SaturatingAddFacts, OneIsCounter
<1>2. /\ s.connections \in Counter /\ s.resumptions \in Counter
      /\ s.failures \in Counter /\ s.publishes \in Counter
      /\ s.received \in Counter
  BY DEF Snapshot
<1>3. NotBehind(s, RecordConnected(s))
  BY <1>0, <1>1, <1>2, RecordConnectedFacts DEF SameTraffic
<1>4. NotBehind(s, RecordResumed(s))
  BY <1>0, <1>1, <1>2, RecordResumedFacts DEF SameTraffic
<1>5. NotBehind(s, RecordPublish(s))
  BY <1>0, <1>1, <1>2, RecordPublishFacts DEF SameSessions
<1>6. NotBehind(s, RecordReceive(s))
  BY <1>0, <1>1, <1>2, RecordReceiveFacts DEF SameSessions
<1>7. NotBehind(s, RecordFailure(s, kind))
  BY <1>0, <1>1, <1>2, RecordFailureFacts DEF SameSessions, SameTraffic
<1>. QED
  BY <1>3, <1>4, <1>5, <1>6, <1>7

\* A transition moves no counter at all.
LEMMA TransitionNotBehind ==
    ASSUME NEW s \in Snapshot, NEW state \in ConnectionState
    PROVE  NotBehind(s, Transition(s, state))
BY NotBehindItself, TransitionFacts DEF NotBehind, SameSessions, SameTraffic

\* A session's error moves no counter backwards.
LEMMA ErrorNotBehind ==
    ASSUME TypeOK, NEW kind \in ErrorKind, SessionError(kind)
    PROVE  NotBehind(snap, snap')
<1>1. snap' = RecordFailure(snap, kind) \/ snap' = snap
  BY ObserveFacts DEF SessionError, TypeOK
<1>. QED
  BY <1>1, NotBehindItself, RecordNotBehind DEF TypeOK

\* No step moves a counter backwards.
LEMMA CountersStep ==
    ASSUME TypeOK, [Next]_vars
    PROVE  NotBehind(snap, snap')
<1>0. snap \in Snapshot /\ NotBehind(snap, snap)
  BY NotBehindItself DEF TypeOK
<1>1. CASE Produce \/ TakeMessage \/ Acknowledge \/ SubscribeAccepted
  BY <1>0, <1>1
  DEF Produce, ProduceQueued, ProduceDropped, TakeMessage, Acknowledge,
      SubscribeAccepted
<1>2. CASE Wait \/ IpLost
  BY <1>0, <1>2, TransitionNotBehind
  DEF Wait, WaitIpReady, StateTimerElapsed, WaitedForDns, BackoffElapsed,
      IpLost, EnterWaitIp, ConnectionState
<1>3. CASE Resolve \/ Tcp
  BY <1>0, <1>3, TransitionNotBehind, RecordNotBehind
  DEF Resolve, ResolveDone, ResolveFailed, Tcp, TcpDone, TcpFailed,
      ConnectionState, ErrorKind
<1>4. CASE ConnectResumed
  BY <1>0, <1>4, RecordResumedFacts, RecordNotBehind, SelectNotBehind
  DEF ConnectResumed, ErrorKind
<1>5. CASE ConnectFresh
  BY <1>0, <1>5, RecordNotBehind DEF ConnectFresh, ErrorKind
<1>6. ASSUME NEW kind \in Kinds, NEW processed \in BOOLEAN,
             ConnectFailed(kind, processed)
      PROVE  NotBehind(snap, snap')
  BY <1>0, <1>6, RecordNotBehind, ServiceAssumption DEF ConnectFailed
<1>7. CASE SubscribeDone
  BY <1>0, <1>7, SelectNotBehind DEF SubscribeDone
<1>8. CASE Receive
  BY <1>0, <1>8, RecordReceiveFacts, RecordNotBehind, SelectNotBehind
  DEF Receive, ErrorKind
<1>9. CASE PublishDone
  BY <1>0, <1>9, RecordPublishFacts, RecordNotBehind, SelectNotBehind
  DEF PublishDone, ErrorKind
<1>10. ASSUME NEW kind \in Kinds,
              \/ SubscribeFailed(kind) \/ ReceiveFailed(kind)
              \/ PublishFailed(kind) \/ PublishRefused(kind)
       PROVE  NotBehind(snap, snap')
  BY <1>10, ErrorNotBehind, ServiceAssumption
  DEF SubscribeFailed, ReceiveFailed, PublishFailed, PublishRefused
<1>14. CASE KeepaliveFailed
  BY <1>14, ErrorNotBehind DEF KeepaliveFailed, ErrorKind
<1>11. CASE SubscribeRefused
  BY <1>11, ErrorNotBehind DEF SubscribeRefused, ErrorKind
<1>12. CASE Environment
  BY <1>0, <1>12 DEF Environment, BrokerExpires, Stall, NetUp, NetFault
<1>13. CASE UNCHANGED vars
  BY <1>0, <1>13 DEF vars
<1>. QED
  BY <1>1, <1>2, <1>3, <1>4, <1>5, <1>6, <1>7, <1>8, <1>9, <1>10, <1>11,
     <1>12, <1>13, <1>14
  DEF Next, Connect, Subscribe, Select, Publish, Broker

\* The u32 counters a diagnostics reader sees saturate and never wrap.
THEOREM CountersMonotonic == Spec => CountersNeverDecrease
<1>1. TypeOK /\ [Next]_vars =>
        [ /\ snap'.connections >= snap.connections
          /\ snap'.resumptions >= snap.resumptions
          /\ snap'.failures >= snap.failures
          /\ snap'.publishes >= snap.publishes
          /\ snap'.received >= snap.received
          /\ snap'.queue_drops >= snap.queue_drops ]_vars
  BY CountersStep DEF NotBehind
<1>. QED
  BY <1>1, TypeCorrect, PTL DEF Spec, CountersNeverDecrease

-----------------------------------------------------------------------------
(* The service implements TelemetryOutbox.                                 *)

\* The variables of TelemetryOutbox in terms of the service's.
outboxVars ==
    <<queue, Held, drops + snap.queue_drops, snap.publishes, lost>>

\* What the refinement rests on: the counters that MessageAccounting relates
\* have not saturated as long as the producer made no more than CounterMax.
ProducedBounded == produced <= MaxProduced

\* The producer task makes no more messages than the bound.
LEMMA ProducedStep ==
    ASSUME TypeOK, ProducedBounded, [Next]_vars
    PROVE  ProducedBounded'
<1> USE DEF queueVars, ProducedBounded
<1>1. CASE Produce
  BY <1>1, ServiceAssumption DEF Produce, ProduceQueued, ProduceDropped, TypeOK
<1>2. CASE Wait \/ Resolve \/ Tcp \/ IpLost
  BY <1>2
  DEF Wait, WaitIpReady, StateTimerElapsed, WaitedForDns, BackoffElapsed,
      Resolve, ResolveDone, ResolveFailed, Tcp, TcpDone, TcpFailed, IpLost
<1>3. CASE Connect \/ Subscribe
  BY <1>3
  DEF Connect, ConnectResumed, ConnectFresh, ConnectFailed, Subscribe,
      SubscribeDone, SubscribeFailed
<1>4. CASE Select \/ Publish
  BY <1>4
  DEF Select, Receive, TakeMessage, KeepaliveFailed, ReceiveFailed, Publish,
      PublishDone, PublishFailed, PublishRefused
<1>5. CASE Broker \/ Environment
  BY <1>5
  DEF Broker, Acknowledge, SubscribeAccepted, SubscribeRefused, Environment,
      BrokerExpires, Stall, NetUp, NetFault
<1>6. CASE UNCHANGED vars
  BY <1>6 DEF vars
<1>. QED
  BY <1>1, <1>2, <1>3, <1>4, <1>5, <1>6 DEF Next

\* A step that leaves the channel, the message in hand and the traffic
\* counters alone is a stutter of the outbox.
LEMMA OutboxUntouched ==
    ASSUME UNCHANGED <<queue, drops, lost>>, Held' = Held,
           SameTraffic(snap, snap')
    PROVE  UNCHANGED outboxVars
BY DEF outboxVars, SameTraffic

\* Moving the drops into the snapshot is a stutter as well.
LEMMA OutboxSelect ==
    ASSUME TypeOK, MessageAccounting, produced <= CounterMax,
           NEW s \in Snapshot, EnterSelect(s), s.queue_drops = snap.queue_drops
    PROVE  drops' + snap'.queue_drops = drops + snap.queue_drops
<1>1. /\ snap.queue_drops \in Counter /\ drops \in Counter
      /\ snap.publishes \in Counter /\ lost \in Nat /\ queue \in Nat
      /\ Held \in Nat /\ produced \in Nat
  BY DEF TypeOK, Snapshot, Held
<1>2. snap.queue_drops + drops <= CounterMax
  BY <1>1, CounterMaxAssumption DEF MessageAccounting, Counter
<1>3. snap'.queue_drops = snap.queue_drops + drops /\ drops' = 0
  BY <1>1, <1>2, EnterSelectFacts, CountsExactly
<1>. QED
  BY <1>1, <1>3 DEF Counter

\* A message lost with its session is a Lose step.
LEMMA OutboxLoss ==
    ASSUME TypeOK, task = "publish", task' # "publish", lost' = lost + 1,
           UNCHANGED <<queue, drops>>, SameTraffic(snap, snap')
    PROVE  Outbox!Lose
BY DEF Outbox!Lose, Held, SameTraffic, TypeOK

\* Every step of the service is a step of the outbox or a stutter.
LEMMA OutboxStep ==
    ASSUME TypeOK, MessageAccounting, produced' <= CounterMax,
           produced <= CounterMax, [Next]_vars
    PROVE  Outbox!Next \/ UNCHANGED outboxVars
<1> USE DEF queueVars
<1>0. /\ queue \in Nat /\ drops \in Counter /\ snap \in Snapshot
      /\ snap.queue_drops \in Counter /\ snap.publishes \in Counter
      /\ lost \in Nat /\ produced \in Nat /\ Held \in {0, 1}
      /\ queue <= Depth /\ Depth \in Nat
  BY ServiceAssumption DEF TypeOK, Snapshot, Held
<1>1. CASE ProduceQueued
  BY <1>0, <1>1 DEF ProduceQueued, Outbox!Next, Outbox!Accept, Held
<1>2. CASE ProduceDropped
  <2>1. drops + 1 <= CounterMax
    BY <1>0, <1>2, CounterMaxAssumption
    DEF ProduceDropped, MessageAccounting, Counter
  <2>2. drops' = drops + 1
    BY <1>0, <1>2, <2>1, CounterMaxAssumption DEF ProduceDropped, Counter
  <2>3. Outbox!Refuse
    BY <1>0, <1>2, <2>2 DEF ProduceDropped, Outbox!Refuse, Held, Counter
  <2>. QED
    BY <2>3 DEF Outbox!Next
<1>3. CASE WaitIpReady
  BY <1>3, TransitionFacts, OutboxUntouched
  DEF WaitIpReady, Held, TypeOK, ConnectionState, SameTraffic
<1>4. CASE StateTimerElapsed \/ WaitedForDns \/ BackoffElapsed
  BY <1>4, EnterWaitIpFacts, OutboxUntouched
  DEF StateTimerElapsed, WaitedForDns, BackoffElapsed, Held
<1>5. CASE ResolveDone \/ TcpDone
  BY <1>5, TransitionFacts, OutboxUntouched
  DEF ResolveDone, TcpDone, Held, TypeOK, ConnectionState
<1>6. CASE ResolveFailed \/ TcpFailed
  BY <1>6, RecordFailureFacts, OutboxUntouched
  DEF ResolveFailed, TcpFailed, EnterBackoff, Held, TypeOK, ErrorKind
<1>7. CASE ConnectResumed
  <2>1. /\ RecordResumed(snap) \in Snapshot
        /\ SameTraffic(snap, RecordResumed(snap))
    BY RecordResumedFacts DEF TypeOK
  <2>. QED
    BY <1>7, <2>1, OutboxSelect, EnterSelectFacts
    DEF ConnectResumed, Held, SameTraffic, outboxVars
<1>8. CASE ConnectFresh
  BY <1>8, RecordConnectedFacts, OutboxUntouched
  DEF ConnectFresh, Held, TypeOK
<1>9. ASSUME NEW kind \in Kinds, NEW processed \in BOOLEAN,
             ConnectFailed(kind, processed)
      PROVE  UNCHANGED outboxVars
  BY <1>9, RecordFailureFacts, OutboxUntouched, ServiceAssumption
  DEF ConnectFailed, EnterBackoff, Held, TypeOK
<1>10. CASE SubscribeDone
  BY <1>0, <1>10, OutboxSelect, EnterSelectFacts
  DEF SubscribeDone, Held, outboxVars
<1>11. ASSUME NEW kind \in Kinds, SubscribeFailed(kind) \/ ReceiveFailed(kind)
       PROVE  UNCHANGED outboxVars
  BY <1>11, SessionErrorFacts, OutboxUntouched, ServiceAssumption
  DEF SubscribeFailed, ReceiveFailed, Held
<1>21. CASE KeepaliveFailed
  BY <1>21, SessionErrorFacts, OutboxUntouched
  DEF KeepaliveFailed, ErrorKind, Held
<1>12. CASE Receive
  BY <1>0, <1>12, RecordReceiveFacts, OutboxSelect, EnterSelectFacts
  DEF Receive, Held, outboxVars
<1>13. CASE TakeMessage
  BY <1>0, <1>13 DEF TakeMessage, Outbox!Next, Outbox!Take, Held
<1>14. CASE PublishDone
  <2>1. snap.publishes + 1 <= CounterMax
    BY <1>0, <1>14, CounterMaxAssumption
    DEF PublishDone, MessageAccounting, Held, Counter
  <2>2. /\ task' = "select" /\ snap'.publishes = snap.publishes + 1
        /\ drops' + snap'.queue_drops = drops + snap.queue_drops
    BY <1>0, <1>14, <2>1, RecordPublishFacts, OutboxSelect, EnterSelectFacts,
       CountsExactly, OneIsCounter DEF PublishDone
  <2>3. Outbox!Publish
    BY <1>0, <1>14, <2>2 DEF PublishDone, Outbox!Publish, Held
  <2>. QED
    BY <2>3 DEF Outbox!Next
<1>15. ASSUME NEW kind \in Kinds, PublishFailed(kind) \/ PublishRefused(kind)
       PROVE  Outbox!Next
  BY <1>15, SessionErrorFacts, OutboxLoss, ServiceAssumption
  DEF PublishFailed, PublishRefused, Outbox!Next
<1>16. CASE IpLost
  <2>1. CASE task = "publish"
    BY <1>16, <2>1, EnterWaitIpFacts, OutboxLoss DEF IpLost, Outbox!Next
  <2>2. CASE task # "publish"
    BY <1>16, <2>2, EnterWaitIpFacts, OutboxUntouched DEF IpLost, Held
  <2>. QED
    BY <2>1, <2>2
<1>17. CASE Acknowledge \/ SubscribeAccepted
  BY <1>17, OutboxUntouched DEF Acknowledge, SubscribeAccepted, Held, SameTraffic
<1>18. CASE SubscribeRefused
  BY <1>18, SessionErrorFacts, OutboxUntouched
  DEF SubscribeRefused, Held, ErrorKind
<1>19. CASE Environment
  BY <1>19, OutboxUntouched
  DEF Environment, BrokerExpires, Stall, NetUp, NetFault, Held, SameTraffic
<1>20. CASE UNCHANGED vars
  BY <1>20, OutboxUntouched DEF vars, Held, SameTraffic
<1>. QED
  BY <1>1, <1>2, <1>3, <1>4, <1>5, <1>6, <1>7, <1>8, <1>9, <1>10, <1>11,
     <1>12, <1>13, <1>14, <1>15, <1>16, <1>17, <1>18, <1>19, <1>20, <1>21
  DEF Next, Produce, Wait, Resolve, Tcp, Connect, Subscribe, Select, Publish,
      Broker

\* While the producer makes no more messages than a u32 counts, the channel,
\* the drop counter and the task together keep the promise of
\* TelemetryOutbox, through every failure and cancellation.
THEOREM OutboxPromiseKept ==
    ASSUME MaxProduced <= CounterMax
    PROVE  Spec => KeepsOutboxPromise
<1>1. Init => Outbox!Init
  <2>1. DefaultSnapshot \in Snapshot
    BY OneIsCounter DEF DefaultSnapshot, Snapshot, ConnectionState, LastError
  <2>2. LET t == Transition(DefaultSnapshot, "WaitingForNetwork")
        IN  t.publishes = 0 /\ t.queue_drops = 0
    BY <2>1, TransitionFacts DEF ConnectionState, DefaultSnapshot, SameTraffic
  <2>. QED
    BY <2>2 DEF Init, Held, Outbox!Init
<1>2. Init => ProducedBounded
  BY ServiceAssumption DEF Init, ProducedBounded
<1>3. TypeOK /\ ProducedBounded /\ [Next]_vars => ProducedBounded'
  BY ProducedStep
<1>4. TypeOK /\ TypeOK' /\ MessageAccounting /\ ProducedBounded
        /\ ProducedBounded' /\ [Next]_vars => [Outbox!Next]_outboxVars
  <2> SUFFICES ASSUME TypeOK, TypeOK', MessageAccounting, ProducedBounded,
                      ProducedBounded', [Next]_vars
               PROVE  Outbox!Next \/ UNCHANGED outboxVars
    OBVIOUS
  <2>1. produced <= CounterMax /\ produced' <= CounterMax
    BY ServiceAssumption, CounterMaxAssumption DEF ProducedBounded, TypeOK
  <2>. QED
    BY <2>1, OutboxStep
<1>. QED
  BY <1>1, <1>2, <1>3, <1>4, TypeCorrect, MessagesAccounted, PTL
  DEF Spec, KeepsOutboxPromise, Outbox!Spec, Outbox!vars, outboxVars

=============================================================================
