---------------------- MODULE StationSupervisor_proofs ----------------------
(***************************************************************************)
(* Theorems about the Wi-Fi backoff calculator and about the supervisor    *)
(* that sleeps its delays, for every policy ReconnectPolicy::new accepts   *)
(* and any number of radio failures.                                       *)
(***************************************************************************)
EXTENDS StationSupervisor, TLAPS

USE DEF ValidPolicy

-----------------------------------------------------------------------------
(* The calculator alone: WifiBackoff.                                      *)

\* The jitter reserve leaves a positive largest base, and the base a delay
\* starts from lies between 1 and it.
LEMMA BaseRange ==
    ASSUME TypeOK
    PROVE  /\ MaximumBase \in 1 .. MaximumDelay
           /\ Base \in 1 .. MaximumBase
           /\ DoubledBase \in Base .. MaximumBase
BY PolicyAssumption DEF TypeOK, MaximumBase, Base, DoubledBase, Smaller

\* Neither operation of the calculator leaves its ranges.
LEMMA OperationsKeepType ==
    ASSUME TypeOK
    PROVE  /\ \A jitter \in 0 .. MaximumJitter : NextDelay(jitter) => TypeOK'
           /\ Reset => TypeOK'
<1>1. ASSUME NEW jitter \in 0 .. MaximumJitter, NextDelay(jitter)
      PROVE  TypeOK'
  BY <1>1, BaseRange, PolicyAssumption DEF NextDelay, TypeOK, Smaller
<1>2. ASSUME Reset PROVE TypeOK'
  BY <1>2, PolicyAssumption DEF Reset, TypeOK
<1>. QED
  BY <1>1, <1>2

\* Each operation of the calculator is one of the abstract schedule.
LEMMA OperationsImplementSchedule ==
    ASSUME TypeOK
    PROVE  /\ \A jitter \in 0 .. MaximumJitter :
                    NextDelay(jitter) => Schedule!Next
           /\ Reset => Schedule!Next
<1>1. ASSUME NEW jitter \in 0 .. MaximumJitter, NextDelay(jitter)
      PROVE  Schedule!Retry
  <2>1. /\ Base \in 1 .. MaximumBase /\ MaximumBase \in 1 .. MaximumDelay
        /\ DoubledBase \in Base .. MaximumBase
    BY BaseRange
  <2>2. delay' \in Base .. MaximumDelay
    BY <1>1, <2>1, PolicyAssumption DEF NextDelay, Smaller
  <2>3. Base' = DoubledBase
    BY <1>1, <2>1, PolicyAssumption DEF NextDelay, Base, Smaller, MaximumBase
  <2>. QED
    BY <2>1, <2>2, <2>3, PolicyAssumption DEF Schedule!Retry
<1>2. ASSUME Reset PROVE Schedule!Reset
  <2>1. Base' = Smaller(InitialDelay, MaximumBase)
    BY <1>2 DEF Reset, Base
  <2>. QED
    BY <1>2, <2>1 DEF Reset, Schedule!Reset
<1>. QED
  BY <1>1, <1>2 DEF Schedule!Next

\* next_base_delay_ms, attempts and every returned delay stay in range: no
\* delay exceeds maximum_delay_ms, jitter included.
THEOREM TypeCorrect == Spec => []TypeOK
<1>1. Init => TypeOK
  BY PolicyAssumption DEF Init, TypeOK
<1>2. TypeOK /\ [Next]_vars => TypeOK'
  <2>1. CASE UNCHANGED vars
    BY <2>1 DEF vars, TypeOK
  <2>. QED
    BY <2>1, OperationsKeepType DEF Next
<1>. QED
  BY <1>1, <1>2, PTL DEF Spec

\* The base never falls below the one before it except on reset(), and every
\* delay lies between the base and the maximum: the calculator implements
\* the schedule of BoundedBackoff.
THEOREM ImplementsSchedule == Spec => KeepsSchedule
<1>1. Init => Schedule!Init
  BY PolicyAssumption DEF Init, Schedule!Init, Base
<1>2. TypeOK /\ [Next]_vars => [Schedule!Next]_<<Base, delay>>
  <2>1. CASE UNCHANGED vars
    BY <2>1 DEF vars, Base, Smaller
  <2>. QED
    BY <2>1, OperationsImplementSchedule DEF Next
<1>. QED
  BY <1>1, <1>2, TypeCorrect, PTL DEF Spec, KeepsSchedule, Schedule!Spec

-----------------------------------------------------------------------------
(* The doubling sequence.                                                  *)

\* The powers of two a u32 base can meet.  Exponentiation is known to the
\* provers at constants only.
LEMMA PowersOfTwo ==
    ASSUME NEW n \in 0 .. 30
    PROVE  2^n \in Nat \ {0} /\ 2^(n + 1) = 2 * 2^n
<1>0. CASE n = 0  BY <1>0
<1>1. CASE n = 1  BY <1>1
<1>2. CASE n = 2  BY <1>2
<1>3. CASE n = 3  BY <1>3
<1>4. CASE n = 4  BY <1>4
<1>5. CASE n = 5  BY <1>5
<1>6. CASE n = 6  BY <1>6
<1>7. CASE n = 7  BY <1>7
<1>8. CASE n = 8  BY <1>8
<1>9. CASE n = 9  BY <1>9
<1>10. CASE n = 10  BY <1>10
<1>11. CASE n = 11  BY <1>11
<1>12. CASE n = 12  BY <1>12
<1>13. CASE n = 13  BY <1>13
<1>14. CASE n = 14  BY <1>14
<1>15. CASE n = 15  BY <1>15
<1>16. CASE n = 16  BY <1>16
<1>17. CASE n = 17  BY <1>17
<1>18. CASE n = 18  BY <1>18
<1>19. CASE n = 19  BY <1>19
<1>20. CASE n = 20  BY <1>20
<1>21. CASE n = 21  BY <1>21
<1>22. CASE n = 22  BY <1>22
<1>23. CASE n = 23  BY <1>23
<1>24. CASE n = 24  BY <1>24
<1>25. CASE n = 25  BY <1>25
<1>26. CASE n = 26  BY <1>26
<1>27. CASE n = 27  BY <1>27
<1>28. CASE n = 28  BY <1>28
<1>29. CASE n = 29  BY <1>29
<1>30. CASE n = 30  BY <1>30
<1>. QED
  BY <1>0, <1>1, <1>2, <1>3, <1>4, <1>5, <1>6, <1>7, <1>8, <1>9,
     <1>10, <1>11, <1>12, <1>13, <1>14, <1>15, <1>16, <1>17, <1>18,
     <1>19, <1>20, <1>21, <1>22, <1>23, <1>24, <1>25, <1>26, <1>27,
     <1>28, <1>29, <1>30

\* A number exceeds a quotient exactly when its product exceeds the dividend.
LEMMA ExceedsQuotient ==
    ASSUME NEW i \in Nat, NEW m \in Nat, NEW p \in Nat \ {0}
    PROVE  i > m \div p <=> i * p > m
OBVIOUS

\* One doubling, cut at the maximum, is the next of the sequence.
LEMMA DoublingOnce ==
    ASSUME NEW i \in Nat, NEW m \in Nat, NEW p \in Nat \ {0}
    PROVE  Smaller(2 * (IF i > m \div p THEN m ELSE i * p), m)
           = IF i > m \div (2 * p) THEN m ELSE i * (2 * p)
<1>1. i > m \div p <=> i * p > m
  BY ExceedsQuotient
<1>2. i > m \div (2 * p) <=> i * (2 * p) > m
  BY ExceedsQuotient
<1>3. i * (2 * p) = 2 * (i * p) /\ i * p \in Nat
  OBVIOUS
<1>. QED
  BY <1>1, <1>2, <1>3 DEF Smaller

\* The operations of the calculator follow the doubling sequence, as long as
\* its attempt counter has not saturated.
LEMMA OperationsDouble ==
    ASSUME AttemptsMax > 30, TypeOK, Doubles
    PROVE  /\ \A jitter \in 0 .. MaximumJitter : NextDelay(jitter) => Doubles'
           /\ Reset => Doubles'
<1>0. /\ MaximumBase \in Nat \ {0} /\ InitialDelay \in Nat
      /\ AttemptsMax \in Nat /\ attempts \in Nat
      /\ Base \in 1 .. MaximumBase /\ DoubledBase \in 1 .. MaximumBase
  BY BaseRange, PolicyAssumption DEF TypeOK
<1>1. ASSUME NEW jitter \in 0 .. MaximumJitter, NextDelay(jitter)
      PROVE  Doubles'
  <2> SUFFICES ASSUME attempts' <= 30, InitialDelay <= MaximumBase
               PROVE  Base' = IF InitialDelay > MaximumBase \div 2^(attempts')
                              THEN MaximumBase
                              ELSE InitialDelay * 2^(attempts')
    BY DEF Doubles, MaximumBase
  <2>1. attempts' = attempts + 1 /\ attempts \in 0 .. 30
    BY <1>0, <1>1 DEF NextDelay, Smaller
  <2>2. Base' = Smaller(2 * Base, MaximumBase)
    BY <1>0, <1>1 DEF NextDelay, DoubledBase, Base, Smaller, MaximumBase
  <2>3. Base = IF InitialDelay > MaximumBase \div 2^attempts
               THEN MaximumBase ELSE InitialDelay * 2^attempts
    BY <2>1 DEF Doubles
  <2>4. 2^attempts \in Nat \ {0} /\ 2^(attempts + 1) = 2 * 2^attempts
    BY <2>1, PowersOfTwo
  <2>5. Base' = IF InitialDelay > MaximumBase \div (2 * 2^attempts)
                THEN MaximumBase ELSE InitialDelay * (2 * 2^attempts)
    <3> DEFINE p == 2^attempts
    <3>1. p \in Nat \ {0} /\ MaximumBase \in Nat /\ InitialDelay \in Nat
      BY <1>0, <2>4
    <3> HIDE DEF p
    <3>2. Smaller(2 * (IF InitialDelay > MaximumBase \div p
                       THEN MaximumBase ELSE InitialDelay * p), MaximumBase)
          = IF InitialDelay > MaximumBase \div (2 * p)
            THEN MaximumBase ELSE InitialDelay * (2 * p)
      BY <3>1, DoublingOnce
    <3>. QED
      BY <2>2, <2>3, <3>2, Zenon DEF p
  <2>. QED
    BY <2>1, <2>4, <2>5, Zenon
<1>2. ASSUME Reset PROVE Doubles'
  <2>1. attempts' = 0 /\ Base' = Smaller(InitialDelay, MaximumBase)
    BY <1>2 DEF Reset, Base, MaximumBase
  <2>2. InitialDelay <= MaximumBase =>
            /\ Smaller(InitialDelay, MaximumBase) = InitialDelay
            /\ ~ (InitialDelay > MaximumBase \div 1)
            /\ InitialDelay * 1 = InitialDelay
    BY <1>0 DEF Smaller
  <2>3. 2^0 = 1
    OBVIOUS
  <2>. QED
    BY <2>1, <2>2, <2>3 DEF Doubles, MaximumBase
<1>. QED
  BY <1>1, <1>2

\* With the code's u32 attempt counter, a reset and the retries after it
\* follow InitialDelay * 2^n, cut at the largest base, for every policy.
THEOREM DoublesExactly ==
    ASSUME AttemptsMax > 30
    PROVE  Spec => []Doubles
<1>1. Init => Doubles
  <2>1. InitialDelay \in Nat /\ MaximumBase \in Nat
    BY PolicyAssumption DEF MaximumBase
  <2>2. 2^0 = 1
    OBVIOUS
  <2>. QED
    BY <2>1, <2>2 DEF Init, Doubles, Base, Smaller
<1>2. TypeOK /\ Doubles /\ [Next]_vars => Doubles'
  <2>1. CASE UNCHANGED vars
    BY <2>1 DEF vars, Doubles, Base, Smaller
  <2>. QED
    BY <2>1, OperationsDouble DEF Next
<1>. QED
  BY <1>1, <1>2, TypeCorrect, PTL DEF Spec

-----------------------------------------------------------------------------
(* The supervisor.                                                         *)

\* The supervisor touches the calculator only through next_delay_ms() and
\* reset().
LEMMA StepsOfTheCalculator ==
    ASSUME SupervisorNext
    PROVE  \/ \E jitter \in 0 .. MaximumJitter : NextDelay(jitter)
           \/ Reset
           \/ UNCHANGED backoffVars
BY DEF SupervisorNext, Boot, StartScan, WifiInitFailed, ScanDone, ScanFailed,
       ScanInvalidSsid, StartNetworking, NoStationConfig, ConfigureRefused,
       StartConnect, Connect, ConnectDone, ConnectFailed, ConnectInvalidSsid, Disconnected, LoseAssociation, Sleep

\* Every variable of the station stays in its range, the sleep between two
\* attempts of supervise_station below maximum_delay_ms in particular.
THEOREM SupervisorTypeCorrect == SupervisorSpec => []SupervisorTypeOK
<1>1. SupervisorInit => SupervisorTypeOK
  <2> SUFFICES ASSUME SupervisorInit PROVE SupervisorTypeOK
    OBVIOUS
  <2>1. TypeOK /\ faults \in 0 .. MaxFaults
    BY PolicyAssumption, FaultsAssumption DEF SupervisorInit, Init, TypeOK
  <2>2. phase \in Phases /\ state \in WifiState
    BY DEF SupervisorInit, Phases, WifiState
  <2>3. associated \in BOOLEAN
    BY Zenon DEF SupervisorInit
  <2>. QED
    BY <2>1, <2>2, <2>3 DEF SupervisorTypeOK
<1>2. SupervisorTypeOK /\ [SupervisorNext]_svars => SupervisorTypeOK'
  <2> SUFFICES ASSUME SupervisorTypeOK, [SupervisorNext]_svars
               PROVE  SupervisorTypeOK'
    OBVIOUS
  <2>1. CASE SupervisorNext
    <3>1. TypeOK'
      <4>1. CASE UNCHANGED backoffVars
        BY <4>1 DEF SupervisorTypeOK, TypeOK, backoffVars
      <4>. QED
        BY <2>1, <4>1, StepsOfTheCalculator, OperationsKeepType
           DEF SupervisorTypeOK
    <3>2. phase' \in Phases /\ state' \in WifiState
      BY <2>1
         DEF SupervisorTypeOK, Phases, WifiState, configure_station,
             SupervisorNext, Boot, StartScan,
             WifiInitFailed, ScanDone, ScanFailed, ScanInvalidSsid,
             StartNetworking, NoStationConfig, ConfigureRefused, StartConnect, Connect, ConnectDone, ConnectFailed,
             ConnectInvalidSsid, Disconnected, LoseAssociation, Sleep
    <3>3. associated' \in BOOLEAN
      BY <2>1, Zenon
         DEF SupervisorTypeOK, SupervisorNext, Boot, StartScan,
             WifiInitFailed, ScanDone, ScanFailed, ScanInvalidSsid,
             StartNetworking, NoStationConfig, ConfigureRefused, StartConnect, Connect, ConnectDone, ConnectFailed,
             ConnectInvalidSsid, Disconnected, LoseAssociation, Sleep
    <3>4. faults' \in 0 .. MaxFaults
      BY <2>1, FaultsAssumption
         DEF SupervisorTypeOK, Fault, SupervisorNext, Boot, StartScan,
             WifiInitFailed, ScanDone, ScanFailed, ScanInvalidSsid,
             StartNetworking, NoStationConfig, ConfigureRefused, StartConnect, Connect, ConnectDone, ConnectFailed,
             ConnectInvalidSsid, Disconnected, LoseAssociation, Sleep
    <3>. QED
      BY <3>1, <3>2, <3>3, <3>4 DEF SupervisorTypeOK
  <2>2. CASE UNCHANGED svars
    BY <2>2 DEF svars, backoffVars, SupervisorTypeOK, TypeOK
  <2>. QED
    BY <2>1, <2>2
<1>. QED
  BY <1>1, <1>2, PTL DEF SupervisorSpec

\* The state the controller shows names what the station task awaits, after
\* every error path and early return of scan(), connect() and
\* wait_for_disconnect().
THEOREM StateTracked == SupervisorSpec => []StateTracksSupervisor
<1>1. SupervisorInit => StateTracksSupervisor
  BY DEF SupervisorInit, StateTracksSupervisor
<1>2. StateTracksSupervisor /\ [SupervisorNext]_svars => StateTracksSupervisor'
  <2> SUFFICES ASSUME StateTracksSupervisor, [SupervisorNext]_svars
               PROVE  StateTracksSupervisor'
    OBVIOUS
  <2>. USE DEF StateTracksSupervisor
  <2>1. CASE Boot
    BY <2>1 DEF Boot, StartScan, WifiInitFailed, ScanDone, ScanFailed,
                ScanInvalidSsid, StartNetworking, configure_station,
                NoStationConfig, ConfigureRefused
  <2>2. CASE StartConnect
    BY <2>2 DEF StartConnect
  <2>3. CASE Connect
    BY <2>3 DEF Connect, ConnectDone, ConnectFailed, ConnectInvalidSsid, Sleep
  <2>4. CASE Disconnected
    BY <2>4 DEF Disconnected, Sleep
  <2>5. CASE LoseAssociation
    BY <2>5 DEF LoseAssociation
  <2>6. CASE UNCHANGED svars
    BY <2>6 DEF svars
  <2>. QED
    BY <2>1, <2>2, <2>3, <2>4, <2>5, <2>6 DEF SupervisorNext
<1>. QED
  BY <1>1, <1>2, PTL DEF SupervisorSpec

\* While the task awaits the loss of its association the calculator is reset.
FreshWhileConnected ==
    phase = "wait_for_disconnect" => next_base = InitialDelay /\ attempts = 0

\* What makes LossRestartsBackoff inductive.
LossInv == FreshWhileConnected /\ LossRestartsBackoff

\* The first delay a reset calculator returns.
LEMMA FirstDelay ==
    ASSUME next_base = InitialDelay, attempts = 0,
           NEW jitter \in 0 .. MaximumJitter, NextDelay(jitter)
    PROVE  /\ attempts' = 1
           /\ delay' \in Smaller(InitialDelay, MaximumBase)
                         .. (InitialDelay + MaximumJitter)
BY PolicyAssumption DEF NextDelay, Base, MaximumBase, Smaller

\* However many attempts failed before an association, the sleep after its
\* loss is the first of a fresh sequence: reset() comes before the wait.
THEOREM LossRestarts == SupervisorSpec => []LossRestartsBackoff
<1>1. SupervisorInit => LossInv
  BY DEF SupervisorInit, LossInv, FreshWhileConnected, LossRestartsBackoff
<1>2. LossInv /\ [SupervisorNext]_svars => LossInv'
  <2> SUFFICES ASSUME LossInv, [SupervisorNext]_svars PROVE LossInv'
    OBVIOUS
  <2>. USE DEF LossInv, FreshWhileConnected, LossRestartsBackoff
  <2>1. CASE Boot
    BY <2>1 DEF Boot, StartScan, WifiInitFailed, ScanDone, ScanFailed,
                ScanInvalidSsid, StartNetworking, configure_station,
                NoStationConfig, ConfigureRefused
  <2>2. CASE StartConnect
    BY <2>2 DEF StartConnect
  <2>3. CASE ConnectDone
    BY <2>3 DEF ConnectDone, Reset
  <2>4. CASE ConnectFailed \/ ConnectInvalidSsid
    BY <2>4 DEF ConnectFailed, ConnectInvalidSsid, Sleep
  <2>5. CASE Disconnected
    <3>1. PICK jitter \in 0 .. MaximumJitter : NextDelay(jitter)
      BY <2>5 DEF Disconnected, Sleep
    <3>2. next_base = InitialDelay /\ attempts = 0
      BY <2>5 DEF Disconnected
    <3>3. /\ attempts' = 1
          /\ delay' \in Smaller(InitialDelay, MaximumBase)
                        .. (InitialDelay + MaximumJitter)
      BY <3>1, <3>2, FirstDelay
    <3>4. FreshWhileConnected'
      BY <2>5 DEF Disconnected, Sleep
    <3>. QED
      BY <3>3, <3>4 DEF MaximumBase
  <2>6. CASE LoseAssociation
    BY <2>6 DEF LoseAssociation, backoffVars
  <2>7. CASE UNCHANGED svars
    BY <2>7 DEF svars, backoffVars
  <2>. QED
    BY <2>1, <2>2, <2>3, <2>4, <2>5, <2>6, <2>7 DEF SupervisorNext, Connect
<1>3. LossInv => LossRestartsBackoff
  BY DEF LossInv
<1>. QED
  BY <1>1, <1>2, <1>3, PTL DEF SupervisorSpec

\* Driven by supervise_station, through every failure and loss, the delays
\* keep to the schedule of BoundedBackoff.
THEOREM SupervisorKeepsSchedule == SupervisorSpec => KeepsSchedule
<1>1. SupervisorInit => Schedule!Init
  BY PolicyAssumption DEF SupervisorInit, Init, Schedule!Init, Base
<1>2. SupervisorTypeOK /\ [SupervisorNext]_svars
        => [Schedule!Next]_<<Base, delay>>
  <2> SUFFICES ASSUME SupervisorTypeOK, [SupervisorNext]_svars
               PROVE  [Schedule!Next]_<<Base, delay>>
    OBVIOUS
  <2>1. CASE UNCHANGED backoffVars
    BY <2>1 DEF backoffVars, Base, Smaller
  <2>2. CASE UNCHANGED svars
    BY <2>1, <2>2 DEF svars
  <2>. QED
    BY <2>1, <2>2, StepsOfTheCalculator, OperationsImplementSchedule
       DEF SupervisorTypeOK
<1>. QED
  BY <1>1, <1>2, SupervisorTypeCorrect, PTL
     DEF SupervisorSpec, KeepsSchedule, Schedule!Spec

\* Driven by supervise_station, the delays follow the doubling sequence from
\* every association on.
THEOREM SupervisorDoubles ==
    ASSUME AttemptsMax > 30
    PROVE  SupervisorSpec => []Doubles
<1>1. SupervisorInit => Doubles
  <2>1. InitialDelay \in Nat /\ MaximumBase \in Nat
    BY PolicyAssumption DEF MaximumBase
  <2>2. 2^0 = 1
    OBVIOUS
  <2>. QED
    BY <2>1, <2>2 DEF SupervisorInit, Init, Doubles, Base, Smaller
<1>2. SupervisorTypeOK /\ Doubles /\ [SupervisorNext]_svars => Doubles'
  <2> SUFFICES ASSUME SupervisorTypeOK, Doubles, [SupervisorNext]_svars
               PROVE  Doubles'
    OBVIOUS
  <2>1. CASE UNCHANGED backoffVars
    BY <2>1 DEF backoffVars, Doubles, Base, Smaller
  <2>2. CASE UNCHANGED svars
    BY <2>1, <2>2 DEF svars
  <2>. QED
    BY <2>1, <2>2, StepsOfTheCalculator, OperationsDouble DEF SupervisorTypeOK
<1>. QED
  BY <1>1, <1>2, SupervisorTypeCorrect, PTL DEF SupervisorSpec

=============================================================================
