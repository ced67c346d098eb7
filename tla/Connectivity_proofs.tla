------------------------ MODULE Connectivity_proofs -------------------------
(***************************************************************************)
(* Proofs about Connectivity: the network monitor composed with the        *)
(* station supervisor, for every retry policy, set of lease kinds and      *)
(* number of leases and failures.                                          *)
(***************************************************************************)
EXTENDS Connectivity, StationSupervisor_proofs

-----------------------------------------------------------------------------
(* The station inside the composition.                                     *)

\* What the station does among the other tasks is what it does alone.
LEMMA StationStep ==
    ASSUME [ConnectivityNext]_cvars
    PROVE  [SupervisorNext]_svars
BY DEF ConnectivityNext, InStation, Radio, LinkFollows, Dhcp, InMonitor,
       SupervisorNext, cvars

\* The composition implements the station: everything proved of the station
\* alone holds of it among the monitor and the stack.
THEOREM StationInside == ConnectivitySpec => SupervisorSpec
<1>1. ConnectivityInit => SupervisorInit
  BY DEF ConnectivityInit
<1>2. [ConnectivityNext]_cvars => [SupervisorNext]_svars
  BY StationStep
<1>. QED
  BY <1>1, <1>2, PTL DEF ConnectivitySpec, SupervisorSpec

\* On the shared executor a lost association still restarts the backoff.
THEOREM ConnectivityLossRestarts == ConnectivitySpec => []LossRestartsBackoff
BY StationInside, LossRestarts, PTL

\* On the shared executor the controller's state still names its wait.
THEOREM ConnectivityStateTracked ==
    ConnectivitySpec => []StateTracksSupervisor
BY StationInside, StateTracked, PTL

\* On the shared executor the retry delays still keep to BoundedBackoff.
THEOREM ConnectivityKeepsSchedule == ConnectivitySpec => KeepsSchedule
BY StationInside, SupervisorKeepsSchedule, PTL

\* On the shared executor the retry delays still double.
THEOREM ConnectivityDoubles ==
    ASSUME AttemptsMax > 30
    PROVE  ConnectivitySpec => []Doubles
BY StationInside, SupervisorDoubles, PTL

-----------------------------------------------------------------------------
(* The monitor and the stack.                                              *)

\* The steps of the composition, as the monitor and the stack see them.
LEMMA MonitorStep ==
    ASSUME [ConnectivityNext]_cvars
    PROVE  \/ UNCHANGED mvars
           \/ /\ monitor # "spin" /\ (LinkUp \/ LinkDown)
              /\ UNCHANGED <<monitor, acquired, handled>>
           \/ DhcpStep
           \/ Monitor
BY DEF ConnectivityNext, InStation, Radio, LinkFollows, Dhcp, InMonitor, cvars,
       Polled

\* The monitor's ranges are kept by every step.
LEMMA MonitorTypeStep ==
    ASSUME MonitorTypeOK, [ConnectivityNext]_cvars
    PROVE  MonitorTypeOK'
<1> USE DEF MonitorTypeOK, NetTypeOK
<1>1. CASE UNCHANGED mvars
  BY <1>1 DEF mvars, netVars
<1>2. CASE (LinkUp \/ LinkDown) /\ UNCHANGED <<monitor, acquired, handled>>
  BY <1>2 DEF LinkUp, LinkDown
<1>3. CASE DhcpStep
  BY <1>3, MonitorAssumption
  DEF DhcpStep, LeaseLost, LeaseAcquired, LeaseRenewed
<1>4. CASE Monitor
  BY <1>4, MonitorAssumption
  DEF Monitor, WaitLinkUp, ConfigUp, ConfigUnusable, Spin, LinkLost, ProbeDns,
      ProbeTcp, ProbeClose, WaitIpDown, mvars, netVars
<1>. QED
  BY <1>1, <1>2, <1>3, <1>4, MonitorStep

\* Every variable of the station, the stack and the monitor stays in its
\* range: the monitor never reports a lease the stack did not acquire.
THEOREM ConnectivityTypeCorrect == ConnectivitySpec => []ConnectivityTypeOK
<1>1. ConnectivityInit => MonitorTypeOK
  BY MonitorAssumption
  DEF ConnectivityInit, MonitorInit, NetInit, MonitorTypeOK, NetTypeOK
<1>2. MonitorTypeOK /\ [ConnectivityNext]_cvars => MonitorTypeOK'
  BY MonitorTypeStep
<1>. QED
  BY <1>1, <1>2, StationInside, SupervisorTypeCorrect, PTL
  DEF ConnectivitySpec, ConnectivityTypeOK

\* embassy-net holds a lease only while the link is up.
LeaseNeedsLink == lease # "none" => link = "up"

\* What makes NeverSpins inductive: the stack cannot offer the monitor a
\* configuration on a dead link, which would fail IsIpReady as well.
SpinInv == LeaseNeedsLink /\ NeverSpins

\* Only a configuration the portable contract refuses can keep the monitor
\* from awaiting, and with it the executor from every other task.
THEOREM MonitorYields == ConnectivitySpec => []NeverSpins
<1>1. ConnectivityInit => SpinInv
  BY DEF ConnectivityInit, MonitorInit, NetInit, SpinInv, LeaseNeedsLink,
         NeverSpins
<1>2. SpinInv /\ [ConnectivityNext]_cvars => SpinInv'
  <2> SUFFICES ASSUME SpinInv, [ConnectivityNext]_cvars PROVE SpinInv'
    OBVIOUS
  <2> USE DEF SpinInv, LeaseNeedsLink, NeverSpins
  <2>1. CASE UNCHANGED mvars
    BY <2>1 DEF mvars, netVars
  <2>2. CASE /\ monitor # "spin" /\ (LinkUp \/ LinkDown)
             /\ UNCHANGED <<monitor, acquired, handled>>
    BY <2>2 DEF LinkUp, LinkDown
  <2>3. CASE DhcpStep
    BY <2>3 DEF DhcpStep, LeaseLost, LeaseAcquired, LeaseRenewed
  <2>4. CASE Monitor
    BY <2>4
    DEF Monitor, WaitLinkUp, ConfigUp, ConfigUnusable, Spin, LinkLost,
        ProbeDns, ProbeTcp, ProbeClose, WaitIpDown, mvars, netVars,
        IsIpReady, SnapshotFails
  <2>. QED
    BY <2>1, <2>2, <2>3, <2>4, MonitorStep
<1>3. SpinInv => NeverSpins
  BY DEF SpinInv
<1>. QED
  BY <1>1, <1>2, <1>3, PTL DEF ConnectivitySpec

\* Before its report, the monitor sees only leases it has not reported.
FreshLeaseAhead ==
    monitor \in {"wait_link", "wait_config"} /\ lease # "none"
        => acquired > handled

\* Every step keeps the lease ahead of the monitor a new one: the monitor
\* only goes back to its first wait once the lease it reported is gone.
LEMMA FreshLeaseStep ==
    ASSUME MonitorTypeOK, FreshLeaseAhead, [ConnectivityNext]_cvars
    PROVE  FreshLeaseAhead'
<1> USE DEF FreshLeaseAhead, MonitorTypeOK
<1>1. CASE UNCHANGED mvars
  BY <1>1 DEF mvars, netVars
<1>2. CASE (LinkUp \/ LinkDown) /\ UNCHANGED <<monitor, acquired, handled>>
  BY <1>2 DEF LinkUp, LinkDown
<1>3. CASE DhcpStep
  BY <1>3, MonitorAssumption
  DEF DhcpStep, LeaseLost, LeaseAcquired, LeaseRenewed
<1>4. CASE Monitor
  BY <1>4
  DEF Monitor, WaitLinkUp, ConfigUp, ConfigUnusable, Spin, LinkLost, ProbeDns,
      ProbeTcp, ProbeClose, WaitIpDown, IpDownReturns, mvars, netVars
<1>. QED
  BY <1>1, <1>2, <1>3, <1>4, MonitorStep

\* The monitor reports and probes a configuration only if the stack acquired
\* it since the last report, whatever renewals and losses come between.
THEOREM ProbesOnlyNewLeases == ConnectivitySpec => ProbesNewLeasesOnly
<1>1. ConnectivityInit => FreshLeaseAhead
  BY DEF ConnectivityInit, MonitorInit, NetInit, FreshLeaseAhead
<1>2. ConnectivityTypeOK /\ FreshLeaseAhead /\ [ConnectivityNext]_cvars
        => FreshLeaseAhead'
  BY FreshLeaseStep DEF ConnectivityTypeOK
<1>3. FreshLeaseAhead /\ [ConnectivityNext]_cvars
        => [monitor = "wait_config" /\ monitor' # "wait_config"
            /\ monitor' \in {"probe_dns", "wait_ip_down"}
            => acquired > handled]_mvars
  <2> SUFFICES ASSUME FreshLeaseAhead, [ConnectivityNext]_cvars,
                      monitor = "wait_config",
                      monitor' \in {"probe_dns", "wait_ip_down"}
               PROVE  acquired > handled
    OBVIOUS
  <2>1. Monitor
    BY MonitorStep DEF DhcpStep, mvars
  <2>2. ConfigUp
    BY <2>1
    DEF Monitor, WaitLinkUp, ConfigUnusable, Spin, LinkLost, ProbeDns,
        ProbeTcp, ProbeClose, WaitIpDown
  <2>. QED
    BY <2>2 DEF ConfigUp, FreshLeaseAhead
<1>. QED
  BY <1>1, <1>2, <1>3, ConnectivityTypeCorrect, PTL
  DEF ConnectivitySpec, ProbesNewLeasesOnly

=============================================================================
