--------------------------- MODULE NetworkMonitor ---------------------------
(***************************************************************************)
(* network_monitor_task of the reference firmware: it reports link and     *)
(* DHCP state and runs the optional DNS/TCP probe for a new lease.  Every  *)
(* wait is level-triggered: it returns when the stack is in the awaited    *)
(* state, not when it has passed through it.                               *)
(***************************************************************************)
EXTENDS NetStack, Integers

CONSTANTS
    ProbeConfigured,    \* development_network_probe() returned a probe
    MaxLeases           \* bound on the leases of a behaviour

ASSUME MonitorAssumption ==
    /\ ProbeConfigured \in BOOLEAN
    /\ MaxLeases \in Nat

VARIABLES
    monitor,    \* where the task is suspended; "spin" if it never suspends
    acquired,   \* history: leases the stack acquired
    handled     \* history: the lease whose configuration was last reported

mvars == <<netVars, monitor, acquired, handled>>

MonitorTypeOK ==
    /\ NetTypeOK
    /\ monitor \in {"wait_link", "wait_config", "probe_dns", "probe_tcp",
                    "probe_close", "wait_ip_down", "spin"}
    /\ acquired \in 0 .. MaxLeases
    /\ handled \in 0 .. acquired

MonitorInit ==
    /\ NetInit
    /\ monitor = "wait_link"
    /\ acquired = 0 /\ handled = 0

-----------------------------------------------------------------------------
WaitLinkUp ==
    /\ monitor = "wait_link"
    /\ link = "up"
    /\ monitor' = "wait_config"
    /\ UNCHANGED <<netVars, acquired, handled>>

\* The inner select: the configuration first, then link loss.
ConfigUp ==
    /\ monitor = "wait_config"
    /\ lease # "none"
    /\ IsIpReady
    /\ handled' = acquired
    /\ monitor' = IF ProbeConfigured /\ IsDnsReady THEN "probe_dns"
                                                   ELSE "wait_ip_down"
    /\ UNCHANGED <<netVars, acquired>>

\* A snapshot that fails or is not ready sends the task round loops whose
\* waits all return at once: it never yields to the executor again.
ConfigUnusable ==
    /\ monitor = "wait_config"
    /\ lease # "none"
    /\ ~IsIpReady
    /\ monitor' = "spin"
    /\ UNCHANGED <<netVars, acquired, handled>>

Spin == monitor = "spin" /\ UNCHANGED mvars

LinkLost ==
    /\ monitor = "wait_config"
    /\ lease = "none"
    /\ link = "down"
    /\ monitor' = "wait_link"
    /\ UNCHANGED <<netVars, acquired, handled>>

(* run_network_probe: each step ends by its result or its timeout.         *)

ProbeDns ==
    /\ monitor = "probe_dns"
    /\ \/ ResolveReturns /\ monitor' = "probe_tcp"
       \/ monitor' = "wait_ip_down"
    /\ UNCHANGED <<netVars, acquired, handled>>

\* Mutant: the TCP connect of the probe has no timeout.
ProbeTcpUntimed ==
    /\ monitor = "probe_tcp"
    /\ lease # "none"
    /\ monitor' \in {"probe_close", "wait_ip_down"}
    /\ UNCHANGED <<netVars, acquired, handled>>

ProbeTcp ==
    /\ monitor = "probe_tcp"
    /\ \/ lease # "none" /\ monitor' = "probe_close"
       \/ monitor' = "wait_ip_down"
    /\ UNCHANGED <<netVars, acquired, handled>>

ProbeClose ==
    /\ monitor = "probe_close"
    /\ monitor' = "wait_ip_down"
    /\ UNCHANGED <<netVars, acquired, handled>>

\* Mutant: the task goes back to the link without awaiting the loss.
WaitIpDownSkipped ==
    /\ monitor = "wait_ip_down"
    /\ monitor' = "wait_link"
    /\ UNCHANGED <<netVars, acquired, handled>>

WaitIpDown ==
    /\ monitor = "wait_ip_down"
    /\ IpDownReturns
    /\ monitor' = "wait_link"
    /\ UNCHANGED <<netVars, acquired, handled>>

-----------------------------------------------------------------------------
Monitor ==
    \/ WaitLinkUp \/ ConfigUp \/ ConfigUnusable \/ Spin \/ LinkLost
    \/ ProbeDns \/ ProbeTcp \/ ProbeClose \/ WaitIpDown

\* A task that never yields keeps the executor from the stack.  Acquiring a
\* lease takes several exchanges, so a task that awaited the loss of the one
\* before has been polled by then.
DhcpStep ==
    /\ monitor # "spin"
    /\ \/ LeaseLost /\ UNCHANGED acquired
       \/ /\ acquired < MaxLeases
          /\ monitor # "wait_ip_down"
          /\ \E l \in Leases : LeaseAcquired(l)
          /\ acquired' = acquired + 1
       \/ /\ \E l \in Leases : LeaseRenewed(l)
          /\ UNCHANGED acquired
    /\ UNCHANGED <<monitor, handled>>

LinkStep ==
    /\ monitor # "spin"
    /\ LinkUp \/ LinkDown
    /\ UNCHANGED <<monitor, acquired, handled>>

MonitorNext == Monitor \/ LinkStep \/ DhcpStep

MonitorSpec == MonitorInit /\ [][MonitorNext]_mvars

-----------------------------------------------------------------------------
\* The task reports and probes a configuration only when the stack acquired
\* it since the last one: no lease is probed twice, renewals included.
ProbesNewLeasesOnly == [][monitor = "wait_config" /\ monitor' # "wait_config"
                          /\ monitor' \in {"probe_dns", "wait_ip_down"}
                          => acquired > handled]_mvars

\* Unless the portable contract cannot represent the configuration, every turn
\* of the monitor's loops awaits something that is not yet true, so the
\* cooperative executor gets the processor back.
NeverSpins == monitor = "spin" => lease = "invalid"

\* docs/connectivity/networking.md: "A later lease acquisition runs the
\* optional probe again."  While the task waits for a lease to end, that
\* lease is the one it handled.
LaterLeaseIsProbed ==
    (monitor = "wait_ip_down" /\ lease # "none") => handled = acquired

=============================================================================
