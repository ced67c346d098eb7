---------------------------- MODULE Connectivity ----------------------------
(***************************************************************************)
(* The connectivity tasks of the reference firmware on its one cooperative *)
(* executor: main and the station supervisor (StationSupervisor), the      *)
(* network runner with its stack (NetStack) and the network monitor        *)
(* (NetworkMonitor).  They meet in two places: the stack's link follows    *)
(* the station's association, and a task that never awaits keeps every     *)
(* other task from running.                                                *)
(***************************************************************************)
EXTENDS StationSupervisor, NetworkMonitor

cvars == <<svars, mvars>>

ConnectivityTypeOK == SupervisorTypeOK /\ MonitorTypeOK

ConnectivityInit == SupervisorInit /\ MonitorInit

\* The executor polls another task only when the one it polls suspends.
Polled == monitor # "spin"

-----------------------------------------------------------------------------
\* A step of main or of the station task.
InStation(A) == Polled /\ A /\ UNCHANGED mvars

\* The access point and the radio do not depend on the executor.
Radio == LoseAssociation /\ UNCHANGED mvars

\* embassy-net polls the link state of the station interface: an association
\* lost and won again between two polls is not seen.
LinkFollows ==
    /\ Polled
    /\ \/ associated /\ LinkUp
       \/ ~associated /\ LinkDown
    /\ UNCHANGED <<svars, monitor, acquired, handled>>

Dhcp == DhcpStep /\ UNCHANGED svars

InMonitor(A) == A /\ UNCHANGED svars

ConnectivityNext ==
    \/ InStation(Boot) \/ InStation(StartConnect) \/ InStation(Connect)
    \/ InStation(Disconnected)
    \/ Radio \/ LinkFollows \/ Dhcp
    \/ InMonitor(Monitor)

ConnectivitySpec == ConnectivityInit /\ [][ConnectivityNext]_cvars

\* Timers fire, the scan and the association end, the disconnect event of a
\* lost association is delivered, the runner task is polled and so is every
\* wait of the monitor that is ready; nothing is assumed of DHCP.
FairConnectivitySpec ==
    /\ ConnectivitySpec
    /\ WF_cvars(InStation(Boot)) /\ WF_cvars(InStation(StartConnect))
    /\ WF_cvars(InStation(Connect))
    /\ WF_cvars(InStation(Disconnected /\ ~associated))
    /\ WF_cvars(LinkFollows)
    /\ WF_cvars(InMonitor(Monitor))

-----------------------------------------------------------------------------
\* The supervisor retries for ever: unless the attempts go on failing, a
\* configured station ends up associated and awaiting the loss, and the
\* monitor with it past its wait for the link.  Only a lease that the
\* portable contract refuses can stop them, by the monitor's busy loop.
Reassociates ==
    <>(phase = "spawned") =>
        \/ <>[](phase = "wait_for_disconnect" /\ associated
                /\ monitor # "wait_link")
        \/ <>[](monitor = "spin")
        \/ []<><<InStation(ConnectFailed)>>_cvars

\* A lost association reaches the monitor: with no association left it drops
\* whatever it was at, a running probe included, and waits for the link.
FollowsAssociation ==
    <>[](~associated) => <>[](monitor = "wait_link") \/ <>[](monitor = "spin")

=============================================================================
