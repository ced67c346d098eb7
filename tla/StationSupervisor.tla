------------------------- MODULE StationSupervisor --------------------------
(***************************************************************************)
(* The Wi-Fi side of the reference firmware: the boot-time scan and        *)
(* configuration of Esp32c6Wifi (ports/espressif/esp32c6/src/wifi.rs), the *)
(* station controller, and supervise_station, which associates, waits for  *)
(* the loss and sleeps the delay of WifiBackoff.  The radio driver is      *)
(* external.                                                               *)
(***************************************************************************)
EXTENDS WifiBackoff

CONSTANT MaxFaults      \* bound on failures other than of an attempt

ASSUME FaultsAssumption == MaxFaults \in Nat

VARIABLES
    phase,      \* where main, and later the station task, is suspended
    state,      \* WifiState of the adapter, then of the controller
    associated, \* the driver holds an association
    faults      \* history: failures spent

backoffVars == <<next_base, attempts, delay>>
svars == <<backoffVars, phase, state, associated, faults>>

Phases ==
    {"init", "scan", "configure", "spawned", "connect", "wait_for_disconnect",
     "sleep", "scan_only", "no_radio"}

WifiState ==
    {"Ready", "Scanning", "Connecting", "Connected", "Disconnected", "Failed"}

SupervisorTypeOK ==
    /\ TypeOK
    /\ phase \in Phases
    /\ state \in WifiState
    /\ associated \in BOOLEAN
    /\ faults \in 0 .. MaxFaults

SupervisorInit ==
    /\ Init
    /\ phase = "init"
    /\ state = "Ready"
    /\ associated = FALSE
    /\ faults = 0

Fault == faults < MaxFaults /\ faults' = faults + 1

-----------------------------------------------------------------------------
(* main: scan, then configure or stay in scan-only mode.                   *)

\* Esp32c6Wifi::new() succeeds and scan() is polled for the first time.
StartScan ==
    /\ phase = "init"
    /\ phase' = "scan"
    /\ state' = "Scanning"
    /\ UNCHANGED <<backoffVars, associated, faults>>

\* main stays in its idle loop, with no adapter at all.
WifiInitFailed ==
    /\ phase = "init"
    /\ Fault
    /\ phase' = "no_radio"
    /\ UNCHANGED <<backoffVars, state, associated>>

ScanDone ==
    /\ phase = "scan"
    /\ phase' = "configure"
    /\ state' = "Ready"
    /\ UNCHANGED <<backoffVars, associated, faults>>

ScanFailed ==
    /\ phase = "scan"
    /\ Fault
    /\ phase' = "configure"
    /\ state' = "Failed"
    /\ UNCHANGED <<backoffVars, associated>>

\* A discovered SSID the portable type refuses: scan() returns early.
ScanInvalidSsid ==
    /\ phase = "scan"
    /\ Fault
    /\ phase' = "configure"
    /\ UNCHANGED <<backoffVars, state, associated>>

\* The state before does not matter: the configuration makes it Ready, and
\* the controller takes it over.
configure_station == state' = "Ready"

\* The credentials are usable: the network and station tasks are spawned.
StartNetworking ==
    /\ phase = "configure"
    /\ configure_station
    /\ phase' = "spawned"
    /\ UNCHANGED <<backoffVars, associated, faults>>

\* The firmware was built without credentials, or with unusable ones.
NoStationConfig ==
    /\ phase = "configure"
    /\ phase' = "scan_only"
    /\ UNCHANGED <<backoffVars, state, associated, faults>>

\* The port or the driver refuses the configuration.
ConfigureRefused ==
    /\ phase = "configure"
    /\ Fault
    /\ phase' = "scan_only"
    /\ UNCHANGED <<backoffVars, state, associated>>

-----------------------------------------------------------------------------
(* supervise_station.                                                      *)

\* Mutant: the controller starts to associate and does not say so.
StartConnectSilent ==
    /\ phase \in {"spawned", "sleep"}
    /\ phase' = "connect"
    /\ UNCHANGED <<backoffVars, state, associated, faults>>

\* The task's first poll, and every return from the retry sleep.
StartConnect ==
    /\ phase \in {"spawned", "sleep"}
    /\ phase' = "connect"
    /\ state' = "Connecting"
    /\ UNCHANGED <<backoffVars, associated, faults>>

\* Mutant: the backoff is not reset by a successful association.
ConnectDoneUnreset ==
    /\ phase = "connect"
    /\ phase' = "wait_for_disconnect"
    /\ state' = "Connected"
    /\ associated' = TRUE
    /\ UNCHANGED <<backoffVars, faults>>

ConnectDone ==
    /\ phase = "connect"
    /\ phase' = "wait_for_disconnect"
    /\ state' = "Connected"
    /\ associated' = TRUE
    /\ Reset
    /\ UNCHANGED faults

Sleep == phase' = "sleep" /\ \E jitter \in 0 .. MaximumJitter : NextDelay(jitter)

\* Mutant: a refused association ends the supervision.
ConnectFailedForGood ==
    /\ phase = "connect"
    /\ phase' = "scan_only"
    /\ state' = "Failed"
    /\ associated' = FALSE
    /\ UNCHANGED <<backoffVars, faults>>

\* The attempts may fail for ever: no fault is spent.
ConnectFailed ==
    /\ phase = "connect"
    /\ state' = "Failed"
    /\ associated' = FALSE
    /\ Sleep
    /\ UNCHANGED faults

\* The driver associates with an SSID the portable type refuses: connect()
\* has stored Connected, and returns an error.
ConnectInvalidSsid ==
    /\ phase = "connect"
    /\ Fault
    /\ state' = "Connected"
    /\ associated' = TRUE
    /\ Sleep

\* wait_for_disconnect() returns: the association is gone, or the wait
\* itself failed.
Disconnected ==
    /\ phase = "wait_for_disconnect"
    /\ \/ ~associated /\ UNCHANGED faults
       \/ associated /\ Fault
    /\ state' = "Disconnected"
    /\ UNCHANGED associated
    /\ Sleep

\* The access point or the radio drops the association.
LoseAssociation ==
    /\ associated
    /\ Fault
    /\ associated' = FALSE
    /\ UNCHANGED <<backoffVars, phase, state>>

-----------------------------------------------------------------------------
Boot ==
    \/ StartScan \/ WifiInitFailed
    \/ ScanDone \/ ScanFailed \/ ScanInvalidSsid
    \/ StartNetworking \/ NoStationConfig \/ ConfigureRefused

Connect == ConnectDone \/ ConnectFailed \/ ConnectInvalidSsid

SupervisorNext ==
    \/ Boot \/ StartConnect \/ Connect \/ Disconnected \/ LoseAssociation

SupervisorSpec == SupervisorInit /\ [][SupervisorNext]_svars

-----------------------------------------------------------------------------
\* The sleep after a lost association is the first of a fresh sequence,
\* however many failures preceded the association.
LossRestartsBackoff ==
    (phase = "sleep" /\ state = "Disconnected") =>
        /\ attempts = 1
        /\ delay \in Smaller(InitialDelay, MaximumBase)
                     .. (InitialDelay + MaximumJitter)

\* The state the controller shows names what the station task awaits, through
\* every error path of connect() and wait_for_disconnect(), and a Scanning that
\* an early return of scan() left behind is gone once a station is configured.
StateTracksSupervisor ==
    /\ phase = "connect" => state = "Connecting"
    /\ phase = "wait_for_disconnect" => state = "Connected"
    /\ phase = "sleep" => state \in {"Disconnected", "Failed", "Connected"}
    /\ state = "Scanning" => phase \in {"scan", "configure", "scan_only"}

=============================================================================
