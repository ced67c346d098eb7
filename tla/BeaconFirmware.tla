--------------------------- MODULE BeaconFirmware ---------------------------
(***************************************************************************)
(* The beacon firmware: settings fixed at build time, one task that keeps  *)
(* a non-connectable advertisement on the air, and the host runner beside  *)
(* it.  The TrouBLE host and the controller are external.                  *)
(***************************************************************************)
EXTENDS BluetoothAir

Unset == -1000          \* option_env! found nothing
Unparsable == -1001     \* the text is no number of the type, or no UUID

CONSTANT Builds     \* the settings the firmware is built with

\* The build's variables; of a name and a canonical UUID only the length.
ASSUME BuildsAssumption ==
    /\ Builds # {}
    /\ Builds \subseteq [name : Nat \cup {Unset}, uuid : {Unset, Unparsable, 36},
                         major : Int, minor : Int, power : Int, interval : Int,
                         tx : Int]

VARIABLES
    build,      \* the settings of this image
    verdict,    \* what beacon_settings returned: "Ok" or a SettingsError
    beacon,     \* where main, then advertise_forever, is suspended
    runner      \* bluetooth_runner: "run", or "sleep" after a failure

beaconVars == <<build, verdict, beacon, runner>>

-----------------------------------------------------------------------------
(* beacon_settings.                                                        *)

\* parse_optional: the default, or a value of the type's range.
parse_optional(v, range) == v = Unset \/ v \in range

GeneratedName == 11     \* GENERATED_BEACON_NAME_LENGTH

\* Mutant: a name as long as the frame passes.
IsBeaconNameLonger(n) == n = Unset \/ n \in 1 .. (FrameSize - 1)

\* BeaconName::from_str, or the name generated from the address.
IsBeaconName(n) == n = Unset \/ n \in 1 .. MaxBeaconName

NameLength == IF build.name = Unset THEN GeneratedName ELSE build.name

\* AdvertisingInterval::from_millis, after the u16 was parsed.
IsInterval(ms) == parse_optional(ms, 20 .. 10240)

\* controller_tx_power.
TxPowers == {-15, -12, -9, -6, -3, 0, 3, 6, 9, 12, 15, 18, 20}

\* The checks of beacon_settings in their order.
Checks ==
    << [error |-> "InvalidName", passes |-> IsBeaconName(build.name)],
       [error |-> "InvalidUuid", passes |-> build.uuid # Unparsable],
       [error |-> "InvalidMajor",
        passes |-> parse_optional(build.major, 0 .. 65535)],
       [error |-> "InvalidMinor",
        passes |-> parse_optional(build.minor, 0 .. 65535)],
       [error |-> "InvalidMeasuredPower",
        passes |-> parse_optional(build.power, -128 .. 127)],
       [error |-> "InvalidAdvertisingInterval",
        passes |-> IsInterval(build.interval)],
       [error |-> "UnsupportedRadioTxPower",
        passes |-> parse_optional(build.tx, TxPowers)] >>

Failing == {i \in DOMAIN Checks : ~Checks[i].passes}

beacon_settings == IF Failing = {} THEN "Ok" ELSE Checks[Min(Failing)].error

SettingsError == {Checks[i].error : i \in DOMAIN Checks}

-----------------------------------------------------------------------------
BeaconTypeOK ==
    /\ build \in Builds
    /\ verdict \in {"pending", "Ok"} \cup SettingsError
    /\ beacon \in {"main", "halted", "off", "ended", "advertise", "broadcast",
                   "retry"}
    /\ runner \in {"run", "sleep"}

BeaconInit ==
    /\ build \in Builds
    /\ verdict = "pending"
    /\ beacon = "main"
    /\ runner = "run"

\* A board without power.
BeaconAbsent ==
    /\ build = CHOOSE b \in Builds : TRUE
    /\ verdict = "pending"
    /\ beacon = "off"
    /\ runner = "run"

\* configuration_failure: main reports the error and never goes on.
ConfigurationFailure ==
    /\ beacon = "main"
    /\ beacon_settings # "Ok"
    /\ verdict' = beacon_settings
    /\ beacon' = "halted"
    /\ UNCHANGED <<build, runner, mishaps>>

BeaconFrame == {Flags, IBeacon}

ScanResponse == {LocalName(NameLength)}

\* The task is spawned and encodes its two frames; when one does not fit,
\* advertise_forever returns and nothing is ever broadcast.
StartBeacon ==
    /\ beacon = "main"
    /\ beacon_settings = "Ok"
    /\ verdict' = "Ok"
    /\ beacon' = IF Encodes(BeaconFrame) /\ Encodes(ScanResponse)
                 THEN "advertise" ELSE "ended"
    /\ UNCHANGED <<build, runner, mishaps>>

\* The controller or the task is refused.
BeaconInitFailed ==
    /\ beacon = "main"
    /\ beacon_settings = "Ok"
    /\ Mishap
    /\ verdict' = "Ok"
    /\ beacon' = "off"
    /\ UNCHANGED <<build, runner>>

-----------------------------------------------------------------------------
(* advertise_forever.                                                      *)

BeaconStarted ==
    /\ beacon = "advertise" /\ runner = "run"
    /\ beacon' = "broadcast"
    /\ UNCHANGED <<build, verdict, runner, mishaps>>

BeaconFailed ==
    /\ beacon = "advertise"
    /\ Mishap
    /\ beacon' = "retry"
    /\ UNCHANGED <<build, verdict, runner>>

\* accept() returns: the controller stopped the advertisement.
BeaconStopped ==
    /\ beacon = "broadcast"
    /\ Mishap
    /\ beacon' = "retry"
    /\ UNCHANGED <<build, verdict, runner>>

BeaconRetryElapsed ==
    /\ beacon = "retry"
    /\ beacon' = "advertise"
    /\ UNCHANGED <<build, verdict, runner, mishaps>>

BeaconRunnerFailed ==
    /\ runner = "run" /\ beacon \in {"advertise", "broadcast", "retry"}
    /\ Mishap
    /\ runner' = "sleep"
    /\ UNCHANGED <<build, verdict, beacon>>

BeaconRunnerRestarted ==
    /\ runner = "sleep"
    /\ runner' = "run"
    /\ UNCHANGED <<build, verdict, beacon, mishaps>>

BeaconNext ==
    \/ ConfigurationFailure \/ StartBeacon \/ BeaconInitFailed
    \/ BeaconStarted \/ BeaconFailed \/ BeaconStopped \/ BeaconRetryElapsed
    \/ BeaconRunnerFailed \/ BeaconRunnerRestarted

-----------------------------------------------------------------------------
\* Every build whose settings pass the checks puts its frames on the air: the
\* checks leave nothing for the encoders of advertise_forever to refuse, which
\* would end the task without a configuration error.
AcceptedSettingsFit == beacon # "ended"

=============================================================================
