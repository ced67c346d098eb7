------------------------ MODULE Neighbourhood_proofs ------------------------
(***************************************************************************)
(* Theorems about Neighbourhood, for every set of builds and of foreign    *)
(* frames, every name of the peripheral and every bound.                   *)
(***************************************************************************)
EXTENDS Neighbourhood, TLAPS

-----------------------------------------------------------------------------
(* The peripheral's status, and who was told of it.                        *)

\* NeverToldOlder without its premises on the connection, which no step needs.
ReplyIsCurrent == (told /\ reply # NoValue) => ~old

\* Each step of bluetooth_task keeps a pending reply current or the central
\* uninformed.
LEMMA PeripheralKeepsReplyCurrent ==
    ASSUME ReplyIsCurrent, PeripheralNext
    PROVE  ReplyIsCurrent'
<1> USE DEF ReplyIsCurrent
<1>1. CASE StartBluetooth
  BY <1>1 DEF StartBluetooth, history
<1>2. CASE AdvertiseStarted
  BY <1>2 DEF AdvertiseStarted, history
<1>3. CASE RetryElapsed
  BY <1>3 DEF RetryElapsed, history
<1>4. CASE NotifyDone
  BY <1>4 DEF NotifyDone
<1>5. CASE ReplySent
  BY <1>5 DEF ReplySent
<1>6. CASE Disconnected
  BY <1>6 DEF Disconnected, history
<1>7. CASE RunnerRestarted
  BY <1>7 DEF RunnerRestarted, history
<1>8. CASE SlotFreed
  BY <1>8 DEF SlotFreed, history
<1>9. CASE BluetoothInitFailed
  BY <1>9 DEF BluetoothInitFailed, history
<1>10. CASE AdvertiseFailed
  BY <1>10 DEF AdvertiseFailed, history
<1>11. CASE Accepted
  BY <1>11 DEF Accepted
<1>12. CASE NotifyStart
  BY <1>12 DEF NotifyStart
<1>13. CASE NotifyFailed
  BY <1>13 DEF NotifyFailed
<1>14. CASE ReadAccepted
  BY <1>14 DEF ReadAccepted
<1>15. CASE ReadRefused
  BY <1>15 DEF ReadRefused, peripheralVars, history
<1>16. CASE RunnerFailed
  BY <1>16 DEF RunnerFailed, history
<1>17. CASE CentralLeaves
  BY <1>17 DEF CentralLeaves, history
<1> QED
  BY <1>1, <1>2, <1>3, <1>4, <1>5, <1>6, <1>7, <1>8, <1>9, <1>10, <1>11,
     <1>12, <1>13, <1>14, <1>15, <1>16, <1>17
     DEF PeripheralNext, PeripheralProgress

\* The steps of the beacon and of the scanner leave the peripheral alone.
LEMMA OthersLeavePeripheral ==
    ASSUME Beacon \/ Scanner
    PROVE  UNCHANGED peripheralVars
BY DEF Beacon, Scanner, Hear, Record, Forget

\* A central that knows the current status is never told an older one, however
\* reads, notifications, disconnects and failures of the runner interleave.
THEOREM CentralNeverToldOlder == Spec => []NeverToldOlder
<1>1. Init => ReplyIsCurrent
  BY DEF Init, PeripheralInit, PeripheralAbsent, ReplyIsCurrent
<1>2. ReplyIsCurrent /\ [Next]_vars => ReplyIsCurrent'
  <2> SUFFICES ASSUME ReplyIsCurrent, [Next]_vars
               PROVE  ReplyIsCurrent'
    OBVIOUS
  <2>1. CASE Peripheral
    BY <2>1, PeripheralKeepsReplyCurrent DEF Peripheral
  <2>2. CASE UNCHANGED peripheralVars
    BY <2>2 DEF peripheralVars, history, ReplyIsCurrent
  <2> QED
    BY <2>1, <2>2, OthersLeavePeripheral DEF Next, vars
<1>3. ReplyIsCurrent => NeverToldOlder
  BY DEF ReplyIsCurrent, NeverToldOlder
<1> QED
  BY <1>1, <1>2, <1>3, PTL DEF Spec

-----------------------------------------------------------------------------
(* The sizes of frames.                                                    *)

\* The sum of Encodes over a frame of one structure.
LEMMA EncodesOne ==
    ASSUME NEW s, Body(s) \in Nat
    PROVE  Encodes({s}) <=> 2 + Body(s) <= FrameSize
<1> DEFINE Def(f) == [t \in SUBSET {s} |->
                        IF t = {} THEN 0
                        ELSE LET x == CHOOSE y \in t : TRUE
                             IN  (2 + Body(x)) + f[t \ {x}]]
           iter == CHOOSE f : f = Def(f)
           g == [t \in SUBSET {s} |-> IF t = {} THEN 0 ELSE 2 + Body(s)]
<1>1. g = Def(g)
  <2>1. ASSUME NEW t \in SUBSET {s}, t # {}
        PROVE  g[t] = LET x == CHOOSE y \in t : TRUE
                      IN  (2 + Body(x)) + g[t \ {x}]
    <3>1. t = {s}
      BY <2>1
    <3>2. (CHOOSE y \in t : TRUE) = s
      BY <3>1
    <3>3. t \ {s} = {} /\ g[{}] = 0
      BY <3>1
    <3> QED
      BY <3>1, <3>2, <3>3
  <2>2. \A t \in SUBSET {s} : g[t] = Def(g)[t]
    BY <2>1
  <2> QED
    BY <2>2
<1>2. iter = Def(iter)
  <2> HIDE DEF Def, g
  <2> QED
    BY <1>1
<1>3. Encodes({s}) <=> iter[{s}] <= FrameSize
  BY DEF Encodes, MapThenSumSet, MapThenFoldSet
<1> HIDE DEF iter
<1>4. iter[{}] = 0
  BY <1>2
<1>5. iter[{s}] = (2 + Body(s)) + iter[{}]
  <2>1. (CHOOSE y \in {s} : TRUE) = s /\ {s} \ {s} = {} /\ {s} # {}
    OBVIOUS
  <2> QED
    BY <1>2, <2>1
<1> HIDE DEF Def
<1> QED
  BY <1>3, <1>4, <1>5

\* The sum of Encodes over a frame of two structures, in whichever order they
\* are taken.
LEMMA EncodesTwo ==
    ASSUME NEW s, NEW t, s # t, Body(s) \in Nat, Body(t) \in Nat
    PROVE  Encodes({s, t}) <=> 4 + Body(s) + Body(t) <= FrameSize
<1> DEFINE F == {s, t}
           Def(f) == [u \in SUBSET F |->
                        IF u = {} THEN 0
                        ELSE LET x == CHOOSE y \in u : TRUE
                             IN  (2 + Body(x)) + f[u \ {x}]]
           iter == CHOOSE f : f = Def(f)
           g == [u \in SUBSET F |->
                    (IF s \in u THEN 2 + Body(s) ELSE 0)
                    + (IF t \in u THEN 2 + Body(t) ELSE 0)]
<1>1. g = Def(g)
  <2>1. ASSUME NEW u \in SUBSET F, u # {}
        PROVE  g[u] = LET x == CHOOSE y \in u : TRUE
                      IN  (2 + Body(x)) + g[u \ {x}]
    <3> DEFINE c == CHOOSE y \in u : TRUE
    <3>1. c \in u
      BY <2>1
    <3> HIDE DEF c
    <3>2. CASE c = s
      <4>1. s \in u /\ s \notin u \ {c} /\ (t \in u \ {c} <=> t \in u)
        BY <3>1, <3>2
      <4>2. u \ {c} \in SUBSET F
        OBVIOUS
      <4>3. g[u] = 2 + Body(s) + g[u \ {c}]
        BY <4>1, <4>2
      <4> QED
        BY <4>3, <3>2 DEF c
    <3>3. CASE c = t
      <4>1. t \in u /\ t \notin u \ {c} /\ (s \in u \ {c} <=> s \in u)
        BY <3>1, <3>3
      <4>2. u \ {c} \in SUBSET F
        OBVIOUS
      <4>3. g[u] = 2 + Body(t) + g[u \ {c}]
        BY <4>1, <4>2
      <4> QED
        BY <4>3, <3>3 DEF c
    <3> QED
      BY <3>1, <3>2, <3>3
  <2>2. g[{}] = 0
    OBVIOUS
  <2>3. \A u \in SUBSET F : g[u] = Def(g)[u]
    BY <2>1, <2>2
  <2> QED
    BY <2>3
<1>2. iter = Def(iter)
  <2> HIDE DEF Def, g
  <2> QED
    BY <1>1
<1>3. Encodes(F) <=> iter[F] <= FrameSize
  BY DEF Encodes, MapThenSumSet, MapThenFoldSet
<1> HIDE DEF iter
<1>4. iter[{}] = 0
  BY <1>2
<1>5. iter[{s}] = 2 + Body(s)
  <2>1. (CHOOSE y \in {s} : TRUE) = s /\ {s} \ {s} = {} /\ {s} # {}
    OBVIOUS
  <2>2. {s} \in SUBSET F
    OBVIOUS
  <2>3. iter[{s}] = (2 + Body(s)) + iter[{}]
    BY <1>2, <2>1, <2>2
  <2> QED
    BY <2>3, <1>4
<1>6. iter[{t}] = 2 + Body(t)
  <2>1. (CHOOSE y \in {t} : TRUE) = t /\ {t} \ {t} = {} /\ {t} # {}
    OBVIOUS
  <2>2. {t} \in SUBSET F
    OBVIOUS
  <2>3. iter[{t}] = (2 + Body(t)) + iter[{}]
    BY <1>2, <2>1, <2>2
  <2> QED
    BY <2>3, <1>4
<1>7. iter[F] = 4 + Body(s) + Body(t)
  <2> DEFINE c == CHOOSE y \in F : TRUE
  <2>1. c \in F
    OBVIOUS
  <2>2. iter[F] = (2 + Body(c)) + iter[F \ {c}]
    BY <1>2
  <2> HIDE DEF c
  <2>3. CASE c = s
    <3>1. F \ {c} = {t}
      BY <2>3
    <3> QED
      BY <2>2, <2>3, <3>1, <1>6
  <2>4. CASE c = t
    <3>1. F \ {c} = {s}
      BY <2>4
    <3> QED
      BY <2>2, <2>4, <3>1, <1>5
  <2> QED
    BY <2>1, <2>3, <2>4
<1> HIDE DEF Def
<1> QED
  BY <1>3, <1>7

\* The beacon's advertisement fits a packet.
LEMMA BeaconFrameFits == Encodes(BeaconFrame)
<1>1. Flags # IBeacon
  BY DEF Flags, IBeacon, Manufacturer
<1>2. Body(Flags) = 1 /\ Body(IBeacon) = 25
  BY DEF Body, Flags, IBeacon, Manufacturer
<1>3. Encodes({Flags, IBeacon})
            <=> 4 + Body(Flags) + Body(IBeacon) <= FrameSize
  <2>1. Body(Flags) \in Nat /\ Body(IBeacon) \in Nat
    BY <1>2
  <2> QED
    BY <1>1, <2>1, EncodesTwo, Zenon
<1> QED
  BY <1>2, <1>3 DEF BeaconFrame, FrameSize

\* A name that BeaconName accepts fits the scan response.
LEMMA BeaconNameFits ==
    ASSUME NEW n \in 1 .. MaxBeaconName
    PROVE  Encodes({LocalName(n)})
<1>1. Body(LocalName(n)) = n
  BY DEF Body, LocalName, MaxBeaconName
<1> QED
  BY <1>1, EncodesOne DEF FrameSize, MaxBeaconName

-----------------------------------------------------------------------------
(* The settings of the beacon.                                             *)

\* There are seven checks, and none is called "Ok".
LEMMA SevenChecks ==
    /\ DOMAIN Checks = 1 .. 7
    /\ \A i \in 1 .. 7 : Checks[i].error # "Ok"
<1>1. DOMAIN Checks = 1 .. 7
  BY DEF Checks
<1>2. \A i \in 1 .. 7 : Checks[i].error # "Ok"
  <2>1. Checks[1].error = "InvalidName"
    BY DEF Checks
  <2>2. Checks[2].error = "InvalidUuid"
    BY DEF Checks
  <2>3. Checks[3].error = "InvalidMajor"
    BY DEF Checks
  <2>4. Checks[4].error = "InvalidMinor"
    BY DEF Checks
  <2>5. Checks[5].error = "InvalidMeasuredPower"
    BY DEF Checks
  <2>6. Checks[6].error = "InvalidAdvertisingInterval"
    BY DEF Checks
  <2>7. Checks[7].error = "UnsupportedRadioTxPower"
    BY DEF Checks
  <2> QED
    BY <2>1, <2>2, <2>3, <2>4, <2>5, <2>6, <2>7
<1> QED
  BY <1>1, <1>2

\* beacon_settings reports the first check that fails, so there is one.
LEMMA FirstFailing ==
    ASSUME Failing # {}
    PROVE  Min(Failing) \in Failing
<1>1. Failing \subseteq 1 .. 7
  BY SevenChecks DEF Failing
<1>2. \A S \in SUBSET (1 .. 7) :
        S # {} => \E i \in S : \A j \in S : i <= j
  <2> SUFFICES ASSUME NEW S \in SUBSET (1 .. 7), S # {}
               PROVE  \E i \in S : \A j \in S : i <= j
    OBVIOUS
  <2> DEFINE Least == \E i \in S : \A j \in S : i <= j
  <2>1. S \subseteq 7 .. 7 => Least
    <3>1. PICK x \in S : TRUE
      OBVIOUS
    <3>2. S \subseteq 7 .. 7 => \A j \in S : x <= j
      BY <3>1
    <3> QED
      BY <3>1, <3>2
  <2>2. S \subseteq 6 .. 7 => Least
    <3>1. CASE 6 \in S
      BY <3>1
    <3>2. CASE 6 \notin S
      <4> HIDE DEF Least
      <4> QED
        BY <2>1, <3>2
    <3> QED
      BY <3>1, <3>2
  <2>3. S \subseteq 5 .. 7 => Least
    <3>1. CASE 5 \in S
      BY <3>1
    <3>2. CASE 5 \notin S
      <4> HIDE DEF Least
      <4> QED
        BY <2>2, <3>2
    <3> QED
      BY <3>1, <3>2
  <2>4. S \subseteq 4 .. 7 => Least
    <3>1. CASE 4 \in S
      BY <3>1
    <3>2. CASE 4 \notin S
      <4> HIDE DEF Least
      <4> QED
        BY <2>3, <3>2
    <3> QED
      BY <3>1, <3>2
  <2>5. S \subseteq 3 .. 7 => Least
    <3>1. CASE 3 \in S
      BY <3>1
    <3>2. CASE 3 \notin S
      <4> HIDE DEF Least
      <4> QED
        BY <2>4, <3>2
    <3> QED
      BY <3>1, <3>2
  <2>6. S \subseteq 2 .. 7 => Least
    <3>1. CASE 2 \in S
      BY <3>1
    <3>2. CASE 2 \notin S
      <4> HIDE DEF Least
      <4> QED
        BY <2>5, <3>2
    <3> QED
      BY <3>1, <3>2
  <2>7. S \subseteq 1 .. 7 => Least
    <3>1. CASE 1 \in S
      BY <3>1
    <3>2. CASE 1 \notin S
      <4> HIDE DEF Least
      <4> QED
        BY <2>6, <3>2
    <3> QED
      BY <3>1, <3>2
  <2> QED
    BY <2>7
<1>3. \E i \in Failing : \A j \in Failing : i <= j
  BY <1>1, <1>2
<1> QED
  BY <1>3 DEF Min

\* An accepted image passed every check.
LEMMA AcceptedPassesAll == (beacon_settings = "Ok") => Failing = {}
<1> SUFFICES ASSUME Failing # {}
             PROVE  beacon_settings # "Ok"
  OBVIOUS
<1>1. PICK i \in DOMAIN Checks : i = Min(Failing)
  BY FirstFailing DEF Failing
<1>2. beacon_settings = Checks[i].error
  BY <1>1 DEF beacon_settings
<1> QED
  BY <1>1, <1>2, SevenChecks

\* What beacon_settings returns.
LEMMA SettingsType == beacon_settings \in {"Ok"} \cup SettingsError
<1>1. CASE Failing = {}
  BY <1>1 DEF beacon_settings
<1>2. CASE Failing # {}
  <2>1. Min(Failing) \in DOMAIN Checks
    BY <1>2, FirstFailing DEF Failing
  <2> QED
    BY <1>2, <2>1 DEF beacon_settings, SettingsError
<1> QED
  BY <1>1, <1>2

\* Whatever settings a build has, the frames of an accepted image encode.
LEMMA AcceptedFramesFit ==
    ASSUME build \in Builds, beacon_settings = "Ok"
    PROVE  Encodes(BeaconFrame) /\ Encodes(ScanResponse)
<1>1. IsBeaconName(build.name)
  <2>1. 1 \in DOMAIN Checks /\ Checks[1].passes = IsBeaconName(build.name)
    BY DEF Checks
  <2> QED
    BY <2>1, AcceptedPassesAll DEF Failing
<1>2. NameLength \in 1 .. MaxBeaconName
  BY <1>1 DEF IsBeaconName, NameLength, GeneratedName, MaxBeaconName, Unset
<1>3. Encodes(ScanResponse)
  BY <1>2, BeaconNameFits DEF ScanResponse
<1> QED
  BY <1>3, BeaconFrameFits

\* The settings and the task of the beacon, with types.
BeaconInv == BeaconTypeOK /\ AcceptedSettingsFit

\* A step of the beacon firmware.
LEMMA BeaconKeepsInv ==
    ASSUME BeaconInv, BeaconNext
    PROVE  BeaconInv'
<1>1. build' = build
  BY DEF BeaconNext, ConfigurationFailure, StartBeacon, BeaconInitFailed,
         BeaconStarted, BeaconFailed, BeaconStopped, BeaconRetryElapsed,
         BeaconRunnerFailed, BeaconRunnerRestarted
<1>2. SettingsError' = SettingsError
  BY <1>1 DEF SettingsError, Checks, IsBeaconName, parse_optional, IsInterval
<1> USE <1>1, <1>2 DEF BeaconInv, BeaconTypeOK, AcceptedSettingsFit
<1>3. CASE ConfigurationFailure
  BY <1>3, SettingsType DEF ConfigurationFailure
<1>4. CASE StartBeacon
  BY <1>4, AcceptedFramesFit DEF StartBeacon
<1>5. CASE BeaconInitFailed
  BY <1>5 DEF BeaconInitFailed
<1>6. CASE BeaconStarted
  BY <1>6 DEF BeaconStarted
<1>7. CASE BeaconFailed
  BY <1>7 DEF BeaconFailed
<1>8. CASE BeaconStopped
  BY <1>8 DEF BeaconStopped
<1>9. CASE BeaconRetryElapsed
  BY <1>9 DEF BeaconRetryElapsed
<1>10. CASE BeaconRunnerFailed
  BY <1>10 DEF BeaconRunnerFailed
<1>11. CASE BeaconRunnerRestarted
  BY <1>11 DEF BeaconRunnerRestarted
<1> QED
  BY <1>3, <1>4, <1>5, <1>6, <1>7, <1>8, <1>9, <1>10, <1>11 DEF BeaconNext

\* The steps of the peripheral and of the scanner leave the beacon alone.
LEMMA OthersLeaveBeacon ==
    ASSUME Peripheral \/ Scanner
    PROVE  UNCHANGED beaconVars
BY DEF Peripheral, Scanner, Hear, Record, Forget

\* The beacon's part of the invariant holds of every behaviour.
LEMMA BeaconInvariant == Spec => []BeaconInv
<1>1. Init => BeaconInv
  <2>1. BeaconInit => BeaconInv
    BY DEF BeaconInit, BeaconInv, BeaconTypeOK, AcceptedSettingsFit
  <2>2. BeaconAbsent => BeaconInv
    BY BuildsAssumption
       DEF BeaconAbsent, BeaconInv, BeaconTypeOK, AcceptedSettingsFit
  <2> QED
    BY <2>1, <2>2 DEF Init
<1>2. BeaconInv /\ [Next]_vars => BeaconInv'
  <2> SUFFICES ASSUME BeaconInv, [Next]_vars
               PROVE  BeaconInv'
    OBVIOUS
  <2>1. CASE Beacon
    BY <2>1, BeaconKeepsInv DEF Beacon
  <2>2. CASE UNCHANGED beaconVars
    <3>1. SettingsError' = SettingsError
      BY <2>2 DEF beaconVars, SettingsError, Checks, IsBeaconName,
                  parse_optional, IsInterval
    <3> QED
      BY <2>2, <3>1 DEF beaconVars, BeaconInv, BeaconTypeOK, AcceptedSettingsFit
  <2> QED
    BY <2>1, <2>2, OthersLeaveBeacon DEF Next, vars
<1> QED
  BY <1>1, <1>2, PTL DEF Spec

\* Every build whose settings pass the checks puts its frames on the air,
\* whatever the settings are: no accepted name, and no other setting, leaves
\* the encoders of advertise_forever anything to refuse.
THEOREM BeaconSettingsFit == Spec => []AcceptedSettingsFit
<1>1. BeaconInv => AcceptedSettingsFit
  BY DEF BeaconInv
<1> QED
  BY <1>1, BeaconInvariant, PTL

-----------------------------------------------------------------------------
(* Types.                                                                  *)

\* What the three devices can put on the air, in one set.
Frames ==
    {BeaconFrame, PeripheralFrame} \cup {{LocalName(n)} : n \in Nat}
    \cup ForeignFrames

Reports == [from : Devices, frame : Frames]

\* The label fields an entry keeps.
IsEntry(e) ==
    e \in [used : {TRUE}, name : 0 .. LocalNameCapacity, company : {e.company},
           formats : SUBSET Formats]

\* The scanner's part of the invariant: what waits for the registry came from
\* a device in range, and an entry holds labels.
ScannerTypeOK ==
    /\ mishaps \in 0 .. MaxMishaps
    /\ queued \in Seq(Reports)
    /\ Len(queued) <= MaxQueued
    /\ labels = [d \in Devices |-> labels[d]]
    /\ recorded \in [Devices -> SUBSET Frames]
    /\ \A d \in Devices : labels[d] = NoEntry \/ IsEntry(labels[d])

\* Whatever a device advertises is a frame.
LEMMA OnAirFrames ==
    ASSUME BeaconTypeOK, NEW d \in Devices
    PROVE  OnAir(d) \subseteq Frames
<1>1. NameLength \in Nat
  BY BuildsAssumption DEF BeaconTypeOK, NameLength, GeneratedName, Unset
<1>2. ScanResponse \in Frames
  BY <1>1 DEF ScanResponse, Frames
<1> QED
  BY <1>2 DEF OnAir, Frames, Devices

\* What the decoder makes of a frame, whatever the frame.
LEMMA ParseType ==
    ASSUME NEW frame, NEW m \in parse(frame)
    PROVE  /\ m = [name |-> m.name, company |-> m.company,
                   formats |-> m.formats]
           /\ m.name \in 0 .. LocalNameCapacity
           /\ m.formats \subseteq Formats
<1> DEFINE N == {from_bytes(s) : s \in {t \in frame : t.type = "name"}}
<1>1. \A n \in N : n \in 0 .. LocalNameCapacity
  BY DEF from_bytes, LocalNameCapacity, NoName
<1>2. OrElse(N, NoName) \subseteq 0 .. LocalNameCapacity
  BY <1>1 DEF OrElse, NoName, LocalNameCapacity
<1> HIDE DEF N
<1>3. /\ m = [name |-> m.name, company |-> m.company, formats |-> m.formats]
      /\ m.name \in OrElse(N, NoName)
      /\ m.formats = {f \in Formats : \E s \in frame : Shows(s, f)}
  BY DEF parse, N
<1> QED
  BY <1>2, <1>3

\* An entry made from a report, and one a report was merged into.
LEMMA EntryType ==
    ASSUME NEW frame, NEW m \in parse(frame)
    PROVE  /\ IsEntry(Entry(m))
           /\ \A e : IsEntry(e) => IsEntry(Merged(e, m))
<1>1. IsEntry(Entry(m))
  BY ParseType DEF IsEntry, Entry
<1>2. ASSUME NEW e, IsEntry(e)
      PROVE  IsEntry(Merged(e, m))
  <2> DEFINE name == IF m.name # NoName THEN m.name ELSE e.name
             company == IF m.company # NoCompany THEN m.company ELSE e.company
             formats == e.formats \cup m.formats
  <2>1. name \in 0 .. LocalNameCapacity /\ formats \in SUBSET Formats
    BY <1>2, ParseType DEF IsEntry
  <2>2. Merged(e, m) = [e EXCEPT !.name = name, !.company = company,
                                 !.formats = formats]
    BY DEF Merged
  <2> HIDE DEF name, company, formats
  <2>3. Merged(e, m) \in [used : {TRUE}, name : {name}, company : {company},
                          formats : {formats}]
    BY <1>2, <2>2 DEF IsEntry
  <2>4. Merged(e, m).company = company
    BY <2>3
  <2> QED
    BY <2>1, <2>3, <2>4 DEF IsEntry
<1> QED
  BY <1>1, <1>2

\* A step of the scanner.
LEMMA ScannerKeepsType ==
    ASSUME ScannerTypeOK, BeaconTypeOK, Scanner
    PROVE  ScannerTypeOK'
<1> USE DEF ScannerTypeOK
<1>1. ASSUME NEW d \in Devices, NEW frame \in OnAir(d), Hear(d, frame)
      PROVE  ScannerTypeOK'
  <2>1. [from |-> d, frame |-> frame] \in Reports
    BY OnAirFrames DEF Reports
  <2>2. queued' \in Seq(Reports) /\ Len(queued') = Len(queued) + 1
    BY <1>1, <2>1 DEF Hear
  <2> QED
    BY <1>1, <2>2, NeighbourhoodAssumption DEF Hear
<1>2. CASE Record
  <2> DEFINE d == Head(queued).from
             frame == Head(queued).frame
  <2>1. Head(queued) \in Reports /\ Tail(queued) \in Seq(Reports)
        /\ Len(Tail(queued)) <= MaxQueued
    BY <1>2, NeighbourhoodAssumption DEF Record
  <2>2. d \in Devices /\ frame \in Frames
    BY <2>1 DEF Reports
  <2>3. PICK m \in parse(frame) :
            labels' = [labels EXCEPT ![d] = IF Known(d) THEN Merged(@, m)
                                            ELSE Entry(m)]
    BY <1>2 DEF Record
  <2>4. recorded' = [recorded EXCEPT ![d] = @ \cup {frame}]
    BY <1>2 DEF Record
  <2>5. UNCHANGED mishaps /\ queued' = Tail(queued)
    BY <1>2 DEF Record
  <2> HIDE DEF d, frame
  <2>6. \A e \in Devices : labels'[e] = NoEntry \/ IsEntry(labels'[e])
    <3>1. labels[d] = NoEntry => ~Known(d)
      BY DEF Known, NoEntry
    <3>2. labels'[d] = NoEntry \/ IsEntry(labels'[d])
      BY <2>2, <2>3, <3>1, EntryType
    <3> QED
      BY <2>3, <3>2
  <2>7. labels' = [e \in Devices |-> labels'[e]]
    BY <2>3
  <2>8. recorded' \in [Devices -> SUBSET Frames]
    BY <2>2, <2>4
  <2> QED
    BY <2>1, <2>5, <2>6, <2>7, <2>8
<1>3. ASSUME NEW d \in Devices, Forget(d)
      PROVE  ScannerTypeOK'
  <2>1. labels' = [e \in Devices |-> labels'[e]]
    BY <1>3 DEF Forget
  <2>2. recorded' \in [Devices -> SUBSET Frames]
    BY <1>3 DEF Forget
  <2>3. \A e \in Devices : labels'[e] = NoEntry \/ IsEntry(labels'[e])
    BY <1>3 DEF Forget
  <2> QED
    BY <1>3, <2>1, <2>2, <2>3 DEF Forget
<1> QED
  BY <1>1, <1>2, <1>3 DEF Scanner

\* The failures of the advertisers stay within their bound.
LEMMA MishapsBounded ==
    ASSUME mishaps \in 0 .. MaxMishaps, Peripheral \/ Beacon
    PROVE  mishaps' \in 0 .. MaxMishaps
<1>1. Mishap => mishaps' \in 0 .. MaxMishaps
  BY MishapsAssumption DEF Mishap
<1> QED
  BY <1>1 DEF Peripheral, Beacon, PeripheralNext, PeripheralProgress, BeaconNext,
       StartBluetooth, AdvertiseStarted, RetryElapsed, NotifyDone, ReplySent,
       Disconnected, RunnerRestarted, SlotFreed, BluetoothInitFailed,
       AdvertiseFailed, Accepted, NotifyStart, NotifyFailed, ReadAccepted,
       ReadRefused, RunnerFailed, CentralLeaves, ConfigurationFailure,
       StartBeacon, BeaconInitFailed, BeaconStarted, BeaconFailed,
       BeaconStopped, BeaconRetryElapsed, BeaconRunnerFailed,
       BeaconRunnerRestarted

\* The scanner's part of the type invariant.
LEMMA ScannerTypes == Spec => []ScannerTypeOK
<1>1. Init => ScannerTypeOK
  BY MishapsAssumption, NeighbourhoodAssumption DEF Init, ScannerTypeOK
<1>2. ScannerTypeOK /\ BeaconInv /\ [Next]_vars => ScannerTypeOK'
  <2> SUFFICES ASSUME ScannerTypeOK, BeaconInv, [Next]_vars
               PROVE  ScannerTypeOK'
    OBVIOUS
  <2>1. CASE Scanner
    BY <2>1, ScannerKeepsType DEF BeaconInv
  <2>2. CASE Peripheral \/ Beacon
    <3>1. UNCHANGED scannerVars
      BY <2>2 DEF Peripheral, Beacon
    <3> QED
      BY <2>2, <3>1, MishapsBounded DEF ScannerTypeOK, scannerVars
  <2>3. CASE UNCHANGED vars
    BY <2>3 DEF vars, scannerVars, ScannerTypeOK
  <2> QED
    BY <2>1, <2>2, <2>3 DEF Next
<1> QED
  BY <1>1, <1>2, BeaconInvariant, PTL DEF Spec

\* A step of the peripheral.
LEMMA PeripheralKeepsType ==
    ASSUME PeripheralTypeOK, PeripheralNext
    PROVE  PeripheralTypeOK'
<1> USE DEF PeripheralTypeOK, history
<1>1. CASE StartBluetooth
  BY <1>1 DEF StartBluetooth
<1>2. CASE AdvertiseStarted
  BY <1>2 DEF AdvertiseStarted
<1>3. CASE RetryElapsed
  BY <1>3 DEF RetryElapsed
<1>4. CASE NotifyDone
  BY <1>4 DEF NotifyDone
<1>5. CASE ReplySent
  BY <1>5 DEF ReplySent
<1>6. CASE Disconnected
  BY <1>6 DEF Disconnected
<1>7. CASE RunnerRestarted
  BY <1>7 DEF RunnerRestarted
<1>8. CASE SlotFreed
  BY <1>8 DEF SlotFreed
<1>9. CASE BluetoothInitFailed
  BY <1>9 DEF BluetoothInitFailed
<1>10. CASE AdvertiseFailed
  BY <1>10 DEF AdvertiseFailed
<1>11. CASE Accepted
  <2>1. 0 \in Bytes
    BY PeripheralAssumption DEF Bytes
  <2> QED
    BY <1>11, <2>1 DEF Accepted
<1>12. CASE NotifyStart
  <2>1. \A v \in Bytes : (v + 1) % (ByteMax + 1) \in Bytes
    BY PeripheralAssumption DEF Bytes
  <2>2. value' \in Bytes /\ status' \in Bytes
    BY <1>12, <2>1 DEF NotifyStart
  <2> QED
    BY <1>12, <2>2 DEF NotifyStart
<1>13. CASE NotifyFailed
  BY <1>13 DEF NotifyFailed
<1>14. CASE ReadAccepted
  BY <1>14 DEF ReadAccepted
<1>15. CASE ReadRefused
  BY <1>15 DEF ReadRefused, peripheralVars
<1>16. CASE RunnerFailed
  BY <1>16 DEF RunnerFailed
<1>17. CASE CentralLeaves
  BY <1>17 DEF CentralLeaves
<1> QED
  BY <1>1, <1>2, <1>3, <1>4, <1>5, <1>6, <1>7, <1>8, <1>9, <1>10, <1>11,
     <1>12, <1>13, <1>14, <1>15, <1>16, <1>17
     DEF PeripheralNext, PeripheralProgress

\* Every variable of the neighbourhood keeps its type: the notifier's counter
\* wraps, a verdict is one of beacon_settings, the queue keeps its bound, and a
\* merged entry holds a name the scanner can keep and formats it knows.
THEOREM NeighbourhoodTypeCorrect == Spec => []TypeOK
<1>1. Init => PeripheralTypeOK
  <2>1. 0 \in Bytes
    BY PeripheralAssumption DEF Bytes
  <2> QED
    BY <2>1, Zenon
       DEF Init, PeripheralInit, PeripheralAbsent, PeripheralTypeOK
<1>2. PeripheralTypeOK /\ [Next]_vars => PeripheralTypeOK'
  <2> SUFFICES ASSUME PeripheralTypeOK, [Next]_vars
               PROVE  PeripheralTypeOK'
    OBVIOUS
  <2>1. CASE Peripheral
    BY <2>1, PeripheralKeepsType DEF Peripheral
  <2>2. CASE UNCHANGED peripheralVars
    BY <2>2 DEF peripheralVars, history, PeripheralTypeOK
  <2> QED
    BY <2>1, <2>2, OthersLeavePeripheral DEF Next, vars
<1>3. PeripheralTypeOK /\ BeaconInv /\ ScannerTypeOK => TypeOK
  <2> SUFFICES ASSUME PeripheralTypeOK, BeaconInv, ScannerTypeOK
               PROVE  TypeOK
    OBVIOUS
  <2>1. ASSUME NEW d \in Devices, Known(d)
        PROVE  IsEntry(labels[d])
    BY <2>1 DEF ScannerTypeOK, Known, NoEntry
  <2> QED
    BY <2>1 DEF TypeOK, BeaconInv, ScannerTypeOK, IsEntry
<1> QED
  BY <1>1, <1>2, <1>3, BeaconInvariant, ScannerTypes, PTL DEF Spec

-----------------------------------------------------------------------------
(* Labels.                                                                 *)

\* The formats a frame shows.
FormatsOf(frame) == {f \in Formats : \E s \in frame : Shows(s, f)}

\* Whatever the decoder makes of a frame has these formats.
LEMMA ParseFormats ==
    ASSUME NEW frame
    PROVE  \A m \in parse(frame) : m.formats = FormatsOf(frame)
BY DEF parse, FormatsOf

\* The labels e are those of the frames R.
LabelsOf(e, R) ==
    /\ e.formats = UNION {FormatsOf(frame) : frame \in R}
    /\ IF e.name = NoName
       THEN \A frame \in R : \E m \in parse(frame) : m.name = NoName
       ELSE \E frame \in R : \E m \in parse(frame) : m.name = e.name
    /\ IF e.company = NoCompany
       THEN \A frame \in R : \E m \in parse(frame) : m.company = NoCompany
       ELSE \E frame \in R : \E m \in parse(frame) : m.company = e.company

\* A new entry has the labels of its frame.
LEMMA EntryLabels ==
    ASSUME NEW frame, NEW m \in parse(frame)
    PROVE  LabelsOf(Entry(m), {frame})
<1>1. UNION {FormatsOf(g) : g \in {frame}} = FormatsOf(frame)
  OBVIOUS
<1>2. m.formats = FormatsOf(frame)
  BY ParseFormats
<1> QED
  BY <1>1, <1>2 DEF LabelsOf, Entry

\* Merging adds the labels of one more frame and takes none away.
LEMMA MergedLabels ==
    ASSUME NEW e, IsEntry(e), NEW R, LabelsOf(e, R), NEW frame, NEW m \in parse(frame)
    PROVE  LabelsOf(Merged(e, m), R \cup {frame})
<1>1. UNION {FormatsOf(g) : g \in R \cup {frame}}
        = (UNION {FormatsOf(g) : g \in R}) \cup FormatsOf(frame)
  OBVIOUS
<1>2. /\ Merged(e, m).formats = e.formats \cup m.formats
      /\ Merged(e, m).name = IF m.name # NoName THEN m.name ELSE e.name
      /\ Merged(e, m).company =
            IF m.company # NoCompany THEN m.company ELSE e.company
  BY DEF IsEntry, Merged
<1>3. m.formats = FormatsOf(frame)
  BY ParseFormats
<1> DEFINE n == Merged(e, m)
<1>4. n.formats = UNION {FormatsOf(g) : g \in R \cup {frame}}
  BY <1>1, <1>2, <1>3 DEF LabelsOf
<1>5. IF n.name = NoName
      THEN \A g \in R \cup {frame} : \E x \in parse(g) : x.name = NoName
      ELSE \E g \in R \cup {frame} : \E x \in parse(g) : x.name = n.name
  <2> HIDE DEF n
  <2>1. n.name = IF m.name # NoName THEN m.name ELSE e.name
    BY <1>2 DEF n
  <2> QED
    BY <2>1 DEF LabelsOf
<1>6. IF n.company = NoCompany
      THEN \A g \in R \cup {frame} : \E x \in parse(g) : x.company = NoCompany
      ELSE \E g \in R \cup {frame} : \E x \in parse(g) : x.company = n.company
  <2> HIDE DEF n
  <2>1. n.company = IF m.company # NoCompany THEN m.company ELSE e.company
    BY <1>2 DEF n
  <2> QED
    BY <2>1 DEF LabelsOf
<1> QED
  BY <1>4, <1>5, <1>6 DEF LabelsOf

\* The decoder makes something of every frame.
LEMMA ParseSomething ==
    ASSUME NEW frame
    PROVE  \E m \in parse(frame) : TRUE
<1> DEFINE N == {from_bytes(s) : s \in {t \in frame : t.type = "name"}}
           C == {s.company : s \in {t \in frame : t.type = "manufacturer"}}
<1>1. parse(frame) = [name : OrElse(N, NoName), company : OrElse(C, NoCompany),
                      formats : {FormatsOf(frame)}]
  BY DEF parse, FormatsOf
<1> HIDE DEF N, C
<1>2. PICK n \in OrElse(N, NoName) : TRUE
  BY DEF OrElse
<1>3. PICK c \in OrElse(C, NoCompany) : TRUE
  BY DEF OrElse
<1>4. [name |-> n, company |-> c, formats |-> FormatsOf(frame)] \in parse(frame)
  BY <1>1
<1> QED
  BY <1>4

\* So the formats of what was made of some frames are the formats they show.
LEMMA FormatsOfAll ==
    ASSUME NEW R
    PROVE  UNION {m.formats : m \in UNION {parse(frame) : frame \in R}}
             = UNION {FormatsOf(frame) : frame \in R}
<1> DEFINE M == UNION {parse(frame) : frame \in R}
<1>1. \A m \in M : \E frame \in R : m.formats = FormatsOf(frame)
  BY ParseFormats
<1>2. \A frame \in R : \E m \in M : m.formats = FormatsOf(frame)
  <2> SUFFICES ASSUME NEW frame \in R
               PROVE  \E m \in M : m.formats = FormatsOf(frame)
    OBVIOUS
  <2>1. PICK m \in parse(frame) : TRUE
    BY ParseSomething
  <2>2. m.formats = FormatsOf(frame) /\ m \in M
    BY ParseFormats
  <2> QED
    BY <2>2
<1> HIDE DEF M
<1>3. UNION {m.formats : m \in M} = UNION {FormatsOf(frame) : frame \in R}
  BY <1>1, <1>2
<1> QED
  BY <1>3 DEF M

\* What LabelsAccumulate says of one device, with the names above.
LEMMA LabelsRestated ==
    LabelsAccumulate
        <=> \A d \in Devices : Known(d) => LabelsOf(labels[d], recorded[d])
<1>1. \A R, x : (\E m \in UNION {parse(frame) : frame \in R} : m.name = x)
                  <=> \E frame \in R : \E m \in parse(frame) : m.name = x
  OBVIOUS
<1>2. \A R, x : (\E m \in UNION {parse(frame) : frame \in R} : m.company = x)
                  <=> \E frame \in R : \E m \in parse(frame) : m.company = x
  OBVIOUS
<1> QED
  BY <1>1, <1>2, FormatsOfAll DEF LabelsAccumulate, LabelsOf

\* Each device's labels and its history, in the form the steps keep.
LabelsKept ==
    \A d \in Devices :
        /\ Known(d) => LabelsOf(labels[d], recorded[d])
        /\ ~Known(d) => recorded[d] = {}

\* A step of the scanner keeps every entry's labels complete.
LEMMA ScannerKeepsLabels ==
    ASSUME ScannerTypeOK, LabelsKept, Scanner
    PROVE  LabelsKept'
<1>1. ASSUME NEW d \in Devices, NEW frame \in OnAir(d), Hear(d, frame)
      PROVE  LabelsKept'
  BY <1>1 DEF Hear, LabelsKept, Known
<1>2. CASE Record
  <2>1. Head(queued) \in Reports
    BY <1>2 DEF Record, ScannerTypeOK
  <2>2. PICK d \in Devices, frame \in Frames :
            d = Head(queued).from /\ frame = Head(queued).frame
    BY <2>1 DEF Reports
  <2>3. PICK m \in parse(frame) :
            labels' = [labels EXCEPT ![d] = IF Known(d) THEN Merged(@, m)
                                            ELSE Entry(m)]
    BY <1>2, <2>2 DEF Record
  <2>4. recorded' = [recorded EXCEPT ![d] = @ \cup {frame}]
    BY <1>2, <2>2 DEF Record
  <2>5. recorded'[d] = recorded[d] \cup {frame}
    BY <2>2, <2>4 DEF ScannerTypeOK
  <2>6. CASE Known(d)
    <3>1. IsEntry(labels[d])
      BY <2>2, <2>6 DEF ScannerTypeOK, Known, NoEntry
    <3>2. labels'[d] = Merged(labels[d], m)
      BY <2>2, <2>3, <2>6 DEF ScannerTypeOK
    <3>3. LabelsOf(labels'[d], recorded'[d])
      BY <2>2, <2>3, <2>5, <2>6, <3>1, <3>2, MergedLabels DEF LabelsKept
    <3>4. Known(d)'
      BY <3>1, <3>2 DEF Known, Merged, IsEntry
    <3> QED
      BY <2>2, <2>3, <2>4, <3>3, <3>4 DEF LabelsKept, Known, ScannerTypeOK
  <2>7. CASE ~Known(d)
    <3>1. recorded'[d] = {frame}
      BY <2>2, <2>5, <2>7 DEF LabelsKept
    <3>2. labels'[d] = Entry(m)
      BY <2>2, <2>3, <2>7 DEF ScannerTypeOK
    <3>3. LabelsOf(labels'[d], recorded'[d])
      BY <2>3, <3>1, <3>2, EntryLabels
    <3>4. Known(d)'
      BY <3>2 DEF Known, Entry
    <3> QED
      BY <2>2, <2>3, <2>4, <3>3, <3>4 DEF LabelsKept, Known, ScannerTypeOK
  <2> QED
    BY <2>6, <2>7
<1>3. ASSUME NEW d \in Devices, Forget(d)
      PROVE  LabelsKept'
  <2>1. ~Known(d)' /\ recorded'[d] = {}
    BY <1>3 DEF Forget, Known, NoEntry, ScannerTypeOK
  <2> QED
    BY <1>3, <2>1 DEF Forget, LabelsKept, Known, ScannerTypeOK
<1> QED
  BY <1>1, <1>2, <1>3 DEF Scanner

\* In whatever order and however often the frames of a device arrive, its
\* entry has the labels of all of them: a scan response without beacon data
\* does not take away what the advertisement brought, nor the other way round.
THEOREM ScannerLabelsAccumulate == Spec => []LabelsAccumulate
<1>1. Init => LabelsKept
  BY DEF Init, LabelsKept, Known, NoEntry
<1>2. LabelsKept /\ ScannerTypeOK /\ [Next]_vars => LabelsKept'
  <2> SUFFICES ASSUME LabelsKept, ScannerTypeOK, [Next]_vars
               PROVE  LabelsKept'
    OBVIOUS
  <2>1. CASE Scanner
    BY <2>1, ScannerKeepsLabels
  <2>2. CASE UNCHANGED scannerVars
    BY <2>2 DEF scannerVars, LabelsKept, Known
  <2> QED
    BY <2>1, <2>2 DEF Next, vars, Peripheral, Beacon
<1>3. LabelsKept => LabelsAccumulate
  BY LabelsRestated DEF LabelsKept
<1> QED
  BY <1>1, <1>2, <1>3, ScannerTypes, PTL DEF Spec

=============================================================================
