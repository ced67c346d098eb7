---------------------------- MODULE BluetoothAir ----------------------------
(***************************************************************************)
(* What the Bluetooth images of the repository share: legacy advertising   *)
(* frames, which the two advertisers encode and the scanner decodes, and a *)
(* bounded supply of controller failures.  A frame is a set of AD          *)
(* structures; of a structure the model keeps its type, its size in bytes  *)
(* and the leading bytes a decoder looks at.                               *)
(***************************************************************************)
EXTENDS Integers, FiniteSetsExt

CONSTANT MaxMishaps     \* bound on the failures of the controllers

ASSUME MishapsAssumption == MaxMishaps \in Nat

VARIABLE mishaps        \* history: failures spent

Mishap == mishaps < MaxMishaps /\ mishaps' = mishaps + 1

-----------------------------------------------------------------------------
(* Sizes in bytes.                                                         *)

FrameSize == 31             \* [0; 31], a legacy advertising packet
MaxDeviceName == 22         \* MAX_DEVICE_NAME_LEN
MaxBeaconName == 29         \* MAX_BEACON_NAME_LENGTH
LocalNameCapacity == 29     \* LOCAL_NAME_CAPACITY
IBeaconPayload == 23        \* IBEACON_PAYLOAD_LEN

\* DeviceName::new accepts the name.
IsDeviceName(n) == n \in 1 .. MaxDeviceName

-----------------------------------------------------------------------------
(* AD structures.                                                          *)

Flags == [type |-> "flags", size |-> 1]

\* A name is told from another by its size; a foreign one may not be UTF-8.
LocalName(n) == [type |-> "name", size |-> n, utf8 |-> TRUE]

Manufacturer(company, prefix, n) ==
    [type |-> "manufacturer", company |-> company, prefix |-> prefix,
     size |-> n]

ServiceData(uuid, prefix, n) ==
    [type |-> "service", uuid |-> uuid, prefix |-> prefix, size |-> n]

\* The company or service identifier takes two bytes of the structure.
Body(s) == s.size + (IF s.type \in {"manufacturer", "service"} THEN 2 ELSE 0)

\* AdStructure::encode_slice succeeds: each structure is preceded by its
\* length and its type.
Encodes(frame) == MapThenSumSet(LAMBDA s : 2 + Body(s), frame) <= FrameSize

\* IBeacon::manufacturer_payload: 02 15, UUID, major, minor, measured power.
IBeacon == Manufacturer("apple", "0215", 2 + 16 + 2 + 2 + 1)

-----------------------------------------------------------------------------
(* The scanner's AdvertisementMetadata.                                    *)

Eddystone == {"Eddystone-UID", "Eddystone-URL", "Eddystone-TLM", "Eddystone-EID"}

Formats == {"iBeacon", "AltBeacon", "Feasycom"} \cup Eddystone

\* Mutant: the iBeacon payload is taken to hold the company identifier too.
ShowsLonger(s, f) ==
    /\ f = "iBeacon"
    /\ s.type = "manufacturer"
    /\ s.company = "apple" /\ s.prefix = "0215" /\ s.size >= IBeaconPayload + 2

\* The structure marks its sender as a beacon of the format.
Shows(s, f) ==
    \/ /\ s.type = "manufacturer"
       /\ \/ /\ f = "iBeacon"
             /\ s.company = "apple" /\ s.prefix = "0215"
             /\ s.size >= IBeaconPayload
          \/ f = "AltBeacon" /\ s.prefix = "beac" /\ s.size >= 24
          \/ f = "Feasycom" /\ s.company = "feasycom"
    \/ /\ s.type = "service"
       /\ \/ f = "Feasycom" /\ s.uuid = "feasycom" /\ s.size >= 11
          \/ f \in Eddystone /\ s.uuid = "eddystone" /\ s.prefix = f

NoName == 0
NoCompany == "none"

\* LocalName::from_bytes: the name a structure carries, if it can be kept.
from_bytes(s) ==
    IF s.size \in 1 .. LocalNameCapacity /\ s.utf8 THEN s.size ELSE NoName

OrElse(S, default) == IF S = {} THEN {default} ELSE S

\* AdvertisementMetadata::parse: what the decoder can make of the frame.  Of
\* two structures of a type the last one counts, which is either of them.
parse(frame) ==
    [name : OrElse({from_bytes(s) : s \in {t \in frame : t.type = "name"}}, NoName),
     company : OrElse({s.company : s \in {t \in frame : t.type = "manufacturer"}},
                      NoCompany),
     formats : {{f \in Formats : \E s \in frame : Shows(s, f)}}]

=============================================================================
