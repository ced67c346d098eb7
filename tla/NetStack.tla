------------------------------ MODULE NetStack ------------------------------
(***************************************************************************)
(* The IP stack as the firmware's tasks see it: the link, the DHCPv4       *)
(* lease, and the level-triggered waits the adapter                        *)
(* crates/networking-embassy-net builds on them.  embassy-net is not part  *)
(* of the repository; its transitions are external.                        *)
(***************************************************************************)

CONSTANT
    Leases      \* the kinds of DHCP lease the access point hands out

(* "dns"     an IPv4 configuration with at least one DNS server            *)
(* "nodns"   an IPv4 configuration without DNS server                      *)
(* "invalid" a configuration Ipv4Configuration::new or DnsServers::new     *)
(*           refuses, so that EmbassyNetwork::snapshot() fails             *)
LeaseKinds == {"dns", "nodns", "invalid"}

ASSUME LeasesAssumption == Leases \subseteq LeaseKinds /\ Leases # {}

VARIABLES
    link,       \* LinkState: "up" or "down"
    lease       \* stack.config_v4(): "none" or the kind of the active lease

netVars == <<link, lease>>

NetTypeOK ==
    /\ link \in {"up", "down"}
    /\ lease \in Leases \cup {"none"}

NetInit ==
    /\ link = "down"
    /\ lease = "none"

-----------------------------------------------------------------------------
(* embassy-net's own steps.                                                *)

LinkUp ==
    /\ link = "down"
    /\ link' = "up"
    /\ UNCHANGED lease

\* The runner drops the configuration in the poll that sees the link go.
LinkDown ==
    /\ link = "up"
    /\ link' = "down"
    /\ lease' = "none"

LeaseAcquired(l) ==
    /\ link = "up"
    /\ lease = "none"
    /\ lease' = l
    /\ UNCHANGED link

\* Expiry or a DHCP NAK while the link stays up.
LeaseLost ==
    /\ lease # "none"
    /\ lease' = "none"
    /\ UNCHANGED link

\* A renewal replaces one configuration by another without passing "none".
LeaseRenewed(l) ==
    /\ lease # "none"
    /\ l # lease
    /\ lease' = l
    /\ UNCHANGED link

-----------------------------------------------------------------------------
(* What the portable snapshot and the adapter's waits tell a task.         *)

SnapshotFails == lease = "invalid"

\* Mutant: IP readiness asks for DNS.
IsIpReadyWithDns == link = "up" /\ lease = "dns"

IsIpReady == link = "up" /\ lease # "none" /\ ~SnapshotFails

IsDnsReady == IsIpReady /\ lease = "dns"

\* wait_ip_ready() returns, with a snapshot or with a conversion error.
IpReadyReturns == link = "up" /\ lease # "none"

\* resolve_ipv4() can find an address: it needs a DNS server of the lease.  An
\* answer without A records or with more than the caller has room for is an
\* error like a failed query.
ResolveReturns == lease = "dns"

\* wait_ip_down() returns: the stack has no IP configuration.
IpDownReturns == lease = "none"

=============================================================================
