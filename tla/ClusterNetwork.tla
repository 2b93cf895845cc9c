--------------------------- MODULE ClusterNetwork ---------------------------
(***************************************************************************)
(* How "yinstall db" picks the addresses of a YAC cluster: one VIP per     *)
(* host, a SCAN address, the public network and the interconnect           *)
(* (steps/db/db_vip_check.go, db_precheck_scan_ip_alloc.go and             *)
(* db_precheck_network_validate.go).  Pure operators.                      *)
(*                                                                         *)
(* An address is a number below Top, a network a block of Block of them; a *)
(* host has a sequence of interfaces [cidr, name], its own address on the  *)
(* first.                                                                  *)
(***************************************************************************)
EXTENDS Naturals, Sequences, FiniteSets, SequencesExt, FiniteSetsExt, TLC

CONSTANTS Top,                   \* 255.255.255.255
          Block,                 \* size of a network
          Attempts               \* maxVIPSearchAttempts

ASSUME TopAssumption == Top \in Nat /\ Block \in Nat \ {0} /\ Attempts \in Nat \ {0}

None == 0                        \* no address, no network: the empty string
CIDR(a) == 1 + (a \div Block)
Interfaces == [cidr : Nat \ {None}, name : Nat]

-----------------------------------------------------------------------------
(* The address after a, at most Attempts further on, that nobody holds.    *)
Candidates(a) == {c \in (a + 1)..(a + Attempts) : c <= Top}
Search(a, taken) ==
    LET free == Candidates(a) \ taken IN IF free = {} THEN None ELSE Min(free)

(* A VIP for each host in turn: no host's, none chosen so far, and not in  *)
(* use by others, which a ping from the host shows.                        *)
ChooseVIPs(hosts, others) ==
    CHOOSE vips \in [DOMAIN hosts -> 0..Top] :
        \A i \in DOMAIN hosts :
            vips[i] = Search(hosts[i], ToSet(hosts) \cup {vips[j] : j \in 1..(i - 1)} \cup others)

(* --yac-vips: as many as hosts, and none answers.  Nothing compares them. *)
GivenVIPs(hosts, given, others) ==
    IF Len(given) = Len(hosts) /\ ToSet(given) \cap others = {} THEN given ELSE <<None>>

VIPsOf(hosts, given, others) ==
    IF given = <<>> THEN ChooseVIPs(hosts, others) ELSE GivenVIPs(hosts, given, others)

(* The SCAN address: given, or after the last VIP or, without any, the     *)
(* last host.  masked: the VIPs were given with a prefix length, which     *)
(* NextIPv4 cannot parse.                                                  *)
ChooseSCANBeyond(hosts, vips, others) == \* mutant: the VIPs do not count as taken
    Search(Last(hosts), ToSet(hosts) \cup others)
ChooseSCAN(hosts, vips, others) ==
    Search(Last(hosts \o vips), ToSet(hosts) \cup ToSet(vips) \cup others)
SCANOf(hosts, vips, masked, given, others) ==
    CASE given # None -> IF given \in others THEN None ELSE given
      [] given = None /\ masked /\ vips # <<>> -> None
      [] OTHER -> ChooseSCAN(hosts, vips, others)

-----------------------------------------------------------------------------
(* nets: the interfaces of each host, in the order of the hosts. *)

PublicOf(hosts, nets, given) ==
    LET net == nets[1][1].cidr
    IN  IF given \in {None, net} /\ \A i \in DOMAIN hosts : CIDR(hosts[i]) = net THEN net ELSE None

(* The smallest network that every host has under one interface name, off  *)
(* the interface of its own address; without any, the public one, of which *)
(* no name is asked.                                                       *)
Shared(nets) ==
    {net \in ToSet(Tail(nets[1])) : \A i \in DOMAIN nets : net \in ToSet(Tail(nets[i]))}
ChooseInterconnect(nets, public) ==
    IF Shared(nets) = {} THEN public ELSE Min({net.cidr : net \in Shared(nets)})

(* validateHostCIDR: the first interface on the network, of one name.      *)
On(ifaces, cidr) == {i \in DOMAIN ifaces : ifaces[i].cidr = cidr}
Everywhere(nets, cidr) ==
    /\ \A i \in DOMAIN nets : On(nets[i], cidr) # {}
    /\ Cardinality({nets[i][Min(On(nets[i], cidr))].name : i \in DOMAIN nets}) = 1

InterconnectOf(nets, public, given) ==
    IF given = None THEN ChooseInterconnect(nets, public)
    ELSE IF Everywhere(nets, given) THEN given ELSE None

-----------------------------------------------------------------------------
(* The DNS of a SCAN name: Validate SCAN DNS wants its addresses in the    *)
(* network and silent, Resolve SCAN Name the hosts in the network as well. *)
DNSFree(dns, net, others) ==
    dns # {} /\ \A a \in dns : CIDR(a) = net /\ a \notin others
DNSNear(dns, net, hosts) ==
    dns # {} /\ \A a \in dns \cup ToSet(hosts) : CIDR(a) = net
=============================================================================
