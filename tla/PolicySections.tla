--------------------------- MODULE PolicySections ---------------------------
(***************************************************************************)
(* The sections of a policy beside the firewall: static routes, inspection,*)
(* telemetry, dynamic routing, VPN, threat feeds, links (policy.proto and  *)
(* the messages it imports), when policy.Validate accepts them             *)
(* (internal/policy/validate*.go), and the registry of threat feeds        *)
(* (internal/intel/registry.go).                                           *)
(*                                                                         *)
(* A section that is absent has the fields of an empty one, as the getters *)
(* of the generated messages give them.  A prefix is the set of hosts in   *)
(* it, and {} is one that does not parse; an address is a host.  Of other  *)
(* strings it matters whether they are well formed, which is a constant.   *)
(***************************************************************************)
EXTENDS PolicyModel

CONSTANT
    WellFormed  \* per kind of string, those that are well formed:
                \*   [url, path, ruleFile, database, key, endpoint, link]

(* The messages of the sections, as IsFirewall for those of the firewall,  *)
(* where a compiler, a renderer or an engine reads them.                   *)
Modes == {"unset", "detect", "prevent"}

IsSections(p) ==
    /\ p.routes \in Seq([dst : SUBSET Hosts, via : STRING, dev : STRING, metric : Nat])
    /\ p.ids.mode \in Modes /\ p.ids.queue \in Nat
    /\ IsFiniteSet(p.ids.interfaces)
    /\ p.ipsec \in Seq([name : STRING, local : STRING, remote : STRING,
                        lsub : SUBSET SUBSET Hosts, rsub : SUBSET SUBSET Hosts,
                        psk : STRING, initiate : BOOLEAN])
    /\ p.wireguard \in Seq([name : STRING, address : SUBSET Hosts, port : Nat,
                            keyFile : STRING,
                            peers : Seq([key : STRING, endpoint : STRING,
                                         ips : SUBSET SUBSET Hosts, keepalive : Nat])])
    /\ p.bgp.enabled \in BOOLEAN /\ p.ospf.enabled \in BOOLEAN
    /\ IsFiniteSet(p.bgp.neighbors) /\ IsFiniteSet(p.bgp.announce)
    /\ IsFiniteSet(p.ospf.areas) /\ \A a \in p.ospf.areas : IsFiniteSet(a.networks)
    /\ p.intel.feeds \in Seq([name : STRING, enabled : BOOLEAN])
    /\ p.intel.custom \in Seq([name : STRING, url : STRING])
    /\ p.network.mtu \in Nat
    /\ p.network.mtus \in Seq([iface : STRING, mtu : Nat])

IsAddr(x) == x \in Hosts

IsIPv4(x) == x \in Hosts /\ Family[x] = 4

CheckCIDRList(prefixes) == \A x \in prefixes : IsCIDR(x)

CheckRoutes(p) ==
    \A i \in DOMAIN p.routes :
        LET r == p.routes[i]
        IN  /\ IsCIDR(r.dst)
            /\ r.via # Absent \/ r.dev # Absent
            /\ r.via # Absent => IsAddr(r.via)

CheckIDs(p) ==
    p.ids.enabled =>
        /\ p.ids.mode # "unset"
        /\ CheckCIDRList(p.ids.home)
        /\ p.ids.files \subseteq WellFormed.ruleFile
        /\ p.ids.queue <= MaxPort

CheckTelemetry(p) ==
    p.telemetry.enabled =>
        /\ p.telemetry.url \in WellFormed.url \cup {Absent}
        /\ p.telemetry.database \in WellFormed.database \cup {Absent}

CheckBgp(bgp) ==
    bgp.enabled =>
        /\ bgp.asn # 0
        /\ IsIPv4(bgp.router)
        /\ bgp.neighbors # {}
        /\ \A n \in bgp.neighbors : IsAddr(n.address) /\ n.asn # 0
        /\ CheckCIDRList(bgp.announce)

CheckOspf(ospf) ==
    ospf.enabled =>
        /\ ospf.router # Absent => IsIPv4(ospf.router)
        /\ ospf.areas # {}
        /\ \A a \in ospf.areas :
              IsIPv4(a.area) /\ a.networks # {} /\ CheckCIDRList(a.networks)

CheckTunnels(p) ==
    /\ CheckNames(p.ipsec)
    /\ \A i \in DOMAIN p.ipsec :
          LET t == p.ipsec[i]
          IN  /\ t.remote # Absent
              /\ t.lsub # {} /\ t.rsub # {}
              /\ CheckCIDRList(t.lsub \cup t.rsub)
              /\ t.psk \in WellFormed.path

CheckPeer(q) ==
    /\ q.key \in WellFormed.key
    /\ q.ips # {} /\ CheckCIDRList(q.ips)
    /\ q.endpoint \in WellFormed.endpoint \cup {Absent}
    /\ q.keepalive <= MaxPort

(* The names of links are not those of objects: "any" may be one. *)
CheckWireguard(p) ==
    /\ Names(p.wireguard) \subseteq WellFormed.link
    /\ \A i, j \in DOMAIN p.wireguard : p.wireguard[i].name = p.wireguard[j].name => i = j
    /\ \A i \in DOMAIN p.wireguard :
          LET w == p.wireguard[i]
          IN  /\ IsCIDR(w.address)
              /\ w.port <= MaxPort
              /\ w.keyFile \in WellFormed.path
              /\ \A k \in DOMAIN w.peers : CheckPeer(w.peers[k])

-----------------------------------------------------------------------------
(* The registry: whether a feed's license allows commercial use. *)
AllowsCommercial ==
    [feodo |-> TRUE, sslbl |-> TRUE, et |-> TRUE, spamhaus |-> FALSE]

Builtins == DOMAIN AllowsCommercial

(* intel.CheckEnable *)
Licensed(feed, commercial) == commercial => AllowsCommercial[feed]

CheckIntel(p) ==
    LET feeds == p.intel.feeds
        custom == p.intel.custom
    IN  /\ \A i \in DOMAIN feeds :
              /\ feeds[i].name \in Builtins
              /\ \A j \in DOMAIN feeds : feeds[i].name = feeds[j].name => i = j
              /\ feeds[i].enabled => Licensed(feeds[i].name, p.intel.commercial)
        /\ CheckNames(custom)
        /\ Names(custom) \cap Builtins = {}
        /\ \A i \in DOMAIN custom : custom[i].url \in WellFormed.url
        /\ p.intel.interval = 0 \/ p.intel.interval >= 5

MtuRange == 1280..9600

CheckNetwork(p) ==
    LET m == p.network.mtus
    IN  /\ p.network.mtu \in {0} \cup MtuRange
        /\ \A i \in DOMAIN m :
              /\ m[i].iface # Absent
              /\ m[i].mtu \in MtuRange
              /\ \A j \in DOMAIN m : m[i].iface = m[j].iface => i = j

Validate(p) ==
    /\ CollectZones(p) /\ CollectAddresses(p) /\ CollectServices(p)
    /\ CheckRules(p)
    /\ CheckSourceNat(p) /\ CheckDestinationNat(p)
    /\ CheckRoutes(p) /\ CheckIDs(p) /\ CheckTelemetry(p)
    /\ CheckBgp(p.bgp) /\ CheckOspf(p.ospf)
    /\ CheckTunnels(p) /\ CheckWireguard(p)
    /\ CheckIntel(p) /\ CheckNetwork(p)

-----------------------------------------------------------------------------
(* intel.EnabledFeeds: what the updater fetches. *)
EnabledFeeds(p) ==
    {p.intel.feeds[i].name : i \in {j \in DOMAIN p.intel.feeds : p.intel.feeds[j].enabled}}
    \cup Names(p.intel.custom)
=============================================================================
