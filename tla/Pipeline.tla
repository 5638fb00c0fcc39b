------------------------------ MODULE Pipeline ------------------------------
(***************************************************************************)
(* The whole policy in force: the artifacts of every engine, beside the    *)
(* table of Datapath, against what the messages of the policy say and      *)
(* against each other.  Engines are given their artifacts by one commit,   *)
(* and each reads its own alone: what two of them must agree on has gone   *)
(* through two renderers and two parsers.                                  *)
(***************************************************************************)
EXTENDS Datapath

-----------------------------------------------------------------------------
(* What policy.proto says of the other sections.                           *)

(* network.proto: "MTU applied to every zone interface", "per-interface    *)
(* overrides; may also name interfaces outside any zone".                  *)
AskedMtu(p, ifc) ==
    LET own == {m \in ToSet(p.network.mtus) : m.iface = ifc}
    IN  IF own # {} THEN {m.mtu : m \in own}
        ELSE {p.network.mtu : z \in {y \in ToSet(p.zones) :
                                        ifc \in y.ifaces /\ p.network.mtu # 0}}

MtusAsAsked(p, lines) ==
    LET links == LinkDirectives(lines)
    IN  /\ \A ifc \in Ifaces \cup Overrides(p) :
              {lines[i][3] : i \in {j \in links : lines[j][2] = ifc}} = AskedMtu(p, ifc)
        /\ \A i, j \in links : lines[i][2] = lines[j][2] => i = j

Given(x, nothing) == IF x = nothing THEN Absent ELSE x

(* vpn.proto: each interface with its own peers, each peer with its own    *)
(* endpoint, allowed IPs and keepalive.                                    *)
InterfaceAsAsked(w, got) ==
    /\ got.name = w.name /\ got.address = w.address /\ got.keyFile = w.keyFile
    /\ got.port = Given(w.port, 0)
    /\ Len(got.peers) = Len(w.peers)
    /\ \A k \in DOMAIN w.peers :
          got.peers[k] = [key |-> w.peers[k].key, endpoint |-> w.peers[k].endpoint,
                          ips |-> w.peers[k].ips,
                          keepalive |-> Given(w.peers[k].keepalive, 0)]

(* routing.proto: every neighbor and announced prefix belongs to the BGP   *)
(* router, every network to its OSPF area, and a daemon runs exactly for a *)
(* protocol that is enabled.                                               *)
RoutingAsAsked(p, lines) ==
    LET routers == ToSet(Blocks(lines, "router"))
        bgp == UNION {ToSet(b) : b \in {x \in routers : x[1][2] = "bgp"}}
        ospf == UNION {ToSet(b) : b \in {x \in routers : x[1][2] = "ospf"}}
    IN  /\ "bgpd" \in ParseDaemons(lines) <=> p.bgp.enabled
        /\ "ospfd" \in ParseDaemons(lines) <=> p.ospf.enabled
        /\ p.bgp.enabled <=> bgp # {}
        /\ p.ospf.enabled <=> ospf # {}
        /\ p.bgp.enabled =>
              /\ {<<l[2], l[3]>> : l \in {x \in bgp : x[1] = "neighbor"}}
                   = {<<n.address, n.asn>> : n \in p.bgp.neighbors}
              /\ {l[2] : l \in {x \in bgp : x[1] = "network"}} = p.bgp.announce
        /\ p.ospf.enabled =>
              {<<l[2], l[3]>> : l \in {x \in ospf : x[1] = "network"}}
                = UNION {{<<n, a.area>> : n \in a.networks} : a \in p.ospf.areas}

(* vpn.proto: every tunnel, and the secrets of all of them. *)
TunnelsAsAsked(p, lines) ==
    LET connections == {l \in ToSet(lines) : l[1] = "connection"}
    IN  /\ {<<l[2], l[4]>> : l \in connections}
             = {<<t.name, t.remote>> : t \in ToSet(p.ipsec)}
        /\ IncludedFiles(lines) = {t.psk : t \in ToSet(p.ipsec)}
        /\ lines[1][2] = "enabled" <=> p.ipsec # <<>>

-----------------------------------------------------------------------------
(* Properties *)

(* What each engine reads back from its artifact is what the messages of   *)
(* the committed policy say: renderers and parsers were written apart, and *)
(* what is switched off or left out takes its default on the way.          *)
SectionsAsAsked ==
    Loaded =>
        LET p == policy
            wireguard == ParseWireguard(artifacts.wireguard)
        IN  /\ artifacts.suricata.mode = IF p.ids.enabled THEN p.ids.mode ELSE "disabled"
            /\ artifacts.vector.mode = IF p.telemetry.enabled THEN "enabled" ELSE "disabled"
            /\ {RouteDest(l) : l \in ToSet(artifacts.routes)} = {r.dst : r \in ToSet(p.routes)}
            /\ MtusAsAsked(p, artifacts.netdev)
            /\ Len(wireguard) = Len(p.wireguard)
            /\ \A i \in DOMAIN wireguard : InterfaceAsAsked(p.wireguard[i], wireguard[i])
            /\ RoutingAsAsked(p, artifacts.frr)
            /\ TunnelsAsAsked(p, artifacts.strongswan)

Sniffs == IF SuricataRuns(artifacts.suricata).on
          THEN SuricataRuns(artifacts.suricata).sniffs ELSE {}

(* The engines agree where they depend on each other.  The queue of the    *)
(* forward chain is the one Suricata reads, and there is none without it;  *)
(* where Suricata sniffs, a frame of the MTU that the link is given fits   *)
(* its capture, and offloads are off exactly there; the sets that the      *)
(* updater will fill are declared, and there are none for nobody to fill;  *)
(* what Vector ships is the file that Suricata writes.                     *)
EnginesAgree ==
    Loaded =>
        LET suricata == artifacts.suricata
            runs == SuricataRuns(suricata)
        IN  /\ table.queues = IF runs.on THEN runs.queues ELSE {}
            /\ \A ifc \in Sniffs : \A mtu \in AskedMtu(policy, ifc) :
                  \E size \in suricata.size : size >= mtu + 18
            /\ OffloadDirectives(artifacts.netdev)
                 = IF policy.network.offloads THEN Sniffs ELSE {}
            /\ table.sets <=> EnabledFeeds(policy) # {}
            /\ runs.on /\ artifacts.vector.mode = "enabled" =>
                  artifacts.vector.include = suricata.log
=============================================================================
