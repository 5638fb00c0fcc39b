----------------------------- MODULE MCDatapath -----------------------------
(***************************************************************************)
(* Small instances of Datapath.  A node between lan and wan; on the lan a  *)
(* workstation a4, a server s4 and a host a6, on the wan b4 and b6; n4 is  *)
(* the node's own address.  The policies share their objects and differ    *)
(* in rules, NAT, prevent mode and blocklists; among them are ones that    *)
(* Validate, Compile or Render must refuse.                                *)
(***************************************************************************)
EXTENDS Pipeline

MCHosts == {"a4", "s4", "a6", "b4", "b6", "n4"}
MCFamily == [h \in MCHosts |-> IF h \in {"a6", "b6"} THEN 6 ELSE 4]
MCRoute ==
    [h \in MCHosts |-> IF h = "n4" THEN "local"
                       ELSE IF h \in {"b4", "b6"} THEN "wan" ELSE "lan"]

Flow(in, src, dst, protocol, port) ==
    [in |-> in, src |-> src, dst |-> dst, protocol |-> protocol, port |-> port]

MCFlows ==
    {Flow("lan", "a4", "b4", "tcp", n) : n \in 1..3}
    \cup {Flow("lan", "a4", "b4", "icmp", 0), Flow("lan", "s4", "b4", "udp", 2),
          Flow("wan", "b4", "a4", "tcp", 2), Flow("wan", "a4", "s4", "tcp", 2),
          Flow("wan", "b4", "n4", "tcp", 2), Flow("wan", "b4", "n4", "tcp", 3),
          Flow("lan", "a6", "b6", "tcp", 2), Flow("wan", "b6", "a6", "icmp", 0)}

Zone(name, ifaces) == [name |-> name, ifaces |-> ifaces]
Address(name, hosts) == [name |-> name, hosts |-> hosts]
Service(name, protocol, ports) ==
    [name |-> name, protocol |-> protocol, ports |-> ports]

Zones == <<Zone("trust", {"lan"}), Zone("untrust", {"wan"}), Zone("ghost", {})>>

Addresses ==
    <<Address("net4", {"a4", "s4"}), Address("srv", {"s4"}),
      Address("pub", {"n4"}), Address("out4", {"b4"}), Address("net6", {"a6"})>>

Services ==
    <<Service("web", "tcp", {[start |-> 2, end |-> 0]}),
      Service("range", "tcp", {[start |-> 1, end |-> 2]}),
      Service("dns", "udp", {}), Service("ping", "icmp", {})>>

Rule(from, to, src, dst, services, action, disabled) ==
    [from |-> from, to |-> to, src |-> src, dst |-> dst, services |-> services,
     action |-> action, disabled |-> disabled]

Rules ==
    <<Rule({"trust"}, {"untrust"}, {}, {}, {}, "allow", FALSE),
      Rule({}, {"any"}, {"net4"}, {"out4"}, {"web", "dns"}, "deny", FALSE),
      Rule({"any"}, {"trust"}, {}, {"net4", "net6"}, {"range", "ping"}, "allow", FALSE),
      Rule({"untrust", "ghost"}, {}, {}, {"srv"}, {"web"}, "allow", FALSE),
      Rule({}, {}, {"net4", "net6"}, {"out4"}, {}, "reject", FALSE),
      Rule({}, {}, {}, {}, {}, "allow", TRUE)>>

(* Refused by Render: families that do not overlap; by Validate: a         *)
(* reference to nothing.                                                   *)
BadRules ==
    <<Rule({}, {}, {"net6"}, {"out4"}, {}, "allow", FALSE),
      Rule({"nowhere"}, {}, {}, {}, {}, "allow", FALSE)>>

Name(rules) ==
    [i \in DOMAIN rules |->
        [name |-> <<"r1", "r2">>[i], from |-> rules[i].from, to |-> rules[i].to,
         src |-> rules[i].src, dst |-> rules[i].dst,
         services |-> rules[i].services, action |-> rules[i].action,
         disabled |-> rules[i].disabled]]

Masquerade ==
    [name |-> "m", to |-> "untrust", source |-> "net4", masquerade |-> TRUE,
     translated |-> "absent"]
Fixed4 ==
    [name |-> "f", to |-> "any", source |-> "absent", masquerade |-> FALSE,
     translated |-> "pub"]
Forwarded(port) ==
    [name |-> "d", from |-> "untrust", service |-> "web", destination |-> "pub",
     translated |-> "srv", port |-> port]
Portless == [Forwarded(0) EXCEPT !.service = "dns"]
Mixed == [Forwarded(0) EXCEPT !.translated = "net6"]

(* The other sections: as they are in a policy that does not have them.    *)
NoSections ==
    [routes |-> <<>>,
     ids |-> [enabled |-> FALSE, mode |-> "unset", interfaces |-> {}, home |-> {},
              files |-> {}, queue |-> 0],
     telemetry |-> [enabled |-> FALSE, url |-> "absent", database |-> "absent"],
     bgp |-> [enabled |-> FALSE, asn |-> 0, router |-> "absent", neighbors |-> {},
              announce |-> {}],
     ospf |-> [enabled |-> FALSE, router |-> "absent", areas |-> {}],
     ipsec |-> <<>>, wireguard |-> <<>>,
     intel |-> [feeds |-> <<>>, custom |-> <<>>, commercial |-> FALSE, interval |-> 0],
     network |-> [mtu |-> 0, mtus |-> <<>>, clamp |-> FALSE, offloads |-> FALSE]]

Ids(mode) ==
    [NoSections.ids EXCEPT !.enabled = TRUE, !.mode = mode]

Feed(name, enabled) == [name |-> name, enabled |-> enabled]

MCPolicy(rules, snat, dnat) ==
    NoSections @@
    [zones |-> Zones, addresses |-> Addresses, services |-> Services,
     rules |-> Name(rules), snat |-> snat, dnat |-> dnat]

Forwarding == Rule({"untrust"}, {"trust"}, {}, {"srv"}, {}, "allow", FALSE)
Nowhere(action) == Rule({"ghost"}, {}, {}, {}, {}, action, FALSE)

Plain(rules) == MCPolicy(rules, <<>>, <<>>)

WithFeed(p) == [p EXCEPT !.intel.feeds = <<Feed("feodo", TRUE), Feed("spamhaus", FALSE)>>]

Natted(rules, d) == WithFeed(MCPolicy(rules, <<Masquerade, Fixed4>>, <<d>>))

Inspected(rules, mode) == [Plain(rules) EXCEPT !.ids = Ids(mode)]

(* The sections, each in a policy without rules. *)
Mtu(iface, n) == [iface |-> iface, mtu |-> n]
Peer(key, endpoint, ips, keepalive) ==
    [key |-> key, endpoint |-> endpoint, ips |-> ips, keepalive |-> keepalive]
Interface(name, port, peers) ==
    [name |-> name, address |-> {"a4", "s4"}, port |-> port, keyFile |-> "/key",
     peers |-> peers]
Tunnel(name, local, initiate) ==
    [name |-> name, local |-> local, remote |-> "b4", lsub |-> {{"a4", "s4"}},
     rsub |-> {{"b4"}}, psk |-> "/psk", initiate |-> initiate]
Area0(networks) == {[area |-> "n4", networks |-> networks]}

Empty == Plain(<<>>)
Detects == [Empty EXCEPT !.ids = Ids("detect")]
Peers == <<Peer("k1", "b4:1", {{"s4"}}, 2), Peer("k2", "absent", {{"a4"}, {"a6"}}, 0)>>
Bgp == [enabled |-> TRUE, asn |-> 1, router |-> "n4",
        neighbors |-> {[address |-> "b4", asn |-> 2], [address |-> "b6", asn |-> 3]},
        announce |-> {{"a4", "s4"}}]
Ospf == [enabled |-> TRUE, router |-> "absent", areas |-> Area0({{"a4", "s4"}, {"b4"}})]
Jumbo == [mtu |-> 1500, mtus |-> <<Mtu("wan", 9000), Mtu("mgmt", 1400)>>,
          clamp |-> TRUE, offloads |-> TRUE]
CustomOnly ==
    [feeds |-> <<>>, custom |-> <<[name |-> "own", url |-> "http://own"]>>,
     commercial |-> TRUE, interval |-> 5]

Sections ==
    <<[Empty EXCEPT !.routes =
         <<[dst |-> {"b4"}, via |-> "s4", dev |-> "absent", metric |-> 2],
           [dst |-> {"b6"}, via |-> "absent", dev |-> "wan", metric |-> 0]>>],
      [Detects EXCEPT !.network = Jumbo],
      [Detects EXCEPT !.ids.interfaces = {"lan"}, !.network = [Jumbo EXCEPT !.mtu = 0]],
      [Inspected(<<>>, "prevent") EXCEPT !.ids.queue = 3, !.network = Jumbo],
      [Detects EXCEPT !.telemetry = [enabled |-> TRUE, url |-> "absent", database |-> "db"]],
      [Empty EXCEPT !.bgp = Bgp],
      [Empty EXCEPT !.bgp = Bgp, !.ospf = Ospf],
      [Empty EXCEPT !.ospf = [Ospf EXCEPT !.router = "n4"]],
      [Empty EXCEPT !.ipsec = <<Tunnel("t1", "absent", TRUE), Tunnel("t2", "n4", FALSE)>>],
      [Empty EXCEPT !.wireguard = <<Interface("wg0", 3, Peers), Interface("wg1", 0, <<>>)>>],
      [Empty EXCEPT !.intel = CustomOnly]>>

(* A section that Validate or Compile must refuse. *)
BadSections ==
    <<[Sections[1] EXCEPT !.routes[2].dev = "absent"],
      [Detects EXCEPT !.zones = <<Zone("ghost", {})>>],
      [Sections[2] EXCEPT !.network.mtus[2].iface = "wan"],
      [Sections[2] EXCEPT !.network.mtu = 1000],
      [Sections[4] EXCEPT !.ids.queue = 4],
      [Sections[5] EXCEPT !.telemetry.url = "ftp"],
      [Sections[6] EXCEPT !.bgp.router = "a6"],
      [Sections[7] EXCEPT !.ospf.areas = Area0({})],
      [Sections[9] EXCEPT !.ipsec[2].name = "t1"],
      [Sections[10] EXCEPT !.wireguard[2].name = "wg0"],
      [Sections[10] EXCEPT !.wireguard[1].peers[1].key = "short"],
      [Sections[11] EXCEPT !.intel.feeds = <<Feed("spamhaus", TRUE)>>],
      [Sections[11] EXCEPT !.intel.custom[1].name = "feodo"]>>

MCWellFormed ==
    [url |-> {"http://own"}, path |-> {"/key", "/psk"}, ruleFile |-> {"local.rules"},
     database |-> {"db"}, key |-> {"k1", "k2"}, endpoint |-> {"b4:1"},
     link |-> {"wg0", "wg1"}]

MCRfc1918 == {{"a4", "s4"}}

(* One rule and two rules; NAT with the blocklists; inspection modes;      *)
(* rules over a zone without interfaces; what is refused; the sections.    *)
MCPolicies ==
    [i \in 1..6 |-> Plain(<<Rules[i]>>)]
    \o [k \in 1..30 |->   \* the ordered pairs of different rules
          Plain(<<Rules[(k - 1) \div 5 + 1],
                  Rules[((((k - 1) \div 5) + ((k - 1) % 5) + 1) % 6) + 1]>>)]
    \o [i \in 1..6 |-> Natted(<<Rules[i], Forwarding>>, Forwarded(0))]
    \o <<Natted(<<Forwarding>>, Forwarded(1)), Natted(<<>>, Forwarded(0)),
         WithFeed(MCPolicy(<<Rules[1], Forwarding>>, <<Fixed4, Masquerade>>,
                  <<[Forwarded(1) EXCEPT !.from = "any", !.service = "range"],
                    Forwarded(0)>>))>>
    \o <<Inspected(<<Rules[1]>>, "detect"), Inspected(<<Rules[2]>>, "prevent"),
         Inspected(<<Rules[3]>>, "prevent")>>
    \o <<Plain(<<Nowhere("allow")>>), Plain(<<Nowhere("deny")>>)>>
    \o <<Plain(<<BadRules[1]>>), Plain(<<BadRules[2]>>),
         Inspected(<<Rules[1]>>, "unset"),
         Natted(<<Forwarding>>, Portless), Natted(<<Forwarding>>, Mixed),
         [Empty EXCEPT !.zones = <<Zone("trust", {"lan"}), Zone("dup", {"lan"})>>]>>
    \o Sections \o BadSections
=============================================================================
