-------------------------- MODULE CompiledSections --------------------------
(***************************************************************************)
(* What compiler.Compile makes of the sections beside the firewall         *)
(* (internal/compiler: compile.go, compile_routing.go, compile_network.go):*)
(* names resolved, defaults filled in, what is switched off left out.      *)
(*                                                                         *)
(* A section of the IR is a set: {} where the code has nil, one element    *)
(* otherwise.  The IR's 16-bit fields are taken modulo MaxPort + 1.        *)
(***************************************************************************)
EXTENDS PolicySections, FiniteSetsExt

CONSTANTS
    Rfc1918,        \* the default HOME_NET
    LocalRules,     \* "local.rules"
    ClickHouse,     \* the default endpoint and database
    Database

Optional(on, x) == IF on THEN {x} ELSE {}

Uint16(n) == n % (MaxPort + 1)

ZoneIfaces(p) == UNION {p.zones[i].ifaces : i \in DOMAIN p.zones}

Sniffed(p) == IF p.ids.interfaces # {} THEN p.ids.interfaces ELSE ZoneIfaces(p)

(* compileIDs refuses detect mode with nothing to sniff. *)
IdsCompiles(p) ==
    p.ids.enabled /\ p.ids.mode = "detect" => Sniffed(p) # {}

CompileIDs(p) ==
    Optional(p.ids.enabled,
             [prevent |-> p.ids.mode = "prevent",
              queue |-> Uint16(p.ids.queue),
              interfaces |-> Sniffed(p),
              home |-> IF p.ids.home = {} THEN Rfc1918 ELSE p.ids.home,
              files |-> IF p.ids.files = {} THEN {LocalRules} ELSE p.ids.files])

CompileTelemetry(p) ==
    Optional(p.telemetry.enabled,
             [url |-> IF p.telemetry.url = Absent THEN ClickHouse ELSE p.telemetry.url,
              database |-> IF p.telemetry.database = Absent THEN Database
                           ELSE p.telemetry.database])

CompileRouting(p) ==
    Optional(p.bgp.enabled \/ p.ospf.enabled,
             [bgp |-> Optional(p.bgp.enabled,
                               [asn |-> p.bgp.asn, router |-> p.bgp.router,
                                neighbors |-> p.bgp.neighbors,
                                announce |-> p.bgp.announce]),
              ospf |-> Optional(p.ospf.enabled,
                                [router |-> p.ospf.router, areas |-> p.ospf.areas])])

CompileTunnel(t) ==
    [name |-> t.name, remote |-> t.remote, lsub |-> t.lsub, rsub |-> t.rsub,
     psk |-> t.psk, initiate |-> t.initiate,
     local |-> IF t.local = Absent THEN "%any" ELSE t.local]

CompileInterface(w) ==
    [name |-> w.name, address |-> w.address, port |-> Uint16(w.port),
     keyFile |-> w.keyFile,
     peers |-> [k \in DOMAIN w.peers |->
                  [w.peers[k] EXCEPT !.keepalive = Uint16(@)]]]

CompileVPN(p) ==
    Optional(p.ipsec # <<>> \/ p.wireguard # <<>>,
             [ipsec |-> [i \in DOMAIN p.ipsec |-> CompileTunnel(p.ipsec[i])],
              wireguard |-> [i \in DOMAIN p.wireguard |->
                               CompileInterface(p.wireguard[i])]])

-----------------------------------------------------------------------------
(* The links whose MTU is managed: those of the zones when there is a      *)
(* global MTU, and those of the overrides, which go before it.             *)
Overrides(p) == {p.network.mtus[i].iface : i \in DOMAIN p.network.mtus}

ManagedLinks(p) ==
    (IF p.network.mtu = 0 THEN {} ELSE ZoneIfaces(p)) \cup Overrides(p)

(* Variant: the global MTU goes before an override. *)
LinkMtuGlobal(p, ifc) ==
    LET i == CHOOSE j \in DOMAIN p.network.mtus : p.network.mtus[j].iface = ifc
    IN  IF ifc \in Overrides(p) /\ p.network.mtu = 0 THEN p.network.mtus[i].mtu
        ELSE p.network.mtu

LinkMtu(p, ifc) ==
    LET i == CHOOSE j \in DOMAIN p.network.mtus : p.network.mtus[j].iface = ifc
    IN  IF ifc \in Overrides(p) THEN p.network.mtus[i].mtu ELSE p.network.mtu

(* Variant: the capture size follows the global MTU. *)
MaxMtuGlobal(p) == p.network.mtu

(* MaxMTU: 0 when nothing is managed. *)
MaxMtu(p) == Max({LinkMtu(p, ifc) : ifc \in ManagedLinks(p)} \cup {0})

CompileNetwork(p) ==
    LET links == {[iface |-> ifc, mtu |-> LinkMtu(p, ifc)] : ifc \in ManagedLinks(p)}
        offloads == IF p.network.offloads /\ p.ids.enabled /\ p.ids.mode # "prevent"
                    THEN Sniffed(p) ELSE {}
    IN  Optional(links # {} \/ p.network.clamp \/ offloads # {},
                 [links |-> links, clamp |-> p.network.clamp,
                  offloads |-> offloads, maxMtu |-> MaxMtu(p)])

(* Whether the renderer is to declare the sets. *)
Enforces(p) ==
    \/ p.intel.custom # <<>>
    \/ \E i \in DOMAIN p.intel.feeds : p.intel.feeds[i].enabled
=============================================================================
