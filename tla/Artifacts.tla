------------------------------ MODULE Artifacts ------------------------------
(***************************************************************************)
(* The artifacts of the engines beside nftables: what renderers.RenderAll  *)
(* writes for each (internal/renderers), and what each engine reads back   *)
(* from its artifact before it acts (internal/engines).                    *)
(*                                                                         *)
(* A YAML document is a record of its keys, and a key that may be missing  *)
(* is a set; the other artifacts are sequences of lines, and a line is its *)
(* words.                                                                  *)
(***************************************************************************)
EXTENDS Ruleset, SequencesExt

CONSTANTS
    LogDir, RulesDir    \* renderers.Options

EvePath == <<LogDir, "eve.json">>

The(section) == CHOOSE x \in section : TRUE

(* Each of a sequence or a set becomes one line, or some lines. *)
LineEach(items, Written(_)) == [i \in DOMAIN items |-> Written(items[i])]

LineOfEach(items, Written(_)) == LineEach(SetToSeq(items), Written)

Lines(items, Written(_)) == FlattenSeq(LineEach(items, Written))

LinesOfSet(items, Written(_)) == Lines(SetToSeq(items), Written)

When(condition, lines) == IF condition THEN lines ELSE <<>>

-----------------------------------------------------------------------------
(* Renderers *)

Suricata(ir) ==
    LET d == The(ir.ids)
    IN  IF ir.ids = {} THEN [mode |-> "disabled", queue |-> {}]
        ELSE [mode |-> IF d.prevent THEN "prevent" ELSE "detect",
              queue |-> Optional(d.prevent, d.queue),
              afPacket |-> IF d.prevent THEN {} ELSE d.interfaces,
              size |-> {n.maxMtu + 18 : n \in {x \in ir.network : x.maxMtu > 0}},
              home |-> d.home, log |-> EvePath,
              rules |-> {<<RulesDir, f>> : f \in d.files}]

Vector(ir) ==
    LET t == The(ir.telemetry)
    IN  IF ir.telemetry = {} THEN [mode |-> "disabled"]
        ELSE [mode |-> "enabled", include |-> EvePath,
              endpoint |-> t.url, database |-> t.database]

Neighbor(n) == <<"neighbor", n.address, n.asn>>

Announce(prefix) == <<"network", prefix>>

Area(a) == LineOfEach(a.networks, LAMBDA x : <<"network", x, a.area>>)

BgpLines(b) ==
    <<<<"router", "bgp", b.asn>>, <<"router-id", b.router>>>>
    \o LineOfEach(b.neighbors, Neighbor) \o LineOfEach(b.announce, Announce)

OspfLines(o) ==
    <<<<"router", "ospf">>>>
    \o When(o.router # Absent, <<<<"router-id", o.router>>>>)
    \o LinesOfSet(o.areas, Area)

Frr(ir) ==
    IF ir.routing = {} THEN <<<<"daemons", {}>>>>
    ELSE LET r == The(ir.routing)
         IN  <<<<"daemons", {d \in {"bgpd", "ospfd"} :
                               IF d = "bgpd" THEN r.bgp # {} ELSE r.ospf # {}}>>>>
             \o LinesOfSet(r.bgp, BgpLines) \o LinesOfSet(r.ospf, OspfLines)

TunnelLine(t) ==
    <<"connection", t.name, t.local, t.remote, t.lsub, t.rsub,
      IF t.initiate THEN "start" ELSE "trap">>

Include(path) == <<"include", path>>

Strongswan(ir) ==
    LET tunnels == IF ir.vpn = {} THEN <<>> ELSE The(ir.vpn).ipsec
    IN  IF tunnels = <<>> THEN <<<<"mode", "disabled">>>>
        ELSE <<<<"mode", "enabled">>>> \o LineEach(tunnels, TunnelLine)
             \o LineOfEach({tunnels[i].psk : i \in DOMAIN tunnels}, Include)

PeerLines(q) ==
    <<<<"peer", q.key>>>>
    \o When(q.endpoint # Absent, <<<<"endpoint", q.endpoint>>>>)
    \o <<<<"allowed-ips", q.ips>>>>
    \o When(q.keepalive # 0, <<<<"keepalive", q.keepalive>>>>)

InterfaceLines(w) ==
    <<<<"interface", w.name>>, <<"address", w.address>>>>
    \o When(w.port # 0, <<<<"listen-port", w.port>>>>)
    \o <<<<"private-key-file", w.keyFile>>>>
    \o Lines(w.peers, PeerLines)

Wireguard(ir) ==
    IF ir.vpn = {} THEN <<>> ELSE Lines(The(ir.vpn).wireguard, InterfaceLines)

Link(l) == <<"link", l.iface, l.mtu>>

Offload(ifc) == <<"offload", ifc>>

Netdev(ir) ==
    IF ir.network = {} THEN <<>>
    ELSE LineOfEach(The(ir.network).links, Link)
         \o LineOfEach(The(ir.network).offloads, Offload)

RouteLine(r) ==
    <<"route", "replace", r.dst>>
    \o When(r.via # Absent, <<"via", r.via>>)
    \o When(r.dev # Absent, <<"dev", r.dev>>)
    \o When(r.metric # 0, <<"metric", r.metric>>)

Routes(ir) == LineEach(ir.routes, RouteLine)

RenderAll(p) ==
    LET ir == Compile(p)
    IN  [nftables |-> Render(ir),
         routes |-> Routes(ir),
         suricata |-> Suricata(ir),
         vector |-> Vector(ir),
         frr |-> Frr(ir),
         strongswan |-> Strongswan(ir),
         wireguard |-> Wireguard(ir),
         netdev |-> Netdev(ir)]

-----------------------------------------------------------------------------
(* What the engines read.  The blocks of a text that begin with a word,    *)
(* and the word that follows a key in a block, Absent without one.         *)
Blocks(lines, word) ==
    LET blocks[n \in 0..Len(lines)] ==
            IF n = 0 THEN <<>>
            ELSE LET b == blocks[n - 1]
                 IN  IF lines[n][1] = word THEN Append(b, <<lines[n]>>)
                     ELSE IF b = <<>> THEN <<>>
                     ELSE [b EXCEPT ![Len(b)] = Append(@, lines[n])]
    IN  blocks[Len(lines)]

Value(block, key) ==
    LET at == {i \in DOMAIN block : block[i][1] = key}
    IN  IF at = {} THEN Absent ELSE block[Max(at)][2]

(* parseMode, and how Suricata is started with it. *)
ParseMode(conf) ==
    [mode |-> conf.mode, queue |-> IF conf.queue = {} THEN 0 ELSE The(conf.queue)]

SuricataRuns(conf) ==
    LET m == ParseMode(conf)
    IN  CASE m.mode = "disabled" -> [on |-> FALSE]
          [] m.mode = "detect" -> [on |-> TRUE, sniffs |-> conf.afPacket, queues |-> {}]
          [] m.mode = "prevent" -> [on |-> TRUE, sniffs |-> {}, queues |-> {m.queue}]

RouteDest(line) == line[3]

ParseDaemons(lines) == lines[1][2]

IncludedFiles(lines) == {lines[i][2] : i \in {j \in DOMAIN lines : lines[j][1] = "include"}}

ParsePeers(block) ==
    LET peers == Blocks(block, "peer")
    IN  [k \in DOMAIN peers |->
           [key |-> Value(peers[k], "peer"), endpoint |-> Value(peers[k], "endpoint"),
            ips |-> Value(peers[k], "allowed-ips"),
            keepalive |-> Value(peers[k], "keepalive")]]

ParseWireguard(lines) ==
    LET blocks == Blocks(lines, "interface")
    IN  [k \in DOMAIN blocks |->
           [name |-> Value(blocks[k], "interface"), address |-> Value(blocks[k], "address"),
            port |-> Value(blocks[k], "listen-port"),
            keyFile |-> Value(blocks[k], "private-key-file"),
            peers |-> ParsePeers(blocks[k])]]

(* parseNetdev: the lines that give a link its MTU, and the offloads. *)
LinkDirectives(lines) == {i \in DOMAIN lines : lines[i][1] = "link"}

OffloadDirectives(lines) ==
    {lines[i][2] : i \in {j \in DOMAIN lines : lines[j][1] = "offload"}}
=============================================================================
