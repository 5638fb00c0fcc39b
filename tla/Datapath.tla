------------------------------ MODULE Datapath ------------------------------
(***************************************************************************)
(* The forwarding path of a node while policies are committed: the table   *)
(* that Ruleset renders, loaded atomically by nft, beside connection       *)
(* tracking, which no load touches, the blocklist sets, which every load   *)
(* empties, and Suricata behind the queue of prevent mode.                 *)
(*                                                                         *)
(* The kernel is external: a packet goes through the prerouting chain      *)
(* (destination NAT), routing, the forward chain and the postrouting chain *)
(* (source NAT).  In a chain the first statement that matches and has a    *)
(* verdict decides.  NAT chains see only the first packet of a connection; *)
(* conntrack translates the others.  A `queue` statement ends the chain:   *)
(* Suricata in "nfq: mode: accept" answers accept or drop for the packet,  *)
(* and with the bypass flag an unread queue accepts it; in either case the *)
(* statements after it are not looked at.                                  *)
(***************************************************************************)
EXTENDS Artifacts

CONSTANTS
    Policies,   \* what operators commit, a sequence
    Flows,      \* first packets: [in, src, dst, protocol, port]
    Route,      \* the interface behind which each host is, or Local
    Local,      \* the node itself
    Listed,     \* hosts that a threat feed may list
    None,       \* no packet
    MaxConns    \* bound on tracked connections

ASSUME DatapathAssumption ==
    /\ Route \in [Hosts -> Ifaces \cup {Local}]
    /\ Local \notin Ifaces
    /\ Flows \subseteq [in : Ifaces, src : Hosts, dst : Hosts, protocol : STRING,
                       port : 0..MaxPort]
    /\ \A k \in Flows : Family[k.src] = Family[k.dst]
    /\ Listed \subseteq Hosts
    /\ MaxConns \in Nat
    /\ DOMAIN Policies \subseteq Nat \ {0}
    /\ \A v \in DOMAIN Policies : IsFirewall(Policies[v]) /\ IsSections(Policies[v])

VARIABLES
    version,    \* of the running policy, 0 before the first commit
    artifacts,  \* what its commit rendered for the engines
    blocked,    \* hosts in intel4 and intel6
    conns,      \* tracked connections
    last        \* the last packet: what it was and what became of it

vars == <<version, artifacts, blocked, conns, last>>

(* The policies that Commit gets through validation, compilation, the      *)
(* renderer and nft -c, each with its artifact.                            *)
Committable ==
    {v \in DOMAIN Policies :
        /\ Compiles(Policies[v])
        /\ Renders(Compile(Policies[v]))
        /\ Loads(Render(Compile(Policies[v])))}

Committed == [v \in Committable |-> RenderAll(Policies[v])]

ASSUME NoneAssumption == \A v \in Committable : Committed[v] # None

(* Version 0 is a node before its first commit: without a table everything *)
(* is forwarded as it is.                                                  *)
Loaded == version # 0

Open ==
    [forward |-> <<Fixed("default", "accept")>>,
     prerouting |-> <<>>,
     postrouting |-> <<>>]

table ==
    IF Loaded THEN artifacts.nftables ELSE Open

policy == Policies[version]

(* A connection: its first packet as sent, as routed (after destination    *)
(* NAT), and the source that its destination sees (after source NAT).      *)
Connection(k, routed, seen) == [sent |-> k, routed |-> routed, seen |-> seen]

(* What is remembered of a packet: its state in conntrack, the packet as   *)
(* sent, as routed, the source its destination saw, the verdict.           *)
Seen(state, sent, routed, seen, verdict) ==
    [state |-> state, sent |-> sent, packet |-> routed, seen |-> seen,
     verdict |-> verdict]

Nothing == Seen("none", None, None, None, "none")

Verdicts == {"none", "accept", "drop", "reject", "local"}

TypeOK ==
    /\ version \in DOMAIN Policies \cup {0}
    /\ artifacts = None <=> ~ Loaded
    /\ blocked \subseteq Listed
    /\ blocked # {} => Loaded /\ table.sets
    /\ Cardinality(conns) <= MaxConns
    /\ \A c \in conns : c.sent \in Flows /\ c.routed.dst \in Hosts
    /\ last.state \in {"none", "new", "established", "invalid"}
    /\ last.verdict \in Verdicts

Init ==
    /\ version = 0
    /\ artifacts = None
    /\ blocked = {}
    /\ conns = {}
    /\ last = Nothing

-----------------------------------------------------------------------------
(* Matching, as the kernel does it. *)
Restricts(set, x) == set = {} \/ x \in set

Within(prefixes, h) == prefixes = {} \/ \E x \in prefixes : h \in x

ServiceMatches(s, k) ==
    /\ s.protocol \in {k.protocol, "any"}
    /\ s.ports # {} => \E r \in s.ports : r.start <= k.port /\ k.port <= r.end

LineMatches(l, k) ==
    /\ Restricts(l.in, k.in) /\ Restricts(l.out, k.out)
    /\ Within(l.src, k.src) /\ Within(l.dst, k.dst)
    /\ ServiceMatches(l.service, k)
    /\ l.service.protocol = "icmp" => l.family \in {0, Family[k.src]}

Hit(s, state, k) ==
    CASE s.kind = "established" -> state = "established"
      [] s.kind = "invalid" -> state = "invalid"
      [] s.kind = "intel" -> {k.src, k.dst} \cap blocked # {}
      [] s.kind = "rule" -> \E l \in s.lines : LineMatches(l, k)
      [] OTHER -> TRUE

FirstHit(chain, state, k) ==
    chain[CHOOSE i \in DOMAIN chain :
            /\ Hit(chain[i], state, k)
            /\ \A j \in 1..(i - 1) : ~ Hit(chain[j], state, k)]

(* The possible outcomes for packet k in the forward chain: Suricata may   *)
(* accept or drop what is queued.                                          *)
Forward(state, k) ==
    LET v == FirstHit(table.forward, state, k).verdict
    IN  IF v = "queue" THEN {"accept", "drop"} ELSE {v}

(* Destination NAT of a first packet: the first line that matches. *)
DnatMatches(d, k) ==
    /\ Restricts(d.in, k.in) /\ k.dst = d.dst /\ ServiceMatches(d.service, k)

Rewritten(k, dst, port) ==
    [in |-> k.in, out |-> Route[dst], src |-> k.src, dst |-> dst,
     protocol |-> k.protocol, port |-> port]

Dnatted(chain, k) ==
    LET hits == {i \in DOMAIN chain : DnatMatches(chain[i], k)}
        d == chain[First(hits)]
    IN  IF hits = {} THEN Rewritten(k, k.dst, k.port)
        ELSE Rewritten(k, d.to, IF d.port = 0 THEN k.port ELSE d.port)

Prerouted(k) == Dnatted(table.prerouting, k)

(* Source NAT; masquerade takes the node's own address, Local here.  A     *)
(* translation to an address of the other family does not match.           *)
SnatMatches(s, k) ==
    /\ Restricts(s.out, k.out) /\ Within(s.src, k.src)
    /\ s.to # Absent => Family[s.to] = Family[k.src]

Snatted(chain, k) ==
    LET hits == {i \in DOMAIN chain : SnatMatches(chain[i], k)}
        s == chain[First(hits)]
    IN  IF hits = {} THEN k.src ELSE IF s.to = Absent THEN Local ELSE s.to

Postrouted(k) == Snatted(table.postrouting, k)

-----------------------------------------------------------------------------
(* Variant: the table is flushed and refilled, its sets survive. *)
CommitKeepsSets(v) ==
    /\ version' = v
    /\ artifacts' = Committed[v]
    /\ last' = Nothing
    /\ UNCHANGED <<blocked, conns>>

(* The artifact of the policy replaces the table in one nft transaction;   *)
(* the sets are declared empty, connections are not flushed.               *)
Commit(v) ==
    /\ version' = v
    /\ artifacts' = Committed[v]
    /\ blocked' = {}
    /\ last' = Nothing
    /\ UNCHANGED conns

(* The updater fills the sets when a feed is enabled; nft refuses sets     *)
(* that the table does not have.                                           *)
LoadSets(hosts) ==
    /\ Loaded /\ EnabledFeeds(policy) # {} /\ table.sets
    /\ blocked' = hosts
    /\ last' = Nothing
    /\ UNCHANGED <<version, artifacts, conns>>

(* The first packet of a flow that is not tracked; the table is what makes *)
(* the kernel track connections.  What is routed to the node itself goes   *)
(* through the input chain, which accepts it; it is not followed further.  *)
NewFlow(k) ==
    /\ \A c \in conns : c.sent # k
    /\ UNCHANGED <<version, artifacts, blocked>>
    /\ LET routed == Prerouted(k)
           seen == Postrouted(routed)
       IN  IF routed.out = Local
           THEN /\ last' = Seen("new", k, routed, k.src, "local")
                /\ UNCHANGED conns
           ELSE \E v \in Forward("new", routed) :
                   /\ last' = Seen("new", k, routed, seen, v)
                   /\ IF Loaded /\ v = "accept"
                      THEN /\ Cardinality(conns) < MaxConns
                           /\ conns' = conns \cup {Connection(k, routed, seen)}
                      ELSE UNCHANGED conns

Reply(c) ==
    [in |-> c.routed.out, out |-> c.routed.in, src |-> c.routed.dst,
     dst |-> c.routed.src, protocol |-> c.routed.protocol, port |-> 0]

(* Another packet of a tracked connection, in either direction. *)
Tracked(c) ==
    /\ UNCHANGED <<version, artifacts, blocked, conns>>
    /\ \E k \in {c.routed, Reply(c)} : \E v \in Forward("established", k) :
          last' = Seen("established", c.sent, k, c.seen, v)

(* A packet that belongs to no connection and may not start one: NAT does  *)
(* not see it.                                                             *)
Stray(k) ==
    /\ Route[k.dst] # Local
    /\ UNCHANGED <<version, artifacts, blocked, conns>>
    /\ LET routed == Rewritten(k, k.dst, k.port)
       IN  \E v \in Forward("invalid", routed) :
              last' = Seen("invalid", k, routed, k.src, v)

(* A connection ends or times out. *)
Expire(c) ==
    /\ conns' = conns \ {c}
    /\ last' = Nothing
    /\ UNCHANGED <<version, artifacts, blocked>>

Next ==
    \/ \E v \in DOMAIN Committed : Commit(v)
    \/ \E hosts \in SUBSET Listed : LoadSets(hosts)
    \/ \E k \in Flows : NewFlow(k) \/ Stray(k)
    \/ \E c \in conns : Tracked(c)
    \/ \E c \in conns : Expire(c)

Spec == Init /\ [][Next]_vars

-----------------------------------------------------------------------------
(* Properties *)

Outcome(action) ==
    IF action = "allow" THEN "accept" ELSE IF action = "reject" THEN "reject" ELSE "drop"

(* What the policy in force says of the packet that was just seen. *)
FirstMatch ==
    last.state = "new" /\ last.verdict # "local" /\ Loaded =>
        IF {last.packet.src, last.packet.dst} \cap blocked # {}
        THEN last.verdict = "drop"
        ELSE last.verdict = Outcome(Means(policy, last.packet))

Prevents == Loaded /\ policy.ids.enabled /\ policy.ids.mode = "prevent"

(* Some reference is to zones, and none of them has interfaces. *)
ZoneRefs(p) ==
    (UNION {{p.rules[i].from, p.rules[i].to} : i \in DOMAIN p.rules})
    \cup {{p.snat[i].to} : i \in DOMAIN p.snat}
    \cup {{p.dnat[i].from} : i \in DOMAIN p.dnat}

EmptyZones ==
    Loaded /\ \E refs \in ZoneRefs(policy) :
        ~ Wild(refs) /\ \A ifc \in Ifaces : ~ InZones(policy, refs, ifc)

(* "Rules are evaluated in list order; the first match wins": in a policy  *)
(* without prevent mode and without rules over empty zones the rendered    *)
(* chain gives every first packet the verdict that the policy's messages   *)
(* mean: names, zone pairs, prefixes of two families, ranges of ports and  *)
(* disabled rules have come through the compiler and the renderer.         *)
FollowsPolicy == ~ Prevents /\ ~ EmptyZones => FirstMatch

(* "Rule is a stateful zone-pair filtering rule": packets of a tracked     *)
(* connection pass in both directions, whatever was committed since; what  *)
(* conntrack cannot place is dropped.                                      *)
Stateful ==
    Loaded /\ ~ Prevents =>
        /\ last.state = "established" => last.verdict = "accept"
        /\ last.state = "invalid" => last.verdict = "drop"

(* NAT does what its messages say: a first packet is rewritten by the      *)
(* first entry whose zone, service and destination it matches, and if it   *)
(* is forwarded, leaves with the source of the first entry whose zone and  *)
(* source it matches.                                                      *)
TranslatedAsAsked ==
    last.state = "new" /\ Loaded /\ ~ EmptyZones =>
        /\ <<last.packet.dst, last.packet.port>> = DestinationMeans(policy, last.sent)
        /\ last.verdict # "local" =>
              last.seen = SourceMeans(policy, last.packet, Local)

(* What render.go says of prevent mode: every forwarded packet visits      *)
(* Suricata before policy evaluation.  So the policy is evaluated then:    *)
(* nothing it denies gets through.                                         *)
EvaluatedAfterInspection ==
    Prevents /\ ~ EmptyZones /\ last.state = "new" /\ last.verdict = "accept" =>
        Means(policy, last.packet) = "allow"
=============================================================================
