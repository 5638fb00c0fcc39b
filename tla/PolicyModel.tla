----------------------------- MODULE PolicyModel -----------------------------
(***************************************************************************)
(* The part of a policy that the firewall is made of (policy.proto), and   *)
(* when policy.Validate accepts it (internal/policy/validate.go); the      *)
(* other sections are in PolicySections.                                   *)
(*                                                                         *)
(* A prefix is the set of hosts in it.  The lists of references of a rule  *)
(* are sets: nothing depends on their order.  The lists of objects and of  *)
(* rules are sequences, because names may be repeated in them and because  *)
(* the order of rules and NAT entries matters.  Validate collects problems *)
(* and accepts when there is none, so each check is a conjunct here, and   *)
(* may assume that the objects it refers to have passed theirs.            *)
(***************************************************************************)
EXTENDS Integers, Sequences, FiniteSets

CONSTANTS
    Hosts,      \* addresses of either family
    Family,     \* 4 or 6, of each host
    Ifaces,     \* interface names
    AnyRef,      \* the reserved name
    Absent,     \* a reference that is left empty
    MaxPort     \* 65535 in the code

ASSUME ModelAssumption ==
    /\ Family \in [Hosts -> {4, 6}]
    /\ IsFiniteSet(Hosts)
    /\ IsFiniteSet(Ifaces)
    /\ AnyRef # Absent
    /\ Absent \notin Hosts
    /\ MaxPort \in Nat

(* Ports are ranges; an end of 0 means a single port. *)
Ports == [start : 0..(MaxPort + 1), end : 0..(MaxPort + 1)]

(* What a decoded policy is: its messages with the types of their fields,  *)
(* those of an enum with one of its values.  Anything of these types may   *)
(* be committed.                                                           *)
Protocols == {"unspecified", "tcp", "udp", "icmp", "any"}

Actions == {"unspecified", "allow", "deny", "reject"}

IsFirewall(p) ==
    /\ p.zones \in Seq([name : STRING, ifaces : SUBSET Ifaces])
    /\ p.addresses \in Seq([name : STRING, hosts : SUBSET Hosts])
    /\ p.services \in Seq([name : STRING, protocol : Protocols, ports : SUBSET Ports])
    /\ p.rules \in Seq([name : STRING, from : SUBSET STRING, to : SUBSET STRING,
                        src : SUBSET STRING, dst : SUBSET STRING,
                        services : SUBSET STRING, action : Actions,
                        disabled : BOOLEAN])
    /\ p.snat \in Seq([name : STRING, to : STRING, source : STRING,
                       masquerade : BOOLEAN, translated : STRING])
    /\ p.dnat \in Seq([name : STRING, from : STRING, service : STRING,
                       destination : STRING, translated : STRING, port : Nat])

(* netip.ParsePrefix succeeds for the hosts of one family. *)
IsCIDR(hosts) == hosts # {} /\ \A g, h \in hosts : Family[g] = Family[h]

IsSingleIP(hosts) == Cardinality(hosts) = 1

-----------------------------------------------------------------------------
Names(objects) == {objects[i].name : i \in DOMAIN objects}

(* checkName and the test for duplicates that every collection makes. *)
CheckNames(objects) ==
    /\ Names(objects) \cap {AnyRef, Absent} = {}
    /\ \A i, j \in DOMAIN objects : objects[i].name = objects[j].name => i = j

(* The object of a name, in a policy that passed CheckNames. *)
Named(objects, name) ==
    objects[CHOOSE i \in DOMAIN objects : objects[i].name = name]

CollectZones(p) ==
    /\ CheckNames(p.zones)
    /\ \A i, j \in DOMAIN p.zones :
          p.zones[i].ifaces \cap p.zones[j].ifaces # {} => i = j

CollectAddresses(p) ==
    /\ CheckNames(p.addresses)
    /\ \A i \in DOMAIN p.addresses : IsCIDR(p.addresses[i].hosts)

CheckPort(r) ==
    /\ r.start \in 1..MaxPort
    /\ r.end # 0 => r.end \in r.start..MaxPort

CollectServices(p) ==
    /\ CheckNames(p.services)
    /\ \A i \in DOMAIN p.services :
          LET s == p.services[i]
          IN  \/ s.protocol \in {"tcp", "udp"} /\ \A r \in s.ports : CheckPort(r)
              \/ s.protocol \in {"icmp", "any"} /\ s.ports = {}

CheckRefs(refs, objects) == refs \subseteq Names(objects) \cup {AnyRef}

CheckRules(p) ==
    /\ CheckNames(p.rules)
    /\ \A i \in DOMAIN p.rules :
          LET r == p.rules[i]
          IN  /\ r.action \in {"allow", "deny", "reject"}
              /\ CheckRefs(r.from, p.zones) /\ CheckRefs(r.to, p.zones)
              /\ CheckRefs(r.src, p.addresses) /\ CheckRefs(r.dst, p.addresses)
              /\ CheckRefs(r.services, p.services)

HostAddress(p, ref) ==
    ref \in Names(p.addresses) /\ IsSingleIP(Named(p.addresses, ref).hosts)

CheckSourceNat(p) ==
    /\ CheckNames(p.snat)
    /\ \A i \in DOMAIN p.snat :
          LET s == p.snat[i]
          IN  /\ CheckRefs({s.to}, p.zones)
              /\ s.source # Absent => CheckRefs({s.source}, p.addresses)
              /\ s.masquerade <=> s.translated = Absent
              /\ s.masquerade \/ HostAddress(p, s.translated)

CheckDestinationNat(p) ==
    /\ CheckNames(p.dnat)
    /\ \A i \in DOMAIN p.dnat :
          LET d == p.dnat[i]
          IN  /\ CheckRefs({d.from}, p.zones)
              /\ d.service \in Names(p.services)
              /\ Named(p.services, d.service).protocol \in {"tcp", "udp"}
              /\ HostAddress(p, d.destination)
              /\ HostAddress(p, d.translated)
              /\ d.port \in 0..MaxPort

-----------------------------------------------------------------------------
(* What policy.proto says a policy means, read from the messages alone.    *)

(* "Rules match on zone pairs", and the literal "any" (or no reference at  *)
(* all) matches everything.                                                *)
Wild(refs) == refs = {} \/ AnyRef \in refs

InZones(p, refs, ifc) ==
    \/ Wild(refs)
    \/ \E i \in DOMAIN p.zones : p.zones[i].name \in refs /\ ifc \in p.zones[i].ifaces

InAddresses(p, refs, h) ==
    \/ Wild(refs)
    \/ \E i \in DOMAIN p.addresses :
          p.addresses[i].name \in refs /\ h \in p.addresses[i].hosts

InRange(r, port) ==
    IF r.end = 0 THEN port = r.start ELSE r.start <= port /\ port <= r.end

Serves(s, k) ==
    /\ s.protocol \in {k.protocol, "any"}
    /\ s.ports # {} => \E r \in s.ports : InRange(r, k.port)

InServices(p, refs, k) ==
    \/ Wild(refs)
    \/ \E i \in DOMAIN p.services :
          p.services[i].name \in refs /\ Serves(p.services[i], k)

Applies(p, r, k) ==
    /\ ~ r.disabled
    /\ InZones(p, r.from, k.in) /\ InZones(p, r.to, k.out)
    /\ InAddresses(p, r.src, k.src) /\ InAddresses(p, r.dst, k.dst)
    /\ InServices(p, r.services, k)

First(indices) == CHOOSE i \in indices : \A j \in indices : i <= j

(* "Rules are evaluated in list order; the first match wins"; what no rule *)
(* allows is dropped.                                                      *)
Means(p, k) ==
    LET hits == {i \in DOMAIN p.rules : Applies(p, p.rules[i], k)}
    IN  IF hits = {} THEN "deny" ELSE p.rules[First(hits)].action

(* "DestinationNat rewrites the destination of traffic arriving in         *)
(* from_zone": the new destination and port of a packet.                   *)
DestinationMeans(p, k) ==
    LET hits == {i \in DOMAIN p.dnat :
                   /\ InZones(p, {p.dnat[i].from}, k.in)
                   /\ InServices(p, {p.dnat[i].service}, k)
                   /\ InAddresses(p, {p.dnat[i].destination}, k.dst)}
        d == p.dnat[First(hits)]
    IN  IF hits = {} THEN <<k.dst, k.port>>
        ELSE <<CHOOSE h \in Hosts : InAddresses(p, {d.translated}, h),
               IF d.port = 0 THEN k.port ELSE d.port>>

(* "SourceNat translates the source of traffic leaving via to_zone", to    *)
(* the node's own address or to a fixed one of the packet's family.        *)
SourceMeans(p, k, self) ==
    LET fixed(s) == CHOOSE h \in Hosts : InAddresses(p, {s.translated}, h)
        hits == {i \in DOMAIN p.snat :
                   /\ InZones(p, {p.snat[i].to}, k.out)
                   /\ p.snat[i].source # Absent =>
                         InAddresses(p, {p.snat[i].source}, k.src)
                   /\ p.snat[i].masquerade
                      \/ Family[fixed(p.snat[i])] = Family[k.src]}
        s == p.snat[First(hits)]
    IN  IF hits = {} THEN k.src ELSE IF s.masquerade THEN self ELSE fixed(s)
=============================================================================
