------------------------------- MODULE Ruleset -------------------------------
(***************************************************************************)
(* From a policy to the nftables table: compiler.Compile resolves names    *)
(* (internal/compiler/compile.go), nftables.Render writes the chains       *)
(* (internal/renderers/nftables/render.go).  The text of a line is         *)
(* abstracted to what it matches on and its verdict.                       *)
(*                                                                         *)
(* In a line an empty set stands for a match that was not written, which   *)
(* is what both the IR and the renderer do with empty lists: no match is   *)
(* no restriction.  The lines of one rule have one verdict, so a statement *)
(* of the forward chain is the set of lines of its rule.                   *)
(***************************************************************************)
EXTENDS CompiledSections

(* resolveIfaces, resolvePrefixes: no reference and "any" resolve to nil.  *)
ResolveIfaces(p, refs) ==
    IF Wild(refs) THEN {} ELSE UNION {Named(p.zones, z).ifaces : z \in refs}

ResolvePrefixes(p, refs) ==
    IF Wild(refs) THEN {} ELSE {Named(p.addresses, a).hosts : a \in refs}

(* Variant: the end of a single port is left at 0. *)
ServiceMatchOpen(s) == [protocol |-> s.protocol, ports |-> s.ports]

ServiceMatch(s) ==
    [protocol |-> s.protocol,
     ports |-> {[start |-> r.start,
                 end |-> IF r.end = 0 THEN r.start ELSE r.end] : r \in s.ports}]

CompileRule(p, r) ==
    [from |-> ResolveIfaces(p, r.from),
     to |-> ResolveIfaces(p, r.to),
     src |-> ResolvePrefixes(p, r.src),
     dst |-> ResolvePrefixes(p, r.dst),
     services |-> IF Wild(r.services) THEN {}
                  ELSE {ServiceMatch(Named(p.services, s)) : s \in r.services},
     action |-> r.action]

(* The first n rules, without those that are disabled. *)
CompileRules(p) ==
    LET compiled[n \in 0..Len(p.rules)] ==
          IF n = 0 THEN <<>>
          ELSE IF p.rules[n].disabled THEN compiled[n - 1]
          ELSE Append(compiled[n - 1], CompileRule(p, p.rules[n]))
    IN  compiled[Len(p.rules)]

TheHost(p, ref) == CHOOSE h \in Named(p.addresses, ref).hosts : TRUE

CompileSNAT(p, s) ==
    [out |-> ResolveIfaces(p, {s.to}),
     src |-> IF s.source \in {Absent, AnyRef} THEN {}
             ELSE {Named(p.addresses, s.source).hosts},
     to |-> IF s.masquerade THEN Absent ELSE TheHost(p, s.translated)]

CompileDNAT(p, d) ==
    LET m == ServiceMatch(Named(p.services, d.service))
    IN  [in |-> ResolveIfaces(p, {d.from}),
         service |-> m,
         dst |-> TheHost(p, d.destination),
         to |-> TheHost(p, d.translated),
         port |-> d.port]

Compiles(p) == Validate(p) /\ IdsCompiles(p)

Compile(p) ==
    [rules |-> CompileRules(p),
     snat |-> [i \in DOMAIN p.snat |-> CompileSNAT(p, p.snat[i])],
     dnat |-> [i \in DOMAIN p.dnat |-> CompileDNAT(p, p.dnat[i])],
     routes |-> p.routes,
     ids |-> CompileIDs(p),
     telemetry |-> CompileTelemetry(p),
     routing |-> CompileRouting(p),
     vpn |-> CompileVPN(p),
     network |-> CompileNetwork(p),
     intel |-> Enforces(p)]

-----------------------------------------------------------------------------
(* ruleLines: which address families a rule has lines for; 0 is a line     *)
(* without addresses, for both.                                            *)
OfFamily(prefixes, f) == {x \in prefixes : \A h \in x : Family[h] = f}

(* Variant: one side in a family is enough. *)
FamiliesEither(r) ==
    IF r.src = {} /\ r.dst = {} THEN {0}
    ELSE {f \in {4, 6} : OfFamily(r.src, f) # {} \/ OfFamily(r.dst, f) # {}}

Families(r) ==
    IF r.src = {} /\ r.dst = {} THEN {0}
    ELSE {f \in {4, 6} : /\ r.src = {} \/ OfFamily(r.src, f) # {}
                         /\ r.dst = {} \/ OfFamily(r.dst, f) # {}}

Verdict(action) ==
    CASE action = "allow" -> "accept"
      [] action = "reject" -> "reject"
      [] OTHER -> "drop"

AnyService == [protocol |-> "any", ports |-> {}]

RuleLines(r) ==
    {[family |-> f,
      in |-> r.from,
      out |-> r.to,
      src |-> OfFamily(r.src, f),
      dst |-> OfFamily(r.dst, f),
      service |-> s] :
        f \in Families(r),
        s \in IF r.services = {} THEN {AnyService} ELSE r.services}

RuleStatement(r) ==
    [kind |-> "rule", lines |-> RuleLines(r), verdict |-> Verdict(r.action)]

Fixed(kind, verdict) == [kind |-> kind, lines |-> {}, verdict |-> verdict]

(* The queue that the forward chain hands packets to, if any. *)
Queues(ir) == {d.queue : d \in {x \in ir.ids : x.prevent}}

Queued(ir) == IF Queues(ir) = {} THEN <<>> ELSE <<Fixed("queue", "queue")>>

(* Variant: replies are looked at after the rules. *)
ForwardChainLate(ir) ==
    Queued(ir)
    \o (IF ir.intel THEN <<Fixed("intel", "drop")>> ELSE <<>>)
    \o [i \in DOMAIN ir.rules |-> RuleStatement(ir.rules[i])]
    \o <<Fixed("established", "accept"), Fixed("invalid", "drop"),
         Fixed("default", "drop")>>

(* The forward chain, in the order in which Render writes it.  The MSS     *)
(* clamp has no verdict and is left out.                                   *)
ForwardChain(ir) ==
    Queued(ir)
    \o <<Fixed("established", "accept"), Fixed("invalid", "drop")>>
    \o (IF ir.intel THEN <<Fixed("intel", "drop")>> ELSE <<>>)
    \o [i \in DOMAIN ir.rules |-> RuleStatement(ir.rules[i])]
    \o <<Fixed("default", "drop")>>

(* dnatLine refuses a service without ports; ruleLines refuses a rule      *)
(* whose two sides have no family in common.                               *)
Renders(ir) ==
    /\ \A i \in DOMAIN ir.rules : Families(ir.rules[i]) # {}
    /\ \A i \in DOMAIN ir.dnat : ir.dnat[i].service.ports # {}

Render(ir) ==
    [queues |-> Queues(ir),
     sets |-> ir.intel,
     clamp |-> \E n \in ir.network : n.clamp,
     forward |-> ForwardChain(ir),
     prerouting |-> ir.dnat,
     postrouting |-> ir.snat]

(* External: nft refuses a dnat statement that mixes families. *)
Loads(table) ==
    \A i \in DOMAIN table.prerouting :
        Family[table.prerouting[i].dst] = Family[table.prerouting[i].to]
=============================================================================
