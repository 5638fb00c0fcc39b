--------------------------- MODULE DatapathProofs ---------------------------
(***************************************************************************)
(* Proofs about the forwarding path, for any committed policies, flows and *)
(* blocklists.  The names, prefixes and services of a policy mean the same *)
(* in its messages and in the lines that are rendered from them, so a line *)
(* is hit exactly by what its rule is about; the first statement that is   *)
(* hit is that of the first rule that applies.  The invariant is only that *)
(* what is in force is what the last commit rendered.                      *)
(*                                                                         *)
(* The second half is about the artifacts of the other engines: texts of   *)
(* lines that are read back.  A text that is made of blocks is read as     *)
(* those blocks (BlocksAll), and a value of a block depends on its lines   *)
(* and not on their order (ValueIn); what is left is one lemma for each    *)
(* kind of line.                                                           *)
(***************************************************************************)
EXTENDS Pipeline, FiniteSetTheorems, WellFoundedInduction, TLAPS

(* A set of numbers has a least one. *)
LEMMA LeastOf ==
    ASSUME NEW S \in SUBSET Nat, S # {}
    PROVE  \E i \in S : \A j \in S : i <= j
<1>1. PICK i \in S : \A j \in S : ~ (<<j, i>> \in OpToRel(<, Nat))
  BY NatLessThanWellFounded, WFMin
<1>2. ASSUME NEW j \in S
      PROVE  i <= j
  <2>1. i \in Nat /\ j \in Nat
    OBVIOUS
  <2>2. ~ (j < i)
    BY <1>1, <2>1 DEF OpToRel
  <2> QED
    BY <2>1, <2>2
<1> QED
  BY <1>2

(* The elements of a sequence. *)
LEMMA SeqElements ==
    ASSUME NEW S, NEW s \in Seq(S)
    PROVE  /\ DOMAIN s = 1..Len(s) /\ Len(s) \in Nat
           /\ \A i \in DOMAIN s : s[i] \in S
OBVIOUS

(* First picks the least index. *)
LEMMA FirstOf ==
    ASSUME NEW S \in SUBSET Nat, S # {}
    PROVE  First(S) \in S /\ \A j \in S : First(S) <= j
<1>1. \E i \in S : \A j \in S : i <= j
  BY LeastOf
<1> QED
  BY <1>1 DEF First

(* A name that passed CheckNames names its object. *)
LEMMA NamedIs ==
    ASSUME NEW objects, CheckNames(objects), NEW i \in DOMAIN objects
    PROVE  Named(objects, objects[i].name) = objects[i]
<1> DEFINE k == CHOOSE j \in DOMAIN objects : objects[j].name = objects[i].name
<1>1. k \in DOMAIN objects /\ objects[k].name = objects[i].name
  OBVIOUS
<1>2. k = i
  BY <1>1 DEF CheckNames
<1> QED
  BY <1>2 DEF Named

(* A name of an object resolves to one, and is no wildcard. *)
LEMMA NamedOf ==
    ASSUME NEW objects, CheckNames(objects), NEW name \in Names(objects)
    PROVE  /\ \E i \in DOMAIN objects : Named(objects, name) = objects[i] /\ objects[i].name = name
           /\ name # AnyRef /\ name # Absent
<1>1. PICK i \in DOMAIN objects : objects[i].name = name
  BY DEF Names
<1>2. Named(objects, name) = objects[i]
  BY <1>1, NamedIs
<1>3. name # AnyRef /\ name # Absent
  BY DEF CheckNames
<1> QED
  BY <1>1, <1>2, <1>3

-----------------------------------------------------------------------------
(* What the compiler resolves names to is what the messages say of them.   *)

(* The interfaces of a list of zones: an empty set would match everything, *)
(* so the zones must have some.                                            *)
LEMMA ZonesResolve ==
    ASSUME NEW p, CollectZones(p), NEW refs, CheckRefs(refs, p.zones),
           Wild(refs) \/ (\E x : InZones(p, refs, x)), NEW ifc
    PROVE  Restricts(ResolveIfaces(p, refs), ifc) <=> InZones(p, refs, ifc)
<1>1. CASE Wild(refs)
  BY <1>1 DEF ResolveIfaces, InZones, Restricts
<1>2. CASE ~ Wild(refs)
  <2>1. ResolveIfaces(p, refs) = UNION {Named(p.zones, z).ifaces : z \in refs}
    BY <1>2 DEF ResolveIfaces
  <2>2. refs \subseteq Names(p.zones)
    BY <1>2 DEF CheckRefs, Wild
  <2>3. ASSUME NEW x
        PROVE  x \in ResolveIfaces(p, refs) <=> InZones(p, refs, x)
    <3>1. ASSUME NEW z \in refs, x \in Named(p.zones, z).ifaces
          PROVE  InZones(p, refs, x)
      <4>1. PICK i \in DOMAIN p.zones :
               Named(p.zones, z) = p.zones[i] /\ p.zones[i].name = z
        BY <2>2, NamedOf DEF CollectZones
      <4> QED
        BY <3>1, <4>1 DEF InZones
    <3>2. ASSUME InZones(p, refs, x)
          PROVE  \E z \in refs : x \in Named(p.zones, z).ifaces
      <4>1. PICK i \in DOMAIN p.zones : p.zones[i].name \in refs /\ x \in p.zones[i].ifaces
        BY <1>2, <3>2 DEF InZones
      <4>2. Named(p.zones, p.zones[i].name) = p.zones[i]
        BY NamedIs DEF CollectZones
      <4> QED
        BY <4>1, <4>2
    <3> QED
      BY <2>1, <3>1, <3>2
  <2> QED
    BY <1>2, <2>3 DEF Restricts
<1> QED
  BY <1>1, <1>2

(* The prefixes of a list of addresses are those that a host may be in,    *)
(* and each is of one family.                                              *)
LEMMA AddressesResolve ==
    ASSUME NEW p, CollectAddresses(p), NEW refs, CheckRefs(refs, p.addresses)
    PROVE  /\ \A h : Within(ResolvePrefixes(p, refs), h) <=> InAddresses(p, refs, h)
           /\ \A x \in ResolvePrefixes(p, refs) : IsCIDR(x)
<1>1. CASE Wild(refs)
  BY <1>1 DEF ResolvePrefixes, InAddresses, Within
<1>2. CASE ~ Wild(refs)
  <2>1. ResolvePrefixes(p, refs) = {Named(p.addresses, a).hosts : a \in refs} /\ refs # {}
    BY <1>2 DEF ResolvePrefixes, Wild
  <2>2. refs \subseteq Names(p.addresses)
    BY <1>2 DEF CheckRefs, Wild
  <2>3. ASSUME NEW a \in refs
        PROVE  \E i \in DOMAIN p.addresses :
                  /\ Named(p.addresses, a) = p.addresses[i]
                  /\ p.addresses[i].name = a /\ IsCIDR(p.addresses[i].hosts)
    BY <2>2, NamedOf DEF CollectAddresses
  <2>4. ASSUME NEW h
        PROVE  Within(ResolvePrefixes(p, refs), h) <=> InAddresses(p, refs, h)
    <3>1. ASSUME NEW i \in DOMAIN p.addresses, p.addresses[i].name \in refs,
                 h \in p.addresses[i].hosts
          PROVE  \E x \in ResolvePrefixes(p, refs) : h \in x
      <4>1. Named(p.addresses, p.addresses[i].name) = p.addresses[i]
        BY NamedIs DEF CollectAddresses
      <4> QED
        BY <2>1, <3>1, <4>1
    <3>2. ASSUME NEW x \in ResolvePrefixes(p, refs), h \in x
          PROVE  InAddresses(p, refs, h)
      <4>1. PICK a \in refs : x = Named(p.addresses, a).hosts
        BY <2>1
      <4> QED
        BY <2>3, <3>2, <4>1 DEF InAddresses
    <3>3. ResolvePrefixes(p, refs) # {}
      BY <2>1
    <3> QED
      BY <1>2, <3>1, <3>2, <3>3 DEF Within, InAddresses
  <2> QED
    BY <2>1, <2>3, <2>4
<1> QED
  BY <1>1, <1>2

(* Filling in the end of a single port leaves the ports as they are. *)
LEMMA ServiceMatchIs ==
    ASSUME NEW p, IsFirewall(p), CollectServices(p), NEW i \in DOMAIN p.services,
           NEW k, k.port \in Nat
    PROVE  ServiceMatches(ServiceMatch(p.services[i]), k) <=> Serves(p.services[i], k)
<1> DEFINE s == p.services[i]
           m == ServiceMatch(s)
           closed(r) == [start |-> r.start, end |-> IF r.end = 0 THEN r.start ELSE r.end]
<1>1. s.ports \in SUBSET Ports
  <2>1. p.services \in Seq([name : STRING, protocol : Protocols, ports : SUBSET Ports])
    BY DEF IsFirewall
  <2>2. s \in [name : STRING, protocol : Protocols, ports : SUBSET Ports]
    BY <2>1, SeqElements
  <2> QED
    BY <2>2
<1>2. m.protocol = s.protocol /\ m.ports = {closed(r) : r \in s.ports}
  BY DEF ServiceMatch
<1>3. ASSUME NEW r \in s.ports
      PROVE  closed(r).start <= k.port /\ k.port <= closed(r).end <=> InRange(r, k.port)
  <2>1. r.start \in Nat /\ r.end \in Nat
    BY <1>1, ModelAssumption DEF Ports
  <2>2. closed(r).start = r.start /\ closed(r).end = IF r.end = 0 THEN r.start ELSE r.end
    OBVIOUS
  <2> QED
    BY <2>1, <2>2 DEF InRange
<1>4. (\E r \in m.ports : r.start <= k.port /\ k.port <= r.end)
        <=> \E r \in s.ports : InRange(r, k.port)
  BY <1>2, <1>3
<1>5. m.ports # {} <=> s.ports # {}
  BY <1>2
<1> QED
  BY <1>2, <1>4, <1>5 DEF ServiceMatches, Serves

(* The services of a rule, as its lines have them. *)
RuleServices(p, refs) ==
    IF Wild(refs) THEN {} ELSE {ServiceMatch(Named(p.services, s)) : s \in refs}

(* The same for services. *)
LEMMA ServicesResolve ==
    ASSUME NEW p, IsFirewall(p), CollectServices(p),
           NEW refs, CheckRefs(refs, p.services), NEW k, k.port \in Nat
    PROVE  LET written == IF RuleServices(p, refs) = {} THEN {AnyService}
                          ELSE RuleServices(p, refs)
           IN  (\E s \in written : ServiceMatches(s, k)) <=> InServices(p, refs, k)
<1>1. CASE Wild(refs)
  <2>1. RuleServices(p, refs) = {}
    BY <1>1 DEF RuleServices
  <2>2. ServiceMatches(AnyService, k)
    BY DEF AnyService, ServiceMatches
  <2> QED
    BY <1>1, <2>1, <2>2 DEF InServices
<1>2. CASE ~ Wild(refs)
  <2>1. RuleServices(p, refs) = {ServiceMatch(Named(p.services, s)) : s \in refs}
    BY <1>2 DEF RuleServices
  <2>2. refs # {} /\ refs \subseteq Names(p.services)
    BY <1>2 DEF CheckRefs, Wild
  <2>3. ASSUME NEW s \in refs, ServiceMatches(ServiceMatch(Named(p.services, s)), k)
        PROVE  InServices(p, refs, k)
    <3>1. PICK i \in DOMAIN p.services :
             Named(p.services, s) = p.services[i] /\ p.services[i].name = s
      BY <2>2, NamedOf DEF CollectServices
    <3>2. Serves(p.services[i], k)
      BY <2>3, <3>1, ServiceMatchIs
    <3> QED
      BY <3>1, <3>2 DEF InServices
  <2>4. ASSUME InServices(p, refs, k)
        PROVE  \E s \in refs : ServiceMatches(ServiceMatch(Named(p.services, s)), k)
    <3>1. PICK i \in DOMAIN p.services :
             p.services[i].name \in refs /\ Serves(p.services[i], k)
      BY <1>2, <2>4 DEF InServices
    <3>2. Named(p.services, p.services[i].name) = p.services[i]
      BY NamedIs DEF CollectServices
    <3>3. ServiceMatches(ServiceMatch(p.services[i]), k)
      BY <3>1, ServiceMatchIs
    <3> QED
      BY <3>1, <3>2, <3>3
  <2>5. RuleServices(p, refs) # {}
    BY <2>1, <2>2
  <2> QED
    BY <2>1, <2>3, <2>4, <2>5
<1> QED
  BY <1>1, <1>2

-----------------------------------------------------------------------------
(* The lines of a rule.                                                    *)

(* Prefixes split by family: the line of a packet's own family sees all    *)
(* that its prefixes do, the other one nothing.                            *)
LEMMA FamilyWithin ==
    ASSUME NEW prefixes, \A x \in prefixes : IsCIDR(x), NEW h \in Hosts, NEW f
    PROVE  /\ (prefixes = {} \/ OfFamily(prefixes, f) # {})
                 /\ Within(OfFamily(prefixes, f), h) =>
                 Within(prefixes, h) /\ (prefixes # {} => f = Family[h])
           /\ Within(prefixes, h) => \/ prefixes = {}
                                     \/ OfFamily(prefixes, Family[h]) # {}
           /\ Within(prefixes, h) => Within(OfFamily(prefixes, Family[h]), h)
<1>1. OfFamily({}, f) = {} /\ OfFamily({}, Family[h]) = {}
  BY DEF OfFamily
<1>2. ASSUME NEW x \in OfFamily(prefixes, f), h \in x
      PROVE  x \in prefixes /\ f = Family[h]
  BY <1>2 DEF OfFamily
<1>3. ASSUME NEW x \in prefixes, h \in x
      PROVE  x \in OfFamily(prefixes, Family[h])
  BY <1>3 DEF OfFamily, IsCIDR
<1> QED
  BY <1>1, <1>2, <1>3 DEF Within

(* A statement is hit by exactly the packets that its rule applies to. *)
LEMMA RuleHit ==
    ASSUME NEW p, IsFirewall(p), CollectZones(p), CollectAddresses(p),
           CollectServices(p), CheckRules(p), NEW i \in DOMAIN p.rules,
           ~ p.rules[i].disabled,
           Wild(p.rules[i].from) \/ (\E x : InZones(p, p.rules[i].from, x)),
           Wild(p.rules[i].to) \/ (\E x : InZones(p, p.rules[i].to, x)),
           NEW k, k.src \in Hosts, k.dst \in Hosts, k.port \in Nat,
           Family[k.src] = Family[k.dst], NEW state
    PROVE  Hit(RuleStatement(CompileRule(p, p.rules[i])), state, k)
             <=> Applies(p, p.rules[i], k)
<1> DEFINE r == p.rules[i]
           c == CompileRule(p, r)
           services == IF c.services = {} THEN {AnyService} ELSE c.services
           line(f, s) == [family |-> f, in |-> c.from, out |-> c.to,
                          src |-> OfFamily(c.src, f), dst |-> OfFamily(c.dst, f),
                          service |-> s]
<1>1. /\ c.from = ResolveIfaces(p, r.from) /\ c.to = ResolveIfaces(p, r.to)
      /\ c.src = ResolvePrefixes(p, r.src) /\ c.dst = ResolvePrefixes(p, r.dst)
      /\ c.services = RuleServices(p, r.services)
  BY DEF CompileRule, RuleServices
<1>2. /\ CheckRefs(r.from, p.zones) /\ CheckRefs(r.to, p.zones)
      /\ CheckRefs(r.src, p.addresses) /\ CheckRefs(r.dst, p.addresses)
      /\ CheckRefs(r.services, p.services)
  BY DEF CheckRules
<1>3. /\ Restricts(c.from, k.in) <=> InZones(p, r.from, k.in)
      /\ Restricts(c.to, k.out) <=> InZones(p, r.to, k.out)
  BY <1>1, <1>2, ZonesResolve
<1>4. /\ Within(c.src, k.src) <=> InAddresses(p, r.src, k.src)
      /\ Within(c.dst, k.dst) <=> InAddresses(p, r.dst, k.dst)
      /\ \A x \in c.src : IsCIDR(x)
      /\ \A x \in c.dst : IsCIDR(x)
  BY <1>1, <1>2, AddressesResolve
<1>5. (\E s \in services : ServiceMatches(s, k)) <=> InServices(p, r.services, k)
  BY <1>1, <1>2, ServicesResolve
<1>6. Hit(RuleStatement(c), state, k)
        <=> \E f \in Families(c), s \in services : LineMatches(line(f, s), k)
  <2>1. Hit(RuleStatement(c), state, k) <=> \E l \in RuleLines(c) : LineMatches(l, k)
    BY DEF Hit, RuleStatement
  <2>2. \A l : l \in RuleLines(c) <=> \E f \in Families(c), s \in services : l = line(f, s)
    BY DEF RuleLines
  <2> HIDE DEF services, line
  <2> QED
    BY <2>1, <2>2
<1>7. ASSUME NEW f, NEW s
      PROVE  LineMatches(line(f, s), k)
               <=> /\ Restricts(c.from, k.in) /\ Restricts(c.to, k.out)
                   /\ Within(OfFamily(c.src, f), k.src) /\ Within(OfFamily(c.dst, f), k.dst)
                   /\ ServiceMatches(s, k)
                   /\ s.protocol = "icmp" => f \in {0, Family[k.src]}
  BY DEF LineMatches
<1>8. ASSUME NEW f \in Families(c), NEW s \in services, LineMatches(line(f, s), k)
      PROVE  Applies(p, r, k)
  <2>1. c.src = {} \/ OfFamily(c.src, f) # {}
    BY DEF Families
  <2>2. c.dst = {} \/ OfFamily(c.dst, f) # {}
    BY DEF Families
  <2>3. Within(c.src, k.src) /\ Within(c.dst, k.dst)
    BY <1>4, <1>7, <1>8, <2>1, <2>2, FamilyWithin
  <2>4. Restricts(c.from, k.in) /\ Restricts(c.to, k.out) /\ ServiceMatches(s, k)
    BY <1>7, <1>8
  <2> QED
    BY <1>3, <1>4, <1>5, <2>3, <2>4 DEF Applies
<1>9. ASSUME Applies(p, r, k)
      PROVE  \E f \in Families(c), s \in services : LineMatches(line(f, s), k)
  <2> DEFINE f == IF c.src = {} /\ c.dst = {} THEN 0 ELSE Family[k.src]
  <2>1. Within(c.src, k.src) /\ Within(c.dst, k.dst)
    BY <1>4, <1>9 DEF Applies
  <2>2. PICK s \in services : ServiceMatches(s, k)
    BY <1>5, <1>9 DEF Applies
  <2>3. f \in Families(c)
    <3>1. Family[k.src] \in {4, 6}
      BY ModelAssumption
    <3>2. /\ c.src = {} \/ OfFamily(c.src, Family[k.src]) # {}
          /\ c.dst = {} \/ OfFamily(c.dst, Family[k.dst]) # {}
      BY <1>4, <2>1, FamilyWithin
    <3> QED
      BY <3>1, <3>2 DEF Families
  <2>4. Within(OfFamily(c.src, f), k.src) /\ Within(OfFamily(c.dst, f), k.dst)
    <3>1. CASE c.src = {} /\ c.dst = {}
      BY <3>1 DEF OfFamily, Within
    <3>2. CASE ~ (c.src = {} /\ c.dst = {})
      <4>1. f = Family[k.src] /\ f = Family[k.dst]
        BY <3>2
      <4>2. Within(OfFamily(c.src, Family[k.src]), k.src)
        BY <1>4, <2>1, FamilyWithin
      <4>3. Within(OfFamily(c.dst, Family[k.dst]), k.dst)
        BY <1>4, <2>1, FamilyWithin
      <4> QED
        BY <4>1, <4>2, <4>3
    <3> QED
      BY <3>1, <3>2
  <2>5. Restricts(c.from, k.in) /\ Restricts(c.to, k.out)
    BY <1>3, <1>9 DEF Applies
  <2>6. LineMatches(line(f, s), k)
    BY <1>7, <2>2, <2>4, <2>5
  <2> QED
    BY <2>2, <2>3, <2>6
<1> QED
  BY <1>6, <1>8, <1>9

-----------------------------------------------------------------------------
(* The rules of the IR.                                                    *)

(* The rules that are kept of the first n: m of them, the k-th of which is *)
(* the rule g[k].                                                          *)
Kept(p, n, s, m, g) ==
    /\ m \in Nat /\ g \in [1..m -> 1..n]
    /\ s = [k \in 1..m |-> CompileRule(p, p.rules[g[k]])]
    /\ \A k, l \in 1..m : k < l => g[k] < g[l]
    /\ \A k \in 1..m : ~ p.rules[g[k]].disabled
    /\ \A i \in 1..n : ~ p.rules[i].disabled => \E k \in 1..m : g[k] = i

(* The loop over the rules. *)
LoopBody(p, c, n) ==
    IF n = 0 THEN <<>>
    ELSE IF p.rules[n].disabled THEN c[n - 1]
    ELSE Append(c[n - 1], CompileRule(p, p.rules[n]))

(* The loop's accumulator exists, whatever its length. *)
LEMMA LoopExists ==
    ASSUME NEW p
    PROVE  \A m \in Nat : \E c : c = [n \in 0..m |-> LoopBody(p, c, n)]
<1> DEFINE good(m) == \E c : c = [n \in 0..m |-> LoopBody(p, c, n)]
           bad == {m \in Nat : ~ good(m)}
<1>1. SUFFICES ASSUME bad # {} PROVE FALSE
  BY <1>1
<1>2. PICK m \in bad : \A j \in bad : m <= j
  BY <1>1, LeastOf
<1>3. m \in Nat /\ ~ good(m)
  OBVIOUS
<1>4. CASE m = 0
  <2> DEFINE c == [n \in 0..0 |-> <<>>]
  <2>1. c = [n \in 0..0 |-> LoopBody(p, c, n)]
    BY DEF LoopBody
  <2> QED
    BY <1>3, <1>4, <2>1
<1>5. CASE m # 0
  <2>1. m - 1 \in Nat /\ m - 1 < m
    BY <1>3, <1>5
  <2>2. good(m - 1)
    BY <1>2, <2>1
  <2>3. PICK c : c = [n \in 0..(m - 1) |-> LoopBody(p, c, n)]
    BY <2>2
  <2> DEFINE d == [n \in 0..m |-> IF n = m THEN LoopBody(p, c, m) ELSE c[n]]
  <2>4. ASSUME NEW n \in 0..m
        PROVE  d[n] = LoopBody(p, d, n)
    <3>1. CASE n = 0
      <4>1. n \in 0..(m - 1) /\ d[n] = c[n]
        BY <1>3, <1>5, <3>1
      <4>2. c[n] = LoopBody(p, c, n)
        BY <2>3, <4>1
      <4> QED
        BY <3>1, <4>1, <4>2 DEF LoopBody
    <3>2. CASE n # 0
      <4>1. n - 1 \in 0..(m - 1) /\ n - 1 \in 0..m /\ n - 1 # m
        BY <1>3, <3>2
      <4>2. d[n - 1] = c[n - 1]
        BY <4>1
      <4>3. d[n] = LoopBody(p, c, n)
        <5>1. CASE n = m
          BY <5>1
        <5>2. CASE n # m
          <6>1. n \in 0..(m - 1) /\ d[n] = c[n]
            BY <1>3, <5>2
          <6> QED
            BY <2>3, <6>1
        <5> QED
          BY <5>1, <5>2
      <4>4. LoopBody(p, c, n) = LoopBody(p, d, n)
        BY <4>2 DEF LoopBody
      <4> QED
        BY <4>3, <4>4
    <3> QED
      BY <3>1, <3>2
  <2> HIDE DEF d
  <2>5. d = [n \in 0..m |-> LoopBody(p, d, n)]
    <3>1. DOMAIN d = 0..m /\ d = [n \in 0..m |-> d[n]]
      BY DEF d
    <3> QED
      BY <2>4, <3>1
  <2> QED
    BY <1>3, <2>5
<1> QED
  BY <1>4, <1>5

(* CompileRules keeps the rules that are not disabled, in order. *)
LEMMA CompiledRules ==
    ASSUME NEW p, NEW S, p.rules \in Seq(S)
    PROVE  \E m, g : Kept(p, Len(p.rules), CompileRules(p), m, g)
<1> DEFINE N == Len(p.rules)
<1>1. N \in Nat
  OBVIOUS
<1>2. PICK c : c = [n \in 0..N |-> LoopBody(p, c, n)] /\ CompileRules(p) = c[N]
  <2> DEFINE e == CHOOSE c : c = [n \in 0..N |-> LoopBody(p, c, n)]
  <2>1. e = [n \in 0..N |-> LoopBody(p, e, n)]
    BY <1>1, LoopExists
  <2>2. CompileRules(p) = e[N]
    BY DEF CompileRules, LoopBody
  <2> QED
    BY <2>1, <2>2
<1> DEFINE good(n) == \E m, g : Kept(p, n, c[n], m, g)
           bad == {n \in 0..N : ~ good(n)}
<1>3. SUFFICES ASSUME bad # {} PROVE FALSE
  BY <1>1, <1>2, <1>3
<1>4. PICK n \in bad : \A j \in bad : n <= j
  <2>1. bad \in SUBSET Nat
    BY <1>1
  <2> QED
    BY <1>3, <2>1, LeastOf
<1>5. n \in 0..N /\ ~ good(n) /\ c[n] = LoopBody(p, c, n)
  BY <1>2
<1>6. CASE n = 0
  <2>1. c[n] = <<>>
    BY <1>5, <1>6 DEF LoopBody
  <2>2. Kept(p, n, c[n], 0, <<>>)
    BY <1>6, <2>1 DEF Kept
  <2> QED
    BY <1>5, <2>2
<1>7. CASE n # 0
  <2>1. n - 1 \in 0..N /\ n - 1 < n /\ n \in Nat /\ n - 1 \in Nat
    BY <1>1, <1>5, <1>7
  <2>2. PICK m, g : Kept(p, n - 1, c[n - 1], m, g)
    <3>1. n - 1 \notin bad
      BY <1>4, <2>1
    <3> QED
      BY <2>1, <3>1
  <2>3. CASE p.rules[n].disabled
    <3>1. c[n] = c[n - 1]
      BY <1>5, <1>7, <2>3 DEF LoopBody
    <3>2. g \in [1..m -> 1..n]
      BY <2>1, <2>2 DEF Kept
    <3>3. Kept(p, n, c[n], m, g)
      <4>1. ASSUME NEW i \in 1..n, ~ p.rules[i].disabled
            PROVE  \E k \in 1..m : g[k] = i
        <5>1. i \in 1..(n - 1)
          BY <2>1, <2>3, <4>1
        <5> QED
          BY <2>2, <4>1, <5>1 DEF Kept
      <4> QED
        BY <2>2, <3>1, <3>2, <4>1 DEF Kept
    <3> QED
      BY <1>5, <3>3
  <2>4. CASE ~ p.rules[n].disabled
    <3> DEFINE h == [k \in 1..(m + 1) |-> IF k = m + 1 THEN n ELSE g[k]]
               R == {CompileRule(p, p.rules[i]) : i \in Nat}
               t == [k \in 1..(m + 1) |-> CompileRule(p, p.rules[h[k]])]
    <3>1. m \in Nat /\ g \in [1..m -> 1..(n - 1)]
      BY <2>2 DEF Kept
    <3>2. h \in [1..(m + 1) -> 1..n]
      BY <2>1, <3>1
    <3>3. /\ \A k \in 1..m : k \in 1..(m + 1) /\ h[k] = g[k] /\ h[k] < n
          /\ m + 1 \in 1..(m + 1) /\ h[m + 1] = n
      BY <2>1, <3>1
    <3>4. c[n] = t
      <4>1. c[n] = Append(c[n - 1], CompileRule(p, p.rules[n]))
        BY <1>5, <1>7, <2>4 DEF LoopBody
      <4>2. c[n - 1] = [k \in 1..m |-> CompileRule(p, p.rules[g[k]])]
        BY <2>2 DEF Kept
      <4>3. \A k \in 1..m : g[k] \in Nat
        BY <2>1, <3>1
      <4>4. c[n - 1] \in Seq(R)
        <5> HIDE DEF R
        <5>1. \A k \in 1..m : CompileRule(p, p.rules[g[k]]) \in R
          BY <4>3 DEF R
        <5> QED
          BY <3>1, <4>2, <5>1
      <4>5. CompileRule(p, p.rules[n]) \in R
        BY <2>1
      <4>6. Len(c[n - 1]) = m
        BY <3>1, <4>2, <4>4
      <4> HIDE DEF R, h
      <4>7. c[n] = [k \in 1..(m + 1) |-> IF k = m + 1 THEN CompileRule(p, p.rules[n])
                                          ELSE c[n - 1][k]]
        BY <3>1, <4>1, <4>4, <4>5, <4>6
      <4>8. ASSUME NEW k \in 1..(m + 1)
            PROVE  c[n][k] = t[k]
        <5>1. CASE k = m + 1
          BY <3>3, <4>7, <5>1
        <5>2. CASE k # m + 1
          <6>1. k \in 1..m
            BY <3>1, <5>2
          <6>2. c[n][k] = CompileRule(p, p.rules[g[k]])
            BY <4>2, <4>7, <5>2, <6>1
          <6> QED
            BY <3>3, <6>1, <6>2
        <5> QED
          BY <5>1, <5>2
      <4> QED
        BY <4>7, <4>8
    <3> HIDE DEF h
    <3>5. \A k, l \in 1..(m + 1) : k < l => h[k] < h[l]
      <4> SUFFICES ASSUME NEW k \in 1..(m + 1), NEW l \in 1..(m + 1), k < l
                   PROVE  h[k] < h[l]
        OBVIOUS
      <4>1. k \in 1..m
        BY <3>1
      <4>2. CASE l = m + 1
        BY <3>3, <4>1, <4>2
      <4>3. CASE l # m + 1
        <5>1. l \in 1..m
          BY <3>1, <4>3
        <5>2. g[k] < g[l]
          BY <2>2, <4>1, <5>1 DEF Kept
        <5> QED
          BY <3>3, <4>1, <5>1, <5>2
      <4> QED
        BY <4>2, <4>3
    <3>6. \A k \in 1..(m + 1) : ~ p.rules[h[k]].disabled
      <4> SUFFICES ASSUME NEW k \in 1..(m + 1) PROVE ~ p.rules[h[k]].disabled
        OBVIOUS
      <4>1. CASE k = m + 1
        BY <2>4, <3>3, <4>1
      <4>2. CASE k # m + 1
        <5>1. k \in 1..m
          BY <3>1, <4>2
        <5> QED
          BY <2>2, <3>3, <5>1 DEF Kept
      <4> QED
        BY <4>1, <4>2
    <3>7. ASSUME NEW i \in 1..n, ~ p.rules[i].disabled
          PROVE  \E k \in 1..(m + 1) : h[k] = i
      <4>1. CASE i = n
        BY <3>3, <4>1
      <4>2. CASE i # n
        <5>1. i \in 1..(n - 1)
          BY <2>1, <4>2
        <5>2. PICK k \in 1..m : g[k] = i
          BY <2>2, <3>7, <5>1 DEF Kept
        <5> QED
          BY <3>3, <5>2
      <4> QED
        BY <4>1, <4>2
    <3>8. Kept(p, n, c[n], m + 1, h)
      <4>1. c[n] = [k \in 1..(m + 1) |-> CompileRule(p, p.rules[h[k]])]
        BY <3>4
      <4>2. m + 1 \in Nat
        BY <3>1
      <4> HIDE DEF t
      <4> QED
        BY <3>2, <3>5, <3>6, <3>7, <4>1, <4>2 DEF Kept
    <3> QED
      BY <1>5, <3>8
  <2> QED
    BY <2>3, <2>4
<1> QED
  BY <1>6, <1>7

-----------------------------------------------------------------------------
(* The forward chain.                                                      *)

LEMMA ConcatIs ==
    ASSUME NEW S, NEW s \in Seq(S), NEW t \in Seq(S)
    PROVE  /\ s \o t \in Seq(S) /\ Len(s \o t) = Len(s) + Len(t)
           /\ DOMAIN (s \o t) = 1..(Len(s) + Len(t))
           /\ \A i \in 1..Len(s) : (s \o t)[i] = s[i]
           /\ \A i \in 1..Len(t) : (s \o t)[Len(s) + i] = t[i]
<1>1. s \o t \in Seq(S) /\ Len(s \o t) = Len(s) + Len(t)
  OBVIOUS
<1>2. DOMAIN (s \o t) = 1..(Len(s) + Len(t))
  BY <1>1
<1>3. \A i \in 1..Len(s) : (s \o t)[i] = s[i]
  OBVIOUS
<1>4. ASSUME NEW i \in 1..Len(t)
      PROVE  (s \o t)[Len(s) + i] = t[i]
  <2>1. Len(s) \in Nat /\ Len(t) \in Nat /\ i \in Nat
    OBVIOUS
  <2>2. Len(s) + i \in 1..(Len(s) + Len(t)) /\ Len(s) + i > Len(s) /\ (Len(s) + i) - Len(s) = i
    BY <2>1
  <2> QED
    BY <2>2
<1> QED
  BY <1>1, <1>2, <1>3, <1>4

(* How many statements stand before those of the rules. *)
Preamble(ir) == Len(Queued(ir)) + 2 + IF ir.intel THEN 1 ELSE 0

(* Where each statement is. *)
LEMMA ChainIs ==
    ASSUME NEW ir, NEW m \in Nat, DOMAIN ir.rules = 1..m
    PROVE  LET chain == ForwardChain(ir)
               q == Len(Queued(ir))
               t == Preamble(ir)
           IN  /\ q \in {0, 1} /\ (q = 0 <=> Queues(ir) = {})
               /\ t = q + 2 + IF ir.intel THEN 1 ELSE 0
               /\ t \in Nat
               /\ DOMAIN chain = 1..(t + m + 1)
               /\ q = 1 => chain[1] = Fixed("queue", "queue")
               /\ chain[q + 1] = Fixed("established", "accept")
               /\ chain[q + 2] = Fixed("invalid", "drop")
               /\ ir.intel => chain[q + 3] = Fixed("intel", "drop")
               /\ \A k \in 1..m : chain[t + k] = RuleStatement(ir.rules[k])
               /\ chain[t + m + 1] = Fixed("default", "drop")
<1> DEFINE a == Queued(ir)
           b == <<Fixed("established", "accept"), Fixed("invalid", "drop")>>
           c == IF ir.intel THEN <<Fixed("intel", "drop")>> ELSE <<>>
           d == [i \in DOMAIN ir.rules |-> RuleStatement(ir.rules[i])]
           e == <<Fixed("default", "drop")>>
           S == {Fixed("queue", "queue"), Fixed("established", "accept"),
                 Fixed("invalid", "drop"), Fixed("intel", "drop"),
                 Fixed("default", "drop")}
                \cup {RuleStatement(ir.rules[i]) : i \in DOMAIN ir.rules}
           q == Len(a)
           t == Preamble(ir)
<1>1. a \in Seq(S) /\ q \in {0, 1} /\ (q = 0 <=> Queues(ir) = {})
      /\ (q = 1 => a[1] = Fixed("queue", "queue"))
  <2>0. Fixed("queue", "queue") \in S
    OBVIOUS
  <2> HIDE DEF S
  <2>1. CASE Queues(ir) = {}
    <3>1. a = <<>>
      BY <2>1 DEF Queued
    <3> QED
      BY <2>1, <3>1
  <2>2. CASE Queues(ir) # {}
    <3>1. a = <<Fixed("queue", "queue")>>
      BY <2>2 DEF Queued
    <3> QED
      BY <2>0, <2>2, <3>1
  <2> QED
    BY <2>1, <2>2
<1>2. b \in Seq(S) /\ Len(b) = 2 /\ b[1] = Fixed("established", "accept")
      /\ b[2] = Fixed("invalid", "drop")
  OBVIOUS
<1>3. c \in Seq(S) /\ Len(c) = (IF ir.intel THEN 1 ELSE 0)
      /\ (ir.intel => c[1] = Fixed("intel", "drop"))
  <2>0. Fixed("intel", "drop") \in S
    OBVIOUS
  <2> HIDE DEF S
  <2>1. CASE ir.intel
    <3>1. c = <<Fixed("intel", "drop")>>
      BY <2>1
    <3> QED
      BY <2>0, <2>1, <3>1
  <2>2. CASE ~ ir.intel
    <3>1. c = <<>>
      BY <2>2
    <3> QED
      BY <2>2, <3>1
  <2> QED
    BY <2>1, <2>2
<1>4. d \in Seq(S) /\ Len(d) = m
      /\ \A k \in 1..m : d[k] = RuleStatement(ir.rules[k])
  <2>1. \A k \in 1..m : RuleStatement(ir.rules[k]) \in S
    OBVIOUS
  <2> HIDE DEF S
  <2> QED
    BY <2>1
<1>5. e \in Seq(S) /\ Len(e) = 1 /\ e[1] = Fixed("default", "drop")
  OBVIOUS
<1>6. ForwardChain(ir) = (((a \o b) \o c) \o d) \o e
  BY DEF ForwardChain
<1> HIDE DEF S, a, b, c, d, e
<1>7. /\ a \o b \in Seq(S) /\ Len(a \o b) = q + 2
      /\ q = 1 => (a \o b)[1] = Fixed("queue", "queue")
      /\ (a \o b)[q + 1] = Fixed("established", "accept")
      /\ (a \o b)[q + 2] = Fixed("invalid", "drop")
  <2>1. /\ a \o b \in Seq(S) /\ Len(a \o b) = q + 2
        /\ \A i \in 1..q : (a \o b)[i] = a[i]
        /\ \A i \in 1..2 : (a \o b)[q + i] = b[i]
    <3>1. /\ a \o b \in Seq(S) /\ Len(a \o b) = Len(a) + Len(b)
          /\ \A i \in 1..Len(a) : (a \o b)[i] = a[i]
          /\ \A i \in 1..Len(b) : (a \o b)[Len(a) + i] = b[i]
      <4>1. a \in Seq(S) /\ b \in Seq(S)
        BY <1>1, <1>2
      <4> QED
        BY ONLY <4>1, ConcatIs
    <3> QED
      BY <1>2, <3>1
  <2> QED
    BY <1>1, <1>2, <2>1
<1> DEFINE ab == a \o b
           abc == ab \o c
           abcd == abc \o d
<1>8. t = q + 2 + (IF ir.intel THEN 1 ELSE 0) /\ t \in Nat /\ q \in Nat
  BY <1>1 DEF Preamble, a
<1> HIDE DEF ab, abc, abcd, t, q
<1>9. /\ abc \in Seq(S) /\ Len(abc) = t
      /\ \A i \in 1..(q + 2) : abc[i] = ab[i]
      /\ ir.intel => abc[q + 3] = Fixed("intel", "drop")
  <2>1. ab \in Seq(S) /\ Len(ab) = q + 2
    BY <1>7 DEF ab
  <2>2. /\ abc \in Seq(S) /\ Len(abc) = Len(ab) + Len(c)
        /\ \A i \in 1..Len(ab) : abc[i] = ab[i]
        /\ \A i \in 1..Len(c) : abc[Len(ab) + i] = c[i]
    BY <1>3, <2>1, ConcatIs DEF abc
  <2>3. ir.intel => abc[(q + 2) + 1] = c[1]
    BY <1>3, <2>1, <2>2
  <2> QED
    BY <1>3, <1>8, <2>1, <2>2, <2>3
<1>10. /\ abcd \in Seq(S) /\ Len(abcd) = t + m
       /\ \A i \in 1..t : abcd[i] = abc[i]
       /\ \A k \in 1..m : abcd[t + k] = RuleStatement(ir.rules[k])
  <2>1. /\ abcd \in Seq(S) /\ Len(abcd) = Len(abc) + Len(d)
        /\ \A i \in 1..Len(abc) : abcd[i] = abc[i]
        /\ \A i \in 1..Len(d) : abcd[Len(abc) + i] = d[i]
    <3>1. abc \in Seq(S) /\ d \in Seq(S)
      BY <1>4, <1>9
    <3> QED
      BY ONLY <3>1, ConcatIs DEF abcd
  <2> QED
    BY <1>4, <1>9, <2>1
<1>11. /\ DOMAIN ForwardChain(ir) = 1..(t + m + 1)
       /\ \A i \in 1..(t + m) : ForwardChain(ir)[i] = abcd[i]
       /\ ForwardChain(ir)[t + m + 1] = Fixed("default", "drop")
  <2>1. ForwardChain(ir) = abcd \o e
    BY <1>6 DEF abcd, abc, ab
  <2>2. /\ DOMAIN (abcd \o e) = 1..(Len(abcd) + Len(e))
        /\ \A i \in 1..Len(abcd) : (abcd \o e)[i] = abcd[i]
        /\ \A i \in 1..Len(e) : (abcd \o e)[Len(abcd) + i] = e[i]
    BY <1>5, <1>10, ConcatIs
  <2> QED
    BY <1>5, <1>10, <2>1, <2>2
<1>12. \A i \in 1..t : ForwardChain(ir)[i] = abc[i]
  BY <1>8, <1>10, <1>11
<1>13. \A i \in 1..(q + 2) : i \in 1..t /\ ForwardChain(ir)[i] = ab[i]
  BY <1>8, <1>9, <1>12
<1>14. /\ q = 1 => ForwardChain(ir)[1] = Fixed("queue", "queue")
       /\ ForwardChain(ir)[q + 1] = Fixed("established", "accept")
       /\ ForwardChain(ir)[q + 2] = Fixed("invalid", "drop")
  BY <1>7, <1>8, <1>13 DEF ab
<1>15. ir.intel => ForwardChain(ir)[q + 3] = Fixed("intel", "drop")
  BY <1>8, <1>9, <1>12
<1>16. \A k \in 1..m : ForwardChain(ir)[t + k] = RuleStatement(ir.rules[k])
  BY <1>8, <1>10, <1>11
<1>17. q \in {0, 1} /\ (q = 0 <=> Queues(ir) = {})
  BY <1>1 DEF q
<1> QED
  BY <1>8, <1>11, <1>14, <1>15, <1>16, <1>17 DEF q, t, a

(* The first statement that is hit decides. *)
LEMMA FirstHitIs ==
    ASSUME NEW chain, DOMAIN chain \subseteq Nat \ {0}, NEW state, NEW k,
           NEW i \in DOMAIN chain, Hit(chain[i], state, k),
           \A j \in DOMAIN chain : j < i => ~ Hit(chain[j], state, k),
           \A j \in 1..i : j \in DOMAIN chain
    PROVE  FirstHit(chain, state, k) = chain[i]
<1> DEFINE ok(x) == Hit(chain[x], state, k) /\ \A j \in 1..(x - 1) : ~ Hit(chain[j], state, k)
           x == CHOOSE y \in DOMAIN chain : ok(y)
<1>1. ok(i)
  BY i \in Nat
<1>2. x \in DOMAIN chain /\ ok(x)
  BY <1>1
<1>3. x \in Nat /\ i \in Nat /\ i # 0
  BY <1>2
<1>4. ~ (x < i)
  BY <1>2, <1>3
<1>5. ~ (i < x)
  <2>1. i < x => i \in 1..(x - 1)
    BY <1>3
  <2> QED
    BY <1>2, <2>1
<1>6. x = i
  BY <1>3, <1>4, <1>5
<1> QED
  BY <1>6 DEF FirstHit

(* In a chain some statement is hit first; when nothing is queued, packets *)
(* of connections pass, and what conntrack cannot place does not.          *)
LEMMA ChainVerdict ==
    ASSUME NEW ir, NEW m \in Nat, DOMAIN ir.rules = 1..m,
           NEW state \in {"new", "established", "invalid"}, NEW k
    PROVE  LET v == FirstHit(ForwardChain(ir), state, k).verdict
           IN  /\ v \in {"queue", "accept", "drop", "reject"}
               /\ Queues(ir) = {} /\ state = "established" => v = "accept"
               /\ Queues(ir) = {} /\ state = "invalid" => v = "drop"
<1> DEFINE chain == ForwardChain(ir)
           q == Len(Queued(ir))
           t == Preamble(ir)
           hits == {i \in DOMAIN chain : Hit(chain[i], state, k)}
<1>1. /\ q \in {0, 1} /\ (q = 0 <=> Queues(ir) = {})
      /\ t = q + 2 + (IF ir.intel THEN 1 ELSE 0) /\ t \in Nat
      /\ DOMAIN chain = 1..(t + m + 1)
      /\ q = 1 => chain[1] = Fixed("queue", "queue")
      /\ chain[q + 1] = Fixed("established", "accept")
      /\ chain[q + 2] = Fixed("invalid", "drop")
      /\ ir.intel => chain[q + 3] = Fixed("intel", "drop")
      /\ \A j \in 1..m : chain[t + j] = RuleStatement(ir.rules[j])
      /\ chain[t + m + 1] = Fixed("default", "drop")
  BY ChainIs
<1> HIDE DEF chain, q, t
<1>2. ASSUME NEW i \in DOMAIN chain
      PROVE  chain[i].verdict \in {"queue", "accept", "drop", "reject"}
  <2>1. i \in 1..t \/ i \in (t + 1)..(t + m) \/ i = t + m + 1
    BY <1>1
  <2>2. CASE i \in 1..t
    <3>1. \/ q = 1 /\ i = 1
          \/ i = q + 1 \/ i = q + 2 \/ (ir.intel /\ i = q + 3)
      BY <1>1, <2>2
    <3> QED
      BY <1>1, <3>1 DEF Fixed
  <2>3. CASE i \in (t + 1)..(t + m)
    <3>1. i - t \in 1..m /\ t + (i - t) = i
      BY <1>1, <2>3
    <3>2. chain[i] = RuleStatement(ir.rules[i - t])
      BY <1>1, <3>1
    <3> QED
      BY <3>2 DEF RuleStatement, Verdict
  <2>4. CASE i = t + m + 1
    BY <1>1, <2>4 DEF Fixed
  <2> QED
    BY <2>1, <2>2, <2>3, <2>4
<1>3. PICK i \in hits : \A j \in hits : i <= j
  <2>1. Hit(Fixed("default", "drop"), state, k)
    BY DEF Hit, Fixed
  <2>2. t + m + 1 \in hits
    BY <1>1, <2>1
  <2>3. hits \in SUBSET Nat
    BY <1>1
  <2> QED
    BY <2>2, <2>3, LeastOf
<1>4. FirstHit(chain, state, k) = chain[i]
  <2>1. i \in DOMAIN chain /\ Hit(chain[i], state, k) /\ DOMAIN chain \subseteq Nat \ {0}
    BY <1>1
  <2>2. \A j \in DOMAIN chain : j < i => ~ Hit(chain[j], state, k)
    BY <1>1, <1>3
  <2>3. \A j \in 1..i : j \in DOMAIN chain
    BY <1>1
  <2> QED
    BY <2>1, <2>2, <2>3, FirstHitIs
<1>5. ASSUME Queues(ir) = {}, state = "established"
      PROVE  chain[i].verdict = "accept"
  <2>1. 1 \in hits
    BY <1>1, <1>5 DEF Hit, Fixed
  <2>2. i = 1
    BY <1>1, <1>3, <2>1
  <2> QED
    BY <1>1, <1>5, <2>2 DEF Fixed
<1>6. ASSUME Queues(ir) = {}, state = "invalid"
      PROVE  chain[i].verdict = "drop"
  <2>1. 2 \in hits /\ 1 \notin hits
    BY <1>1, <1>6 DEF Hit, Fixed
  <2>2. i = 2
    BY <1>1, <1>3, <2>1
  <2> QED
    BY <1>1, <1>6, <2>2 DEF Fixed
<1> QED
  BY <1>2, <1>3, <1>4, <1>5, <1>6 DEF chain

(* No zones that a rule or a NAT entry refers to are without interfaces. *)
ZonesFilled(p) ==
    \A refs \in ZoneRefs(p) : Wild(refs) \/ \E x : InZones(p, refs, x)

(* The first packet of a connection: the blocklist, then the first rule    *)
(* that applies.                                                           *)
LEMMA NewVerdict ==
    ASSUME NEW p, IsFirewall(p), Validate(p), ZonesFilled(p), Queues(Compile(p)) = {},
           NEW k, k.src \in Hosts, k.dst \in Hosts, k.port \in Nat,
           Family[k.src] = Family[k.dst], blocked # {} => Compile(p).intel
    PROVE  FirstHit(ForwardChain(Compile(p)), "new", k).verdict
             = IF {k.src, k.dst} \cap blocked # {} THEN "drop" ELSE Outcome(Means(p, k))
<1> DEFINE ir == Compile(p)
           rules == CompileRules(p)
           chain == ForwardChain(ir)
           t == Preamble(ir)
           N == Len(p.rules)
           applies == {i \in DOMAIN p.rules : Applies(p, p.rules[i], k)}
           listed == {k.src, k.dst} \cap blocked # {}
<1>1. /\ p.rules \in Seq([name : STRING, from : SUBSET STRING, to : SUBSET STRING,
                         src : SUBSET STRING, dst : SUBSET STRING,
                         services : SUBSET STRING, action : Actions,
                         disabled : BOOLEAN])
      /\ N \in Nat /\ DOMAIN p.rules = 1..N
  <2>1. p.rules \in Seq([name : STRING, from : SUBSET STRING, to : SUBSET STRING,
                         src : SUBSET STRING, dst : SUBSET STRING,
                         services : SUBSET STRING, action : Actions,
                         disabled : BOOLEAN])
    BY DEF IsFirewall
  <2> QED
    BY <2>1, SeqElements
<1>2. PICK m, g : Kept(p, N, rules, m, g)
  BY <1>1, CompiledRules
<1>3. /\ m \in Nat /\ g \in [1..m -> 1..N] /\ DOMAIN rules = 1..m
      /\ \A j \in 1..m : rules[j] = CompileRule(p, p.rules[g[j]])
      /\ \A i, j \in 1..m : i < j => g[i] < g[j]
      /\ \A j \in 1..m : ~ p.rules[g[j]].disabled
      /\ \A i \in 1..N : ~ p.rules[i].disabled => \E j \in 1..m : g[j] = i
  BY <1>2 DEF Kept
<1>4. ir.rules = rules
  BY DEF Compile
<1> HIDE DEF ir, rules
<1>5. /\ t = 2 + (IF ir.intel THEN 1 ELSE 0) /\ t \in Nat
      /\ DOMAIN chain = 1..(t + m + 1)
      /\ chain[1] = Fixed("established", "accept")
      /\ chain[2] = Fixed("invalid", "drop")
      /\ ir.intel => chain[3] = Fixed("intel", "drop")
      /\ \A j \in 1..m : chain[t + j] = RuleStatement(ir.rules[j])
      /\ chain[t + m + 1] = Fixed("default", "drop")
  <2>1. Len(Queued(ir)) = 0
    BY DEF Queued, ir
  <2>2. DOMAIN ir.rules = 1..m
    BY <1>3, <1>4
  <2> HIDE DEF chain, t
  <2>3. /\ t = Len(Queued(ir)) + 2 + (IF ir.intel THEN 1 ELSE 0) /\ t \in Nat
        /\ DOMAIN chain = 1..(t + m + 1)
        /\ chain[Len(Queued(ir)) + 1] = Fixed("established", "accept")
        /\ chain[Len(Queued(ir)) + 2] = Fixed("invalid", "drop")
        /\ ir.intel => chain[Len(Queued(ir)) + 3] = Fixed("intel", "drop")
        /\ \A j \in 1..m : chain[t + j] = RuleStatement(ir.rules[j])
        /\ chain[t + m + 1] = Fixed("default", "drop")
    BY <1>3, <2>2, ChainIs DEF chain, t
  <2> QED
    BY <2>1, <2>3
<1> HIDE DEF chain, t
<1>6. ASSUME NEW j \in 1..m
      PROVE  Hit(chain[t + j], "new", k) <=> g[j] \in applies
  <2>1. g[j] \in DOMAIN p.rules /\ ~ p.rules[g[j]].disabled
    BY <1>1, <1>3
  <2>2. /\ Wild(p.rules[g[j]].from) \/ (\E x : InZones(p, p.rules[g[j]].from, x))
        /\ Wild(p.rules[g[j]].to) \/ (\E x : InZones(p, p.rules[g[j]].to, x))
    <3> DEFINE refs == {p.rules[g[j]].from, p.rules[g[j]].to}
    <3>0. refs \in {{p.rules[i].from, p.rules[i].to} : i \in DOMAIN p.rules}
      BY <2>1
    <3>1. p.rules[g[j]].from \in ZoneRefs(p) /\ p.rules[g[j]].to \in ZoneRefs(p)
      <4>1. refs \subseteq ZoneRefs(p)
        BY <3>0 DEF ZoneRefs
      <4> QED
        BY <4>1
    <3> QED
      BY <3>1 DEF ZonesFilled
  <2>3. Hit(RuleStatement(CompileRule(p, p.rules[g[j]])), "new", k)
          <=> Applies(p, p.rules[g[j]], k)
    BY <2>1, <2>2, RuleHit DEF Validate
  <2>4. chain[t + j] = RuleStatement(CompileRule(p, p.rules[g[j]]))
    BY <1>3, <1>4, <1>5
  <2> QED
    BY <2>1, <2>3, <2>4
<1>7. /\ ~ Hit(chain[1], "new", k) /\ ~ Hit(chain[2], "new", k)
      /\ ir.intel => (Hit(chain[3], "new", k) <=> listed)
      /\ Hit(chain[t + m + 1], "new", k)
  BY <1>5 DEF Hit, Fixed
<1>8. ASSUME NEW i \in DOMAIN chain, Hit(chain[i], "new", k),
             \A j \in DOMAIN chain : j < i => ~ Hit(chain[j], "new", k)
      PROVE  FirstHit(chain, "new", k) = chain[i]
  <2>1. DOMAIN chain \subseteq Nat \ {0} /\ \A j \in 1..i : j \in DOMAIN chain
    BY <1>3, <1>5
  <2> QED
    BY <1>8, <2>1, FirstHitIs
<1>9. CASE listed
  <2>1. ir.intel
    BY <1>9 DEF ir
  <2>2. 3 \in DOMAIN chain /\ Hit(chain[3], "new", k)
    BY <1>3, <1>5, <1>7, <1>9, <2>1
  <2>3. \A j \in DOMAIN chain : j < 3 => j = 1 \/ j = 2
    BY <1>3, <1>5
  <2>4. FirstHit(chain, "new", k) = chain[3]
    BY <1>7, <1>8, <2>2, <2>3
  <2> QED
    BY <1>5, <1>9, <2>1, <2>4 DEF Fixed, chain, ir
<1>10. CASE ~ listed
  <2>1. ASSUME NEW j \in 1..t
        PROVE  ~ Hit(chain[j], "new", k)
    <3>1. j = 1 \/ j = 2 \/ (ir.intel /\ j = 3)
      BY <1>5
    <3> QED
      BY <1>7, <1>10, <3>1
  <2>2. CASE applies = {}
    <3>1. \A j \in DOMAIN chain : j < t + m + 1 => ~ Hit(chain[j], "new", k)
      <4> SUFFICES ASSUME NEW j \in DOMAIN chain, j < t + m + 1
                   PROVE  ~ Hit(chain[j], "new", k)
        OBVIOUS
      <4>1. CASE j \in 1..t
        BY <2>1, <4>1
      <4>2. CASE j \notin 1..t
        <5>1. j - t \in 1..m /\ t + (j - t) = j
          BY <1>3, <1>5, <4>2
        <5> QED
          BY <1>6, <2>2, <5>1
      <4> QED
        BY <4>1, <4>2
    <3>2. t + m + 1 \in DOMAIN chain
      BY <1>3, <1>5
    <3>3. FirstHit(chain, "new", k) = Fixed("default", "drop")
      BY <1>5, <1>7, <1>8, <3>1, <3>2
    <3>4. Means(p, k) = "deny"
      BY <2>2 DEF Means
    <3> QED
      BY <1>10, <3>3, <3>4 DEF Fixed, Outcome, chain, ir
  <2>3. CASE applies # {}
    <3> DEFINE f == First(applies)
    <3>1. f \in applies /\ \A i \in applies : f <= i
      <4>1. applies \in SUBSET Nat
        BY <1>1
      <4> QED
        BY <2>3, <4>1, FirstOf
    <3>2. f \in 1..N /\ Means(p, k) = p.rules[f].action /\ ~ p.rules[f].disabled
      BY <1>1, <2>3, <3>1 DEF Means, Applies
    <3> HIDE DEF f, applies
    <3>3. PICK j \in 1..m : g[j] = f
      BY <1>3, <3>2
    <3>4. \A i \in DOMAIN chain : i < t + j => ~ Hit(chain[i], "new", k)
      <4> SUFFICES ASSUME NEW i \in DOMAIN chain, i < t + j
                   PROVE  ~ Hit(chain[i], "new", k)
        OBVIOUS
      <4>1. CASE i \in 1..t
        BY <2>1, <4>1
      <4>2. CASE i \notin 1..t
        <5>1. i - t \in 1..m /\ t + (i - t) = i /\ i - t < j
          <6>1. i \in Nat /\ i > t /\ j \in Nat /\ j <= m
            BY <1>3, <1>5, <4>2
          <6>2. t \in Nat /\ m \in Nat /\ i < t + j
            BY <1>3, <1>5
          <6> QED
            BY ONLY <6>1, <6>2
        <5>2. g[i - t] < f /\ g[i - t] \in Nat
          BY <1>3, <3>3, <5>1
        <5>3. g[i - t] \notin applies
          BY <1>3, <3>1, <3>2, <5>2
        <5> QED
          BY <1>6, <5>1, <5>3
      <4> QED
        BY <4>1, <4>2
    <3>5. t + j \in DOMAIN chain /\ Hit(chain[t + j], "new", k)
      BY <1>3, <1>5, <1>6, <3>1, <3>3
    <3>6. FirstHit(chain, "new", k) = RuleStatement(CompileRule(p, p.rules[f]))
      <4>1. FirstHit(chain, "new", k) = chain[t + j]
        BY <1>8, <3>4, <3>5
      <4> QED
        BY <1>3, <1>4, <1>5, <3>3, <4>1
    <3>7. RuleStatement(CompileRule(p, p.rules[f])).verdict = Verdict(p.rules[f].action)
      BY DEF RuleStatement, CompileRule
    <3>8. Verdict(p.rules[f].action) = Outcome(p.rules[f].action)
      BY DEF Verdict, Outcome
    <3> QED
      BY <1>10, <3>2, <3>6, <3>7, <3>8 DEF chain, ir
  <2> QED
    BY <2>2, <2>3
<1> QED
  BY <1>9, <1>10

-----------------------------------------------------------------------------
(* Address translation.                                                    *)

(* An address of one host names that host. *)
LEMMA HostIs ==
    ASSUME NEW p, IsFirewall(p), CollectAddresses(p), NEW ref, HostAddress(p, ref)
    PROVE  /\ TheHost(p, ref) \in Hosts
           /\ \A h : InAddresses(p, {ref}, h) <=> h = TheHost(p, ref)
<1>1. PICK i \in DOMAIN p.addresses :
         Named(p.addresses, ref) = p.addresses[i] /\ p.addresses[i].name = ref /\ ref # AnyRef
  BY NamedOf DEF HostAddress, CollectAddresses
<1> DEFINE hosts == p.addresses[i].hosts
<1>2. hosts \in SUBSET Hosts
  <2>1. p.addresses \in Seq([name : STRING, hosts : SUBSET Hosts])
    BY DEF IsFirewall
  <2>2. p.addresses[i] \in [name : STRING, hosts : SUBSET Hosts]
    BY <2>1, SeqElements
  <2> QED
    BY <2>2
<1>3. PICK x : hosts = {x}
  <2>1. IsFiniteSet(hosts)
    BY <1>2, ModelAssumption, FS_Subset
  <2>2. Cardinality(hosts) = 1
    BY <1>1 DEF HostAddress, IsSingleIP
  <2> QED
    BY <2>1, <2>2, FS_Singleton
<1>4. TheHost(p, ref) = x
  BY <1>1, <1>3 DEF TheHost
<1>5. ASSUME NEW h
      PROVE  InAddresses(p, {ref}, h) <=> h = x
  <2>1. ~ Wild({ref})
    BY <1>1 DEF Wild
  <2>2. ASSUME NEW j \in DOMAIN p.addresses, p.addresses[j].name = ref
        PROVE  j = i
    BY <1>1, <2>2 DEF CollectAddresses, CheckNames
  <2> QED
    BY <1>1, <1>3, <2>1, <2>2 DEF InAddresses
<1> QED
  BY <1>2, <1>3, <1>4, <1>5

(* The zones of the NAT entries are among those that must have interfaces. *)
LEMMA NatZones ==
    ASSUME NEW p, ZonesFilled(p)
    PROVE  /\ \A i \in DOMAIN p.snat :
                 Wild({p.snat[i].to}) \/ \E x : InZones(p, {p.snat[i].to}, x)
           /\ \A i \in DOMAIN p.dnat :
                 Wild({p.dnat[i].from}) \/ \E x : InZones(p, {p.dnat[i].from}, x)
<1> DEFINE A == UNION {{p.rules[i].from, p.rules[i].to} : i \in DOMAIN p.rules}
           B == {{p.snat[i].to} : i \in DOMAIN p.snat}
           C == {{p.dnat[i].from} : i \in DOMAIN p.dnat}
<1>1. ZoneRefs(p) = A \cup B \cup C
  BY DEF ZoneRefs
<1>2. \A i \in DOMAIN p.snat : {p.snat[i].to} \in B
  OBVIOUS
<1>3. \A i \in DOMAIN p.dnat : {p.dnat[i].from} \in C
  OBVIOUS
<1> HIDE DEF A, B, C
<1> QED
  BY <1>1, <1>2, <1>3 DEF ZonesFilled

(* A destination NAT entry matches what its message says. *)
LEMMA DnatIs ==
    ASSUME NEW p, IsFirewall(p), Validate(p), ZonesFilled(p), NEW i \in DOMAIN p.dnat,
           NEW k, k.port \in Nat
    PROVE  DnatMatches(CompileDNAT(p, p.dnat[i]), k)
             <=> /\ InZones(p, {p.dnat[i].from}, k.in)
                 /\ InServices(p, {p.dnat[i].service}, k)
                 /\ InAddresses(p, {p.dnat[i].destination}, k.dst)
<1> DEFINE d == p.dnat[i]
           c == CompileDNAT(p, d)
<1>1. /\ CheckRefs({d.from}, p.zones) /\ d.service \in Names(p.services)
      /\ HostAddress(p, d.destination)
  BY DEF Validate, CheckDestinationNat
<1>2. /\ c.in = ResolveIfaces(p, {d.from}) /\ c.dst = TheHost(p, d.destination)
      /\ c.service = ServiceMatch(Named(p.services, d.service))
  BY DEF CompileDNAT
<1>3. Restricts(c.in, k.in) <=> InZones(p, {d.from}, k.in)
  <2>1. Wild({d.from}) \/ (\E x : InZones(p, {d.from}, x))
    BY NatZones
  <2> QED
    BY <1>1, <1>2, <2>1, ZonesResolve DEF Validate
<1>4. k.dst = c.dst <=> InAddresses(p, {d.destination}, k.dst)
  BY <1>1, <1>2, HostIs DEF Validate
<1>5. ServiceMatches(c.service, k) <=> InServices(p, {d.service}, k)
  <2>1. PICK j \in DOMAIN p.services :
           /\ Named(p.services, d.service) = p.services[j]
           /\ p.services[j].name = d.service /\ d.service # AnyRef
    BY <1>1, NamedOf DEF Validate, CollectServices
  <2>2. ServiceMatches(c.service, k) <=> Serves(p.services[j], k)
    BY <1>2, <2>1, ServiceMatchIs DEF Validate
  <2>3. ~ Wild({d.service})
    BY <2>1 DEF Wild
  <2>4. ASSUME NEW n \in DOMAIN p.services, p.services[n].name = d.service
        PROVE  n = j
    BY <2>1, <2>4 DEF Validate, CollectServices, CheckNames
  <2> QED
    BY <2>1, <2>2, <2>3, <2>4 DEF InServices
<1> QED
  BY <1>3, <1>4, <1>5 DEF DnatMatches

(* The chain rewrites the first packet of a connection as the messages     *)
(* say.                                                                    *)
LEMMA DnattedIs ==
    ASSUME NEW p, IsFirewall(p), Validate(p), ZonesFilled(p), NEW k, k.port \in Nat
    PROVE  LET r == Dnatted(Compile(p).dnat, k)
           IN  <<r.dst, r.port>> = DestinationMeans(p, k)
<1> DEFINE chain == [i \in DOMAIN p.dnat |-> CompileDNAT(p, p.dnat[i])]
           matched == {i \in DOMAIN chain : DnatMatches(chain[i], k)}
           hits == {i \in DOMAIN p.dnat :
                      /\ InZones(p, {p.dnat[i].from}, k.in)
                      /\ InServices(p, {p.dnat[i].service}, k)
                      /\ InAddresses(p, {p.dnat[i].destination}, k.dst)}
           r == Dnatted(chain, k)
<1>1. Compile(p).dnat = chain
  BY DEF Compile
<1>2. matched = hits
  BY DnatIs
<1>3. CASE hits = {}
  <2>1. r = Rewritten(k, k.dst, k.port)
    BY <1>2, <1>3 DEF Dnatted
  <2>2. DestinationMeans(p, k) = <<k.dst, k.port>>
    BY <1>3 DEF DestinationMeans
  <2> QED
    BY <1>1, <2>1, <2>2 DEF Rewritten
<1>4. CASE hits # {}
  <2> DEFINE f == First(hits)
             d == p.dnat[f]
  <2>1. f \in hits /\ f \in DOMAIN p.dnat
    <3>1. DOMAIN p.dnat \subseteq Nat
      <4>1. p.dnat \in Seq([name : STRING, from : STRING, service : STRING,
                            destination : STRING, translated : STRING, port : Nat])
        BY DEF IsFirewall
      <4> QED
        BY <4>1, SeqElements
    <3> QED
      BY <1>4, <3>1, FirstOf
  <2>2. HostAddress(p, d.translated)
    BY <2>1 DEF Validate, CheckDestinationNat
  <2>3. (CHOOSE h \in Hosts : InAddresses(p, {d.translated}, h)) = TheHost(p, d.translated)
    BY <2>2, HostIs DEF Validate
  <2>4. chain[f].to = TheHost(p, d.translated) /\ chain[f].port = d.port
    BY <2>1 DEF CompileDNAT
  <2>5. r = Rewritten(k, chain[f].to, IF chain[f].port = 0 THEN k.port ELSE chain[f].port)
    <3>1. r = IF matched = {} THEN Rewritten(k, k.dst, k.port)
              ELSE Rewritten(k, chain[First(matched)].to,
                             IF chain[First(matched)].port = 0 THEN k.port
                             ELSE chain[First(matched)].port)
      BY DEF Dnatted
    <3> HIDE DEF chain, matched, hits, r
    <3> QED
      BY <1>2, <1>4, <3>1
  <2>6. DestinationMeans(p, k) = <<TheHost(p, d.translated),
                                   IF d.port = 0 THEN k.port ELSE d.port>>
    BY <1>4, <2>3 DEF DestinationMeans
  <2> HIDE DEF chain, f, hits, r
  <2>7. /\ r.dst = chain[f].to
        /\ r.port = IF chain[f].port = 0 THEN k.port ELSE chain[f].port
    BY <2>5 DEF Rewritten
  <2> QED
    BY <1>1, <2>4, <2>6, <2>7 DEF r
<1> QED
  BY <1>3, <1>4

(* A source NAT entry matches what its message says; masquerade is the     *)
(* entry without an address.                                               *)
LEMMA SnatIs ==
    ASSUME NEW p, IsFirewall(p), Validate(p), ZonesFilled(p), NEW i \in DOMAIN p.snat, NEW k
    PROVE  LET s == p.snat[i]
               c == CompileSNAT(p, s)
               fixed == CHOOSE h \in Hosts : InAddresses(p, {s.translated}, h)
           IN  /\ SnatMatches(c, k)
                    <=> /\ InZones(p, {s.to}, k.out)
                        /\ s.source # Absent => InAddresses(p, {s.source}, k.src)
                        /\ s.masquerade \/ Family[fixed] = Family[k.src]
               /\ c.to = Absent <=> s.masquerade
               /\ ~ s.masquerade => c.to = fixed
<1> DEFINE s == p.snat[i]
           c == CompileSNAT(p, s)
           fixed == CHOOSE h \in Hosts : InAddresses(p, {s.translated}, h)
<1>1. /\ CheckRefs({s.to}, p.zones)
      /\ s.source # Absent => CheckRefs({s.source}, p.addresses)
      /\ s.masquerade \/ HostAddress(p, s.translated)
  BY DEF Validate, CheckSourceNat
<1>2. /\ c.out = ResolveIfaces(p, {s.to})
      /\ c.src = IF s.source \in {Absent, AnyRef} THEN {}
                 ELSE {Named(p.addresses, s.source).hosts}
      /\ c.to = IF s.masquerade THEN Absent ELSE TheHost(p, s.translated)
  BY DEF CompileSNAT
<1>3. Restricts(c.out, k.out) <=> InZones(p, {s.to}, k.out)
  <2>1. Wild({s.to}) \/ (\E x : InZones(p, {s.to}, x))
    BY NatZones
  <2> QED
    BY <1>1, <1>2, <2>1, ZonesResolve DEF Validate
<1>4. Within(c.src, k.src) <=> (s.source # Absent => InAddresses(p, {s.source}, k.src))
  <2>1. CASE s.source = Absent
    BY <1>2, <2>1 DEF Within
  <2>2. CASE s.source # Absent
    <3>1. c.src = ResolvePrefixes(p, {s.source})
      BY <1>2, <2>2 DEF ResolvePrefixes, Wild
    <3> QED
      BY <1>1, <2>2, <3>1, AddressesResolve DEF Validate
  <2> QED
    BY <2>1, <2>2
<1>5. ~ s.masquerade => c.to = fixed /\ c.to \in Hosts /\ c.to # Absent
  <2> SUFFICES ASSUME ~ s.masquerade PROVE c.to = fixed /\ c.to \in Hosts /\ c.to # Absent
    OBVIOUS
  <2>1. /\ TheHost(p, s.translated) \in Hosts
        /\ \A h : InAddresses(p, {s.translated}, h) <=> h = TheHost(p, s.translated)
    BY <1>1, HostIs DEF Validate
  <2> QED
    BY <1>2, <2>1, ModelAssumption
<1>6. s.masquerade => c.to = Absent
  BY <1>2
<1>7. (c.to # Absent => Family[c.to] = Family[k.src])
        <=> (s.masquerade \/ Family[fixed] = Family[k.src])
  BY <1>5, <1>6
<1> HIDE DEF c, fixed
<1>8. SnatMatches(c, k)
        <=> /\ Restricts(c.out, k.out) /\ Within(c.src, k.src)
            /\ c.to # Absent => Family[c.to] = Family[k.src]
  BY DEF SnatMatches
<1> QED
  BY <1>3, <1>4, <1>5, <1>6, <1>7, <1>8 DEF c, fixed

(* The source NAT chain rewrites as the first entry that applies says. *)
LEMMA SnattedIs ==
    ASSUME NEW p, IsFirewall(p), Validate(p), ZonesFilled(p), NEW k
    PROVE  Snatted(Compile(p).snat, k) = SourceMeans(p, k, Local)
<1> DEFINE chain == [i \in DOMAIN p.snat |-> CompileSNAT(p, p.snat[i])]
           fixed(s) == CHOOSE h \in Hosts : InAddresses(p, {s.translated}, h)
           matched == {i \in DOMAIN chain : SnatMatches(chain[i], k)}
           hits == {i \in DOMAIN p.snat :
                      /\ InZones(p, {p.snat[i].to}, k.out)
                      /\ p.snat[i].source # Absent =>
                            InAddresses(p, {p.snat[i].source}, k.src)
                      /\ p.snat[i].masquerade
                         \/ Family[fixed(p.snat[i])] = Family[k.src]}
           f == First(hits)
<1>1. Compile(p).snat = chain
  BY DEF Compile
<1>2. matched = hits
  BY SnatIs
<1>3. SourceMeans(p, k, Local)
        = IF hits = {} THEN k.src ELSE IF p.snat[f].masquerade THEN Local ELSE fixed(p.snat[f])
  BY DEF SourceMeans
<1>4. Snatted(chain, k)
        = IF hits = {} THEN k.src ELSE IF chain[f].to = Absent THEN Local ELSE chain[f].to
  <2>1. Snatted(chain, k)
          = IF matched = {} THEN k.src
            ELSE IF chain[First(matched)].to = Absent THEN Local ELSE chain[First(matched)].to
    BY DEF Snatted
  <2> HIDE DEF chain, matched, hits
  <2> QED
    BY <1>2, <2>1
<1>5. CASE hits = {}
  BY <1>1, <1>3, <1>4, <1>5
<1>6. CASE hits # {}
  <2>1. f \in DOMAIN p.snat
    <3>1. DOMAIN p.snat \subseteq Nat
      <4>1. p.snat \in Seq([name : STRING, to : STRING, source : STRING,
                            masquerade : BOOLEAN, translated : STRING])
        BY DEF IsFirewall
      <4> QED
        BY <4>1, SeqElements
    <3> QED
      BY <1>6, <3>1, FirstOf
  <2>2. chain[f] = CompileSNAT(p, p.snat[f])
    BY <2>1
  <2>3. /\ chain[f].to = Absent <=> p.snat[f].masquerade
        /\ ~ p.snat[f].masquerade => chain[f].to = fixed(p.snat[f])
    BY <2>1, <2>2, SnatIs
  <2> QED
    BY <1>1, <1>3, <1>4, <1>6, <2>3
<1> QED
  BY <1>5, <1>6

-----------------------------------------------------------------------------
(* The invariant.                                                          *)

(* What is in force is what the commit of the running version rendered. *)
InForce ==
    /\ version \in Committable \cup {0}
    /\ artifacts = IF version = 0 THEN None ELSE Committed[version]

ForceInv == InForce /\ TypeOK /\ IsFiniteSet(conns)

(* The rules of the IR are a sequence. *)
LEMMA RulesDomain ==
    ASSUME NEW p, IsFirewall(p)
    PROVE  \E m \in Nat : DOMAIN Compile(p).rules = 1..m
<1>1. p.rules \in Seq([name : STRING, from : SUBSET STRING, to : SUBSET STRING,
                       src : SUBSET STRING, dst : SUBSET STRING,
                       services : SUBSET STRING, action : Actions,
                       disabled : BOOLEAN])
  BY DEF IsFirewall
<1>2. PICK m, g : Kept(p, Len(p.rules), CompileRules(p), m, g)
  BY <1>1, CompiledRules
<1>3. m \in Nat /\ DOMAIN CompileRules(p) = 1..m
  BY <1>2 DEF Kept
<1> QED
  BY <1>3 DEF Compile

(* A policy in force passed every stage, and its table is the one loaded. *)
LEMMA TableIs ==
    ASSUME InForce, Loaded
    PROVE  /\ IsFirewall(policy) /\ Validate(policy) /\ Loads(table)
           /\ table = Render(Compile(policy))
           /\ table.forward = ForwardChain(Compile(policy))
           /\ table.prerouting = Compile(policy).dnat
           /\ table.postrouting = Compile(policy).snat
           /\ table.sets = Compile(policy).intel
           /\ ~ Prevents => Queues(Compile(policy)) = {}
<1>1. version \in Committable /\ artifacts = Committed[version]
  BY DEF InForce, Loaded
<1>2. version \in DOMAIN Policies /\ Compiles(policy) /\ Loads(Render(Compile(policy)))
  BY <1>1 DEF Committable, policy
<1>3. IsFirewall(policy) /\ Validate(policy)
  BY <1>2, DatapathAssumption DEF policy, Compiles
<1>4. artifacts = RenderAll(policy)
  BY <1>1 DEF Committed, policy
<1>5. table = Render(Compile(policy))
  BY <1>4 DEF RenderAll, table, Loaded
<1>6. ~ Prevents => Queues(Compile(policy)) = {}
  <2>1. Compile(policy).ids = CompileIDs(policy)
    BY DEF Compile
  <2> SUFFICES ASSUME ~ Prevents PROVE Queues(Compile(policy)) = {}
    OBVIOUS
  <2>2. ASSUME NEW x \in CompileIDs(policy)
        PROVE  policy.ids.enabled /\ (x.prevent <=> policy.ids.mode = "prevent")
    <3>1. policy.ids.enabled
      BY DEF CompileIDs, Optional
    <3>2. x = [prevent |-> policy.ids.mode = "prevent",
               queue |-> Uint16(policy.ids.queue),
               interfaces |-> Sniffed(policy),
               home |-> IF policy.ids.home = {} THEN Rfc1918 ELSE policy.ids.home,
               files |-> IF policy.ids.files = {} THEN {LocalRules} ELSE policy.ids.files]
      BY <3>1 DEF CompileIDs, Optional
    <3> QED
      BY <3>1, <3>2
  <2>3. {x \in CompileIDs(policy) : x.prevent} = {}
    BY <2>2 DEF Prevents
  <2> QED
    BY <2>1, <2>3 DEF Queues
<1> QED
  BY <1>2, <1>3, <1>5, <1>6 DEF Render

(* Without a table everything is forwarded. *)
LEMMA OpenIs ==
    ASSUME ~ Loaded, NEW state, NEW k
    PROVE  FirstHit(table.forward, state, k).verdict = "accept"
<1> DEFINE chain == <<Fixed("default", "accept")>>
<1>1. table.forward = chain
  BY DEF table, Open
<1>2. DOMAIN chain = {1} /\ chain[1] = Fixed("default", "accept")
  OBVIOUS
<1>3. Hit(chain[1], state, k)
  BY <1>2 DEF Hit, Fixed
<1>4. FirstHit(chain, state, k) = chain[1]
  <2>1. /\ DOMAIN chain \subseteq Nat \ {0} /\ 1 \in DOMAIN chain
        /\ \A j \in DOMAIN chain : j < 1 => ~ Hit(chain[j], state, k)
        /\ \A j \in 1..1 : j \in DOMAIN chain
    BY <1>2
  <2> QED
    BY <1>3, <2>1, FirstHitIs
<1> QED
  BY <1>1, <1>2, <1>4 DEF Fixed

(* What becomes of a packet in the forward chain. *)
LEMMA ForwardIs ==
    ASSUME InForce, NEW state \in {"new", "established", "invalid"}, NEW k,
           NEW v \in Forward(state, k)
    PROVE  /\ v \in {"accept", "drop", "reject"}
           /\ Loaded /\ ~ Prevents /\ state = "established" => v = "accept"
           /\ Loaded /\ ~ Prevents /\ state = "invalid" => v = "drop"
<1> DEFINE w == FirstHit(table.forward, state, k).verdict
<1>1. v \in IF w = "queue" THEN {"accept", "drop"} ELSE {w}
  BY DEF Forward
<1>2. CASE ~ Loaded
  BY <1>1, <1>2, OpenIs
<1>3. CASE Loaded
  <2>1. PICK m \in Nat : DOMAIN Compile(policy).rules = 1..m
    BY <1>3, TableIs, RulesDomain
  <2>2. /\ w \in {"queue", "accept", "drop", "reject"}
        /\ Queues(Compile(policy)) = {} /\ state = "established" => w = "accept"
        /\ Queues(Compile(policy)) = {} /\ state = "invalid" => w = "drop"
    BY <1>3, <2>1, TableIs, ChainVerdict
  <2>3. ~ Prevents => Queues(Compile(policy)) = {}
    BY <1>3, TableIs
  <2> HIDE DEF w
  <2> QED
    BY <1>1, <2>2, <2>3
<1> QED
  BY <1>2, <1>3

(* A first packet after the prerouting chain: it is still a packet of one  *)
(* family, which nft saw to when it loaded the table.                      *)
(* A destination NAT rule that compiles sends to one host. *)
LEMMA TargetIs ==
    ASSUME NEW p, IsFirewall(p), Validate(p), NEW i \in DOMAIN p.dnat
    PROVE  CompileDNAT(p, p.dnat[i]).to \in Hosts /\ CompileDNAT(p, p.dnat[i]).port \in Nat
<1> DEFINE e == p.dnat[i]
<1>1. e.port \in Nat
  <2>1. p.dnat \in Seq([name : STRING, from : STRING, service : STRING,
                        destination : STRING, translated : STRING, port : Nat])
    BY DEF IsFirewall
  <2>2. e \in [name : STRING, from : STRING, service : STRING,
               destination : STRING, translated : STRING, port : Nat]
    BY <2>1, SeqElements
  <2> HIDE DEF e
  <2> QED
    BY <2>2
<1>2. HostAddress(p, e.translated)
  BY DEF Validate, CheckDestinationNat
<1>3. TheHost(p, e.translated) \in Hosts
  BY <1>2, HostIs DEF Validate
<1> HIDE DEF e
<1>4. CompileDNAT(p, e).to = TheHost(p, e.translated) /\ CompileDNAT(p, e).port = e.port
  BY DEF CompileDNAT
<1>5. CompileDNAT(p, e).to \in Hosts /\ CompileDNAT(p, e).port \in Nat
  BY <1>1, <1>3, <1>4
<1> QED
  BY <1>5 DEF e

(* Prerouting leaves source, interface and address family as they are. *)
LEMMA RoutedIs ==
    ASSUME InForce, NEW k \in Flows
    PROVE  LET r == Prerouted(k)
           IN  /\ r.src = k.src /\ r.src \in Hosts /\ r.dst \in Hosts
               /\ r.in = k.in /\ r.port \in Nat /\ Family[r.src] = Family[r.dst]
<1>1. /\ k.src \in Hosts /\ k.dst \in Hosts /\ k.port \in Nat
      /\ Family[k.src] = Family[k.dst]
  BY DatapathAssumption, ModelAssumption
<1> DEFINE chain == table.prerouting
           hits == {i \in DOMAIN chain : DnatMatches(chain[i], k)}
           d == chain[First(hits)]
           r == Prerouted(k)
<1>2. r = IF hits = {} THEN Rewritten(k, k.dst, k.port)
          ELSE Rewritten(k, d.to, IF d.port = 0 THEN k.port ELSE d.port)
  BY DEF Prerouted, Dnatted
<1>3. CASE hits = {}
  BY <1>1, <1>2, <1>3 DEF Rewritten
<1>4. CASE hits # {}
  <2>1. Loaded
    <3>1. ~ Loaded => chain = <<>>
      BY DEF table, Open
    <3> QED
      BY <1>4, <3>1
  <2>2. /\ IsFirewall(policy) /\ Validate(policy) /\ Loads(table)
        /\ chain = Compile(policy).dnat
    BY <2>1, TableIs
  <2> DEFINE dnat == policy.dnat
             e == dnat[First(hits)]
  <2>3. /\ dnat \in Seq([name : STRING, from : STRING, service : STRING,
                         destination : STRING, translated : STRING, port : Nat])
        /\ DOMAIN dnat \subseteq Nat /\ \A i \in DOMAIN dnat : dnat[i].port \in Nat
    <3>1. dnat \in Seq([name : STRING, from : STRING, service : STRING,
                        destination : STRING, translated : STRING, port : Nat])
      BY <2>2 DEF IsFirewall
    <3>2. DOMAIN dnat = 1..Len(dnat) /\ Len(dnat) \in Nat
          /\ \A i \in DOMAIN dnat : dnat[i] \in
                [name : STRING, from : STRING, service : STRING,
                 destination : STRING, translated : STRING, port : Nat]
      BY <3>1, SeqElements
    <3> QED
      BY <3>1, <3>2
  <2>4. chain = [i \in DOMAIN dnat |-> CompileDNAT(policy, dnat[i])]
    BY <2>2 DEF Compile
  <2>5. First(hits) \in hits
    <3>1. hits \in SUBSET Nat
      BY <2>3, <2>4
    <3> QED
      BY <1>4, <3>1, FirstOf
  <2>6. PICK j \in DOMAIN dnat : d = CompileDNAT(policy, dnat[j]) /\ DnatMatches(d, k)
    <3>1. First(hits) \in DOMAIN dnat
      BY <2>4, <2>5
    <3>2. chain[First(hits)] = CompileDNAT(policy, dnat[First(hits)])
      BY <2>4, <3>1
    <3>3. DnatMatches(chain[First(hits)], k)
      BY <2>5
    <3> QED
      BY <3>1, <3>2, <3>3
  <2>7. d \in ToSet(chain)
    BY <2>4, <2>5 DEF ToSet
  <2> HIDE DEF d, r
  <2>9. d.to \in Hosts /\ d.port \in Nat
    BY <2>2, <2>6, TargetIs
  <2>10. k.dst = d.dst /\ Family[d.dst] = Family[d.to]
    <3>1. \E i \in DOMAIN chain : d = chain[i]
      BY <2>7 DEF ToSet
    <3>2. Loads(table)
      BY <2>2
    <3> HIDE DEF hits, e, dnat
    <3> QED
      BY <2>6, <3>1, <3>2 DEF DnatMatches, Loads
  <2>12. r = Rewritten(k, d.to, IF d.port = 0 THEN k.port ELSE d.port)
    BY <1>2, <1>4 DEF d, r
  <2> QED
    BY <1>1, <2>9, <2>10, <2>12 DEF Rewritten, r
<1> QED
  BY <1>3, <1>4

-----------------------------------------------------------------------------
(* The theorems.                                                           *)

LEMMA ForceInit == Init => ForceInv
<1> SUFFICES ASSUME Init PROVE ForceInv
  OBVIOUS
<1>1. IsFiniteSet(conns) /\ Cardinality(conns) = 0
  BY FS_EmptySet DEF Init
<1> QED
  BY <1>1, DatapathAssumption
  DEF Init, ForceInv, InForce, TypeOK, Loaded, Nothing, Seen, Verdicts

(* Every step keeps it. *)
LEMMA ForceNext == ForceInv /\ [Next]_vars => ForceInv'
<1> SUFFICES ASSUME ForceInv, [Next]_vars PROVE ForceInv'
  OBVIOUS
<1>0. InForce /\ TypeOK /\ IsFiniteSet(conns)
  BY DEF ForceInv
<1>1. ASSUME NEW v \in DOMAIN Committed, Commit(v)
      PROVE  ForceInv'
  <2>1. v \in Committable /\ v \in DOMAIN Policies /\ v # 0
    BY DatapathAssumption DEF Committed, Committable
  <2>2. Committed[v] # None
    BY <2>1, NoneAssumption
  <2>3. InForce'
    BY <1>1, <2>1 DEF Commit, InForce
  <2>4. TypeOK'
    BY <1>0, <1>1, <2>1, <2>2 DEF TypeOK, Commit, Loaded, Nothing, Seen, Verdicts
  <2> QED
    BY <1>0, <1>1, <2>3, <2>4 DEF ForceInv, Commit
<1>2. ASSUME NEW hosts \in SUBSET Listed, LoadSets(hosts)
      PROVE  ForceInv'
  <2>1. table' = table
    BY <1>2 DEF LoadSets, table, Loaded
  <2> QED
    BY <1>0, <1>2, <2>1
    DEF ForceInv, InForce, TypeOK, LoadSets, Loaded, Nothing, Seen, Verdicts
<1>3. ASSUME NEW k \in Flows, NewFlow(k)
      PROVE  ForceInv'
  <2> DEFINE routed == Prerouted(k)
             c == Connection(k, routed, Postrouted(routed))
  <2>1. table' = table
    BY <1>3 DEF NewFlow, table, Loaded
  <2>2. \/ last' = Seen("new", k, routed, k.src, "local") /\ conns' = conns
        \/ \E v \in Forward("new", routed) :
              /\ last' = Seen("new", k, routed, Postrouted(routed), v)
              /\ \/ Cardinality(conns) < MaxConns /\ conns' = conns \cup {c}
                 \/ conns' = conns
    BY <1>3 DEF NewFlow
  <2>3. \A v \in Forward("new", routed) : v \in {"accept", "drop", "reject"}
    BY <1>0, ForwardIs
  <2>4. last'.state = "new" /\ last'.verdict \in Verdicts
    BY <2>2, <2>3 DEF Seen, Verdicts
  <2>5. /\ IsFiniteSet(conns') /\ Cardinality(conns') <= MaxConns
        /\ \A x \in conns' : x.sent \in Flows /\ x.routed.dst \in Hosts
    <3>1. CASE conns' = conns
      BY <1>0, <3>1 DEF TypeOK
    <3>2. CASE Cardinality(conns) < MaxConns /\ conns' = conns \cup {c}
      <4>1. c.sent \in Flows /\ c.routed.dst \in Hosts
        BY <1>0, RoutedIs DEF Connection
      <4>2. IsFiniteSet(conns') /\ Cardinality(conns') <= Cardinality(conns) + 1
        <5>1. /\ IsFiniteSet(conns \cup {c})
              /\ \/ Cardinality(conns \cup {c}) = Cardinality(conns)
                 \/ Cardinality(conns \cup {c}) = Cardinality(conns) + 1
          BY <1>0, FS_AddElement
        <5>2. Cardinality(conns) \in Nat
          BY <1>0, FS_CardinalityType
        <5> HIDE DEF c
        <5> QED
          BY <3>2, <5>1, <5>2
      <4>3. Cardinality(conns) \in Nat /\ Cardinality(conns') \in Nat
        BY <1>0, <4>2, FS_CardinalityType
      <4>4. Cardinality(conns') <= MaxConns
        BY <3>2, <4>2, <4>3, DatapathAssumption
      <4> QED
        BY <1>0, <3>2, <4>1, <4>2, <4>4 DEF TypeOK
    <3> QED
      BY <2>2, <3>1, <3>2
  <2> QED
    BY <1>0, <1>3, <2>1, <2>4, <2>5 DEF ForceInv, InForce, TypeOK, NewFlow, Loaded
<1>4. ASSUME NEW k \in Flows, Stray(k)
      PROVE  ForceInv'
  <2>1. table' = table
    BY <1>4 DEF Stray, table, Loaded
  <2>2. last'.state = "invalid" /\ last'.verdict \in Verdicts
    <3>1. PICK v \in Forward("invalid", Rewritten(k, k.dst, k.port)) :
             last' = Seen("invalid", k, Rewritten(k, k.dst, k.port), k.src, v)
      BY <1>4 DEF Stray
    <3>2. v \in {"accept", "drop", "reject"}
      BY <1>0, ForwardIs
    <3> QED
      BY <3>1, <3>2 DEF Seen, Verdicts
  <2> QED
    BY <1>0, <1>4, <2>1, <2>2 DEF ForceInv, InForce, TypeOK, Stray, Loaded
<1>5. ASSUME NEW c \in conns, Tracked(c)
      PROVE  ForceInv'
  <2>1. table' = table
    BY <1>5 DEF Tracked, table, Loaded
  <2>2. last'.state = "established" /\ last'.verdict \in Verdicts
    <3>0. PICK k \in {c.routed, Reply(c)} : \E v \in Forward("established", k) :
             last' = Seen("established", c.sent, k, c.seen, v)
      BY <1>5 DEF Tracked
    <3>1. PICK v \in Forward("established", k) :
             last' = Seen("established", c.sent, k, c.seen, v)
      BY <3>0
    <3>2. v \in {"accept", "drop", "reject"}
      BY <1>0, ForwardIs
    <3> QED
      BY <3>1, <3>2 DEF Seen, Verdicts
  <2> QED
    BY <1>0, <1>5, <2>1, <2>2 DEF ForceInv, InForce, TypeOK, Tracked, Loaded
<1>6. ASSUME NEW c \in conns, Expire(c)
      PROVE  ForceInv'
  <2>1. table' = table
    BY <1>6 DEF Expire, table, Loaded
  <2>2. IsFiniteSet(conns') /\ Cardinality(conns') <= MaxConns
    <3>1. conns' \in SUBSET conns
      BY <1>6 DEF Expire
    <3>2. IsFiniteSet(conns') /\ Cardinality(conns') <= Cardinality(conns)
      BY <1>0, <3>1, FS_Subset
    <3>3. Cardinality(conns) \in Nat /\ Cardinality(conns') \in Nat
      BY <1>0, <3>2, FS_CardinalityType
    <3> QED
      BY <1>0, <3>2, <3>3, DatapathAssumption DEF TypeOK
  <2> QED
    BY <1>0, <1>6, <2>1, <2>2
    DEF ForceInv, InForce, TypeOK, Expire, Loaded, Nothing, Seen, Verdicts
<1>7. CASE UNCHANGED vars
  <2>1. table' = table
    BY <1>7 DEF vars, table, Loaded
  <2> QED
    BY <1>0, <1>7, <2>1 DEF ForceInv, InForce, TypeOK, vars, Loaded
<1> QED
  BY <1>1, <1>2, <1>3, <1>4, <1>5, <1>6, <1>7 DEF Next

(* What is in force is what was rendered from a policy that every stage    *)
(* accepted, and the variables keep their types.                           *)
THEOREM ForceInvariant == Spec => []ForceInv
<1> QED
  BY ForceInit, ForceNext, PTL DEF Spec

(* TypeOK for any policies and packets: no more connections than the       *)
(* table holds, no entry in a set that the table does not have.            *)
THEOREM Typed == Spec => []TypeOK
<1>1. ForceInv => TypeOK
  BY DEF ForceInv
<1> QED
  BY <1>1, ForceInvariant, PTL

(* Connections survive every later commit, and what conntrack cannot place *)
(* is dropped.                                                             *)
THEOREM StatefulAlways == Spec => []Stateful
<1>1. Init => Stateful
  BY DEF Init, Stateful, Loaded
<1>2. ForceInv /\ Stateful /\ [Next]_vars => Stateful'
  <2> SUFFICES ASSUME ForceInv, Stateful, [Next]_vars PROVE Stateful'
    OBVIOUS
  <2>0. InForce
    BY DEF ForceInv
  <2>1. ASSUME last' = Nothing
        PROVE  Stateful'
    BY <2>1 DEF Stateful, Nothing, Seen
  <2>2. ASSUME NEW v \in DOMAIN Committed, Commit(v)
        PROVE  Stateful'
    BY <2>1, <2>2 DEF Commit
  <2>3. ASSUME NEW hosts \in SUBSET Listed, LoadSets(hosts)
        PROVE  Stateful'
    BY <2>1, <2>3 DEF LoadSets
  <2>4. ASSUME NEW k \in Flows, NewFlow(k)
        PROVE  Stateful'
    <3>1. last'.state = "new"
      BY <2>4 DEF NewFlow, Seen
    <3> QED
      BY <3>1 DEF Stateful
  <2>5. ASSUME NEW k \in Flows, Stray(k)
        PROVE  Stateful'
    <3>1. PICK v \in Forward("invalid", Rewritten(k, k.dst, k.port)) :
             last' = Seen("invalid", k, Rewritten(k, k.dst, k.port), k.src, v)
      BY <2>5 DEF Stray
    <3>2. Loaded /\ ~ Prevents => v = "drop"
      BY <2>0, ForwardIs
    <3>3. Loaded' = Loaded /\ Prevents' = Prevents
      BY <2>5 DEF Stray, Loaded, Prevents, policy
    <3> QED
      BY <3>1, <3>2, <3>3 DEF Stateful, Seen
  <2>6. ASSUME NEW c \in conns, Tracked(c)
        PROVE  Stateful'
    <3>0. PICK k \in {c.routed, Reply(c)} : \E v \in Forward("established", k) :
             last' = Seen("established", c.sent, k, c.seen, v)
      BY <2>6 DEF Tracked
    <3>1. PICK v \in Forward("established", k) :
             last' = Seen("established", c.sent, k, c.seen, v)
      BY <3>0
    <3>2. Loaded /\ ~ Prevents => v = "accept"
      BY <2>0, ForwardIs
    <3>3. Loaded' = Loaded /\ Prevents' = Prevents
      BY <2>6 DEF Tracked, Loaded, Prevents, policy
    <3> QED
      BY <3>1, <3>2, <3>3 DEF Stateful, Seen
  <2>7. ASSUME NEW c \in conns, Expire(c)
        PROVE  Stateful'
    BY <2>1, <2>7 DEF Expire
  <2>8. CASE UNCHANGED vars
    BY <2>8 DEF Stateful, vars, Loaded, Prevents, policy
  <2> QED
    BY <2>2, <2>3, <2>4, <2>5, <2>6, <2>7, <2>8 DEF Next
<1> QED
  BY <1>1, <1>2, ForceInvariant, PTL DEF Spec

(* The properties of a first packet are about the step that took it: no    *)
(* other step leaves one behind.                                           *)
LEMMA LastNew ==
    ASSUME [Next]_vars, last'.state = "new"
    PROVE  UNCHANGED vars \/ \E k \in Flows : NewFlow(k)
<1>1. ASSUME NEW v \in DOMAIN Committed, Commit(v)
      PROVE  FALSE
  BY <1>1 DEF Commit, Nothing, Seen
<1>2. ASSUME NEW hosts \in SUBSET Listed, LoadSets(hosts)
      PROVE  FALSE
  BY <1>2 DEF LoadSets, Nothing, Seen
<1>3. ASSUME NEW k \in Flows, Stray(k)
      PROVE  FALSE
  BY <1>3 DEF Stray, Seen
<1>4. ASSUME NEW c \in conns, Tracked(c)
      PROVE  FALSE
  BY <1>4 DEF Tracked, Seen
<1>5. ASSUME NEW c \in conns, Expire(c)
      PROVE  FALSE
  BY <1>5 DEF Expire, Nothing, Seen
<1> QED
  BY <1>1, <1>2, <1>3, <1>4, <1>5 DEF Next

(* What a step that takes a first packet records of it. *)
LEMMA NewRecord ==
    ASSUME NEW k \in Flows, NewFlow(k)
    PROVE  /\ last'.sent = k /\ last'.packet = Prerouted(k)
           /\ \/ last'.verdict = "local"
              \/ /\ last'.verdict \in Forward("new", Prerouted(k))
                 /\ last'.seen = Postrouted(Prerouted(k))
           /\ policy' = policy /\ blocked' = blocked
           /\ Loaded' <=> Loaded
           /\ Prevents' <=> Prevents
           /\ EmptyZones' <=> EmptyZones
<1>1. /\ last'.sent = k /\ last'.packet = Prerouted(k)
      /\ \/ last'.verdict = "local"
         \/ /\ last'.verdict \in Forward("new", Prerouted(k))
            /\ last'.seen = Postrouted(Prerouted(k))
  BY DEF NewFlow, Seen
<1>2. version' = version /\ blocked' = blocked
  BY DEF NewFlow
<1> QED
  BY <1>1, <1>2 DEF policy, Loaded, Prevents, EmptyZones

(* Not of an empty zone: not listed by EmptyZones. *)
LEMMA Filled ==
    ASSUME Loaded, ~ EmptyZones
    PROVE  ZonesFilled(policy)
BY DEF EmptyZones, ZonesFilled

(* The rendered chain gives every first packet the verdict that the        *)
(* policy's messages mean.                                                 *)
THEOREM FollowsPolicyAlways == Spec => []FollowsPolicy
<1>1. Init => FollowsPolicy
  BY DEF Init, FollowsPolicy, FirstMatch, Loaded
<1>2. ForceInv /\ FollowsPolicy /\ [Next]_vars => FollowsPolicy'
  <2> SUFFICES ASSUME ForceInv, FollowsPolicy, [Next]_vars, last'.state = "new"
               PROVE  FollowsPolicy'
    BY DEF FollowsPolicy, FirstMatch
  <2>0. InForce /\ TypeOK
    BY DEF ForceInv
  <2>1. CASE UNCHANGED vars
    BY <2>1 DEF FollowsPolicy, FirstMatch, vars, Loaded, Prevents, EmptyZones, policy
  <2>2. ASSUME NEW k \in Flows, NewFlow(k), ~ Prevents, ~ EmptyZones, Loaded,
               last'.verdict # "local"
        PROVE  last'.verdict = IF {last'.packet.src, last'.packet.dst} \cap blocked # {}
                               THEN "drop" ELSE Outcome(Means(policy, last'.packet))
    <3> DEFINE r == Prerouted(k)
               w == FirstHit(table.forward, "new", r).verdict
    <3>1. last'.packet = r /\ last'.verdict \in Forward("new", r)
      BY <2>2, NewRecord
    <3>2. /\ IsFirewall(policy) /\ Validate(policy) /\ Queues(Compile(policy)) = {}
          /\ table.forward = ForwardChain(Compile(policy))
          /\ table.sets = Compile(policy).intel
      BY <2>0, <2>2, TableIs
    <3>3. /\ r.src \in Hosts /\ r.dst \in Hosts /\ r.port \in Nat
          /\ Family[r.src] = Family[r.dst]
      BY <2>0, RoutedIs
    <3>4. blocked # {} => Compile(policy).intel
      BY <2>0, <3>2 DEF TypeOK
    <3>5. ZonesFilled(policy)
      BY <2>2, Filled
    <3> HIDE DEF r
    <3>6. w = IF {r.src, r.dst} \cap blocked # {} THEN "drop" ELSE Outcome(Means(policy, r))
      BY <3>2, <3>3, <3>4, <3>5, NewVerdict
    <3>7. w # "queue"
      BY <3>6 DEF Outcome
    <3>8. last'.verdict = w
      BY <3>1, <3>7 DEF Forward
    <3> QED
      BY <3>1, <3>6, <3>8
  <2>3. ASSUME NEW k \in Flows, NewFlow(k)
        PROVE  FollowsPolicy'
    <3>1. /\ policy' = policy /\ blocked' = blocked /\ (Loaded' <=> Loaded)
          /\ (Prevents' <=> Prevents) /\ (EmptyZones' <=> EmptyZones)
      BY <2>3, NewRecord
    <3> QED
      BY <2>2, <2>3, <3>1 DEF FollowsPolicy, FirstMatch
  <2> QED
    BY <2>1, <2>3, LastNew
<1> QED
  BY <1>1, <1>2, ForceInvariant, PTL DEF Spec

(* The first packet of a connection is rewritten as the NAT messages say,  *)
(* and leaves with the source that they say.                               *)
THEOREM TranslatedAlways == Spec => []TranslatedAsAsked
<1>1. Init => TranslatedAsAsked
  BY DEF Init, TranslatedAsAsked, Loaded
<1>2. ForceInv /\ TranslatedAsAsked /\ [Next]_vars => TranslatedAsAsked'
  <2> SUFFICES ASSUME ForceInv, TranslatedAsAsked, [Next]_vars, last'.state = "new"
               PROVE  TranslatedAsAsked'
    BY DEF TranslatedAsAsked
  <2>0. InForce
    BY DEF ForceInv
  <2>1. CASE UNCHANGED vars
    BY <2>1 DEF TranslatedAsAsked, vars, Loaded, EmptyZones, policy
  <2>2. ASSUME NEW k \in Flows, NewFlow(k), Loaded, ~ EmptyZones
        PROVE  /\ <<last'.packet.dst, last'.packet.port>> = DestinationMeans(policy, last'.sent)
               /\ last'.verdict # "local" =>
                     last'.seen = SourceMeans(policy, last'.packet, Local)
    <3>1. /\ last'.sent = k /\ last'.packet = Prerouted(k)
          /\ last'.verdict # "local" => last'.seen = Postrouted(Prerouted(k))
      BY <2>2, NewRecord
    <3>2. /\ IsFirewall(policy) /\ Validate(policy)
          /\ table.prerouting = Compile(policy).dnat
          /\ table.postrouting = Compile(policy).snat
      BY <2>0, <2>2, TableIs
    <3>3. ZonesFilled(policy)
      BY <2>2, Filled
    <3>4. k.port \in Nat
      BY DatapathAssumption, ModelAssumption
    <3>5. <<Prerouted(k).dst, Prerouted(k).port>> = DestinationMeans(policy, k)
      BY <3>2, <3>3, <3>4, DnattedIs DEF Prerouted
    <3>6. Postrouted(Prerouted(k)) = SourceMeans(policy, Prerouted(k), Local)
      BY <3>2, <3>3, SnattedIs DEF Postrouted
    <3> QED
      BY <3>1, <3>5, <3>6
  <2>3. ASSUME NEW k \in Flows, NewFlow(k)
        PROVE  TranslatedAsAsked'
    <3>1. policy' = policy /\ (Loaded' <=> Loaded) /\ (EmptyZones' <=> EmptyZones)
      BY <2>3, NewRecord
    <3> QED
      BY <2>2, <2>3, <3>1 DEF TranslatedAsAsked
  <2> QED
    BY <2>1, <2>3, LastNew
<1> QED
  BY <1>1, <1>2, ForceInvariant, PTL DEF Spec

-----------------------------------------------------------------------------
(* The artifacts of the other engines.                                     *)

(* A finite set written as a sequence has each element once. *)
LEMMA SeqOfSet ==
    ASSUME NEW S, IsFiniteSet(S)
    PROVE  LET s == SetToSeq(S)
           IN  /\ Cardinality(S) \in Nat
               /\ s \in [1..Cardinality(S) -> S]
               /\ \A x \in S : \E i \in 1..Cardinality(S) : s[i] = x
               /\ \A i, j \in 1..Cardinality(S) : s[i] = s[j] => i = j
<1> DEFINE n == Cardinality(S)
           s == SetToSeq(S)
           T == {s[i] : i \in 1..n}
<1>1. n \in Nat /\ ExistsBijection(1..n, S)
  BY FS_CardinalityType
<1>2. \E f \in [1..n -> S] : IsInjective(f)
  BY <1>1 DEF ExistsBijection, Bijection, Injection, IsInjective
<1>3. s \in [1..n -> S] /\ IsInjective(s)
  BY <1>2 DEF SetToSeq
<1>4. \A i, j \in 1..n : s[i] = s[j] => i = j
  BY <1>3 DEF IsInjective
<1>5. T \subseteq S
  BY <1>3
<1>6. ExistsBijection(1..n, T)
  <2>1. s \in [1..n -> T]
    BY <1>3
  <2> QED
    BY <1>4, <2>1 DEF ExistsBijection, Bijection, Injection, IsInjective, Surjection
<1>7. Cardinality(T) = n
  BY <1>1, <1>6, FS_CountingElements
<1>8. T = S
  BY <1>5, <1>7, FS_Subset
<1> QED
  BY <1>1, <1>3, <1>4, <1>8

(* The commit that is in force rendered every artifact. *)
LEMMA ArtifactsAre ==
    ASSUME InForce, Loaded
    PROVE  /\ IsFirewall(policy) /\ IsSections(policy)
           /\ Validate(policy) /\ IdsCompiles(policy)
           /\ artifacts = RenderAll(policy)
<1>1. version \in Committable /\ artifacts = Committed[version]
  BY DEF InForce, Loaded
<1> QED
  BY <1>1, DatapathAssumption DEF Committable, Committed, policy, Compiles

(* The interfaces of a policy are finitely many. *)
LEMMA FiniteIfaces ==
    ASSUME NEW p, IsFirewall(p), IsSections(p)
    PROVE  /\ IsFiniteSet(ZoneIfaces(p)) /\ IsFiniteSet(Sniffed(p))
           /\ IsFiniteSet(Overrides(p)) /\ IsFiniteSet(ManagedLinks(p))
<1>1. ZoneIfaces(p) \in SUBSET Ifaces
  <2>1. p.zones \in Seq([name : STRING, ifaces : SUBSET Ifaces])
    BY DEF IsFirewall
  <2>2. \A i \in DOMAIN p.zones : p.zones[i] \in [name : STRING, ifaces : SUBSET Ifaces]
    BY <2>1, SeqElements
  <2>3. \A i \in DOMAIN p.zones : p.zones[i].ifaces \subseteq Ifaces
    BY <2>2
  <2> QED
    BY <2>3 DEF ZoneIfaces
<1>2. IsFiniteSet(ZoneIfaces(p))
  BY <1>1, FS_Subset, ModelAssumption
<1>3. IsFiniteSet(p.ids.interfaces)
  BY DEF IsSections
<1>4. IsFiniteSet(Overrides(p))
  <2> DEFINE m == p.network.mtus
             Iface(i) == m[i].iface
  <2>1. m \in Seq([iface : STRING, mtu : Nat])
    BY DEF IsSections
  <2>2. DOMAIN m = 1..Len(m) /\ Len(m) \in Nat
    BY <2>1, SeqElements
  <2>3. IsFiniteSet(DOMAIN m)
    <3>1. IsFiniteSet(1..Len(m))
      BY <2>2, FS_Interval
    <3> QED
      BY <2>2, <3>1
  <2>4. IsFiniteSet({Iface(i) : i \in DOMAIN m})
    <3> DEFINE f == [i \in DOMAIN m |-> m[i].iface]
               T == {m[i].iface : i \in DOMAIN m}
    <3>1. f \in Surjection(DOMAIN m, T)
      BY DEF Surjection
    <3> QED
      BY <2>3, <3>1, FS_Surjection DEF ExistsSurjection
  <2> QED
    BY <2>4 DEF Overrides
<1>5. IsFiniteSet(ManagedLinks(p))
  <2>1. IsFiniteSet(IF p.network.mtu = 0 THEN {} ELSE ZoneIfaces(p))
    BY <1>2, FS_EmptySet
  <2> QED
    BY <1>4, <2>1, FS_Union DEF ManagedLinks
<1> QED
  BY <1>2, <1>3, <1>4, <1>5 DEF Sniffed

(* What network.proto asks of an interface is the MTU of its link, and it  *)
(* asks it of the links that are managed.                                  *)
LEMMA AskedIs ==
    ASSUME NEW p, IsSections(p), Validate(p), NEW ifc
    PROVE  /\ AskedMtu(p, ifc) = IF ifc \in ManagedLinks(p) THEN {LinkMtu(p, ifc)} ELSE {}
           /\ ifc \in ManagedLinks(p) => LinkMtu(p, ifc) \in MtuRange
<1> DEFINE m == p.network.mtus
           own == {x \in ToSet(m) : x.iface = ifc}
           i == CHOOSE j \in DOMAIN m : m[j].iface = ifc
<1>1. /\ p.network.mtu \in {0} \cup MtuRange
      /\ \A j \in DOMAIN m : m[j].mtu \in MtuRange
      /\ \A j, k \in DOMAIN m : m[j].iface = m[k].iface => j = k
  <2>1. CheckNetwork(p)
    BY DEF Validate
  <2> QED
    BY <2>1 DEF CheckNetwork
<1>2. CASE ifc \in Overrides(p)
  <2>1. i \in DOMAIN m /\ m[i].iface = ifc
    BY <1>2 DEF Overrides
  <2>2. LinkMtu(p, ifc) = m[i].mtu
    BY <1>2 DEF LinkMtu
  <2>3. own = {m[i]}
    <3>1. m[i] \in own
      BY <2>1 DEF ToSet
    <3>2. ASSUME NEW x \in own PROVE x = m[i]
      <4>0. x.iface = ifc
        OBVIOUS
      <4>1. PICK j \in DOMAIN m : x = m[j]
        BY DEF ToSet
      <4> HIDE DEF own, m
      <4> QED
        BY <1>1, <2>1, <4>0, <4>1
    <3> QED
      BY <3>1, <3>2
  <2>4. AskedMtu(p, ifc) = {m[i].mtu}
    <3>1. AskedMtu(p, ifc) = {x.mtu : x \in own}
      BY <2>3 DEF AskedMtu
    <3> HIDE DEF own
    <3> QED
      BY <2>3, <3>1
  <2>5. ifc \in ManagedLinks(p)
    BY <1>2 DEF ManagedLinks
  <2>6. m[i].mtu \in MtuRange
    BY <1>1, <2>1
  <2> QED
    BY <2>2, <2>4, <2>5, <2>6
<1>3. CASE ifc \notin Overrides(p)
  <2>1. own = {}
    BY <1>3 DEF ToSet, Overrides
  <2>2. AskedMtu(p, ifc) = {p.network.mtu : z \in {y \in ToSet(p.zones) :
                                                    ifc \in y.ifaces /\ p.network.mtu # 0}}
    BY <2>1 DEF AskedMtu
  <2>3. LinkMtu(p, ifc) = p.network.mtu
    BY <1>3 DEF LinkMtu
  <2>4. ifc \in ManagedLinks(p) <=> p.network.mtu # 0 /\ ifc \in ZoneIfaces(p)
    BY <1>3 DEF ManagedLinks
  <2>5. ifc \in ZoneIfaces(p) <=> \E z \in ToSet(p.zones) : ifc \in z.ifaces
    BY DEF ZoneIfaces, ToSet
  <2>6. AskedMtu(p, ifc) = IF ifc \in ManagedLinks(p) THEN {p.network.mtu} ELSE {}
    <3> HIDE DEF own
    <3> QED
      BY <2>2, <2>4, <2>5
  <2>7. p.network.mtu # 0 => p.network.mtu \in MtuRange
    BY <1>1
  <2> QED
    BY <2>3, <2>4, <2>6, <2>7
<1> QED
  BY <1>2, <1>3

(* A bounded set of numbers has a greatest one. *)
LEMMA MaxOf ==
    ASSUME NEW S \in SUBSET Nat, S # {}, NEW N \in Nat, \A x \in S : x <= N
    PROVE  Max(S) \in S /\ \A y \in S : y <= Max(S)
<1> DEFINE D == {N - x : x \in S}
<1>1. D \in SUBSET Nat /\ D # {}
  <2>1. \A x \in S : N - x \in Nat
    OBVIOUS
  <2>2. PICK x \in S : TRUE
    OBVIOUS
  <2>3. N - x \in D
    OBVIOUS
  <2> QED
    BY <2>1, <2>3
<1>2. PICK d \in D : \A e \in D : d <= e
  <2> HIDE DEF D
  <2> QED
    BY <1>1, LeastOf
<1>3. PICK x \in S : d = N - x
  OBVIOUS
<1>4. \A y \in S : x >= y
  <2> TAKE y \in S
  <2>1. d <= N - y
    BY <1>2
  <2> QED
    BY <1>3, <2>1
<1>5. Max(S) \in S /\ \A y \in S : Max(S) >= y
  BY <1>4 DEF Max
<1> QED
  BY <1>5

(* The largest MTU that is managed; 0 when none is. *)
LEMMA MaxMtuIs ==
    ASSUME NEW p, IsSections(p), Validate(p)
    PROVE  /\ MaxMtu(p) \in Nat
           /\ \A ifc \in ManagedLinks(p) : LinkMtu(p, ifc) <= MaxMtu(p)
<1> DEFINE S == {LinkMtu(p, ifc) : ifc \in ManagedLinks(p)} \cup {0}
           top == 9600
<1>1. top \in Nat /\ \A x \in MtuRange : x \in Nat /\ x <= top
  BY DEF MtuRange
<1> HIDE DEF top
<1>2. \A ifc \in ManagedLinks(p) : LinkMtu(p, ifc) \in MtuRange
  BY AskedIs
<1>3. S \in SUBSET Nat /\ S # {} /\ \A x \in S : x <= top
  BY <1>1, <1>2
<1>4. \A ifc \in ManagedLinks(p) : LinkMtu(p, ifc) \in S
  OBVIOUS
<1>5. MaxMtu(p) = Max(S)
  BY DEF MaxMtu
<1> HIDE DEF S
<1>6. Max(S) \in S /\ \A y \in S : y <= Max(S)
  BY <1>1, <1>3, MaxOf
<1> QED
  BY <1>3, <1>4, <1>5, <1>6

(* A function on an interval is a sequence. *)
LEMMA SeqIs ==
    ASSUME NEW S, NEW n \in Nat, NEW s \in [1..n -> S]
    PROVE  s \in Seq(S) /\ Len(s) = n
OBVIOUS

(* What Netdev writes of links and offloads. *)
NetdevText(L, O) == LineOfEach(L, Link) \o LineOfEach(O, Offload)

(* Each link has a line, each offloads one, and there is no other. *)
LEMMA NetdevLines ==
    ASSUME NEW L, NEW O, IsFiniteSet(L), IsFiniteSet(O),
           \A l, m \in L : Link(l)[2] = Link(m)[2] => l = m
    PROVE  LET lines == NetdevText(L, O)
               links == LinkDirectives(lines)
           IN  /\ OffloadDirectives(lines) = O
               /\ \A i \in links : \E l \in L : lines[i] = Link(l)
               /\ \A l \in L : \E i \in links : lines[i] = Link(l)
               /\ \A i, j \in links : lines[i][2] = lines[j][2] => i = j
<1> DEFINE n == Cardinality(L)
           k == Cardinality(O)
           ls == SetToSeq(L)
           os == SetToSeq(O)
           S == {Link(l) : l \in L} \cup {Offload(o) : o \in O}
           a == [i \in 1..n |-> Link(ls[i])]
           b == [i \in 1..k |-> Offload(os[i])]
           lines == NetdevText(L, O)
<1>1. /\ n \in Nat /\ ls \in [1..n -> L]
      /\ \A x \in L : \E i \in 1..n : ls[i] = x
      /\ \A i, j \in 1..n : ls[i] = ls[j] => i = j
  BY SeqOfSet
<1>2. /\ k \in Nat /\ os \in [1..k -> O]
      /\ \A x \in O : \E i \in 1..k : os[i] = x
  BY SeqOfSet
<1> HIDE DEF n, k, ls, os
<1>3. LineOfEach(L, Link) = a
  BY <1>1 DEF LineOfEach, LineEach, ls
<1>4. LineOfEach(O, Offload) = b
  BY <1>2 DEF LineOfEach, LineEach, os
<1>0. lines = a \o b
  BY <1>3, <1>4 DEF NetdevText
<1>5. a \in Seq(S) /\ Len(a) = n
  <2>1. a \in [1..n -> S]
    BY <1>1
  <2> HIDE DEF a, b, S, lines
  <2> QED
    BY ONLY <1>1, <2>1, SeqIs
<1>6. b \in Seq(S) /\ Len(b) = k
  <2>1. b \in [1..k -> S]
    BY <1>2
  <2> HIDE DEF a, b, S, lines
  <2> QED
    BY ONLY <1>2, <2>1, SeqIs
<1>7. /\ DOMAIN lines = 1..(n + k)
      /\ \A i \in 1..n : lines[i] = a[i]
      /\ \A i \in 1..k : lines[n + i] = b[i]
  <2> HIDE DEF a, b, S, lines
  <2>1. /\ DOMAIN (a \o b) = 1..(Len(a) + Len(b))
        /\ \A i \in 1..Len(a) : (a \o b)[i] = a[i]
        /\ \A i \in 1..Len(b) : (a \o b)[Len(a) + i] = b[i]
    <3>1. a \in Seq(S) /\ b \in Seq(S)
      BY <1>5, <1>6
    <3> QED
      BY ONLY <3>1, ConcatIs
  <2> QED
    BY ONLY <1>0, <1>5, <1>6, <2>1
<1> HIDE DEF lines
<1>8. \A i \in 1..n : i \in DOMAIN lines /\ lines[i] = Link(ls[i]) /\ ls[i] \in L
  <2> TAKE i \in 1..n
  <2>1. i \in 1..(n + k)
    BY <1>1, <1>2
  <2> QED
    BY <1>1, <1>7, <2>1
<1>9. \A i \in 1..k : n + i \in DOMAIN lines /\ lines[n + i] = Offload(os[i]) /\ os[i] \in O
  <2> TAKE i \in 1..k
  <2>1. n + i \in 1..(n + k)
    BY <1>1, <1>2
  <2> QED
    BY <1>2, <1>7, <2>1
<1>10. \A i \in DOMAIN lines : i \in 1..n \/ \E j \in 1..k : i = n + j
  <2> TAKE i \in DOMAIN lines
  <2>1. i \in 1..(n + k)
    BY <1>7
  <2>2. CASE i > n
    <3>1. i - n \in 1..k /\ i = n + (i - n)
      BY <1>1, <1>2, <2>1, <2>2
    <3> QED
      BY <3>1
  <2> QED
    BY <1>1, <1>2, <2>1, <2>2
<1>11. \A l : Link(l)[1] = "link" /\ Link(l)[1] # "offload"
  BY DEF Link
<1>12. \A o : Offload(o)[1] = "offload" /\ Offload(o)[1] # "link" /\ Offload(o)[2] = o
  BY DEF Offload
<1>13. LinkDirectives(lines) = 1..n
  <2>1. \A i \in DOMAIN lines : lines[i][1] = "link" <=> i \in 1..n
    <3> TAKE i \in DOMAIN lines
    <3>1. CASE i \in 1..n
      BY <1>8, <1>11, <3>1
    <3>2. CASE i \notin 1..n
      <4>1. PICK j \in 1..k : i = n + j
        BY <1>10, <3>2
      <4> QED
        BY <1>9, <1>12, <3>2, <4>1
    <3> QED
      BY <3>1, <3>2
  <2> QED
    BY <1>8, <2>1 DEF LinkDirectives
<1>14. OffloadDirectives(lines) = O
  <2>1. ASSUME NEW o \in O PROVE o \in OffloadDirectives(lines)
    <3>1. PICK i \in 1..k : os[i] = o
      BY <1>2
    <3>2. n + i \in DOMAIN lines /\ lines[n + i][1] = "offload" /\ lines[n + i][2] = o
      BY <1>9, <1>12, <3>1
    <3> QED
      BY <3>2 DEF OffloadDirectives
  <2>2. ASSUME NEW o \in OffloadDirectives(lines) PROVE o \in O
    <3>1. PICK i \in DOMAIN lines : lines[i][1] = "offload" /\ o = lines[i][2]
      BY DEF OffloadDirectives
    <3>2. i \notin 1..n
      BY <1>8, <1>11, <3>1
    <3>3. PICK j \in 1..k : i = n + j
      BY <1>10, <3>2
    <3>4. lines[i] = Offload(os[j]) /\ os[j] \in O
      BY <1>9, <3>3
    <3>5. lines[i][2] = os[j]
      BY <1>12, <3>4
    <3> QED
      BY ONLY <3>1, <3>4, <3>5
  <2> QED
    BY <2>1, <2>2
<1>15. \A i \in 1..n : \E l \in L : lines[i] = Link(l)
  BY <1>8
<1>16. ASSUME NEW l \in L
       PROVE  \E i \in 1..n : lines[i] = Link(l)
  <2>1. PICK i \in 1..n : ls[i] = l
    BY <1>1
  <2>2. lines[i] = Link(ls[i])
    BY <1>8
  <2> QED
    BY ONLY <2>1, <2>2
<1>17. ASSUME NEW i \in 1..n, NEW j \in 1..n, lines[i][2] = lines[j][2]
       PROVE  i = j
  <2>1. ls[i] = ls[j]
    BY <1>8, <1>17
  <2> QED
    BY <1>1, <2>1
<1> QED
  BY <1>13, <1>14, <1>15, <1>16, <1>17 DEF lines

(* What Netdev is given to write. *)
Links(p) == {[iface |-> ifc, mtu |-> LinkMtu(p, ifc)] : ifc \in ManagedLinks(p)}

Offloaded(p) ==
    IF p.network.offloads /\ p.ids.enabled /\ p.ids.mode # "prevent" THEN Sniffed(p) ELSE {}

(* The netdev artifact has one line for each managed link, with its MTU,   *)
(* and one for each interface without offloads.                            *)
LEMMA NetdevIs ==
    ASSUME NEW p, IsFirewall(p), IsSections(p)
    PROVE  LET lines == Netdev(Compile(p))
               links == LinkDirectives(lines)
               line(ifc) == <<"link", ifc, LinkMtu(p, ifc)>>
           IN  /\ OffloadDirectives(lines) = Offloaded(p)
               /\ \A i \in links : \E ifc \in ManagedLinks(p) : lines[i] = line(ifc)
               /\ \A ifc \in ManagedLinks(p) : \E i \in links : lines[i] = line(ifc)
               /\ \A i, j \in links : lines[i][2] = lines[j][2] => i = j
<1> DEFINE L == Links(p)
           O == Offloaded(p)
           n == [links |-> L, clamp |-> p.network.clamp, offloads |-> O,
                 maxMtu |-> MaxMtu(p)]
           lines == Netdev(Compile(p))
           links == LinkDirectives(lines)
           line(ifc) == <<"link", ifc, LinkMtu(p, ifc)>>
<1>1. Compile(p).network = Optional(L # {} \/ p.network.clamp \/ O # {}, n)
  BY DEF Compile, CompileNetwork, Links, Offloaded
<1>2. CASE L = {} /\ O = {} /\ ~ p.network.clamp
  <2>1. Compile(p).network = {}
    BY <1>1, <1>2 DEF Optional
  <2>2. lines = <<>>
    BY <2>1 DEF Netdev
  <2> HIDE DEF lines
  <2>3. OffloadDirectives(lines) = {} /\ links = {}
    BY <2>2 DEF OffloadDirectives, LinkDirectives
  <2>4. ManagedLinks(p) = {}
    BY <1>2 DEF Links
  <2> QED
    BY <1>2, <2>3, <2>4 DEF lines
<1>3. CASE L # {} \/ O # {} \/ p.network.clamp
  <2>1. Compile(p).network = {n}
    BY <1>1, <1>3 DEF Optional
  <2>2. The(Compile(p).network) = n
    BY <2>1 DEF The
  <2>3. lines = LineOfEach(L, Link) \o LineOfEach(O, Offload)
    <3>1. n.links = L /\ n.offloads = O
      OBVIOUS
    <3>2. lines = IF Compile(p).network = {} THEN <<>>
                  ELSE LineOfEach(The(Compile(p).network).links, Link)
                       \o LineOfEach(The(Compile(p).network).offloads, Offload)
      BY DEF Netdev
    <3> HIDE DEF L, O, n, lines
    <3> QED
      BY <2>1, <2>2, <3>1, <3>2
  <2>4. IsFiniteSet(O)
    BY FiniteIfaces, FS_EmptySet DEF Offloaded
  <2>5. IsFiniteSet(L)
    <3> DEFINE f == [ifc \in ManagedLinks(p) |-> [iface |-> ifc, mtu |-> LinkMtu(p, ifc)]]
    <3>1. f \in Surjection(ManagedLinks(p), L)
      BY DEF Surjection, Links
    <3> QED
      BY <3>1, FiniteIfaces, FS_Surjection DEF ExistsSurjection
  <2> HIDE DEF L, O, lines
  <2>6. \A l \in L : \E ifc \in ManagedLinks(p) :
           l = [iface |-> ifc, mtu |-> LinkMtu(p, ifc)] /\ Link(l) = line(ifc)
    BY DEF L, Links, Link
  <2>7. \A ifc \in ManagedLinks(p) : \E l \in L : Link(l) = line(ifc)
    <3> TAKE ifc \in ManagedLinks(p)
    <3> DEFINE l == [iface |-> ifc, mtu |-> LinkMtu(p, ifc)]
    <3>1. l \in L
      BY DEF L, Links
    <3>2. Link(l) = line(ifc)
      BY DEF Link
    <3> QED
      BY <3>1, <3>2
  <2>8. \A l, m \in L : Link(l)[2] = Link(m)[2] => l = m
    <3> TAKE l \in L, m \in L
    <3>1. PICK x \in ManagedLinks(p) : l = [iface |-> x, mtu |-> LinkMtu(p, x)]
      BY <2>6
    <3>2. PICK y \in ManagedLinks(p) : m = [iface |-> y, mtu |-> LinkMtu(p, y)]
      BY <2>6
    <3>3. Link(l)[2] = x /\ Link(m)[2] = y
      BY <3>1, <3>2 DEF Link
    <3> QED
      BY <3>1, <3>2, <3>3
  <2>9. /\ OffloadDirectives(lines) = O
        /\ \A i \in links : \E l \in L : lines[i] = Link(l)
        /\ \A l \in L : \E i \in links : lines[i] = Link(l)
        /\ \A i, j \in links : lines[i][2] = lines[j][2] => i = j
    <3>1. lines = NetdevText(L, O)
      BY <2>3 DEF NetdevText
    <3> QED
      BY ONLY <2>4, <2>5, <2>8, <3>1, NetdevLines
  <2>10. \A i \in links : \E ifc \in ManagedLinks(p) : lines[i] = line(ifc)
    <3> TAKE i \in links
    <3>1. PICK l \in L : lines[i] = Link(l)
      BY <2>9
    <3>2. PICK ifc \in ManagedLinks(p) : Link(l) = line(ifc)
      BY <2>6
    <3> QED
      BY <3>1, <3>2
  <2>11. \A ifc \in ManagedLinks(p) : \E i \in links : lines[i] = line(ifc)
    <3> TAKE ifc \in ManagedLinks(p)
    <3>1. PICK l \in L : Link(l) = line(ifc)
      BY <2>7
    <3>2. PICK i \in links : lines[i] = Link(l)
      BY <2>9
    <3> QED
      BY <3>1, <3>2
  <2> QED
    BY <2>9, <2>10, <2>11 DEF lines, O
<1> QED
  BY <1>2, <1>3

(* Every link is told the MTU that is asked of it, once. *)
LEMMA LinksAsAsked ==
    ASSUME NEW p, IsFirewall(p), IsSections(p), Validate(p)
    PROVE  MtusAsAsked(p, Netdev(Compile(p)))
<1> DEFINE lines == Netdev(Compile(p))
           links == LinkDirectives(lines)
           line(ifc) == <<"link", ifc, LinkMtu(p, ifc)>>
<1>1. /\ \A i \in links : \E ifc \in ManagedLinks(p) : lines[i] = line(ifc)
      /\ \A ifc \in ManagedLinks(p) : \E i \in links : lines[i] = line(ifc)
      /\ \A i, j \in links : lines[i][2] = lines[j][2] => i = j
  BY NetdevIs
<1> HIDE DEF lines
<1>2. \A ifc : line(ifc)[2] = ifc /\ line(ifc)[3] = LinkMtu(p, ifc)
  OBVIOUS
<1> HIDE DEF links, line
<1>3. ASSUME NEW ifc
      PROVE  {lines[i][3] : i \in {j \in links : lines[j][2] = ifc}} = AskedMtu(p, ifc)
  <2>1. \A i \in links : lines[i][2] = ifc => lines[i] = line(ifc) /\ ifc \in ManagedLinks(p)
    BY <1>1, <1>2
  <2>2. CASE ifc \in ManagedLinks(p)
    <3>1. PICK i \in links : lines[i] = line(ifc)
      BY <1>1, <2>2
    <3>2. lines[i][2] = ifc /\ lines[i][3] = LinkMtu(p, ifc)
      BY <1>2, <3>1
    <3>3. \A j \in links : lines[j][2] = ifc => lines[j][3] = LinkMtu(p, ifc)
      BY <1>2, <2>1
    <3>4. AskedMtu(p, ifc) = {LinkMtu(p, ifc)}
      BY <2>2, AskedIs
    <3> QED
      BY <3>2, <3>3, <3>4
  <2>3. CASE ifc \notin ManagedLinks(p)
    <3>1. AskedMtu(p, ifc) = {}
      BY <2>3, AskedIs
    <3> QED
      BY <2>1, <2>3, <3>1
  <2> QED
    BY <2>2, <2>3
<1> QED
  BY <1>1, <1>3 DEF MtusAsAsked, lines, links

(* How Suricata is run with what is rendered of each mode. *)
LEMMA SuricataIs ==
    ASSUME NEW p, IsSections(p), Validate(p)
    PROVE  LET conf == Suricata(Compile(p))
               runs == SuricataRuns(conf)
           IN  /\ ~ p.ids.enabled => conf.mode = "disabled" /\ runs = [on |-> FALSE]
               /\ p.ids.enabled /\ p.ids.mode = "detect" =>
                     /\ conf.mode = "detect"
                     /\ runs = [on |-> TRUE, sniffs |-> Sniffed(p), queues |-> {}]
               /\ p.ids.enabled /\ p.ids.mode = "prevent" =>
                     /\ conf.mode = "prevent"
                     /\ runs = [on |-> TRUE, sniffs |-> {}, queues |-> {Uint16(p.ids.queue)}]
               /\ p.ids.enabled => p.ids.mode \in {"detect", "prevent"} /\ conf.log = EvePath
               /\ p.ids.enabled =>
                     conf.size = {n.maxMtu + 18 : n \in {x \in CompileNetwork(p) : x.maxMtu > 0}}
<1> DEFINE prevent == p.ids.mode = "prevent"
           d == [prevent |-> prevent,
                 queue |-> Uint16(p.ids.queue),
                 interfaces |-> Sniffed(p),
                 home |-> IF p.ids.home = {} THEN Rfc1918 ELSE p.ids.home,
                 files |-> IF p.ids.files = {} THEN {LocalRules} ELSE p.ids.files]
           ir == Compile(p)
           conf == Suricata(ir)
           runs == SuricataRuns(conf)
<1>1. ir.ids = Optional(p.ids.enabled, d) /\ ir.network = CompileNetwork(p)
  BY DEF Compile, CompileIDs
<1>2. CASE ~ p.ids.enabled
  <2>1. ir.ids = {}
    BY <1>1, <1>2 DEF Optional
  <2> HIDE DEF ir
  <2>2. conf = [mode |-> "disabled", queue |-> {}]
    BY <2>1 DEF Suricata
  <2> HIDE DEF conf
  <2>3. runs = [on |-> FALSE]
    BY <2>2 DEF SuricataRuns, ParseMode
  <2> QED
    BY <1>2, <2>2, <2>3 DEF conf, ir
<1>3. CASE p.ids.enabled
  <2>1. ir.ids = {d} /\ The(ir.ids) = d
    BY <1>1, <1>3 DEF Optional, The
  <2>2. p.ids.mode \in {"detect", "prevent"}
    BY <1>3 DEF Validate, CheckIDs, IsSections, Modes
  <2>3. conf = [mode |-> IF d.prevent THEN "prevent" ELSE "detect",
                queue |-> Optional(d.prevent, d.queue),
                afPacket |-> IF d.prevent THEN {} ELSE d.interfaces,
                size |-> {n.maxMtu + 18 : n \in {x \in ir.network : x.maxMtu > 0}},
                home |-> d.home, log |-> EvePath,
                rules |-> {<<RulesDir, f>> : f \in d.files}]
    <3> HIDE DEF ir, d
    <3> QED
      BY <2>1 DEF Suricata
  <2> HIDE DEF conf, ir
  <2>4. /\ d.prevent <=> p.ids.mode = "prevent"
        /\ d.queue = Uint16(p.ids.queue) /\ d.interfaces = Sniffed(p)
    OBVIOUS
  <2> HIDE DEF d
  <2>5. /\ conf.mode = IF d.prevent THEN "prevent" ELSE "detect"
        /\ conf.queue = Optional(d.prevent, d.queue)
        /\ conf.afPacket = IF d.prevent THEN {} ELSE d.interfaces
        /\ conf.log = EvePath
        /\ conf.size = {n.maxMtu + 18 : n \in {x \in ir.network : x.maxMtu > 0}}
    BY <2>3
  <2>6. p.ids.mode = "detect" => runs = [on |-> TRUE, sniffs |-> Sniffed(p), queues |-> {}]
    <3> SUFFICES ASSUME p.ids.mode = "detect"
                 PROVE  runs = [on |-> TRUE, sniffs |-> Sniffed(p), queues |-> {}]
      OBVIOUS
    <3>1. conf.mode = "detect" /\ conf.afPacket = Sniffed(p)
      BY <2>4, <2>5
    <3> QED
      BY <3>1 DEF SuricataRuns, ParseMode
  <2>7. p.ids.mode = "prevent"
          => runs = [on |-> TRUE, sniffs |-> {}, queues |-> {Uint16(p.ids.queue)}]
    <3> SUFFICES ASSUME p.ids.mode = "prevent"
                 PROVE  runs = [on |-> TRUE, sniffs |-> {}, queues |-> {Uint16(p.ids.queue)}]
      OBVIOUS
    <3>1. conf.mode = "prevent" /\ conf.queue = {Uint16(p.ids.queue)}
      BY <2>4, <2>5 DEF Optional
    <3>2. The(conf.queue) = Uint16(p.ids.queue) /\ conf.queue # {}
      BY <3>1 DEF The
    <3> QED
      BY <3>1, <3>2 DEF SuricataRuns, ParseMode
  <2>8. p.ids.mode = "detect" => conf.mode = "detect"
    BY <2>4, <2>5
  <2>9. p.ids.mode = "prevent" => conf.mode = "prevent"
    BY <2>4, <2>5
  <2>10. conf.size = {n.maxMtu + 18 : n \in {x \in CompileNetwork(p) : x.maxMtu > 0}}
    BY <1>1, <2>5
  <2> QED
    BY <1>3, <2>2, <2>5, <2>6, <2>7, <2>8, <2>9, <2>10 DEF conf, ir
<1> QED
  BY <1>2, <1>3

(* Where an MTU is asked, there is a capture size, and it holds its frames. *)
LEMMA CaptureFits ==
    ASSUME NEW p, IsSections(p), Validate(p), NEW ifc, NEW mtu \in AskedMtu(p, ifc)
    PROVE  \E n \in CompileNetwork(p) : n.maxMtu > 0 /\ n.maxMtu + 18 >= mtu + 18
<1> DEFINE L == Links(p)
           O == Offloaded(p)
           n == [links |-> L, clamp |-> p.network.clamp, offloads |-> O,
                 maxMtu |-> MaxMtu(p)]
<1>1. /\ ifc \in ManagedLinks(p) /\ mtu = LinkMtu(p, ifc)
      /\ LinkMtu(p, ifc) \in MtuRange
  BY AskedIs
<1>2. MaxMtu(p) \in Nat /\ LinkMtu(p, ifc) <= MaxMtu(p)
  BY <1>1, MaxMtuIs
<1>3. L # {}
  BY <1>1 DEF Links
<1>4. CompileNetwork(p) = Optional(L # {} \/ p.network.clamp \/ O # {}, n)
  BY DEF CompileNetwork, Links, Offloaded
<1>5. n \in CompileNetwork(p)
  BY <1>3, <1>4 DEF Optional
<1>6. n.maxMtu = MaxMtu(p)
  OBVIOUS
<1>7. mtu \in Nat /\ mtu > 0
  <2>1. \A x \in MtuRange : x \in Nat /\ x > 0
    BY DEF MtuRange
  <2> QED
    BY <1>1, <2>1
<1>8. n.maxMtu > 0 /\ n.maxMtu + 18 >= mtu + 18
  <2> HIDE DEF n
  <2> QED
    BY <1>1, <1>2, <1>6, <1>7
<1> QED
  BY <1>5, <1>8

(* A sequence without a domain is the empty one. *)
LEMMA EmptySeq ==
    ASSUME NEW S, NEW s \in Seq(S)
    PROVE  s = <<>> <=> DOMAIN s = {}
<1>1. ASSUME DOMAIN s = {} PROVE s = <<>>
  <2>1. Len(s) \in Nat /\ DOMAIN s = 1..Len(s)
    OBVIOUS
  <2>2. Len(s) = 0
    <3>1. Len(s) >= 1 => 1 \in DOMAIN s
      BY <2>1
    <3> QED
      BY <1>1, <2>1, <3>1
  <2> QED
    BY <2>2
<1> QED
  BY <1>1

(* The sets are declared exactly when there is a feed to fill them. *)
LEMMA SetsDeclared ==
    ASSUME NEW p, IsSections(p)
    PROVE  Compile(p).intel <=> EnabledFeeds(p) # {}
<1>1. Compile(p).intel <=> Enforces(p)
  BY DEF Compile
<1>2. p.intel.custom # <<>> <=> Names(p.intel.custom) # {}
  <2>1. p.intel.custom \in Seq([name : STRING, url : STRING])
    BY DEF IsSections
  <2>2. p.intel.custom # <<>> <=> DOMAIN p.intel.custom # {}
    <3> DEFINE T == [name : STRING, url : STRING]
               s == p.intel.custom
    <3>1. s \in Seq(T)
      BY <2>1
    <3> HIDE DEF T, s
    <3>2. s = <<>> <=> DOMAIN s = {}
      BY <3>1, EmptySeq
    <3> QED
      BY <3>2 DEF s
  <2> QED
    BY <2>2 DEF Names
<1>3. (\E i \in DOMAIN p.intel.feeds : p.intel.feeds[i].enabled)
        <=> {p.intel.feeds[i].name :
               i \in {j \in DOMAIN p.intel.feeds : p.intel.feeds[j].enabled}} # {}
  OBVIOUS
<1> QED
  BY <1>1, <1>2, <1>3 DEF Enforces, EnabledFeeds

(* The engines agree, for every policy that is committed. *)
LEMMA AgreedIs ==
    ASSUME InForce, Loaded
    PROVE  LET suricata == artifacts.suricata
               runs == SuricataRuns(suricata)
           IN  /\ table.queues = IF runs.on THEN runs.queues ELSE {}
               /\ \A ifc \in Sniffs : \A mtu \in AskedMtu(policy, ifc) :
                     \E size \in suricata.size : size >= mtu + 18
               /\ OffloadDirectives(artifacts.netdev)
                    = IF policy.network.offloads THEN Sniffs ELSE {}
               /\ table.sets <=> EnabledFeeds(policy) # {}
               /\ runs.on /\ artifacts.vector.mode = "enabled" =>
                     artifacts.vector.include = suricata.log
<1> DEFINE p == policy
           conf == Suricata(Compile(p))
           runs == SuricataRuns(conf)
           vector == Vector(Compile(p))
<1>1. /\ IsFirewall(p) /\ IsSections(p) /\ Validate(p)
      /\ artifacts = RenderAll(p)
  BY ArtifactsAre
<1>2. /\ artifacts.suricata = conf /\ artifacts.vector = vector
      /\ artifacts.netdev = Netdev(Compile(p))
      /\ table = Render(Compile(p))
  BY <1>1 DEF RenderAll, table
<1>3. /\ table.queues = Queues(Compile(p)) /\ table.sets = Compile(p).intel
  BY <1>2 DEF Render
<1> HIDE DEF p
<1>4. /\ ~ p.ids.enabled => runs = [on |-> FALSE]
      /\ p.ids.enabled /\ p.ids.mode = "detect" =>
            runs = [on |-> TRUE, sniffs |-> Sniffed(p), queues |-> {}]
      /\ p.ids.enabled /\ p.ids.mode = "prevent" =>
            runs = [on |-> TRUE, sniffs |-> {}, queues |-> {Uint16(p.ids.queue)}]
      /\ p.ids.enabled => p.ids.mode \in {"detect", "prevent"} /\ conf.log = EvePath
      /\ p.ids.enabled =>
            conf.size = {n.maxMtu + 18 : n \in {x \in CompileNetwork(p) : x.maxMtu > 0}}
  BY <1>1, SuricataIs
<1>5. Queues(Compile(p))
        = IF p.ids.enabled /\ p.ids.mode = "prevent" THEN {Uint16(p.ids.queue)} ELSE {}
  <2> DEFINE d == [prevent |-> p.ids.mode = "prevent",
                   queue |-> Uint16(p.ids.queue),
                   interfaces |-> Sniffed(p),
                   home |-> IF p.ids.home = {} THEN Rfc1918 ELSE p.ids.home,
                   files |-> IF p.ids.files = {} THEN {LocalRules} ELSE p.ids.files]
  <2>1. Compile(p).ids = IF p.ids.enabled THEN {d} ELSE {}
    BY DEF Compile, CompileIDs, Optional
  <2>2. (d.prevent <=> p.ids.mode = "prevent") /\ d.queue = Uint16(p.ids.queue)
    OBVIOUS
  <2> HIDE DEF d
  <2> QED
    BY <2>1, <2>2 DEF Queues
<1>6. runs = IF p.ids.enabled
             THEN IF p.ids.mode = "prevent"
                  THEN [on |-> TRUE, sniffs |-> {}, queues |-> {Uint16(p.ids.queue)}]
                  ELSE [on |-> TRUE, sniffs |-> Sniffed(p), queues |-> {}]
             ELSE [on |-> FALSE]
  <2> HIDE DEF runs, conf
  <2> QED
    BY <1>4
<1>7. Sniffs = IF p.ids.enabled /\ p.ids.mode = "detect" THEN Sniffed(p) ELSE {}
  <2>1. Sniffs = IF runs.on THEN runs.sniffs ELSE {}
    BY <1>2 DEF Sniffs
  <2> HIDE DEF runs
  <2> QED
    BY <1>4, <2>1
<1>8. Queues(Compile(p)) = IF runs.on THEN runs.queues ELSE {}
  <2> HIDE DEF runs
  <2>1. CASE ~ p.ids.enabled
    <3>1. runs.on = FALSE
      BY <1>6, <2>1
    <3> QED
      BY <1>5, <2>1, <3>1
  <2>2. CASE p.ids.enabled /\ p.ids.mode = "prevent"
    <3>1. runs.on = TRUE /\ runs.queues = {Uint16(p.ids.queue)}
      BY <1>6, <2>2
    <3> QED
      BY <1>5, <2>2, <3>1
  <2>3. CASE p.ids.enabled /\ p.ids.mode # "prevent"
    <3>1. runs.on = TRUE /\ runs.queues = {}
      BY <1>6, <2>3
    <3> QED
      BY <1>5, <2>3, <3>1
  <2> QED
    BY <2>1, <2>2, <2>3
<1>9. ASSUME NEW ifc \in Sniffs, NEW mtu \in AskedMtu(p, ifc)
      PROVE  \E size \in conf.size : size >= mtu + 18
  <2>1. PICK n \in CompileNetwork(p) : n.maxMtu > 0 /\ n.maxMtu + 18 >= mtu + 18
    BY <1>1, CaptureFits
  <2>2. p.ids.enabled
    BY <1>7, <1>9
  <2>3. n.maxMtu + 18 \in conf.size
    BY <1>4, <2>1, <2>2
  <2> QED
    BY <2>1, <2>3
<1>10. OffloadDirectives(Netdev(Compile(p))) = IF p.network.offloads THEN Sniffs ELSE {}
  <2>1. OffloadDirectives(Netdev(Compile(p))) = Offloaded(p)
    BY <1>1, NetdevIs
  <2> QED
    BY <1>4, <1>7, <2>1 DEF Offloaded
<1>11. Compile(p).intel <=> EnabledFeeds(p) # {}
  BY <1>1, SetsDeclared
<1>12. vector.mode = "enabled" => vector.include = EvePath
  BY DEF Vector
<1>13. runs.on => conf.log = EvePath
  <2> HIDE DEF runs, conf
  <2>1. runs.on => p.ids.enabled
    BY <1>6
  <2> QED
    BY <1>4, <2>1
<1> HIDE DEF runs, vector, conf
<1>14. SuricataRuns(conf) = runs
  BY DEF runs
<1>15. p = policy
  BY DEF p
<1> QED
  BY <1>2, <1>3, <1>8, <1>9, <1>10, <1>11, <1>12, <1>13, <1>14, <1>15

(* What two engines must agree on has come through two renderers and two   *)
(* parsers, and is the same.                                               *)
THEOREM EnginesAlwaysAgree == Spec => []EnginesAgree
<1>1. ForceInv => EnginesAgree
  BY AgreedIs DEF ForceInv, EnginesAgree
<1> QED
  BY <1>1, ForceInvariant, PTL

-----------------------------------------------------------------------------
(* Texts: sequences of lines of any kind.                                  *)

IsText(s) == \E L : s \in Seq(L)

(* A text has a line for each number up to its length. *)
LEMMA TextIs ==
    ASSUME NEW s, IsText(s)
    PROVE  /\ Len(s) \in Nat /\ DOMAIN s = 1..Len(s)
           /\ s = [i \in 1..Len(s) |-> s[i]]
           /\ s = <<>> <=> Len(s) = 0
           /\ ToSet(s) = {s[i] : i \in 1..Len(s)}
<1>1. PICK L : s \in Seq(L)
  BY DEF IsText
<1>2. Len(s) \in Nat /\ DOMAIN s = 1..Len(s) /\ s = [i \in 1..Len(s) |-> s[i]]
  BY <1>1
<1>3. s = <<>> <=> DOMAIN s = {}
  BY <1>1, EmptySeq
<1>4. DOMAIN s = {} <=> Len(s) = 0
  <2>1. Len(s) # 0 => 1 \in DOMAIN s
    BY <1>2
  <2> QED
    BY <1>2, <2>1
<1> QED
  BY <1>2, <1>3, <1>4 DEF ToSet

(* A function on such an interval is a text. *)
LEMMA TextOf ==
    ASSUME NEW n \in Nat, NEW s, s = [i \in 1..n |-> s[i]]
    PROVE  IsText(s) /\ Len(s) = n
<1> DEFINE L == {s[i] : i \in 1..n}
<1>1. s \in [1..n -> L]
  <2>1. \A i \in 1..n : s[i] \in L
    OBVIOUS
  <2> HIDE DEF L
  <2> QED
    BY <2>1
<1> HIDE DEF L
<1>2. s \in Seq(L) /\ Len(s) = n
  BY ONLY <1>1, n \in Nat, SeqIs
<1> QED
  BY <1>2 DEF IsText

(* Texts with the same lines are the same. *)
LEMMA TextSame ==
    ASSUME NEW s, IsText(s), NEW t, IsText(t), Len(s) = Len(t),
           \A i \in 1..Len(s) : s[i] = t[i]
    PROVE  s = t
<1>1. s = [i \in 1..Len(s) |-> s[i]] /\ t = [i \in 1..Len(t) |-> t[i]]
  BY TextIs
<1> QED
  BY <1>1

(* A text after another. *)
LEMMA Joined ==
    ASSUME NEW s, IsText(s), NEW t, IsText(t)
    PROVE  /\ IsText(s \o t) /\ Len(s \o t) = Len(s) + Len(t)
           /\ \A i \in 1..Len(s) : (s \o t)[i] = s[i]
           /\ \A i \in 1..Len(t) : (s \o t)[Len(s) + i] = t[i]
           /\ ToSet(s \o t) = ToSet(s) \cup ToSet(t)
<1>1. PICK K : s \in Seq(K)
  BY DEF IsText
<1>2. PICK M : t \in Seq(M)
  BY DEF IsText
<1> DEFINE L == K \cup M
<1>3. s \in Seq(L)
  <2>1. Len(s) \in Nat /\ s \in [1..Len(s) -> K]
    BY <1>1
  <2>2. s \in [1..Len(s) -> L]
    BY <2>1
  <2> HIDE DEF L
  <2> QED
    BY ONLY <2>1, <2>2, SeqIs
<1>4. t \in Seq(L)
  <2>1. Len(t) \in Nat /\ t \in [1..Len(t) -> M]
    BY <1>2
  <2>2. t \in [1..Len(t) -> L]
    BY <2>1
  <2> HIDE DEF L
  <2> QED
    BY ONLY <2>1, <2>2, SeqIs
<1> HIDE DEF L
<1>5. /\ s \o t \in Seq(L) /\ Len(s \o t) = Len(s) + Len(t)
      /\ \A i \in 1..Len(s) : (s \o t)[i] = s[i]
      /\ \A i \in 1..Len(t) : (s \o t)[Len(s) + i] = t[i]
  BY ONLY <1>3, <1>4, ConcatIs
<1>6. IsText(s \o t)
  BY <1>5 DEF IsText
<1> DEFINE u == s \o t
           m == Len(s)
           n == Len(t)
<1>7. /\ m \in Nat /\ n \in Nat
      /\ ToSet(s) = {s[i] : i \in 1..m} /\ ToSet(t) = {t[i] : i \in 1..n}
      /\ ToSet(u) = {u[i] : i \in 1..(m + n)}
  BY <1>5, <1>6, TextIs
<1>8. /\ \A i \in 1..m : u[i] = s[i]
      /\ \A i \in 1..n : u[m + i] = t[i]
  BY <1>5
<1> HIDE DEF u, m, n
<1>9. ASSUME NEW i \in 1..(m + n) PROVE u[i] \in ToSet(s) \cup ToSet(t)
  <2>1. CASE i \in 1..m
    BY <1>7, <1>8, <2>1
  <2>2. CASE i \notin 1..m
    <3>1. i - m \in 1..n /\ m + (i - m) = i
      BY <1>7, <2>2
    <3>2. u[i] = t[i - m]
      BY <1>8, <3>1
    <3> QED
      BY <1>7, <3>1, <3>2
  <2> QED
    BY <2>1, <2>2
<1>10. \A i \in 1..m : i \in 1..(m + n)
  BY <1>7
<1>11. \A i \in 1..n : m + i \in 1..(m + n)
  BY <1>7
<1>12. ToSet(s) \subseteq ToSet(u)
  BY <1>7, <1>8, <1>10
<1>13. ToSet(t) \subseteq ToSet(u)
  BY <1>7, <1>8, <1>11
<1>14. ToSet(u) \subseteq ToSet(s) \cup ToSet(t)
  BY <1>7, <1>9
<1>15. ToSet(u) = ToSet(s) \cup ToSet(t)
  BY <1>12, <1>13, <1>14
<1> QED
  BY <1>5, <1>6, <1>15 DEF u

Cat(s, t) == s \o t

(* The same, of the name that hides the concatenation from the solver. *)
LEMMA CatIs ==
    ASSUME NEW s, IsText(s), NEW t, IsText(t)
    PROVE  /\ IsText(Cat(s, t)) /\ Len(Cat(s, t)) = Len(s) + Len(t)
           /\ \A i \in 1..Len(s) : Cat(s, t)[i] = s[i]
           /\ \A i \in 1..(Len(s) + Len(t)) : i > Len(s) => Cat(s, t)[i] = t[i - Len(s)]
           /\ ToSet(Cat(s, t)) = ToSet(s) \cup ToSet(t)
<1> DEFINE r == Cat(s, t)
           m == Len(s)
           n == Len(t)
<1>1. /\ IsText(r) /\ Len(r) = m + n
      /\ \A i \in 1..m : r[i] = s[i]
      /\ \A i \in 1..n : r[m + i] = t[i]
      /\ ToSet(r) = ToSet(s) \cup ToSet(t)
  BY Joined DEF Cat
<1>2. m \in Nat /\ n \in Nat
  BY TextIs
<1> HIDE DEF r, m, n
<1>3. ASSUME NEW i \in 1..(m + n), i > m PROVE r[i] = t[i - m]
  <2>1. i - m \in 1..n /\ m + (i - m) = i
    BY <1>2, <1>3
  <2> QED
    BY <1>1, <2>1
<1> QED
  BY <1>1, <1>3 DEF r, m, n

(* A line after a text. *)
LEMMA Added ==
    ASSUME NEW s, IsText(s), NEW x
    PROVE  /\ IsText(Append(s, x)) /\ Len(Append(s, x)) = Len(s) + 1
           /\ \A i \in 1..Len(s) : Append(s, x)[i] = s[i]
           /\ Append(s, x)[Len(s) + 1] = x
<1>1. PICK K : s \in Seq(K)
  BY DEF IsText
<1> DEFINE L == K \cup {x}
<1>3. s \in Seq(L)
  <2>1. Len(s) \in Nat /\ s \in [1..Len(s) -> K]
    BY <1>1
  <2>2. s \in [1..Len(s) -> L]
    BY <2>1
  <2> HIDE DEF L
  <2> QED
    BY ONLY <2>1, <2>2, SeqIs
<1>4. x \in L
  OBVIOUS
<1> HIDE DEF L
<1>5. /\ Append(s, x) \in Seq(L) /\ Len(Append(s, x)) = Len(s) + 1
      /\ \A i \in 1..Len(s) : Append(s, x)[i] = s[i]
      /\ Append(s, x)[Len(s) + 1] = x
  BY ONLY <1>3, <1>4
<1> QED
  BY <1>5 DEF IsText

(* The text without lines. *)
LEMMA JoinedEmpty ==
    ASSUME NEW s, IsText(s)
    PROVE  IsText(<<>>) /\ <<>> \o s = s /\ s \o <<>> = s /\ ToSet(<<>>) = {}
<1>1. IsText(<<>>) /\ Len(<<>>) = 0 /\ ToSet(<<>>) = {}
  <2>1. <<>> \in Seq({})
    OBVIOUS
  <2> QED
    BY <2>1 DEF IsText, ToSet
<1>2. PICK L : s \in Seq(L)
  BY DEF IsText
<1> QED
  BY <1>1, <1>2

(* Three texts may be joined from either side. *)
LEMMA JoinedThrice ==
    ASSUME NEW s, IsText(s), NEW t, IsText(t), NEW u, IsText(u)
    PROVE  (s \o t) \o u = s \o (t \o u)
<1> DEFINE v == (s \o t) \o u
           w == s \o (t \o u)
           a == Len(s)
           b == Len(t)
           c == Len(u)
           st == s \o t
           tu == t \o u
<1>0. IsText(s) /\ IsText(u)
  OBVIOUS
<1>1. /\ a \in Nat /\ b \in Nat /\ c \in Nat
  BY TextIs
<1>2. /\ IsText(st) /\ Len(st) = a + b
      /\ \A i \in 1..a : st[i] = s[i]
      /\ \A i \in 1..b : st[a + i] = t[i]
  BY Joined
<1>3. /\ IsText(tu) /\ Len(tu) = b + c
      /\ \A i \in 1..b : tu[i] = t[i]
      /\ \A i \in 1..c : tu[b + i] = u[i]
  BY Joined
<1> HIDE DEF a, b, c, st, tu
<1>4. /\ IsText(v) /\ Len(v) = (a + b) + c
      /\ \A i \in 1..(a + b) : v[i] = st[i]
      /\ \A i \in 1..((a + b) + c) : i > a + b => v[i] = u[i - (a + b)]
  <2>1. v = Cat(st, u)
    BY DEF st, Cat
  <2> HIDE DEF v
  <2>2. /\ IsText(v) /\ Len(v) = Len(st) + Len(u)
        /\ \A i \in 1..Len(st) : v[i] = st[i]
        /\ \A i \in 1..(Len(st) + Len(u)) : i > Len(st) => v[i] = u[i - Len(st)]
    BY ONLY <1>0, <1>2, <2>1, CatIs
  <2> QED
    BY <1>2, <2>2 DEF c
<1>5. /\ IsText(w) /\ Len(w) = a + (b + c)
      /\ \A i \in 1..a : w[i] = s[i]
      /\ \A i \in 1..(a + (b + c)) : i > a => w[i] = tu[i - a]
  <2>1. w = Cat(s, tu)
    BY DEF tu, Cat
  <2> HIDE DEF w
  <2>2. /\ IsText(w) /\ Len(w) = Len(s) + Len(tu)
        /\ \A i \in 1..Len(s) : w[i] = s[i]
        /\ \A i \in 1..(Len(s) + Len(tu)) : i > Len(s) => w[i] = tu[i - Len(s)]
    BY ONLY <1>0, <1>3, <2>1, CatIs
  <2> QED
    BY <1>3, <2>2 DEF a
<1> HIDE DEF v, w
<1>6. ASSUME NEW i \in 1..Len(v) PROVE v[i] = w[i]
  <2>1. i \in Nat /\ 1 <= i /\ i <= (a + b) + c
    BY <1>1, <1>4
  <2>2. CASE i <= a
    <3>1. i \in 1..a /\ i \in 1..(a + b)
      BY <1>1, <2>1, <2>2
    <3> QED
      BY <1>2, <1>4, <1>5, <3>1
  <2>3. CASE a < i /\ i <= a + b
    <3> DEFINE j == i - a
    <3>1. i \in 1..(a + b) /\ j \in 1..b /\ j \in 1..(b + c) /\ a + j = i
          /\ i \in 1..(a + (b + c)) /\ i > a /\ i - a = j
      BY <1>1, <2>1, <2>3
    <3> HIDE DEF j
    <3>2. v[i] = t[j]
      BY <1>2, <1>4, <3>1
    <3>3. w[i] = t[j]
      BY <1>3, <1>5, <3>1
    <3> QED
      BY <3>2, <3>3
  <2>4. CASE a + b < i
    <3> DEFINE j == i - (a + b)
               k == i - a
    <3>1. j \in 1..c /\ k \in 1..(b + c) /\ (a + b) + j = i /\ a + k = i /\ k = b + j
          /\ i \in 1..((a + b) + c) /\ i > a + b /\ i - (a + b) = j
          /\ i \in 1..(a + (b + c)) /\ i > a /\ i - a = k
      BY <1>1, <2>1, <2>4
    <3> HIDE DEF j, k
    <3>2. v[i] = u[j]
      BY <1>4, <3>1
    <3>3. w[i] = tu[k]
      BY <1>5, <3>1
    <3>4. tu[k] = u[j]
      BY <1>3, <3>1
    <3> QED
      BY <3>2, <3>3, <3>4
  <2> QED
    BY <1>1, <2>1, <2>2, <2>3, <2>4
<1>7. Len(v) = Len(w)
  BY <1>1, <1>4, <1>5
<1>8. v = w
  BY <1>4, <1>5, <1>6, <1>7, TextSame
<1> QED
  BY <1>8 DEF v, w

(* The same, of Cat. *)
LEMMA CatThrice ==
    ASSUME NEW s, IsText(s), NEW t, IsText(t), NEW u, IsText(u)
    PROVE  Cat(Cat(s, t), u) = Cat(s, Cat(t, u))
<1>1. (s \o t) \o u = s \o (t \o u)
  BY JoinedThrice
<1> QED
  BY ONLY <1>1 DEF Cat

(* The lines that are written of a finite set. *)
LEMMA SetLines ==
    ASSUME NEW S, IsFiniteSet(S), NEW F, NEW t,
           t = [i \in DOMAIN SetToSeq(S) |-> F[SetToSeq(S)[i]]]
    PROVE  IsText(t) /\ ToSet(t) = {F[x] : x \in S}
<1> DEFINE n == Cardinality(S)
           s == SetToSeq(S)
<1>1. /\ n \in Nat /\ s \in [1..n -> S]
      /\ \A x \in S : \E i \in 1..n : s[i] = x
  BY SeqOfSet
<1>2. t = [i \in 1..n |-> F[s[i]]]
  BY <1>1
<1> HIDE DEF n, s
<1>3. \A i \in 1..n : t[i] = F[s[i]] /\ s[i] \in S
  BY <1>1, <1>2
<1>4. t = [i \in 1..n |-> t[i]]
  BY <1>2
<1>5. IsText(t) /\ Len(t) = n
  BY <1>1, <1>4, TextOf
<1>6. ToSet(t) = {t[i] : i \in 1..n}
  BY <1>5, TextIs
<1>7. ASSUME NEW x \in S PROVE F[x] \in ToSet(t)
  <2>1. PICK i \in 1..n : s[i] = x
    BY <1>1
  <2> QED
    BY <1>3, <1>6, <2>1
<1>8. \A l \in ToSet(t) : \E x \in S : l = F[x]
  BY <1>3, <1>6
<1> QED
  BY <1>5, <1>7, <1>8

(* What holds at 0, and of each number if of the one before, holds to n. *)
LEMMA StepByStep ==
    ASSUME NEW n \in Nat, NEW G, 0 \in G,
           \A i \in 1..n : i - 1 \in G => i \in G
    PROVE  \A i \in 0..n : i \in G
<1> DEFINE bad == {i \in 0..n : i \notin G}
<1>1. SUFFICES ASSUME bad # {} PROVE FALSE
  BY <1>1
<1>2. PICK i \in bad : \A j \in bad : i <= j
  <2>1. bad \in SUBSET Nat
    OBVIOUS
  <2> HIDE DEF bad
  <2> QED
    BY <1>1, <2>1, LeastOf
<1>3. i \in 1..n /\ i - 1 \in 0..n /\ ~ (i <= i - 1)
  OBVIOUS
<1>4. i - 1 \in G
  BY <1>2, <1>3
<1> QED
  BY <1>3, <1>4

(* A text of one line. *)
LEMMA OneLine ==
    ASSUME NEW x
    PROVE  IsText(<<x>>) /\ Len(<<x>>) = 1 /\ ToSet(<<x>>) = {x}
<1>1. <<x>> \in Seq({x}) /\ Len(<<x>>) = 1 /\ <<x>>[1] = x
  OBVIOUS
<1>2. IsText(<<x>>)
  BY <1>1 DEF IsText
<1> DEFINE s == <<x>>
<1> HIDE DEF s
<1>3. ToSet(s) = {s[i] : i \in 1..1}
  BY <1>1, <1>2, TextIs DEF s
<1>4. s[1] = x
  BY <1>1 DEF s
<1>5. 1..1 = {1}
  OBVIOUS
<1>6. ToSet(s) = {x}
  BY ONLY <1>3, <1>4, <1>5
<1> QED
  BY <1>1, <1>2, <1>6 DEF s

-----------------------------------------------------------------------------
(* A text of blocks: FlattenSeq(texts), by the loop that flattens.         *)
FlatBody(texts, f, i) == IF i = 1 THEN texts[i] ELSE f[i - 1] \o texts[i]

(* The loop has a result, for any number of texts. *)
LEMMA FlatExists ==
    ASSUME NEW texts
    PROVE  \A m \in Nat : \E f : f = [i \in 1..m |-> FlatBody(texts, f, i)]
<1> DEFINE good(m) == \E f : f = [i \in 1..m |-> FlatBody(texts, f, i)]
           bad == {m \in Nat : ~ good(m)}
<1>1. SUFFICES ASSUME bad # {} PROVE FALSE
  BY <1>1
<1>2. PICK m \in bad : \A j \in bad : m <= j
  BY <1>1, LeastOf
<1>3. m \in Nat /\ ~ good(m)
  OBVIOUS
<1>4. CASE m = 0
  <2> DEFINE f == [i \in 1..0 |-> 0]
  <2>1. f = [i \in 1..0 |-> FlatBody(texts, f, i)]
    OBVIOUS
  <2> QED
    BY <1>3, <1>4, <2>1
<1>5. CASE m # 0
  <2>1. m - 1 \in Nat /\ m - 1 < m
    BY <1>3, <1>5
  <2>2. good(m - 1)
    BY <1>2, <2>1
  <2>3. PICK f : f = [i \in 1..(m - 1) |-> FlatBody(texts, f, i)]
    BY <2>2
  <2> DEFINE g == [i \in 1..m |-> IF i = m THEN FlatBody(texts, f, m) ELSE f[i]]
  <2>4. ASSUME NEW i \in 1..m
        PROVE  g[i] = FlatBody(texts, g, i)
    <3>1. g[i] = FlatBody(texts, f, i)
      <4>1. CASE i = m
        BY <4>1
      <4>2. CASE i # m
        <5>1. i \in 1..(m - 1) /\ g[i] = f[i]
          BY <1>3, <4>2
        <5> QED
          BY <2>3, <5>1
      <4> QED
        BY <4>1, <4>2
    <3>2. i # 1 => g[i - 1] = f[i - 1]
      <4>1. i # 1 => i - 1 \in 1..m /\ i - 1 # m
        BY <1>3
      <4> QED
        BY <4>1
    <3>3. FlatBody(texts, f, i) = FlatBody(texts, g, i)
      BY <3>2 DEF FlatBody
    <3> QED
      BY <3>1, <3>3
  <2> HIDE DEF g
  <2>5. g = [i \in 1..m |-> FlatBody(texts, g, i)]
    <3>1. g = [i \in 1..m |-> g[i]]
      BY DEF g
    <3> QED
      BY <2>4, <3>1
  <2> QED
    BY <1>3, <2>5
<1> QED
  BY <1>4, <1>5

(* The texts one after another, beginning with none. *)
Flat(texts, m, f) ==
    /\ f[0] = <<>>
    /\ \A i \in 1..m : f[i] = f[i - 1] \o texts[i]

(* FlattenSeq is what the loop has reached after the last text. *)
LEMMA FlattenIs ==
    ASSUME NEW texts, IsText(texts), \A i \in DOMAIN texts : IsText(texts[i])
    PROVE  \E f : Flat(texts, Len(texts), f) /\ FlattenSeq(texts) = f[Len(texts)]
<1> DEFINE m == Len(texts)
           flatten == CHOOSE f : f = [i \in 1..m |-> FlatBody(texts, f, i)]
<1>1. m \in Nat /\ DOMAIN texts = 1..m /\ (texts = <<>> <=> m = 0)
  BY TextIs
<1>2. flatten = [i \in 1..m |-> FlatBody(texts, flatten, i)]
  <2>1. \E f : f = [i \in 1..m |-> FlatBody(texts, f, i)]
    BY <1>1, FlatExists
  <2> QED
    BY <2>1
<1>3. FlattenSeq(texts) = IF m = 0 THEN texts ELSE flatten[m]
  BY DEF FlattenSeq, FlatBody
<1> DEFINE f == [i \in 0..m |-> IF i = 0 THEN <<>> ELSE flatten[i]]
<1> HIDE DEF flatten, m
<1>4. ASSUME NEW i \in 1..m
      PROVE  f[i] = f[i - 1] \o texts[i]
  <2>1. i \in 0..m /\ i - 1 \in 0..m /\ i # 0 /\ i \in DOMAIN texts
    BY <1>1
  <2>2. f[i] = FlatBody(texts, flatten, i)
    BY <1>2, <2>1
  <2>3. CASE i = 1
    <3>1. f[i] = texts[i] /\ f[i - 1] = <<>>
      BY <2>1, <2>2, <2>3 DEF FlatBody
    <3> HIDE DEF f
    <3> QED
      BY <2>1, <3>1, JoinedEmpty
  <2>4. CASE i # 1
    <3>1. f[i] = flatten[i - 1] \o texts[i]
      BY <2>2, <2>4 DEF FlatBody
    <3>2. f[i - 1] = flatten[i - 1]
      BY <1>1, <2>1, <2>4
    <3> QED
      BY <3>1, <3>2
  <2> QED
    BY <2>3, <2>4
<1>5. f[0] = <<>>
  BY <1>1
<1>6. FlattenSeq(texts) = f[m]
  BY <1>1, <1>3
<1> HIDE DEF f
<1>7. Flat(texts, m, f)
  BY <1>4, <1>5 DEF Flat
<1> QED
  BY <1>6, <1>7 DEF m

(* It is a text, and its lines are those of the texts. *)
LEMMA FlatLines ==
    ASSUME NEW texts, IsText(texts), \A i \in DOMAIN texts : IsText(texts[i]),
           NEW f, Flat(texts, Len(texts), f)
    PROVE  \A i \in 0..Len(texts) :
              /\ IsText(f[i])
              /\ \A l : l \in ToSet(f[i]) <=> \E k \in 1..i : l \in ToSet(texts[k])
<1> DEFINE m == Len(texts)
           P(i) == /\ IsText(f[i])
                   /\ \A l : l \in ToSet(f[i]) <=> \E k \in 1..i : l \in ToSet(texts[k])
           G == {i \in 0..m : P(i)}
<1>1. m \in Nat /\ DOMAIN texts = 1..m
  BY TextIs
<1>2. P(0)
  <2>1. f[0] = <<>> /\ IsText(<<>>) /\ ToSet(<<>>) = {}
    BY OneLine, JoinedEmpty DEF Flat
  <2>2. 1..0 = {}
    OBVIOUS
  <2> QED
    BY <2>1, <2>2
<1> HIDE DEF m
<1>3. ASSUME NEW i \in 1..m, P(i - 1)
      PROVE  P(i)
  <2>1. f[i] = f[i - 1] \o texts[i] /\ IsText(texts[i])
    BY <1>1 DEF Flat, m
  <2>2. IsText(f[i]) /\ ToSet(f[i]) = ToSet(f[i - 1]) \cup ToSet(texts[i])
    BY <1>3, <2>1, Joined
  <2>3. 1..i = 1..(i - 1) \cup {i}
    BY <1>1
  <2> QED
    BY <1>3, <2>2, <2>3
<1> HIDE DEF P
<1>4. 0 \in G /\ \A i \in 1..m : i - 1 \in G => i \in G
  BY <1>1, <1>2, <1>3
<1>5. \A i \in 0..m : i \in G
  <2> HIDE DEF G
  <2> QED
    BY <1>1, <1>4, StepByStep
<1>6. \A i \in 0..m : P(i)
  BY <1>5
<1> QED
  BY <1>6 DEF m, P

(* So FlattenSeq has exactly the lines of the texts. *)
LEMMA FlattenLines ==
    ASSUME NEW texts, IsText(texts), \A i \in DOMAIN texts : IsText(texts[i])
    PROVE  /\ IsText(FlattenSeq(texts))
           /\ \A l : l \in ToSet(FlattenSeq(texts))
                       <=> \E k \in DOMAIN texts : l \in ToSet(texts[k])
<1>1. PICK f : Flat(texts, Len(texts), f) /\ FlattenSeq(texts) = f[Len(texts)]
  BY FlattenIs
<1> DEFINE m == Len(texts)
           t == FlattenSeq(texts)
<1>2. m \in 0..m /\ DOMAIN texts = 1..m
  BY TextIs
<1>3. /\ IsText(f[m])
      /\ \A l : l \in ToSet(f[m]) <=> \E k \in 1..m : l \in ToSet(texts[k])
  BY <1>1, <1>2, FlatLines
<1>4. t = f[m]
  BY <1>1
<1> HIDE DEF m, t
<1>5. /\ IsText(t)
      /\ \A l : l \in ToSet(t) <=> \E k \in DOMAIN texts : l \in ToSet(texts[k])
  BY ONLY <1>2, <1>3, <1>4
<1> QED
  BY <1>5 DEF t

-----------------------------------------------------------------------------
(* The blocks that are read of a text: the loop of Blocks.                 *)
BlockBody(lines, word, c, n) ==
    IF n = 0 THEN <<>>
    ELSE LET b == c[n - 1]
         IN  IF lines[n][1] = word THEN Append(b, <<lines[n]>>)
             ELSE IF b = <<>> THEN <<>>
             ELSE [b EXCEPT ![Len(b)] = Append(@, lines[n])]

Read(lines, word, m, c) == \A n \in 0..m : c[n] = BlockBody(lines, word, c, n)

(* The loop begins without a block. *)
LEMMA ReadStart ==
    ASSUME NEW m \in Nat, NEW lines, NEW word, NEW c, Read(lines, word, m, c)
    PROVE  c[0] = <<>>
<1>1. c[0] = BlockBody(lines, word, c, 0)
  <2>1. 0 \in 0..m
    OBVIOUS
  <2> QED
    BY <2>1 DEF Read
<1>2. BlockBody(lines, word, c, 0) = <<>>
  BY DEF BlockBody
<1> QED
  BY <1>1, <1>2

(* The loop has a result, for any number of lines. *)
LEMMA BlocksExist ==
    ASSUME NEW lines, NEW word
    PROVE  \A m \in Nat : \E c : c = [n \in 0..m |-> BlockBody(lines, word, c, n)]
<1> DEFINE good(m) == \E c : c = [n \in 0..m |-> BlockBody(lines, word, c, n)]
           bad == {m \in Nat : ~ good(m)}
<1>1. SUFFICES ASSUME bad # {} PROVE FALSE
  BY <1>1
<1>2. PICK m \in bad : \A j \in bad : m <= j
  BY <1>1, LeastOf
<1>3. m \in Nat /\ ~ good(m)
  OBVIOUS
<1>4. CASE m = 0
  <2> DEFINE c == [n \in 0..0 |-> <<>>]
  <2>1. c = [n \in 0..0 |-> BlockBody(lines, word, c, n)]
    BY DEF BlockBody
  <2> QED
    BY <1>3, <1>4, <2>1
<1>5. CASE m # 0
  <2>1. m - 1 \in Nat /\ m - 1 < m
    BY <1>3, <1>5
  <2>2. good(m - 1)
    BY <1>2, <2>1
  <2>3. PICK c : c = [n \in 0..(m - 1) |-> BlockBody(lines, word, c, n)]
    BY <2>2
  <2> DEFINE d == [n \in 0..m |-> IF n = m THEN BlockBody(lines, word, c, m) ELSE c[n]]
  <2>4. ASSUME NEW n \in 0..m
        PROVE  d[n] = BlockBody(lines, word, d, n)
    <3>1. d[n] = BlockBody(lines, word, c, n)
      <4>1. CASE n = m
        BY <4>1
      <4>2. CASE n # m
        <5>1. n \in 0..(m - 1) /\ d[n] = c[n]
          BY <1>3, <4>2
        <5> QED
          BY <2>3, <5>1
      <4> QED
        BY <4>1, <4>2
    <3>2. CASE n = 0
      BY <3>1, <3>2 DEF BlockBody
    <3>3. CASE n # 0
      <4>1. n - 1 \in 0..m /\ n - 1 # m
        BY <1>3, <3>3
      <4>2. d[n - 1] = c[n - 1]
        BY <4>1
      <4> DEFINE b == c[n - 1]
                 e == d[n - 1]
      <4>3. b = e
        BY <4>2
      <4> HIDE DEF b, d, e
      <4>4. BlockBody(lines, word, c, n)
              = IF lines[n][1] = word THEN Append(b, <<lines[n]>>)
                ELSE IF b = <<>> THEN <<>>
                ELSE [b EXCEPT ![Len(b)] = Append(@, lines[n])]
        BY <3>3 DEF BlockBody, b
      <4>5. BlockBody(lines, word, d, n)
              = IF lines[n][1] = word THEN Append(e, <<lines[n]>>)
                ELSE IF e = <<>> THEN <<>>
                ELSE [e EXCEPT ![Len(e)] = Append(@, lines[n])]
        BY <3>3 DEF BlockBody, e
      <4> QED
        BY ONLY <3>1, <4>3, <4>4, <4>5
    <3> QED
      BY <3>2, <3>3
  <2> HIDE DEF d
  <2>5. d = [n \in 0..m |-> BlockBody(lines, word, d, n)]
    <3>1. d = [n \in 0..m |-> d[n]]
      BY DEF d
    <3> QED
      BY <2>4, <3>1
  <2> QED
    BY <1>3, <2>5
<1> QED
  BY <1>4, <1>5

(* Blocks is what the loop has reached after the last line. *)
LEMMA BlocksAre ==
    ASSUME NEW lines, IsText(lines), NEW word
    PROVE  \E c : Read(lines, word, Len(lines), c) /\ Blocks(lines, word) = c[Len(lines)]
<1> DEFINE m == Len(lines)
           c == CHOOSE f : f = [n \in 0..m |-> BlockBody(lines, word, f, n)]
<1>1. m \in Nat
  BY TextIs
<1>2. c = [n \in 0..m |-> BlockBody(lines, word, c, n)]
  <2>1. \E f : f = [n \in 0..m |-> BlockBody(lines, word, f, n)]
    BY <1>1, BlocksExist
  <2> QED
    BY <2>1
<1>3. Blocks(lines, word) = c[m]
  BY DEF Blocks, BlockBody
<1> HIDE DEF c
<1>4. Read(lines, word, m, c)
  BY <1>2 DEF Read
<1> QED
  BY <1>3, <1>4

(* What is read of the first lines does not depend on the others. *)
LEMMA ReadSame ==
    ASSUME NEW m \in Nat, NEW lines, NEW more, NEW word, NEW c, NEW d,
           Read(lines, word, m, c), Read(more, word, m, d),
           \A i \in 1..m : lines[i] = more[i]
    PROVE  c[m] = d[m]
<1> DEFINE G == {i \in 0..m : c[i] = d[i]}
<1>1. 0 \in G
  BY ReadStart
<1>2. ASSUME NEW i \in 1..m, i - 1 \in G PROVE i \in G
  <2>1. c[i - 1] = d[i - 1] /\ lines[i] = more[i] /\ i \in 0..m /\ i # 0
    BY <1>2
  <2>2. c[i] = BlockBody(lines, word, c, i) /\ d[i] = BlockBody(more, word, d, i)
    BY <2>1 DEF Read
  <2>3. BlockBody(lines, word, c, i) = BlockBody(more, word, d, i)
    BY <2>1 DEF BlockBody
  <2> QED
    BY <2>1, <2>2, <2>3
<1>3. \A i \in 0..m : i \in G
  <2> HIDE DEF G
  <2> QED
    BY <1>1, <1>2, StepByStep
<1> QED
  BY <1>3

(* Lines of other words before the first block are left out. *)
Free(t, word) == IsText(t) /\ \A i \in 1..Len(t) : t[i][1] # word

(* A text without the word has no blocks. *)
LEMMA BlocksFree ==
    ASSUME NEW t, NEW word, Free(t, word)
    PROVE  Blocks(t, word) = <<>>
<1> DEFINE m == Len(t)
<1>1. m \in Nat
  BY TextIs DEF Free
<1>2. PICK c : Read(t, word, m, c) /\ Blocks(t, word) = c[m]
  BY BlocksAre DEF Free
<1> DEFINE G == {i \in 0..m : c[i] = <<>>}
<1>3. 0 \in G
  <2>1. c[0] = <<>>
    BY <1>1, <1>2, ReadStart
  <2> QED
    BY <1>1, <2>1
<1>4. ASSUME NEW i \in 1..m, i - 1 \in G PROVE i \in G
  <2>1. c[i - 1] = <<>> /\ t[i][1] # word /\ i \in 0..m /\ i # 0
    BY <1>1, <1>4 DEF Free
  <2>2. c[i] = BlockBody(t, word, c, i)
    BY <1>2, <2>1 DEF Read
  <2>3. BlockBody(t, word, c, i) = <<>>
    BY <2>1 DEF BlockBody
  <2> QED
    BY <2>1, <2>2, <2>3
<1>5. \A i \in 0..m : i \in G
  <2> HIDE DEF G, m
  <2> QED
    BY <1>1, <1>3, <1>4, StepByStep
<1> QED
  BY <1>1, <1>2, <1>5

(* A block that is appended to a text. *)
LEMMA Grown ==
    ASSUME NEW b, IsText(b), NEW x, NEW y, NEW s, s = Append(b, x)
    PROVE  /\ s # <<>> /\ s[Len(s)] = x
           /\ [s EXCEPT ![Len(s)] = y] = Append(b, y)
<1> DEFINE m == Len(b)
           u == [s EXCEPT ![Len(s)] = y]
           v == Append(b, y)
<1>1. m \in Nat
  BY TextIs
<1>2. /\ IsText(s) /\ Len(s) = m + 1
      /\ \A i \in 1..m : s[i] = b[i]
      /\ s[m + 1] = x
  BY Added
<1>3. /\ IsText(v) /\ Len(v) = m + 1
      /\ \A i \in 1..m : v[i] = b[i]
      /\ v[m + 1] = y
  BY Added
<1> HIDE DEF m, v
<1>4. s = [i \in 1..(m + 1) |-> s[i]] /\ s # <<>>
  <2>1. IsText(s) /\ Len(s) = m + 1 /\ m + 1 # 0
    BY <1>1, <1>2
  <2> QED
    BY ONLY <2>1, TextIs
<1>5. u = [i \in 1..(m + 1) |-> IF i = m + 1 THEN y ELSE s[i]]
  BY <1>2, <1>4
<1>6. v = [i \in 1..(m + 1) |-> v[i]]
  BY <1>3, TextIs
<1>7. \A i \in 1..(m + 1) : v[i] = IF i = m + 1 THEN y ELSE s[i]
  <2> TAKE i \in 1..(m + 1)
  <2>1. i # m + 1 => i \in 1..m
    BY <1>1
  <2> QED
    BY <1>2, <1>3, <2>1
<1>8. u = v
  <2> HIDE DEF u
  <2> QED
    BY <1>5, <1>6, <1>7
<1> QED
  BY <1>2, <1>4, <1>8 DEF v

(* What is read is a text of blocks. *)
LEMMA ReadText ==
    ASSUME NEW m \in Nat, NEW lines, NEW word, NEW c, Read(lines, word, m, c)
    PROVE  IsText(c[m])
<1> DEFINE G == {i \in 0..m : IsText(c[i])}
<1>1. 0 \in G
  <2>1. c[0] = <<>> /\ IsText(<<>>)
    BY OneLine, JoinedEmpty, ReadStart
  <2> QED
    BY <2>1
<1>2. ASSUME NEW i \in 1..m, i - 1 \in G PROVE i \in G
  <2> DEFINE b == c[i - 1]
             x == lines[i]
             e == [b EXCEPT ![Len(b)] = Append(@, x)]
  <2>1. IsText(b) /\ i \in 0..m /\ i # 0
    BY <1>2
  <2>2. c[i] = BlockBody(lines, word, c, i)
    BY <2>1 DEF Read
  <2>3. IsText(Append(b, <<x>>))
    BY <2>1, Added
  <2>4. IsText(<<>>)
    BY OneLine, JoinedEmpty
  <2>5. IsText(e)
    <3>1. Len(b) \in Nat /\ b = [j \in 1..Len(b) |-> b[j]]
      BY <2>1, TextIs
    <3>2. e = [j \in 1..Len(b) |-> IF j = Len(b) THEN Append(b[j], x) ELSE b[j]]
      BY <3>1
    <3>3. e = [j \in 1..Len(b) |-> e[j]]
      BY <3>2
    <3> HIDE DEF e, b
    <3> QED
      BY <3>1, <3>3, TextOf
  <2>6. c[i] \in {Append(b, <<x>>), <<>>, e}
    <3>1. BlockBody(lines, word, c, i) \in {Append(b, <<x>>), <<>>, e}
      <4> HIDE DEF e
      <4>1. BlockBody(lines, word, c, i)
              = IF x[1] = word THEN Append(b, <<x>>) ELSE IF b = <<>> THEN <<>> ELSE e
        BY <2>1 DEF BlockBody, e
      <4> HIDE DEF b, x
      <4> QED
        BY <4>1
    <3> QED
      BY <2>2, <3>1
  <2> HIDE DEF e, b
  <2> QED
    BY <2>1, <2>3, <2>4, <2>5, <2>6
<1>3. \A i \in 0..m : i \in G
  <2> HIDE DEF G
  <2> QED
    BY <1>1, <1>2, StepByStep
<1> QED
  BY <1>3

IsBlock(t, word) ==
    /\ IsText(t) /\ Len(t) >= 1 /\ t[1][1] = word
    /\ \A i \in 2..Len(t) : t[i][1] # word

Piece(t, j) == [i \in 1..j |-> t[i]]

(* The first lines of a text, and one line more. *)
LEMMA PieceMore ==
    ASSUME NEW t, NEW j \in Nat
    PROVE  Append(Piece(t, j), t[j + 1]) = Piece(t, j + 1)
<1> DEFINE s == Piece(t, j)
           u == Append(s, t[j + 1])
           v == Piece(t, j + 1)
<1>1. IsText(s) /\ Len(s) = j
  BY TextOf DEF Piece
<1>2. /\ IsText(u) /\ Len(u) = j + 1
      /\ \A i \in 1..j : u[i] = s[i]
      /\ u[j + 1] = t[j + 1]
  BY <1>1, Added
<1>3. IsText(v) /\ Len(v) = j + 1
  <2>1. v = [i \in 1..(j + 1) |-> v[i]] /\ j + 1 \in Nat
    BY DEF Piece
  <2> HIDE DEF v
  <2> QED
    BY <2>1, TextOf
<1> HIDE DEF u
<1>4. \A i \in 1..(j + 1) : u[i] = v[i]
  <2> TAKE i \in 1..(j + 1)
  <2>1. v[i] = t[i]
    BY DEF Piece
  <2>2. i # j + 1 => i \in 1..j /\ s[i] = t[i]
    BY DEF Piece
  <2> HIDE DEF s, v
  <2> QED
    BY <1>2, <2>1, <2>2
<1> HIDE DEF v, s
<1>5. u = v
  BY <1>2, <1>3, <1>4, TextSame
<1> QED
  BY <1>5 DEF u, v, s

(* A block after a text is one block more of it. *)
LEMMA BlocksMore ==
    ASSUME NEW lines, IsText(lines), NEW word, NEW t, IsBlock(t, word)
    PROVE  /\ IsText(Blocks(lines, word))
           /\ Blocks(Cat(lines, t), word) = Append(Blocks(lines, word), t)
<1> DEFINE r == Cat(lines, t)
           m == Len(lines)
           n == Len(t)
           b == Blocks(lines, word)
<1>1. m \in Nat /\ n \in Nat /\ n >= 1 /\ IsText(t)
  BY TextIs DEF IsBlock
<1>2. /\ IsText(r) /\ Len(r) = m + n
      /\ \A i \in 1..m : r[i] = lines[i]
      /\ \A i \in 1..(m + n) : i > m => r[i] = t[i - m]
  BY <1>1, CatIs
<1>3. PICK c : Read(lines, word, m, c) /\ b = c[m]
  BY BlocksAre
<1>4. PICK d : Read(r, word, m + n, d) /\ Blocks(r, word) = d[m + n]
  <2>1. \E d : Read(r, word, Len(r), d) /\ Blocks(r, word) = d[Len(r)]
    <3> HIDE DEF r
    <3> QED
      BY <1>2, BlocksAre
  <2> QED
    BY <1>2, <2>1
<1>5. IsText(b)
  BY <1>1, <1>3, ReadText
<1> HIDE DEF r, m, n, b
<1>6. d[m] = b
  <2>1. Read(r, word, m, d)
    <3>1. \A i \in 0..m : i \in 0..(m + n)
      BY <1>1
    <3> QED
      BY <1>4, <3>1 DEF Read
  <2> QED
    BY <1>1, <1>2, <1>3, <2>1, ReadSame
<1> DEFINE P(j) == d[m + j] = Append(b, Piece(t, j))
           G == {j \in 0..n : j = 0 \/ P(j)}
<1>7. ASSUME NEW j \in 1..n PROVE d[m + j] = BlockBody(r, word, d, m + j) /\ m + j # 0
                                  /\ r[m + j] = t[j] /\ (m + j) - 1 = m + (j - 1)
  <2>1. /\ m + j \in 0..(m + n) /\ m + j \in 1..(m + n) /\ m + j > m /\ m + j # 0
        /\ (m + j) - m = j /\ (m + j) - 1 = m + (j - 1)
    BY <1>1
  <2>2. d[m + j] = BlockBody(r, word, d, m + j)
    BY <1>4, <2>1 DEF Read
  <2>3. r[m + j] = t[j]
    BY <1>2, <2>1
  <2> QED
    BY <2>1, <2>2, <2>3
<1>8. P(1)
  <2>1. 1 \in 1..n /\ m + (1 - 1) = m
    BY <1>1
  <2>2. d[m + 1] = BlockBody(r, word, d, m + 1) /\ m + 1 # 0 /\ r[m + 1] = t[1]
        /\ d[(m + 1) - 1] = b
    BY <1>6, <1>7, <2>1
  <2>3. t[1][1] = word
    BY DEF IsBlock
  <2>4. BlockBody(r, word, d, m + 1) = Append(b, <<t[1]>>)
    BY <2>2, <2>3 DEF BlockBody
  <2>5. <<t[1]>> = Piece(t, 1)
    <3>1. IsText(<<t[1]>>) /\ Len(<<t[1]>>) = 1 /\ <<t[1]>>[1] = t[1]
      BY OneLine
    <3>2. IsText(Piece(t, 1)) /\ Len(Piece(t, 1)) = 1 /\ Piece(t, 1)[1] = t[1]
      <4> DEFINE s == Piece(t, 1)
      <4>1. s = [i \in 1..1 |-> s[i]] /\ s[1] = t[1]
        BY DEF Piece
      <4> HIDE DEF s
      <4>2. IsText(s) /\ Len(s) = 1
        BY <4>1, TextOf
      <4> QED
        BY <4>1, <4>2 DEF s
    <3>3. \A i \in 1..1 : i = 1
      OBVIOUS
    <3> QED
      BY <3>1, <3>2, <3>3, TextSame
  <2> QED
    BY <2>2, <2>4, <2>5
<1>9. ASSUME NEW j \in 1..n, j # 1, P(j - 1) PROVE P(j)
  <2>1. j - 1 \in Nat /\ (j - 1) + 1 = j /\ j \in 2..n
    BY <1>1, <1>9
  <2> DEFINE piece == Piece(t, j - 1)
             e == d[m + (j - 1)]
             x == r[m + j]
  <2>2. e = Append(b, piece)
    BY <1>9
  <2>3. /\ d[m + j] = BlockBody(r, word, d, m + j) /\ m + j # 0
        /\ d[(m + j) - 1] = e /\ x = t[j]
    BY <1>7
  <2>4. x[1] # word
    BY <2>1, <2>3 DEF IsBlock, n
  <2>5. e # <<>> /\ e[Len(e)] = piece
        /\ [e EXCEPT ![Len(e)] = Append(piece, x)] = Append(b, Append(piece, x))
    <3> DEFINE y == Append(piece, x)
    <3> HIDE DEF e, piece, x, y
    <3>1. e # <<>> /\ e[Len(e)] = piece /\ [e EXCEPT ![Len(e)] = y] = Append(b, y)
      BY <1>5, <2>2, Grown
    <3> QED
      BY <3>1 DEF y
  <2>6. BlockBody(r, word, d, m + j) = [e EXCEPT ![Len(e)] = Append(@, x)]
    <3>1. BlockBody(r, word, d, m + j)
            = LET q == d[(m + j) - 1]
              IN  IF x[1] = word THEN Append(q, <<x>>)
                  ELSE IF q = <<>> THEN <<>>
                  ELSE [q EXCEPT ![Len(q)] = Append(@, x)]
      BY <2>3 DEF BlockBody
    <3>2. BlockBody(r, word, d, m + j)
            = IF x[1] = word THEN Append(e, <<x>>)
              ELSE IF e = <<>> THEN <<>>
              ELSE [e EXCEPT ![Len(e)] = Append(@, x)]
      <4> DEFINE q == d[(m + j) - 1]
      <4>1. q = e
        BY <2>3
      <4>2. BlockBody(r, word, d, m + j)
              = IF x[1] = word THEN Append(q, <<x>>)
                ELSE IF q = <<>> THEN <<>>
                ELSE [q EXCEPT ![Len(q)] = Append(@, x)]
        BY <3>1
      <4> HIDE DEF q, e, x
      <4> QED
        BY ONLY <4>1, <4>2
    <3> HIDE DEF e, x
    <3> QED
      BY <2>4, <2>5, <3>2
  <2>7. [e EXCEPT ![Len(e)] = Append(@, x)] = [e EXCEPT ![Len(e)] = Append(piece, x)]
    <3> HIDE DEF e, x, piece
    <3> QED
      BY <2>5
  <2>8. Append(piece, x) = Piece(t, j)
    BY <2>1, <2>3, PieceMore
  <2> HIDE DEF e, x, piece
  <2> QED
    BY <2>3, <2>5, <2>6, <2>7, <2>8
<1> HIDE DEF P
<1>10. 0 \in G
  BY <1>1
<1>11. ASSUME NEW j \in 1..n, j - 1 \in G PROVE j \in G
  <2>1. CASE j = 1
    BY <1>8, <2>1
  <2>2. CASE j # 1
    <3>1. j - 1 # 0 /\ j \in 0..n
      BY <1>1, <2>2
    <3>2. P(j - 1)
      BY <1>11, <3>1
    <3> QED
      BY <1>9, <2>2, <3>1, <3>2
  <2> QED
    BY <2>1, <2>2
<1>12. \A j \in 0..n : j \in G
  <2> HIDE DEF G
  <2> QED
    BY <1>1, <1>10, <1>11, StepByStep
<1>13. P(n)
  <2>1. n \in 0..n /\ n # 0
    BY <1>1
  <2> QED
    BY <1>12, <2>1
<1>14. Piece(t, n) = t
  BY <1>1, TextIs DEF Piece, n
<1>15. Blocks(r, word) = Append(b, t)
  BY <1>4, <1>13, <1>14 DEF P
<1> QED
  BY <1>5, <1>15 DEF r, b

(* A text that is made of blocks is read as those blocks. *)
LEMMA BlocksAll ==
    ASSUME NEW s, NEW word, Free(s, word),
           NEW texts, IsText(texts), \A k \in DOMAIN texts : IsBlock(texts[k], word)
    PROVE  Blocks(Cat(s, FlattenSeq(texts)), word) = texts
<1> DEFINE m == Len(texts)
<1>1. m \in Nat /\ DOMAIN texts = 1..m /\ IsText(s)
  BY TextIs DEF Free
<1>2. \A k \in DOMAIN texts : IsText(texts[k])
  BY DEF IsBlock
<1>3. PICK f : Flat(texts, m, f) /\ FlattenSeq(texts) = f[m]
  BY <1>2, FlattenIs
<1>4. \A i \in 0..m : IsText(f[i])
  BY <1>2, <1>3, FlatLines
<1> DEFINE P(i) == Blocks(Cat(s, f[i]), word) = Piece(texts, i)
           G == {i \in 0..m : P(i)}
<1> HIDE DEF m
<1>5. P(0)
  <2>1. Cat(s, f[0]) = s
    BY <1>1, <1>3, JoinedEmpty DEF Cat, Flat
  <2>2. Piece(texts, 0) = <<>>
    <3>1. IsText(Piece(texts, 0)) /\ Len(Piece(texts, 0)) = 0
      BY TextOf DEF Piece
    <3> QED
      BY <3>1, TextIs
  <2> QED
    BY <2>1, <2>2, BlocksFree
<1>6. ASSUME NEW i \in 1..m, P(i - 1) PROVE P(i)
  <2>1. i - 1 \in Nat /\ (i - 1) + 1 = i /\ i - 1 \in 0..m
    BY <1>1
  <2> DEFINE g == f[i - 1]
             t == texts[i]
  <2>2. f[i] = g \o t /\ IsText(g) /\ IsBlock(t, word) /\ IsText(t)
    BY <1>1, <1>2, <1>3, <1>4, <2>1 DEF Flat
  <2>3. IsText(Cat(s, g))
    BY <1>1, <2>2, CatIs
  <2>4. Blocks(Cat(Cat(s, g), t), word) = Append(Blocks(Cat(s, g), word), t)
    <3> HIDE DEF g, t
    <3> DEFINE h == Cat(s, g)
    <3>1. IsText(h) /\ IsBlock(t, word)
      BY <2>2, <2>3
    <3> HIDE DEF h
    <3>2. Blocks(Cat(h, t), word) = Append(Blocks(h, word), t)
      BY ONLY <3>1, BlocksMore
    <3> QED
      BY ONLY <3>2 DEF h
  <2>5. Cat(Cat(s, g), t) = Cat(s, f[i])
    <3>1. f[i] = Cat(g, t)
      BY <2>2 DEF Cat
    <3> HIDE DEF g, t
    <3> QED
      BY <1>1, <2>2, <3>1, CatThrice
  <2>6. Append(Piece(texts, i - 1), t) = Piece(texts, i)
    BY <2>1, PieceMore
  <2> QED
    BY <1>6, <2>4, <2>5, <2>6
<1> HIDE DEF P
<1>7. 0 \in G /\ \A i \in 1..m : i - 1 \in G => i \in G
  BY <1>1, <1>5, <1>6
<1>8. \A i \in 0..m : i \in G
  <2> HIDE DEF G
  <2> QED
    BY <1>1, <1>7, StepByStep
<1>9. P(m)
  <2>1. m \in 0..m
    BY <1>1
  <2> QED
    BY <1>8, <2>1
<1>10. Piece(texts, m) = texts
  BY <1>1, TextIs DEF Piece, m
<1> QED
  BY <1>3, <1>9, <1>10 DEF P

(* A line and others that do not begin with its word. *)
LEMMA BlockOf ==
    ASSUME NEW x, NEW s, IsText(s), NEW word, x[1] = word,
           \A l \in ToSet(s) : l[1] # word
    PROVE  IsBlock(Cat(<<x>>, s), word)
<1> DEFINE o == <<x>>
           t == Cat(o, s)
           n == Len(s)
<1>1. IsText(o) /\ Len(o) = 1 /\ o[1] = x
  BY OneLine
<1>2. n \in Nat /\ \A i \in 1..n : s[i] \in ToSet(s)
  BY TextIs
<1> HIDE DEF o, n
<1>3. /\ IsText(t) /\ Len(t) = 1 + n /\ t[1] = x
      /\ \A i \in 1..(1 + n) : i > 1 => t[i] = s[i - 1]
  <2>1. /\ IsText(t) /\ Len(t) = Len(o) + Len(s)
        /\ \A i \in 1..Len(o) : t[i] = o[i]
        /\ \A i \in 1..(Len(o) + Len(s)) : i > Len(o) => t[i] = s[i - Len(o)]
    BY <1>1, CatIs
  <2>2. 1 \in 1..1
    OBVIOUS
  <2> HIDE DEF t
  <2> QED
    BY <1>1, <2>1, <2>2 DEF n
<1> HIDE DEF t
<1>4. ASSUME NEW i \in 2..Len(t) PROVE t[i][1] # word
  <2>1. i \in 1..(1 + n) /\ i > 1 /\ i - 1 \in 1..n
    BY <1>2, <1>3
  <2>2. t[i] = s[i - 1] /\ s[i - 1] \in ToSet(s)
    BY <1>2, <1>3, <2>1
  <2> QED
    BY <2>2
<1>5. Len(t) >= 1
  BY <1>2, <1>3
<1>6. IsBlock(t, word)
  BY <1>3, <1>4, <1>5 DEF IsBlock
<1> QED
  BY <1>6 DEF t, o

(* Being free of a word is a matter of the lines, not of their order. *)
LEMMA FreeOf ==
    ASSUME NEW s, IsText(s), NEW word, \A l \in ToSet(s) : l[1] # word
    PROVE  Free(s, word)
BY TextIs DEF Free

(* The value of a key, from the lines alone. *)
LEMMA ValueIn ==
    ASSUME NEW t, IsText(t), NEW key, NEW v,
           \E l \in ToSet(t) : l[1] = key,
           \A l \in ToSet(t) : l[1] = key => l[2] = v
    PROVE  Value(t, key) = v
<1> DEFINE at == {i \in DOMAIN t : t[i][1] = key}
           n == Len(t)
<1>1. n \in Nat /\ DOMAIN t = 1..n /\ ToSet(t) = {t[i] : i \in 1..n}
  BY TextIs
<1> HIDE DEF n
<1>2. at # {} /\ at \in SUBSET Nat /\ \A i \in at : i <= n
  BY <1>1
<1>3. Max(at) \in at
  <2> HIDE DEF at
  <2> QED
    BY <1>1, <1>2, MaxOf
<1>4. t[Max(at)] \in ToSet(t) /\ t[Max(at)][1] = key
  <2>1. \A i \in at : t[i] \in ToSet(t) /\ t[i][1] = key
    BY <1>1
  <2> HIDE DEF at
  <2> QED
    BY <1>3, <2>1
<1>5. t[Max(at)][2] = v
  <2> HIDE DEF at
  <2> QED
    BY <1>4
<1>6. Value(t, key) = IF at = {} THEN Absent ELSE t[Max(at)][2]
  BY DEF Value
<1> HIDE DEF at
<1> QED
  BY <1>2, <1>5, <1>6

(* A key that no line has is absent. *)
LEMMA ValueNone ==
    ASSUME NEW t, IsText(t), NEW key, \A l \in ToSet(t) : l[1] # key
    PROVE  Value(t, key) = Absent
<1>1. {i \in DOMAIN t : t[i][1] = key} = {}
  BY TextIs
<1> QED
  BY <1>1 DEF Value

-----------------------------------------------------------------------------
(* The interfaces of WireGuard, each with its own peers.                   *)

(* A line that is there or not. *)
LEMMA WhenIs ==
    ASSUME NEW condition \in BOOLEAN, NEW x
    PROVE  LET s == When(condition, <<x>>)
           IN  IsText(s) /\ ToSet(s) = IF condition THEN {x} ELSE {}
<1>1. CASE condition
  BY <1>1, OneLine DEF When
<1>2. CASE ~ condition
  BY <1>2, OneLine, JoinedEmpty DEF When
<1> QED
  BY <1>1, <1>2

(* Four texts may be joined from either side. *)
LEMMA CatFour ==
    ASSUME NEW s, IsText(s), NEW t, IsText(t), NEW u, IsText(u), NEW v, IsText(v)
    PROVE  /\ Cat(Cat(Cat(s, t), u), v) = Cat(s, Cat(t, Cat(u, v)))
           /\ IsText(Cat(Cat(s, t), u)) /\ IsText(Cat(t, Cat(u, v)))
           /\ ToSet(Cat(Cat(s, t), u)) = ToSet(s) \cup ToSet(t) \cup ToSet(u)
           /\ ToSet(Cat(t, Cat(u, v))) = ToSet(t) \cup ToSet(u) \cup ToSet(v)
<1>1. IsText(Cat(s, t)) /\ ToSet(Cat(s, t)) = ToSet(s) \cup ToSet(t)
  BY CatIs
<1>2. IsText(Cat(u, v)) /\ ToSet(Cat(u, v)) = ToSet(u) \cup ToSet(v)
  BY CatIs
<1>3. /\ IsText(Cat(Cat(s, t), u))
      /\ ToSet(Cat(Cat(s, t), u)) = ToSet(s) \cup ToSet(t) \cup ToSet(u)
  BY <1>1, CatIs
<1>4. /\ IsText(Cat(t, Cat(u, v)))
      /\ ToSet(Cat(t, Cat(u, v))) = ToSet(t) \cup ToSet(u) \cup ToSet(v)
  <2>1. ToSet(Cat(t, Cat(u, v))) = ToSet(t) \cup (ToSet(u) \cup ToSet(v))
    BY <1>2, CatIs
  <2> QED
    BY <1>2, <2>1, CatIs
<1>5. Cat(Cat(Cat(s, t), u), v) = Cat(Cat(s, t), Cat(u, v))
  BY <1>1, CatThrice
<1>6. Cat(Cat(s, t), Cat(u, v)) = Cat(s, Cat(t, Cat(u, v)))
  BY <1>2, CatThrice
<1> QED
  BY <1>3, <1>4, <1>5, <1>6

(* A peer is read as it was written: what is left out takes its default. *)
LEMMA PeerIs ==
    ASSUME NEW q
    PROVE  LET t == PeerLines(q)
           IN  /\ IsBlock(t, "peer")
               /\ Value(t, "peer") = q.key /\ Value(t, "endpoint") = q.endpoint
               /\ Value(t, "allowed-ips") = q.ips
               /\ Value(t, "keepalive") = Given(q.keepalive, 0)
               /\ \A l \in ToSet(t) :
                     l[1] \in {"peer", "endpoint", "allowed-ips", "keepalive"}
<1> DEFINE p == <<"peer", q.key>>
           e == <<"endpoint", q.endpoint>>
           a == <<"allowed-ips", q.ips>>
           k == <<"keepalive", q.keepalive>>
           E == When(q.endpoint # Absent, <<e>>)
           K == When(q.keepalive # 0, <<k>>)
           rest == Cat(E, Cat(<<a>>, K))
           t == PeerLines(q)
<1>1. /\ p[1] = "peer" /\ p[2] = q.key /\ e[1] = "endpoint" /\ e[2] = q.endpoint
      /\ a[1] = "allowed-ips" /\ a[2] = q.ips /\ k[1] = "keepalive" /\ k[2] = q.keepalive
  OBVIOUS
<1>2. t = Cat(Cat(Cat(<<p>>, E), <<a>>), K)
  BY DEF PeerLines, Cat
<1> HIDE DEF p, e, a, k, t
<1>3. /\ IsText(E) /\ ToSet(E) = IF q.endpoint # Absent THEN {e} ELSE {}
      /\ IsText(K) /\ ToSet(K) = IF q.keepalive # 0 THEN {k} ELSE {}
      /\ IsText(<<a>>) /\ ToSet(<<a>>) = {a}
      /\ IsText(<<p>>) /\ ToSet(<<p>>) = {p}
  BY WhenIs, OneLine
<1> HIDE DEF E, K
<1>4. /\ t = Cat(<<p>>, rest) /\ IsText(rest)
      /\ ToSet(rest) = ToSet(E) \cup {a} \cup ToSet(K)
  BY <1>2, <1>3, CatFour
<1> HIDE DEF rest
<1>5. \A l \in ToSet(rest) : l \in {e, a, k}
  BY <1>3, <1>4
<1>6. IsBlock(t, "peer")
  <2>1. \A l \in ToSet(rest) : l[1] # "peer"
    BY <1>1, <1>5
  <2> QED
    BY <1>1, <1>4, <2>1, BlockOf
<1>7. IsText(t) /\ ToSet(t) = {p} \cup ToSet(rest)
  <2>1. ToSet(Cat(<<p>>, rest)) = ToSet(<<p>>) \cup ToSet(rest)
    BY <1>3, <1>4, CatIs
  <2> QED
    BY <1>3, <1>4, <1>6, <2>1 DEF IsBlock
<1>8. /\ p \in ToSet(t) /\ a \in ToSet(t)
      /\ e \in ToSet(t) <=> q.endpoint # Absent
      /\ k \in ToSet(t) <=> q.keepalive # 0
      /\ \A l \in ToSet(t) : l \in {p, e, a, k}
  <2>1. e # p /\ e # a /\ e # k /\ k # p /\ k # a
    BY <1>1
  <2> QED
    BY <1>3, <1>4, <1>5, <1>7, <2>1
<1>9. Value(t, "peer") = q.key
  <2>1. \E l \in ToSet(t) : l[1] = "peer"
    BY ONLY <1>1, <1>8
  <2>2. \A l \in ToSet(t) : l[1] = "peer" => l[2] = q.key
    BY ONLY <1>1, <1>8
  <2> QED
    BY <1>7, <2>1, <2>2, ValueIn
<1>10. Value(t, "allowed-ips") = q.ips
  <2>1. \E l \in ToSet(t) : l[1] = "allowed-ips"
    BY ONLY <1>1, <1>8
  <2>2. \A l \in ToSet(t) : l[1] = "allowed-ips" => l[2] = q.ips
    BY ONLY <1>1, <1>8
  <2> QED
    BY <1>7, <2>1, <2>2, ValueIn
<1>11. Value(t, "endpoint") = q.endpoint
  <2>1. CASE q.endpoint # Absent
    <3>1. \E l \in ToSet(t) : l[1] = "endpoint"
      BY ONLY <1>1, <1>8, <2>1
    <3>2. \A l \in ToSet(t) : l[1] = "endpoint" => l[2] = q.endpoint
      BY ONLY <1>1, <1>8
    <3> QED
      BY <1>7, <3>1, <3>2, ValueIn
  <2>2. CASE q.endpoint = Absent
    <3>1. \A l \in ToSet(t) : l[1] # "endpoint"
      BY ONLY <1>1, <1>8, <2>2
    <3> QED
      BY <1>7, <2>2, <3>1, ValueNone
  <2> QED
    BY <2>1, <2>2
<1>12. Value(t, "keepalive") = Given(q.keepalive, 0)
  <2>1. CASE q.keepalive # 0
    <3>1. \E l \in ToSet(t) : l[1] = "keepalive"
      BY ONLY <1>1, <1>8, <2>1
    <3>2. \A l \in ToSet(t) : l[1] = "keepalive" => l[2] = q.keepalive
      BY ONLY <1>1, <1>8
    <3>3. Value(t, "keepalive") = q.keepalive
      BY <1>7, <3>1, <3>2, ValueIn
    <3> QED
      BY <2>1, <3>3 DEF Given
  <2>2. CASE q.keepalive = 0
    <3>1. \A l \in ToSet(t) : l[1] # "keepalive"
      BY ONLY <1>1, <1>8, <2>2
    <3>2. Value(t, "keepalive") = Absent
      BY <1>7, <3>1, ValueNone
    <3> QED
      BY <2>2, <3>2 DEF Given
  <2> QED
    BY <2>1, <2>2
<1>13. \A l \in ToSet(t) : l[1] \in {"peer", "endpoint", "allowed-ips", "keepalive"}
  BY ONLY <1>1, <1>8
<1> QED
  BY <1>6, <1>9, <1>10, <1>11, <1>12, <1>13 DEF t

(* Two lines are one after the other. *)
LEMMA PairIs ==
    ASSUME NEW x, NEW y
    PROVE  <<x, y>> = Cat(<<x>>, <<y>>)
<1> DEFINE s == <<x>>
           t == <<y>>
           u == <<x, y>>
           v == Cat(s, t)
<1>1. IsText(s) /\ Len(s) = 1 /\ s[1] = x /\ IsText(t) /\ Len(t) = 1 /\ t[1] = y
  BY OneLine
<1>2. IsText(u) /\ Len(u) = 2 /\ u[1] = x /\ u[2] = y
  <2>1. u \in Seq({x, y})
    OBVIOUS
  <2> QED
    BY <2>1 DEF IsText
<1> HIDE DEF s, t, u
<1>3. IsText(v) /\ Len(v) = 2 /\ v[1] = x /\ v[2] = y
  <2>3. /\ IsText(v) /\ Len(v) = Len(s) + Len(t)
        /\ \A i \in 1..Len(s) : v[i] = s[i]
        /\ \A i \in 1..(Len(s) + Len(t)) : i > Len(s) => v[i] = t[i - Len(s)]
    BY <1>1, CatIs
  <2>1. /\ IsText(v) /\ Len(v) = 1 + 1
        /\ \A i \in 1..1 : v[i] = s[i]
        /\ \A i \in 1..(1 + 1) : i > 1 => v[i] = t[i - 1]
    <3> HIDE DEF v
    <3> QED
      BY ONLY <1>1, <2>3
  <2>2. 1 \in 1..1 /\ 2 \in 1..(1 + 1) /\ 2 > 1 /\ 2 - 1 = 1 /\ 1 + 1 = 2
    OBVIOUS
  <2> HIDE DEF v
  <2> QED
    BY <1>1, <2>1, <2>2
<1> HIDE DEF v
<1>4. \A i \in 1..Len(u) : u[i] = v[i]
  <2> TAKE i \in 1..Len(u)
  <2>1. i = 1 \/ i = 2
    BY <1>2
  <2> QED
    BY <1>2, <1>3, <2>1
<1>5. u = v
  BY <1>2, <1>3, <1>4, TextSame
<1> QED
  BY <1>5 DEF s, t, u, v

(* The lines of an interface, with those of its peers among them. *)
LEMMA InterfaceIs ==
    ASSUME NEW w, IsText(w.peers)
    PROVE  LET t == InterfaceLines(w)
           IN  /\ IsBlock(t, "interface")
               /\ Blocks(t, "peer") = LineEach(w.peers, PeerLines)
               /\ Value(t, "interface") = w.name /\ Value(t, "address") = w.address
               /\ Value(t, "listen-port") = Given(w.port, 0)
               /\ Value(t, "private-key-file") = w.keyFile
<1> DEFINE n == <<"interface", w.name>>
           a == <<"address", w.address>>
           o == <<"listen-port", w.port>>
           k == <<"private-key-file", w.keyFile>>
           N == <<n>>
           A == <<a>>
           K == <<k>>
           O == When(w.port # 0, <<o>>)
           texts == LineEach(w.peers, PeerLines)
           L == FlattenSeq(texts)
           head == Cat(N, A)
           s == Cat(Cat(head, O), K)
           rest == Cat(A, Cat(O, Cat(K, L)))
           t == InterfaceLines(w)
           peerKeys == {"peer", "endpoint", "allowed-ips", "keepalive"}
<1>1. /\ n[1] = "interface" /\ n[2] = w.name /\ a[1] = "address" /\ a[2] = w.address
      /\ o[1] = "listen-port" /\ o[2] = w.port
      /\ k[1] = "private-key-file" /\ k[2] = w.keyFile
  OBVIOUS
<1>2. /\ IsText(texts) /\ DOMAIN texts = DOMAIN w.peers
      /\ \A i \in DOMAIN texts : texts[i] = PeerLines(w.peers[i])
  <2>1. Len(w.peers) \in Nat /\ DOMAIN w.peers = 1..Len(w.peers)
    BY TextIs
  <2>2. texts = [i \in 1..Len(w.peers) |-> texts[i]]
    BY <2>1 DEF LineEach
  <2>3. IsText(texts)
    <3> HIDE DEF texts
    <3> QED
      BY <2>1, <2>2, TextOf
  <2> QED
    BY <2>3 DEF LineEach
<1>3. <<n, a>> = head
  <2> HIDE DEF n, a
  <2> QED
    BY PairIs
<1>4. t = Cat(Cat(Cat(<<n, a>>, O), K), L)
  BY DEF InterfaceLines, Lines, LineEach, Cat
<1>20. /\ "interface" \notin peerKeys /\ "address" \notin peerKeys
       /\ "listen-port" \notin peerKeys /\ "private-key-file" \notin peerKeys
       /\ "peer" \notin {"interface", "address", "listen-port", "private-key-file"}
  OBVIOUS
<1> HIDE DEF n, a, o, k, texts, t
<1>5. /\ \A i \in DOMAIN texts : IsBlock(texts[i], "peer") /\ IsText(texts[i])
      /\ \A i \in DOMAIN texts : \A l \in ToSet(texts[i]) : l[1] \in peerKeys
  <2>1. \A i \in DOMAIN texts : IsBlock(texts[i], "peer")
           /\ \A l \in ToSet(texts[i]) : l[1] \in peerKeys
    BY <1>2, PeerIs
  <2> QED
    BY <2>1 DEF IsBlock
<1>6. IsText(L) /\ \A l \in ToSet(L) : l[1] \in peerKeys
  BY <1>2, <1>5, FlattenLines
<1> HIDE DEF L, peerKeys
<1>7. /\ IsText(O) /\ ToSet(O) = IF w.port # 0 THEN {o} ELSE {}
      /\ IsText(N) /\ ToSet(N) = {n}
      /\ IsText(A) /\ ToSet(A) = {a}
      /\ IsText(K) /\ ToSet(K) = {k}
  BY WhenIs, OneLine
<1> HIDE DEF O, N, A, K
<1>8. /\ IsText(head) /\ ToSet(head) = {n, a}
      /\ IsText(s) /\ ToSet(s) = {n, a} \cup ToSet(O) \cup {k}
  <2>1. IsText(head) /\ ToSet(head) = {n, a}
    <3>1. IsText(head) /\ ToSet(head) = ToSet(N) \cup ToSet(A)
      BY <1>7, CatIs
    <3> QED
      BY <1>7, <3>1
  <2> HIDE DEF head
  <2>2. IsText(Cat(head, O)) /\ ToSet(Cat(head, O)) = {n, a} \cup ToSet(O)
    <3>1. IsText(Cat(head, O)) /\ ToSet(Cat(head, O)) = ToSet(head) \cup ToSet(O)
      BY <1>7, <2>1, CatIs
    <3> QED
      BY <2>1, <3>1
  <2>3. IsText(s) /\ ToSet(s) = ToSet(Cat(head, O)) \cup ToSet(K)
    BY <1>7, <2>2, CatIs
  <2> QED
    BY <1>7, <2>1, <2>2, <2>3
<1>9. t = Cat(s, L)
  BY <1>3, <1>4
<1>10. t = Cat(N, rest) /\ IsText(rest) /\ ToSet(rest) = {a} \cup ToSet(O) \cup {k} \cup ToSet(L)
  <2> DEFINE kl == Cat(K, L)
  <2>1. IsText(kl) /\ ToSet(kl) = {k} \cup ToSet(L)
    <3>1. IsText(kl) /\ ToSet(kl) = ToSet(K) \cup ToSet(L)
      BY <1>6, <1>7, CatIs
    <3> QED
      BY <1>7, <3>1
  <2>2. Cat(Cat(Cat(head, O), K), L) = Cat(Cat(head, O), kl)
    <3>1. IsText(Cat(head, O))
      BY <1>7, <1>8, CatIs
    <3> HIDE DEF head
    <3> QED
      BY <1>6, <1>7, <3>1, CatThrice
  <2> HIDE DEF kl
  <2>3. /\ Cat(Cat(Cat(N, A), O), kl) = Cat(N, Cat(A, Cat(O, kl)))
        /\ IsText(Cat(A, Cat(O, kl)))
        /\ ToSet(Cat(A, Cat(O, kl))) = ToSet(A) \cup ToSet(O) \cup ToSet(kl)
    <3>1. IsText(N) /\ IsText(A) /\ IsText(O) /\ IsText(kl)
      BY <1>7, <2>1
    <3>2. Cat(Cat(Cat(N, A), O), kl) = Cat(N, Cat(A, Cat(O, kl)))
      BY ONLY <3>1, CatFour
    <3>3. IsText(Cat(A, Cat(O, kl)))
      BY ONLY <3>1, CatFour
    <3>4. ToSet(Cat(A, Cat(O, kl))) = ToSet(A) \cup ToSet(O) \cup ToSet(kl)
      BY ONLY <3>1, CatFour
    <3> QED
      BY ONLY <3>2, <3>3, <3>4
  <2>4. rest = Cat(A, Cat(O, kl))
    BY DEF kl
  <2>5. t = Cat(Cat(head, O), kl)
    BY <1>9, <2>2
  <2> HIDE DEF rest
  <2>6. t = Cat(N, rest)
    BY <2>3, <2>4, <2>5
  <2> QED
    BY <1>7, <2>1, <2>3, <2>4, <2>6
<1> HIDE DEF rest, s, head
<1>11. IsBlock(t, "interface")
  <2>1. \A l \in ToSet(rest) : l[1] # "interface"
    <3> TAKE l \in ToSet(rest)
    <3>1. l \in {a, o, k} \/ l[1] \in peerKeys
      BY <1>6, <1>7, <1>10
    <3> QED
      BY <1>1, <1>20, <3>1
  <2> QED
    BY <1>1, <1>10, <2>1, BlockOf DEF N
<1>12. Blocks(t, "peer") = texts
  <2>1. \A l \in ToSet(s) : l[1] # "peer"
    <3> TAKE l \in ToSet(s)
    <3>1. l \in {n, a, o, k}
      BY <1>7, <1>8
    <3> QED
      BY <1>1, <3>1
  <2>2. Free(s, "peer")
    BY <1>8, <2>1, FreeOf
  <2>3. t = Cat(s, FlattenSeq(texts))
    BY <1>9 DEF L
  <2> QED
    BY <1>2, <1>5, <2>2, <2>3, BlocksAll
<1>13. IsText(t) /\ ToSet(t) = ToSet(s) \cup ToSet(L)
  BY <1>6, <1>8, <1>9, CatIs
<1>14. /\ n \in ToSet(t) /\ a \in ToSet(t) /\ k \in ToSet(t)
       /\ w.port # 0 => o \in ToSet(t)
       /\ \A l \in ToSet(t) : l \in {n, a, o, k} \/ l[1] \in peerKeys
       /\ w.port = 0 => \A l \in ToSet(t) : l \in {n, a, k} \/ l[1] \in peerKeys
  BY <1>6, <1>7, <1>8, <1>13
<1>15. Value(t, "interface") = w.name
  <2>1. \E l \in ToSet(t) : l[1] = "interface"
    BY <1>1, <1>14, <1>20
  <2>2. ASSUME NEW l \in ToSet(t), l[1] = "interface" PROVE l[2] = w.name
    <3>1. l \in {n, a, o, k}
      BY <1>14, <1>20, <2>2
    <3> QED
      BY <1>1, <2>2, <3>1
  <2> QED
    BY ONLY <1>13, <2>1, <2>2, ValueIn
<1>16. Value(t, "address") = w.address
  <2>1. \E l \in ToSet(t) : l[1] = "address"
    BY <1>1, <1>14, <1>20
  <2>2. ASSUME NEW l \in ToSet(t), l[1] = "address" PROVE l[2] = w.address
    <3>1. l \in {n, a, o, k}
      BY <1>14, <1>20, <2>2
    <3> QED
      BY <1>1, <2>2, <3>1
  <2> QED
    BY ONLY <1>13, <2>1, <2>2, ValueIn
<1>17. Value(t, "private-key-file") = w.keyFile
  <2>1. \E l \in ToSet(t) : l[1] = "private-key-file"
    BY <1>1, <1>14, <1>20
  <2>2. ASSUME NEW l \in ToSet(t), l[1] = "private-key-file" PROVE l[2] = w.keyFile
    <3>1. l \in {n, a, o, k}
      BY <1>14, <1>20, <2>2
    <3> QED
      BY <1>1, <2>2, <3>1
  <2> QED
    BY ONLY <1>13, <2>1, <2>2, ValueIn
<1>18. Value(t, "listen-port") = Given(w.port, 0)
  <2>1. CASE w.port # 0
    <3>1. \E l \in ToSet(t) : l[1] = "listen-port"
      BY <1>1, <1>14, <1>20, <2>1
    <3>2. ASSUME NEW l \in ToSet(t), l[1] = "listen-port" PROVE l[2] = w.port
      <4>1. l \in {n, a, o, k}
        BY <1>14, <1>20, <3>2
      <4> QED
        BY <1>1, <3>2, <4>1
    <3>3. Value(t, "listen-port") = w.port
      BY ONLY <1>13, <3>1, <3>2, ValueIn
    <3> QED
      BY <2>1, <3>3 DEF Given
  <2>2. CASE w.port = 0
    <3>1. \A l \in ToSet(t) : l[1] # "listen-port"
      BY <1>1, <1>14, <1>20, <2>2
    <3>2. Value(t, "listen-port") = Absent
      BY <1>13, <3>1, ValueNone
    <3> QED
      BY <2>2, <3>2 DEF Given
  <2> QED
    BY <2>1, <2>2
<1> QED
  BY <1>11, <1>12, <1>15, <1>16, <1>17, <1>18 DEF t, texts

(* What fits in 16 bits is kept. *)
LEMMA Uint16Is ==
    ASSUME NEW n \in Nat, n <= MaxPort
    PROVE  Uint16(n) = n
<1> DEFINE m == MaxPort + 1
<1>1. m \in Nat /\ m > 0 /\ n < m
  BY ModelAssumption
<1> HIDE DEF m
<1>2. n % m = n
  BY <1>1
<1> QED
  BY <1>2 DEF Uint16, m

Peers == Seq([key : STRING, endpoint : STRING, ips : SUBSET SUBSET Hosts, keepalive : Nat])

(* What the compiler makes of an interface is the interface. *)
LEMMA InterfaceKept ==
    ASSUME NEW w, w.peers \in Peers, w.port \in Nat, w.port <= MaxPort,
           \A k \in DOMAIN w.peers : w.peers[k].keepalive <= MaxPort
    PROVE  LET c == CompileInterface(w)
           IN  /\ c.name = w.name /\ c.address = w.address /\ c.keyFile = w.keyFile
               /\ c.port = w.port /\ c.peers = w.peers
<1> DEFINE c == CompileInterface(w)
           s == w.peers
           R == [key : STRING, endpoint : STRING, ips : SUBSET SUBSET Hosts, keepalive : Nat]
<1>1. /\ c.name = w.name /\ c.address = w.address /\ c.keyFile = w.keyFile
      /\ c.port = Uint16(w.port)
      /\ c.peers = [k \in DOMAIN s |-> [s[k] EXCEPT !.keepalive = Uint16(@)]]
  BY DEF CompileInterface
<1>2. /\ Len(s) \in Nat /\ DOMAIN s = 1..Len(s) /\ s = [k \in 1..Len(s) |-> s[k]]
      /\ \A k \in DOMAIN s : s[k] \in R
  <2>1. s \in Seq(R)
    BY DEF Peers
  <2> HIDE DEF s, R
  <2> QED
    BY <2>1
<1>3. ASSUME NEW k \in DOMAIN s
      PROVE  [s[k] EXCEPT !.keepalive = Uint16(@)] = s[k]
  <2> DEFINE q == s[k]
  <2>1. q \in R /\ q.keepalive \in Nat /\ q.keepalive <= MaxPort
    BY <1>2
  <2>2. Uint16(q.keepalive) = q.keepalive
    BY <2>1, Uint16Is
  <2> HIDE DEF q
  <2> QED
    <3>1. [q EXCEPT !.keepalive = Uint16(@)] = q
      BY <2>1, <2>2
    <3> QED
      BY <3>1 DEF q
<1>4. c.peers = s
  <2> HIDE DEF s, c
  <2> QED
    BY <1>1, <1>2, <1>3
<1>5. c.port = w.port
  BY <1>1, Uint16Is
<1> QED
  BY <1>1, <1>4, <1>5

(* An interface is read as it was asked. *)
LEMMA ReadInterface ==
    ASSUME NEW w, IsText(w.peers), NEW c, c.peers = w.peers,
           c.name = w.name, c.address = w.address, c.keyFile = w.keyFile, c.port = w.port,
           NEW t, t = InterfaceLines(c)
    PROVE  InterfaceAsAsked(w,
               [name |-> Value(t, "interface"), address |-> Value(t, "address"),
                port |-> Value(t, "listen-port"), keyFile |-> Value(t, "private-key-file"),
                peers |-> ParsePeers(t)])
<1> DEFINE peers == ParsePeers(t)
           texts == LineEach(w.peers, PeerLines)
           got == [name |-> Value(t, "interface"), address |-> Value(t, "address"),
                   port |-> Value(t, "listen-port"), keyFile |-> Value(t, "private-key-file"),
                   peers |-> peers]
           n == Len(w.peers)
<1>1. /\ Blocks(t, "peer") = texts
      /\ Value(t, "interface") = w.name /\ Value(t, "address") = w.address
      /\ Value(t, "listen-port") = Given(w.port, 0)
      /\ Value(t, "private-key-file") = w.keyFile
  BY InterfaceIs
<1>2. n \in Nat /\ DOMAIN w.peers = 1..n
  BY TextIs
<1>3. DOMAIN texts = 1..n /\ \A k \in 1..n : texts[k] = PeerLines(w.peers[k])
  BY <1>2 DEF LineEach
<1> HIDE DEF texts, n
<1>4. peers = [k \in 1..n |->
                 [key |-> Value(texts[k], "peer"), endpoint |-> Value(texts[k], "endpoint"),
                  ips |-> Value(texts[k], "allowed-ips"),
                  keepalive |-> Value(texts[k], "keepalive")]]
  BY <1>1, <1>3 DEF ParsePeers
<1> HIDE DEF peers
<1>5. Len(peers) = n
  <2>1. peers = [k \in 1..n |-> peers[k]]
    BY <1>4
  <2> QED
    BY <1>2, <2>1, TextOf
<1>6. ASSUME NEW k \in 1..n
      PROVE  peers[k] = [key |-> w.peers[k].key, endpoint |-> w.peers[k].endpoint,
                         ips |-> w.peers[k].ips,
                         keepalive |-> Given(w.peers[k].keepalive, 0)]
  <2> DEFINE q == w.peers[k]
             b == texts[k]
  <2>1. b = PeerLines(q)
    BY <1>3
  <2>2. peers[k] = [key |-> Value(b, "peer"), endpoint |-> Value(b, "endpoint"),
                    ips |-> Value(b, "allowed-ips"), keepalive |-> Value(b, "keepalive")]
    BY <1>4
  <2> HIDE DEF q, b
  <2>3. /\ Value(b, "peer") = q.key /\ Value(b, "endpoint") = q.endpoint
        /\ Value(b, "allowed-ips") = q.ips
        /\ Value(b, "keepalive") = Given(q.keepalive, 0)
    BY <2>1, PeerIs
  <2>4. peers[k] = [key |-> q.key, endpoint |-> q.endpoint, ips |-> q.ips,
                    keepalive |-> Given(q.keepalive, 0)]
    BY <2>2, <2>3
  <2> QED
    BY <2>4 DEF q
<1>7. /\ got.name = w.name /\ got.address = w.address /\ got.keyFile = w.keyFile
      /\ got.port = Given(w.port, 0) /\ got.peers = peers
  BY <1>1
<1> HIDE DEF got
<1>8. Len(got.peers) = Len(w.peers)
  BY <1>5, <1>7 DEF n
<1>9. \A k \in DOMAIN w.peers :
         got.peers[k] = [key |-> w.peers[k].key, endpoint |-> w.peers[k].endpoint,
                         ips |-> w.peers[k].ips,
                         keepalive |-> Given(w.peers[k].keepalive, 0)]
  BY <1>2, <1>6, <1>7
<1>10. InterfaceAsAsked(w, got)
  BY <1>7, <1>8, <1>9 DEF InterfaceAsAsked
<1> QED
  BY <1>10 DEF got, peers

(* Every interface comes through compiler, renderer and parser. *)
LEMMA WireguardIs ==
    ASSUME NEW p, IsSections(p), Validate(p)
    PROVE  LET got == ParseWireguard(Wireguard(Compile(p)))
           IN  /\ Len(got) = Len(p.wireguard)
               /\ \A i \in DOMAIN got : InterfaceAsAsked(p.wireguard[i], got[i])
<1> DEFINE ws == p.wireguard
           cs == [i \in DOMAIN ws |-> CompileInterface(ws[i])]
           texts == LineEach(cs, InterfaceLines)
           lines == Wireguard(Compile(p))
           got == ParseWireguard(lines)
           W == [name : STRING, address : SUBSET Hosts, port : Nat, keyFile : STRING,
                 peers : Peers]
           n == Len(ws)
           on == p.ipsec # <<>> \/ ws # <<>>
<1>1. ws \in Seq(W)
  BY DEF IsSections, Peers
<1>2. /\ n \in Nat /\ DOMAIN ws = 1..n /\ IsText(ws) /\ (ws = <<>> <=> n = 0)
      /\ \A i \in 1..n : ws[i] \in W
  <2>1. IsText(ws)
    BY <1>1 DEF IsText
  <2>2. n \in Nat /\ DOMAIN ws = 1..n /\ (ws = <<>> <=> n = 0)
    BY <2>1, TextIs
  <2> HIDE DEF ws, W
  <2> QED
    BY <1>1, <2>1, <2>2, SeqElements
<1>3. ASSUME NEW i \in 1..n
      PROVE  /\ IsText(ws[i].peers)
             /\ cs[i].name = ws[i].name /\ cs[i].address = ws[i].address
             /\ cs[i].keyFile = ws[i].keyFile
             /\ cs[i].port = ws[i].port /\ cs[i].peers = ws[i].peers
  <2> DEFINE w == ws[i]
  <2>1. w \in W
    BY <1>2
  <2>2. w.peers \in Peers /\ w.port \in Nat
    <3> HIDE DEF w
    <3> QED
      BY <2>1
  <2>3. w.port <= MaxPort /\ \A k \in DOMAIN w.peers : w.peers[k].keepalive <= MaxPort
    BY <1>2 DEF Validate, CheckWireguard, CheckPeer
  <2>4. cs[i] = CompileInterface(w)
    BY <1>2
  <2>5. IsText(w.peers)
    BY <2>2 DEF Peers, IsText
  <2> HIDE DEF w, cs
  <2>6. /\ cs[i].name = w.name /\ cs[i].address = w.address /\ cs[i].keyFile = w.keyFile
        /\ cs[i].port = w.port /\ cs[i].peers = w.peers
    BY <2>2, <2>3, <2>4, InterfaceKept
  <2> QED
    BY <2>5, <2>6 DEF w
<1>4. DOMAIN cs = 1..n
  BY <1>2
<1> HIDE DEF cs, n, ws
<1>5. /\ IsText(texts) /\ Len(texts) = n /\ DOMAIN texts = 1..n
      /\ \A i \in 1..n : texts[i] = InterfaceLines(cs[i])
  <2>1. texts = [i \in 1..n |-> InterfaceLines(cs[i])]
    BY <1>4 DEF LineEach
  <2> HIDE DEF texts
  <2>2. texts = [i \in 1..n |-> texts[i]]
    BY <2>1
  <2> QED
    BY <1>2, <2>1, <2>2, TextOf
<1>6. lines = FlattenSeq(texts)
  <2> DEFINE v == [ipsec |-> [i \in DOMAIN p.ipsec |-> CompileTunnel(p.ipsec[i])],
                   wireguard |-> cs]
             ir == Compile(p)
  <2>1. ir.vpn = Optional(on, v)
    BY DEF Compile, CompileVPN, cs, ws
  <2>2. v.wireguard = cs
    OBVIOUS
  <2> HIDE DEF v, ir
  <2>3. CASE on
    <3>1. ir.vpn = {v} /\ ir.vpn # {} /\ The(ir.vpn) = v
      BY <2>1, <2>3 DEF Optional, The
    <3>2. Wireguard(ir) = FlattenSeq(LineEach(cs, InterfaceLines))
      BY <2>2, <3>1 DEF Wireguard, Lines, LineEach
    <3> QED
      BY <3>2 DEF ir
  <2>4. CASE ~ on
    <3>1. ir.vpn = {}
      BY <2>1, <2>4 DEF Optional
    <3>2. Wireguard(ir) = <<>>
      BY <3>1 DEF Wireguard
    <3>3. n = 0 /\ texts = <<>> /\ Len(texts) = 0
      <4>1. n = 0
        BY <1>2, <2>4
      <4> HIDE DEF texts
      <4> QED
        BY <1>5, <4>1, TextIs
    <3>4. FlattenSeq(texts) = texts
      <4> HIDE DEF texts
      <4> QED
        BY <3>3 DEF FlattenSeq
    <3> QED
      BY <3>2, <3>3, <3>4 DEF ir
  <2> QED
    BY <2>3, <2>4
<1> HIDE DEF texts
<1>7. \A i \in 1..n : IsBlock(texts[i], "interface")
  <2> TAKE i \in 1..n
  <2>1. IsText(cs[i].peers)
    BY <1>3
  <2> QED
    BY <1>5, <2>1, InterfaceIs
<1>8. Blocks(lines, "interface") = texts
  <2>1. IsText(<<>>) /\ \A l \in ToSet(<<>>) : l[1] # "interface"
    BY OneLine, JoinedEmpty
  <2>2. Free(<<>>, "interface")
    BY <2>1, FreeOf
  <2>3. Blocks(Cat(<<>>, FlattenSeq(texts)), "interface") = texts
    BY <1>5, <1>7, <2>2, BlocksAll
  <2>4. IsText(FlattenSeq(texts))
    <3>1. \A i \in DOMAIN texts : IsText(texts[i])
      BY <1>5, <1>7 DEF IsBlock
    <3> QED
      BY <1>5, <3>1, FlattenLines
  <2>5. Cat(<<>>, FlattenSeq(texts)) = FlattenSeq(texts)
    BY <2>4, JoinedEmpty DEF Cat
  <2> QED
    BY <1>6, <2>3, <2>5
<1> HIDE DEF lines
<1>9. got = [k \in 1..n |->
               [name |-> Value(texts[k], "interface"), address |-> Value(texts[k], "address"),
                port |-> Value(texts[k], "listen-port"),
                keyFile |-> Value(texts[k], "private-key-file"),
                peers |-> ParsePeers(texts[k])]]
  BY <1>5, <1>8 DEF ParseWireguard
<1> HIDE DEF got
<1>10. Len(got) = n /\ DOMAIN got = 1..n
  <2>1. got = [k \in 1..n |-> got[k]]
    BY <1>9
  <2> QED
    BY <1>2, <1>9, <2>1, TextOf
<1>11. ASSUME NEW i \in 1..n PROVE InterfaceAsAsked(ws[i], got[i])
  <2> DEFINE t == texts[i]
  <2>1. got[i] = [name |-> Value(t, "interface"), address |-> Value(t, "address"),
                  port |-> Value(t, "listen-port"), keyFile |-> Value(t, "private-key-file"),
                  peers |-> ParsePeers(t)]
    BY <1>9
  <2>2. t = InterfaceLines(cs[i])
    BY <1>5
  <2> HIDE DEF t
  <2>3. InterfaceAsAsked(ws[i],
            [name |-> Value(t, "interface"), address |-> Value(t, "address"),
             port |-> Value(t, "listen-port"), keyFile |-> Value(t, "private-key-file"),
             peers |-> ParsePeers(t)])
    BY <1>3, <2>2, ReadInterface
  <2> QED
    BY <2>1, <2>3
<1> QED
  BY <1>10, <1>11 DEF got, lines, n, ws

-----------------------------------------------------------------------------
(* The routers of FRR, each with what belongs to it.                       *)

(* The lines of a text with one more. *)
LEMMA AddedSet ==
    ASSUME NEW s, IsText(s), NEW x
    PROVE  IsText(Append(s, x)) /\ ToSet(Append(s, x)) = ToSet(s) \cup {x}
<1> DEFINE t == Append(s, x)
           m == Len(s)
<1>1. /\ IsText(t) /\ Len(t) = m + 1
      /\ \A i \in 1..m : t[i] = s[i]
      /\ t[m + 1] = x
  BY Added
<1>2. m \in Nat /\ ToSet(s) = {s[i] : i \in 1..m}
  BY TextIs
<1> HIDE DEF t, m
<1>3. ToSet(t) = {t[i] : i \in 1..(m + 1)}
  BY <1>1, TextIs
<1>4. 1..(m + 1) = 1..m \cup {m + 1}
  BY <1>2
<1>5. ToSet(t) = ToSet(s) \cup {x}
  BY <1>1, <1>2, <1>3, <1>4
<1> QED
  BY <1>1, <1>5 DEF t

(* One text alone, and none. *)
LEMMA FlattenOne ==
    ASSUME NEW t, IsText(t)
    PROVE  FlattenSeq(<<t>>) = t /\ FlattenSeq(<<>>) = <<>>
<1> DEFINE s == <<t>>
<1>1. IsText(s) /\ Len(s) = 1 /\ s[1] = t
  BY OneLine
<1> HIDE DEF s
<1>2. DOMAIN s = 1..1
  BY <1>1, TextIs
<1>3. PICK f : Flat(s, Len(s), f) /\ FlattenSeq(s) = f[Len(s)]
  <2>1. \A i \in DOMAIN s : IsText(s[i])
    <3>1. \A i \in 1..1 : i = 1
      OBVIOUS
    <3> QED
      BY <1>1, <1>2, <3>1
  <2> QED
    BY <1>1, <2>1, FlattenIs
<1>4. f[0] = <<>> /\ f[1] = f[1 - 1] \o s[1] /\ FlattenSeq(s) = f[1]
  BY <1>1, <1>3 DEF Flat
<1>5. f[1] = Cat(<<>>, t)
  <2>1. f[1 - 1] = f[0]
    OBVIOUS
  <2> QED
    BY <1>1, <1>4, <2>1 DEF Cat
<1>6. Cat(<<>>, t) = t
  BY JoinedEmpty DEF Cat
<1>7. FlattenSeq(<<>>) = <<>>
  <2>1. Len(<<>>) = 0
    OBVIOUS
  <2> QED
    BY <2>1 DEF FlattenSeq
<1> QED
  BY <1>4, <1>5, <1>6, <1>7 DEF s

(* What is written of the one element of a set, or of none. *)
LEMMA SeqOfOne ==
    ASSUME NEW x
    PROVE  SetToSeq({x}) = <<x>>
<1> DEFINE s == SetToSeq({x})
<1>1. IsFiniteSet({x}) /\ Cardinality({x}) = 1
  BY FS_Singleton
<1>2. s \in [1..1 -> {x}]
  BY <1>1, SeqOfSet
<1>3. s = [i \in 1..1 |-> s[i]] /\ s[1] = x
  BY <1>2
<1> HIDE DEF s
<1>4. IsText(s) /\ Len(s) = 1
  BY <1>3, TextOf
<1> DEFINE t == <<x>>
<1>5. IsText(t) /\ Len(t) = 1 /\ t[1] = x
  BY OneLine
<1> HIDE DEF t
<1>6. \A i \in 1..Len(s) : s[i] = t[i]
  BY <1>3, <1>4, <1>5
<1>7. s = t
  BY <1>4, <1>5, <1>6, TextSame
<1> QED
  BY <1>7 DEF s, t

(* The empty set has no lines. *)
LEMMA SeqOfNone == SetToSeq({}) = <<>>
<1> DEFINE s == SetToSeq({})
<1>1. IsFiniteSet({}) /\ Cardinality({}) = 0
  BY FS_EmptySet
<1>2. s \in [1..0 -> {}]
  BY <1>1, SeqOfSet
<1>3. s = [i \in 1..0 |-> s[i]]
  BY <1>2
<1> HIDE DEF s
<1>4. IsText(s) /\ Len(s) = 0
  BY <1>3, TextOf
<1>5. s = <<>>
  BY <1>4, TextIs
<1> QED
  BY <1>5 DEF s

(* The neighbors of BGP are lines of their own. *)
LEMMA NeighborLines ==
    ASSUME NEW S, IsFiniteSet(S)
    PROVE  LET t == LineOfEach(S, Neighbor)
           IN  IsText(t) /\ ToSet(t) = {Neighbor(n) : n \in S}
<1> DEFINE t == LineOfEach(S, Neighbor)
           s == SetToSeq(S)
           F == [x \in S |-> Neighbor(x)]
<1>1. \A i \in DOMAIN s : s[i] \in S
  BY SeqOfSet
<1>2. t = [i \in DOMAIN s |-> F[s[i]]]
  <2>1. t = [i \in DOMAIN s |-> Neighbor(s[i])]
    BY DEF LineOfEach, LineEach
  <2> HIDE DEF t, s
  <2> QED
    BY <1>1, <2>1
<1> HIDE DEF F, t
<1>3. IsText(t) /\ ToSet(t) = {F[x] : x \in S}
  BY <1>2, SetLines
<1>4. \A x \in S : F[x] = Neighbor(x)
  BY DEF F
<1> QED
  BY <1>3, <1>4 DEF t

(* So are the prefixes it announces. *)
LEMMA AnnounceLines ==
    ASSUME NEW S, IsFiniteSet(S)
    PROVE  LET t == LineOfEach(S, Announce)
           IN  IsText(t) /\ ToSet(t) = {Announce(x) : x \in S}
<1> DEFINE t == LineOfEach(S, Announce)
           s == SetToSeq(S)
           F == [x \in S |-> Announce(x)]
<1>1. \A i \in DOMAIN s : s[i] \in S
  BY SeqOfSet
<1>2. t = [i \in DOMAIN s |-> F[s[i]]]
  <2>1. t = [i \in DOMAIN s |-> Announce(s[i])]
    BY DEF LineOfEach, LineEach
  <2> HIDE DEF t, s
  <2> QED
    BY <1>1, <2>1
<1> HIDE DEF F, t
<1>3. IsText(t) /\ ToSet(t) = {F[x] : x \in S}
  BY <1>2, SetLines
<1>4. \A x \in S : F[x] = Announce(x)
  BY DEF F
<1> QED
  BY <1>3, <1>4 DEF t

(* The networks of an area. *)
LEMMA AreaLines ==
    ASSUME NEW a, IsFiniteSet(a.networks)
    PROVE  IsText(Area(a)) /\ ToSet(Area(a)) = {<<"network", x, a.area>> : x \in a.networks}
<1> DEFINE t == Area(a)
           S == a.networks
           s == SetToSeq(S)
           F == [x \in S |-> <<"network", x, a.area>>]
<1>1. \A i \in DOMAIN s : s[i] \in S
  BY SeqOfSet
<1>2. t = [i \in DOMAIN s |-> F[s[i]]]
  <2>1. t = [i \in DOMAIN s |-> <<"network", s[i], a.area>>]
    BY DEF Area, LineOfEach, LineEach
  <2> HIDE DEF t, s, S
  <2> QED
    BY <1>1, <2>1
<1> HIDE DEF F, t
<1>3. IsText(t) /\ ToSet(t) = {F[x] : x \in S}
  BY <1>2, SetLines
<1>4. \A x \in S : F[x] = <<"network", x, a.area>>
  BY DEF F
<1> QED
  BY <1>3, <1>4 DEF t

(* The networks of all areas, each with its area. *)
LEMMA AreasLines ==
    ASSUME NEW S, IsFiniteSet(S), \A a \in S : IsFiniteSet(a.networks)
    PROVE  LET t == LinesOfSet(S, Area)
           IN  /\ IsText(t)
               /\ ToSet(t) = UNION {{<<"network", x, a.area>> : x \in a.networks} : a \in S}
<1> DEFINE s == SetToSeq(S)
           F == [a \in S |-> Area(a)]
           texts == LineEach(s, Area)
           t == FlattenSeq(texts)
           Of(a) == {<<"network", x, a.area>> : x \in a.networks}
<1>1. \A i \in DOMAIN s : s[i] \in S
  BY SeqOfSet
<1>2. texts = [i \in DOMAIN s |-> F[s[i]]]
  <2>1. texts = [i \in DOMAIN s |-> Area(s[i])]
    BY DEF LineEach
  <2> HIDE DEF texts, s
  <2> QED
    BY <1>1, <2>1
<1> HIDE DEF F, texts
<1>3. IsText(texts) /\ ToSet(texts) = {F[a] : a \in S}
  BY <1>2, SetLines
<1>4. \A a \in S : F[a] = Area(a) /\ IsText(F[a]) /\ ToSet(F[a]) = Of(a)
  <2> TAKE a \in S
  <2>1. F[a] = Area(a)
    BY DEF F
  <2> QED
    BY <2>1, AreaLines
<1>5. ToSet(texts) = {texts[k] : k \in DOMAIN texts}
  BY <1>3, TextIs
<1>6. \A k \in DOMAIN texts : \E a \in S : texts[k] = F[a]
  BY <1>3, <1>5
<1>7. \A a \in S : \E k \in DOMAIN texts : texts[k] = F[a]
  BY <1>3, <1>5
<1>8. /\ IsText(t)
      /\ \A l : l \in ToSet(t) <=> \E k \in DOMAIN texts : l \in ToSet(texts[k])
  BY <1>3, <1>4, <1>6, FlattenLines
<1>9. t = LinesOfSet(S, Area)
  BY DEF LinesOfSet, Lines, LineEach, texts
<1> HIDE DEF t, Of
<1>10. \A l : l \in ToSet(t) <=> \E a \in S : l \in Of(a)
  BY <1>4, <1>6, <1>7, <1>8
<1>11. ToSet(t) = UNION {Of(a) : a \in S}
  BY <1>10
<1> QED
  BY <1>8, <1>9, <1>11 DEF Of

(* The router of BGP: its neighbors and the prefixes it announces. *)
LEMMA BgpIs ==
    ASSUME NEW b, IsFiniteSet(b.neighbors), IsFiniteSet(b.announce)
    PROVE  LET t == BgpLines(b)
           IN  /\ IsBlock(t, "router") /\ t[1][2] = "bgp"
               /\ ToSet(t) = {<<"router", "bgp", b.asn>>, <<"router-id", b.router>>}
                             \cup {Neighbor(n) : n \in b.neighbors}
                             \cup {Announce(x) : x \in b.announce}
<1> DEFINE r == <<"router", "bgp", b.asn>>
           i == <<"router-id", b.router>>
           R == <<r>>
           I == <<i>>
           N == LineOfEach(b.neighbors, Neighbor)
           A == LineOfEach(b.announce, Announce)
           rest == Cat(I, Cat(N, A))
           t == BgpLines(b)
<1>1. r[1] = "router" /\ r[2] = "bgp" /\ i[1] = "router-id"
  OBVIOUS
<1>2. /\ IsText(N) /\ ToSet(N) = {Neighbor(n) : n \in b.neighbors}
      /\ IsText(A) /\ ToSet(A) = {Announce(x) : x \in b.announce}
  BY NeighborLines, AnnounceLines
<1>3. t = Cat(Cat(<<r, i>>, N), A)
  BY DEF BgpLines, Cat
<1> HIDE DEF r, i, N, A, t
<1>4. <<r, i>> = Cat(R, I)
  BY PairIs
<1>5. IsText(R) /\ ToSet(R) = {r} /\ IsText(I) /\ ToSet(I) = {i}
      /\ Len(R) = 1 /\ R[1] = r
  BY OneLine
<1> HIDE DEF R, I
<1>6. /\ t = Cat(R, rest) /\ IsText(rest)
      /\ ToSet(rest) = ToSet(I) \cup ToSet(N) \cup ToSet(A)
  BY <1>2, <1>3, <1>4, <1>5, CatFour
<1> HIDE DEF rest
<1>7. \A l \in ToSet(rest) : l[1] # "router"
  <2> TAKE l \in ToSet(rest)
  <2>1. l = i \/ (\E n : l = Neighbor(n)) \/ (\E x : l = Announce(x))
    BY <1>2, <1>5, <1>6
  <2> QED
    BY <1>1, <2>1 DEF Neighbor, Announce
<1>8. IsBlock(t, "router")
  <2>1. t = Cat(<<r>>, rest)
    BY <1>6 DEF R
  <2> QED
    BY ONLY <1>1, <1>6, <1>7, <2>1, BlockOf
<1>9. /\ ToSet(t) = ToSet(R) \cup ToSet(rest)
      /\ \A k \in 1..Len(R) : t[k] = R[k]
  BY <1>5, <1>6, CatIs
<1>10. t[1] = r
  <2>1. 1 \in 1..1
    OBVIOUS
  <2> QED
    BY <1>5, <1>9, <2>1
<1>11. ToSet(t) = {r, i} \cup {Neighbor(n) : n \in b.neighbors}
                        \cup {Announce(x) : x \in b.announce}
  BY <1>2, <1>5, <1>6, <1>9
<1> QED
  BY <1>1, <1>8, <1>10, <1>11 DEF t, r, i

(* The router of OSPF: the networks of its areas. *)
LEMMA OspfIs ==
    ASSUME NEW o, IsFiniteSet(o.areas), \A a \in o.areas : IsFiniteSet(a.networks)
    PROVE  LET t == OspfLines(o)
           IN  /\ IsBlock(t, "router") /\ t[1][2] = "ospf"
               /\ \A l \in ToSet(t) : l[1] \in {"router", "router-id", "network"}
               /\ {l \in ToSet(t) : l[1] = "network"}
                    = UNION {{<<"network", x, a.area>> : x \in a.networks} : a \in o.areas}
<1> DEFINE r == <<"router", "ospf">>
           i == <<"router-id", o.router>>
           R == <<r>>
           I == When(o.router # Absent, <<i>>)
           A == LinesOfSet(o.areas, Area)
           nets == UNION {{<<"network", x, a.area>> : x \in a.networks} : a \in o.areas}
           rest == Cat(I, A)
           t == OspfLines(o)
<1>1. r[1] = "router" /\ r[2] = "ospf" /\ i[1] = "router-id"
      /\ \A l \in nets : l[1] = "network"
  OBVIOUS
<1>2. /\ IsText(A) /\ ToSet(A) = nets
  BY AreasLines
<1>3. t = Cat(Cat(R, I), A)
  BY DEF OspfLines, Cat
<1> HIDE DEF r, i, A, t, nets
<1>4. /\ IsText(R) /\ ToSet(R) = {r} /\ Len(R) = 1 /\ R[1] = r
      /\ IsText(I) /\ ToSet(I) \subseteq {i}
  BY OneLine, WhenIs
<1> HIDE DEF R, I
<1>5. t = Cat(R, rest)
  BY <1>2, <1>3, <1>4, CatThrice
<1>6. IsText(rest) /\ ToSet(rest) = ToSet(I) \cup nets
  BY <1>2, <1>4, CatIs
<1> HIDE DEF rest
<1>7. \A l \in ToSet(rest) : l[1] # "router"
  <2> TAKE l \in ToSet(rest)
  <2>1. l = i \/ l \in nets
    BY <1>4, <1>6
  <2> QED
    BY <1>1, <2>1
<1>8. IsBlock(t, "router")
  <2>1. t = Cat(<<r>>, rest)
    BY <1>5 DEF R
  <2> QED
    BY ONLY <1>1, <1>6, <1>7, <2>1, BlockOf
<1>9. /\ ToSet(t) = ToSet(R) \cup ToSet(rest)
      /\ \A k \in 1..Len(R) : t[k] = R[k]
  <2>0. IsText(R) /\ IsText(rest)
    BY <1>4, <1>6
  <2>1. ToSet(t) = ToSet(R) \cup ToSet(rest)
    BY ONLY <1>5, <2>0, CatIs
  <2>2. \A k \in 1..Len(R) : t[k] = R[k]
    BY ONLY <1>5, <2>0, CatIs
  <2> QED
    BY <2>1, <2>2
<1>10. t[1] = r
  <2>1. 1 \in 1..1
    OBVIOUS
  <2> QED
    BY <1>4, <1>9, <2>1
<1>11. \A l \in ToSet(t) : l = r \/ l = i \/ l \in nets
  BY <1>4, <1>6, <1>9
<1>12. nets \subseteq ToSet(t)
  BY <1>6, <1>9
<1>13. {l \in ToSet(t) : l[1] = "network"} = nets
  BY <1>1, <1>11, <1>12
<1>14. \A l \in ToSet(t) : l[1] \in {"router", "router-id", "network"}
  BY <1>1, <1>11
<1> QED
  BY <1>1, <1>8, <1>10, <1>13, <1>14 DEF t, nets

(* The blocks of a text of a line and of up to two routers. *)
LEMMA RoutersAre ==
    ASSUME NEW d, d[1] # "router",
           NEW x, IsBlock(x, "router"), NEW y, IsBlock(y, "router"),
           NEW X, X = x \/ X = <<>>, NEW Y, Y = y \/ Y = <<>>
    PROVE  LET lines == Cat(Cat(<<d>>, X), Y)
           IN  /\ ToSet(Blocks(lines, "router"))
                    = {b \in {x} : X = x} \cup {b \in {y} : Y = y}
               /\ lines[1] = d
<1> DEFINE D == <<d>>
           u == Cat(D, X)
           v == Cat(u, Y)
           B(s) == Blocks(s, "router")
<1>1. IsText(D) /\ Len(D) = 1 /\ D[1] = d /\ ToSet(D) = {d}
  BY OneLine
<1> HIDE DEF D
<1>2. B(D) = <<>> /\ IsText(<<>>) /\ ToSet(<<>>) = {}
  <2>1. Free(D, "router")
    BY <1>1, FreeOf
  <2> QED
    BY <2>1, OneLine, JoinedEmpty, BlocksFree
<1>3. IsText(x) /\ x # <<>> /\ IsText(y) /\ y # <<>>
  <2>1. IsText(x) /\ Len(x) >= 1 /\ IsText(y) /\ Len(y) >= 1
    BY DEF IsBlock
  <2>2. Len(x) # 0 /\ Len(y) # 0
    BY <2>1
  <2> QED
    BY ONLY <2>1, <2>2, TextIs
<1>4. /\ IsText(u) /\ u[1] = d /\ IsText(B(u))
      /\ ToSet(B(u)) = {b \in {x} : X = x}
  <2>1. CASE X = x
    <3> DEFINE w == Cat(D, x)
    <3>1. IsText(w) /\ \A i \in 1..Len(D) : w[i] = D[i]
      BY <1>1, <1>3, CatIs
    <3>2. w[1] = d
      <4>1. 1 \in 1..1
        OBVIOUS
      <4> HIDE DEF w
      <4> QED
        BY <1>1, <3>1, <4>1
    <3>3. B(w) = Append(B(D), x)
      BY <1>1, BlocksMore
    <3>4. IsText(Append(<<>>, x)) /\ ToSet(Append(<<>>, x)) = {x}
      <4>1. ToSet(Append(<<>>, x)) = ToSet(<<>>) \cup {x}
        BY ONLY <1>2, AddedSet
      <4> QED
        BY <1>2, <4>1, AddedSet
    <3>5. u = w
      BY <2>1
    <3> HIDE DEF u, w
    <3>6. B(u) = Append(<<>>, x)
      BY <1>2, <3>3, <3>5
    <3> HIDE DEF B
    <3> QED
      BY <2>1, <3>1, <3>2, <3>4, <3>5, <3>6
  <2>2. CASE X = <<>>
    <3>1. u = D
      BY <1>1, <2>2, JoinedEmpty DEF Cat
    <3> HIDE DEF u, B
    <3> QED
      BY <1>1, <1>2, <1>3, <2>2, <3>1
  <2> QED
    BY <2>1, <2>2
<1> HIDE DEF u
<1>5. v[1] = d /\ ToSet(B(v)) = ToSet(B(u)) \cup {b \in {y} : Y = y}
  <2>1. CASE Y = y
    <3> DEFINE w == Cat(u, y)
    <3>1. Len(u) >= 1
      <4>1. Len(u) \in Nat /\ Len(u) >= 1
        <5>1. Len(D) + Len(X) >= 1 /\ Len(D) + Len(X) \in Nat /\ IsText(X)
          <6>1. IsText(X)
            BY <1>2, <1>3
          <6>2. Len(X) \in Nat
            BY <6>1, TextIs
          <6> QED
            BY <1>1, <6>1, <6>2
        <5>2. Len(u) = Len(D) + Len(X)
          BY <1>1, <5>1, CatIs DEF u
        <5> QED
          BY <5>1, <5>2
      <4> QED
        BY <4>1
    <3>2. \A i \in 1..Len(u) : w[i] = u[i]
      BY <1>3, <1>4, CatIs
    <3>3. w[1] = d
      <4>1. 1 \in 1..Len(u)
        <5>1. Len(u) \in Nat
          BY <1>4, TextIs
        <5> QED
          BY <3>1, <5>1
      <4> HIDE DEF w
      <4> QED
        BY <1>4, <3>2, <4>1
    <3>4. B(w) = Append(B(u), y)
      BY <1>4, BlocksMore
    <3>5. ToSet(Append(B(u), y)) = ToSet(B(u)) \cup {y}
      <4> HIDE DEF B
      <4> QED
        BY <1>4, AddedSet
    <3>6. v = w
      BY <2>1
    <3> HIDE DEF v, w, B
    <3> QED
      BY <2>1, <3>3, <3>4, <3>5, <3>6
  <2>2. CASE Y = <<>>
    <3>1. v = u
      BY <1>4, <2>2, JoinedEmpty DEF Cat
    <3> HIDE DEF v, B
    <3> QED
      BY <1>3, <1>4, <2>2, <3>1
  <2> QED
    BY <2>1, <2>2
<1> HIDE DEF v, B
<1>6. ToSet(B(v)) = {b \in {x} : X = x} \cup {b \in {y} : Y = y}
  BY <1>4, <1>5
<1> QED
  BY <1>5, <1>6 DEF v, u, D, B

(* Frr has a router for each protocol that is enabled. *)
FrrText(d, bgp, ospf) ==
    <<<<"daemons", d>>>> \o LinesOfSet(bgp, BgpLines) \o LinesOfSet(ospf, OspfLines)

BgpTexts(s) == LineEach(s, BgpLines)

OspfTexts(s) == LineEach(s, OspfLines)

(* The text of Frr is its daemons and one block per router. *)
LEMMA RoutersText ==
    ASSUME NEW d, NEW bgpOn \in BOOLEAN, NEW ospfOn \in BOOLEAN, NEW b, NEW o,
           IsFiniteSet(b.neighbors), IsFiniteSet(b.announce),
           IsFiniteSet(o.areas), \A a \in o.areas : IsFiniteSet(a.networks)
    PROVE  LET lines == FrrText(d, Optional(bgpOn, b), Optional(ospfOn, o))
           IN  /\ ToSet(Blocks(lines, "router"))
                    = {t \in {BgpLines(b)} : bgpOn} \cup {t \in {OspfLines(o)} : ospfOn}
               /\ lines[1][2] = d
<1> DEFINE x == BgpLines(b)
           y == OspfLines(o)
           X == LinesOfSet(Optional(bgpOn, b), BgpLines)
           Y == LinesOfSet(Optional(ospfOn, o), OspfLines)
           D == <<"daemons", d>>
           lines == FrrText(d, Optional(bgpOn, b), Optional(ospfOn, o))
<1>1. IsBlock(x, "router") /\ IsBlock(y, "router")
  BY BgpIs, OspfIs
<1>2. IsText(x) /\ x # <<>> /\ IsText(y) /\ y # <<>>
  <2>1. IsText(x) /\ Len(x) >= 1 /\ IsText(y) /\ Len(y) >= 1
    BY <1>1 DEF IsBlock
  <2>2. Len(x) # 0 /\ Len(y) # 0
    BY <2>1
  <2> HIDE DEF x, y
  <2> QED
    BY ONLY <2>1, <2>2, TextIs
<1>3. X = IF bgpOn THEN x ELSE <<>>
  <2>1. CASE bgpOn
    <3>1. BgpTexts(<<b>>) = <<x>>
      <4> DEFINE s == <<b>>
                 u == BgpTexts(s)
                 w == <<x>>
      <4>1. IsText(s) /\ Len(s) = 1 /\ s[1] = b /\ IsText(w) /\ Len(w) = 1 /\ w[1] = x
        BY OneLine
      <4> HIDE DEF s, w
      <4>2. DOMAIN s = 1..1
        BY <4>1, TextIs
      <4>3. u = [i \in 1..1 |-> BgpLines(s[i])]
        BY <4>2 DEF LineEach, BgpTexts, OspfTexts
      <4> HIDE DEF u
      <4>4. u = [i \in 1..1 |-> u[i]] /\ u[1] = x
        BY <4>1, <4>3
      <4>5. IsText(u) /\ Len(u) = 1
        BY <4>4, TextOf
      <4>6. \A i \in 1..Len(u) : u[i] = w[i]
        BY <4>1, <4>4, <4>5
      <4>7. u = w
        BY <4>1, <4>5, <4>6, TextSame
      <4> QED
        BY <4>7 DEF u, w, s
    <3>2. X = FlattenSeq(BgpTexts(<<b>>))
      <4>1. X = FlattenSeq(BgpTexts(SetToSeq({b})))
        BY <2>1 DEF LinesOfSet, Lines, Optional, LineEach, BgpTexts
      <4>2. SetToSeq({b}) = <<b>>
        BY SeqOfOne
      <4> HIDE DEF X
      <4> QED
        BY ONLY <4>1, <4>2
    <3> HIDE DEF x
    <3> QED
      BY <1>2, <2>1, <3>1, <3>2, FlattenOne
  <2>2. CASE ~ bgpOn
    <3>1. BgpTexts(<<>>) = <<>>
      BY DEF LineEach, BgpTexts, OspfTexts
    <3>2. X = FlattenSeq(BgpTexts(<<>>))
      BY <2>2, SeqOfNone DEF LinesOfSet, Lines, Optional, LineEach, BgpTexts, OspfTexts
    <3> HIDE DEF x
    <3> QED
      BY <1>2, <2>2, <3>1, <3>2, FlattenOne
  <2> QED
    BY <2>1, <2>2
<1>4. Y = IF ospfOn THEN y ELSE <<>>
  <2>1. CASE ospfOn
    <3>1. OspfTexts(<<o>>) = <<y>>
      <4> DEFINE s == <<o>>
                 u == OspfTexts(s)
                 w == <<y>>
      <4>1. IsText(s) /\ Len(s) = 1 /\ s[1] = o /\ IsText(w) /\ Len(w) = 1 /\ w[1] = y
        BY OneLine
      <4> HIDE DEF s, w
      <4>2. DOMAIN s = 1..1
        BY <4>1, TextIs
      <4>3. u = [i \in 1..1 |-> OspfLines(s[i])]
        BY <4>2 DEF LineEach, BgpTexts, OspfTexts
      <4> HIDE DEF u
      <4>4. u = [i \in 1..1 |-> u[i]] /\ u[1] = y
        BY <4>1, <4>3
      <4>5. IsText(u) /\ Len(u) = 1
        BY <4>4, TextOf
      <4>6. \A i \in 1..Len(u) : u[i] = w[i]
        BY <4>1, <4>4, <4>5
      <4>7. u = w
        BY <4>1, <4>5, <4>6, TextSame
      <4> QED
        BY <4>7 DEF u, w, s
    <3>2. Y = FlattenSeq(OspfTexts(<<o>>))
      <4>1. Y = FlattenSeq(OspfTexts(SetToSeq({o})))
        BY <2>1 DEF LinesOfSet, Lines, Optional, LineEach, OspfTexts
      <4>2. SetToSeq({o}) = <<o>>
        BY SeqOfOne
      <4> HIDE DEF Y
      <4> QED
        BY ONLY <4>1, <4>2
    <3> HIDE DEF y
    <3> QED
      BY <1>2, <2>1, <3>1, <3>2, FlattenOne
  <2>2. CASE ~ ospfOn
    <3>1. OspfTexts(<<>>) = <<>>
      BY DEF LineEach, BgpTexts, OspfTexts
    <3>2. Y = FlattenSeq(OspfTexts(<<>>))
      BY <2>2, SeqOfNone DEF LinesOfSet, Lines, Optional, LineEach, BgpTexts, OspfTexts
    <3> HIDE DEF y
    <3> QED
      BY <1>2, <2>2, <3>1, <3>2, FlattenOne
  <2> QED
    BY <2>1, <2>2
<1>5. lines = Cat(Cat(<<D>>, X), Y)
  BY DEF FrrText, Cat
<1>6. D[1] # "router" /\ D[2] = d
  OBVIOUS
<1> HIDE DEF x, y, X, Y, D, lines
<1>7. /\ ToSet(Blocks(lines, "router")) = {t \in {x} : X = x} \cup {t \in {y} : Y = y}
      /\ lines[1] = D
  <2>1. (X = x \/ X = <<>>) /\ (Y = y \/ Y = <<>>)
    BY <1>3, <1>4
  <2> QED
    BY ONLY <1>1, <1>5, <1>6, <2>1, RoutersAre
<1>8. (X = x <=> bgpOn) /\ (Y = y <=> ospfOn)
  BY <1>2, <1>3, <1>4
<1>9. {t \in {x} : X = x} \cup {t \in {y} : Y = y} = {t \in {x} : bgpOn} \cup {t \in {y} : ospfOn}
  BY <1>8
<1>10. lines[1][2] = d
  BY <1>6, <1>7
<1> QED
  BY <1>7, <1>9, <1>10 DEF x, y, lines

(* Every neighbor, prefix and network belongs to its router. *)
LEMMA RoutingIs ==
    ASSUME NEW p, IsSections(p)
    PROVE  RoutingAsAsked(p, Frr(Compile(p)))
<1> DEFINE on == p.bgp.enabled
           also == p.ospf.enabled
           b == [asn |-> p.bgp.asn, router |-> p.bgp.router,
                 neighbors |-> p.bgp.neighbors, announce |-> p.bgp.announce]
           o == [router |-> p.ospf.router, areas |-> p.ospf.areas]
           d == {x \in {"bgpd", "ospfd"} : IF x = "bgpd" THEN on ELSE also}
           ir == Compile(p)
           lines == Frr(ir)
           x == BgpLines(b)
           y == OspfLines(o)
           routers == ToSet(Blocks(lines, "router"))
           bgp == UNION {ToSet(t) : t \in {s \in routers : s[1][2] = "bgp"}}
           ospf == UNION {ToSet(t) : t \in {s \in routers : s[1][2] = "ospf"}}
           nets == UNION {{<<"network", n, a.area>> : n \in a.networks} : a \in p.ospf.areas}
<1>1. /\ b.asn = p.bgp.asn /\ b.router = p.bgp.router
      /\ b.neighbors = p.bgp.neighbors /\ b.announce = p.bgp.announce
      /\ o.areas = p.ospf.areas
      /\ IsFiniteSet(b.neighbors) /\ IsFiniteSet(b.announce)
      /\ IsFiniteSet(o.areas) /\ \A a \in o.areas : IsFiniteSet(a.networks)
  BY DEF IsSections
<1>2. lines = FrrText(d, Optional(on, b), Optional(also, o))
  <2> DEFINE r == [bgp |-> Optional(on, b), ospf |-> Optional(also, o)]
  <2>1. ir.routing = Optional(on \/ also, r)
    BY DEF Compile, CompileRouting
  <2>2. r.bgp = Optional(on, b) /\ r.ospf = Optional(also, o)
    OBVIOUS
  <2> HIDE DEF r, ir, b, o
  <2>3. CASE on \/ also
    <3>1. ir.routing # {} /\ The(ir.routing) = r
      BY <2>1, <2>3 DEF Optional, The
    <3>2. (r.bgp # {} <=> on) /\ (r.ospf # {} <=> also)
      BY <2>2 DEF Optional
    <3>3. {z \in {"bgpd", "ospfd"} : IF z = "bgpd" THEN r.bgp # {} ELSE r.ospf # {}} = d
      BY <3>2
    <3> HIDE DEF d
    <3>4. lines = <<<<"daemons", d>>>> \o LinesOfSet(r.bgp, BgpLines)
                    \o LinesOfSet(r.ospf, OspfLines)
      BY <3>1, <3>3 DEF Frr
    <3> QED
      BY <2>2, <3>4 DEF FrrText
  <2>4. CASE ~ (on \/ also)
    <3>1. ir.routing = {}
      BY <2>1, <2>4 DEF Optional
    <3>2. lines = <<<<"daemons", {}>>>>
      BY <3>1 DEF Frr
    <3>3. d = {}
      BY <2>4
    <3> DEFINE D == <<"daemons", {}>>
    <3>4. Optional(on, b) = {} /\ Optional(also, o) = {}
      BY <2>4 DEF Optional
    <3>5. LinesOfSet({}, BgpLines) = <<>> /\ LinesOfSet({}, OspfLines) = <<>>
      <4>1. BgpTexts(<<>>) = <<>> /\ OspfTexts(<<>>) = <<>>
        BY DEF LineEach, BgpTexts, OspfTexts
      <4>2. /\ LinesOfSet({}, BgpLines) = FlattenSeq(BgpTexts(<<>>))
            /\ LinesOfSet({}, OspfLines) = FlattenSeq(OspfTexts(<<>>))
        BY SeqOfNone DEF LinesOfSet, Lines, LineEach, BgpTexts, OspfTexts
      <4> QED
        BY <4>1, <4>2, OneLine, FlattenOne
    <3>6. FrrText(d, Optional(on, b), Optional(also, o)) = Cat(Cat(<<D>>, <<>>), <<>>)
      BY <3>3, <3>4, <3>5 DEF FrrText, Cat
    <3>7. Cat(Cat(<<D>>, <<>>), <<>>) = <<D>>
      <4>1. IsText(<<D>>)
        BY OneLine
      <4> DEFINE s == <<D>>
      <4> HIDE DEF s
      <4>2. Cat(Cat(s, <<>>), <<>>) = s
        BY <4>1, JoinedEmpty DEF Cat, s
      <4> QED
        BY <4>2 DEF s
    <3> QED
      BY <3>2, <3>6, <3>7
  <2> QED
    BY <2>3, <2>4
<1> HIDE DEF b, o, d, lines
<1>3. /\ routers = {t \in {x} : on} \cup {t \in {y} : also}
      /\ lines[1][2] = d
  <2>1. on \in BOOLEAN /\ also \in BOOLEAN
    BY DEF IsSections
  <2> DEFINE other == FrrText(d, Optional(on, b), Optional(also, o))
  <2>2. /\ ToSet(Blocks(other, "router")) = {t \in {x} : on} \cup {t \in {y} : also}
        /\ other[1][2] = d
    <3>1. /\ IsFiniteSet(b.neighbors) /\ IsFiniteSet(b.announce)
          /\ IsFiniteSet(o.areas) /\ \A a \in o.areas : IsFiniteSet(a.networks)
      BY <1>1
    <3> HIDE DEF on, also
    <3> QED
      BY ONLY <2>1, <3>1, RoutersText
  <2>3. lines = other
    BY <1>2
  <2> HIDE DEF other, x, y
  <2> QED
    BY <2>2, <2>3
<1>4. /\ x[1][2] = "bgp"
      /\ ToSet(x) = {<<"router", "bgp", b.asn>>, <<"router-id", b.router>>}
                    \cup {Neighbor(n) : n \in b.neighbors}
                    \cup {Announce(a) : a \in b.announce}
  BY <1>1, BgpIs
<1>5. /\ y[1][2] = "ospf" /\ ToSet(y) # {}
      /\ {l \in ToSet(y) : l[1] = "network"} = nets
  <2>1. /\ y[1][2] = "ospf" /\ IsBlock(y, "router")
        /\ {l \in ToSet(y) : l[1] = "network"} = nets
    BY <1>1, OspfIs
  <2>2. y[1] \in ToSet(y)
    <3>1. IsText(y) /\ Len(y) >= 1
      BY <2>1 DEF IsBlock
    <3>2. Len(y) \in Nat /\ ToSet(y) = {y[i] : i \in 1..Len(y)}
      BY <3>1, TextIs
    <3>3. 1 \in 1..Len(y)
      BY <3>1, <3>2
    <3> HIDE DEF y
    <3> QED
      BY <3>2, <3>3
  <2> HIDE DEF y
  <2> QED
    BY <2>1, <2>2
<1> HIDE DEF x, y, routers, nets
<1>6. bgp = IF on THEN ToSet(x) ELSE {}
  <2>1. {s \in routers : s[1][2] = "bgp"} = IF on THEN {x} ELSE {}
    BY <1>3, <1>4, <1>5
  <2> QED
    BY <2>1
<1>7. ospf = IF also THEN ToSet(y) ELSE {}
  <2>1. {s \in routers : s[1][2] = "ospf"} = IF also THEN {y} ELSE {}
    BY <1>3, <1>4, <1>5
  <2> QED
    BY <2>1
<1> HIDE DEF bgp, ospf
<1>8. /\ "bgpd" \in ParseDaemons(lines) <=> on
      /\ "ospfd" \in ParseDaemons(lines) <=> also
  BY <1>3 DEF ParseDaemons, d
<1>9. (on <=> bgp # {}) /\ (also <=> ospf # {})
  BY <1>4, <1>5, <1>6, <1>7
<1>10. ASSUME on
       PROVE  /\ {<<l[2], l[3]>> : l \in {z \in bgp : z[1] = "neighbor"}}
                   = {<<n.address, n.asn>> : n \in p.bgp.neighbors}
              /\ {l[2] : l \in {z \in bgp : z[1] = "network"}} = p.bgp.announce
  <2>1. \A n : Neighbor(n)[1] = "neighbor" /\ Neighbor(n)[2] = n.address /\ Neighbor(n)[3] = n.asn
    BY DEF Neighbor
  <2>2. \A a : Announce(a)[1] = "network" /\ Announce(a)[2] = a
    BY DEF Announce
  <2>3. \A l \in ToSet(x) :
           \/ l[1] = "router" \/ l[1] = "router-id"
           \/ \E n \in b.neighbors : l = Neighbor(n)
           \/ \E a \in b.announce : l = Announce(a)
    BY <1>4
  <2>4. /\ \A n \in b.neighbors : Neighbor(n) \in ToSet(x)
        /\ \A a \in b.announce : Announce(a) \in ToSet(x)
    BY <1>4
  <2>5. bgp = ToSet(x)
    BY <1>6, <1>10
  <2>6. {z \in bgp : z[1] = "neighbor"} = {Neighbor(n) : n \in b.neighbors}
    BY <2>1, <2>2, <2>3, <2>4, <2>5
  <2>7. {z \in bgp : z[1] = "network"} = {Announce(a) : a \in b.announce}
    BY <2>1, <2>2, <2>3, <2>4, <2>5
  <2>8. {<<l[2], l[3]>> : l \in {Neighbor(n) : n \in b.neighbors}}
          = {<<n.address, n.asn>> : n \in b.neighbors}
    BY <2>1
  <2>9. {l[2] : l \in {Announce(a) : a \in b.announce}} = b.announce
    BY <2>2
  <2> QED
    BY <1>1, <2>6, <2>7, <2>8, <2>9
<1>11. ASSUME also
       PROVE  {<<l[2], l[3]>> : l \in {z \in ospf : z[1] = "network"}}
                = UNION {{<<n, a.area>> : n \in a.networks} : a \in p.ospf.areas}
  <2>1. {z \in ospf : z[1] = "network"} = nets
    BY <1>5, <1>7, <1>11
  <2>2. {<<l[2], l[3]>> : l \in nets}
          = UNION {{<<n, a.area>> : n \in a.networks} : a \in p.ospf.areas}
    <3> DEFINE pairs == UNION {{<<n, a.area>> : n \in a.networks} : a \in p.ospf.areas}
    <3>1. ASSUME NEW l \in nets PROVE <<l[2], l[3]>> \in pairs
      <4>1. PICK a \in p.ospf.areas : \E n \in a.networks : l = <<"network", n, a.area>>
        BY DEF nets
      <4>2. PICK n \in a.networks : l = <<"network", n, a.area>>
        BY <4>1
      <4>3. <<l[2], l[3]>> = <<n, a.area>>
        BY <4>2
      <4> QED
        BY <4>3
    <3>2. ASSUME NEW q \in pairs PROVE \E l \in nets : q = <<l[2], l[3]>>
      <4>1. PICK a \in p.ospf.areas : \E n \in a.networks : q = <<n, a.area>>
        OBVIOUS
      <4>2. PICK n \in a.networks : q = <<n, a.area>>
        BY <4>1
      <4> DEFINE l == <<"network", n, a.area>>
      <4>3. l[2] = n /\ l[3] = a.area
        OBVIOUS
      <4>4. l \in nets
        BY DEF nets
      <4> HIDE DEF l
      <4> QED
        BY <4>2, <4>3, <4>4
    <3> HIDE DEF pairs
    <3>3. {<<l[2], l[3]>> : l \in nets} = pairs
      BY <3>1, <3>2
    <3> QED
      BY <3>3 DEF pairs
  <2> QED
    BY <2>1, <2>2
<1> QED
  BY <1>8, <1>9, <1>10, <1>11 DEF RoutingAsAsked, bgp, ospf, routers, lines

-----------------------------------------------------------------------------
(* The tunnels of strongSwan and the secrets they need.                    *)
IncludeText(S) == LineOfEach(S, Include)

(* One line for each secrets file. *)
LEMMA IncludeLines ==
    ASSUME NEW S, IsFiniteSet(S)
    PROVE  IsText(IncludeText(S)) /\ ToSet(IncludeText(S)) = {Include(x) : x \in S}
<1> DEFINE t == IncludeText(S)
           s == SetToSeq(S)
           F == [x \in S |-> Include(x)]
<1>1. \A i \in DOMAIN s : s[i] \in S
  BY SeqOfSet
<1>2. t = [i \in DOMAIN s |-> F[s[i]]]
  <2>1. t = [i \in DOMAIN s |-> Include(s[i])]
    BY DEF IncludeText, LineOfEach, LineEach
  <2> HIDE DEF t, s
  <2> QED
    BY <1>1, <2>1
<1> HIDE DEF F, t
<1>3. IsText(t) /\ ToSet(t) = {F[x] : x \in S}
  BY <1>2, SetLines
<1>4. \A x \in S : F[x] = Include(x)
  BY DEF F
<1> QED
  BY <1>3, <1>4 DEF t

(* IncludedFiles, from the lines alone. *)
LEMMA IncludedIs ==
    ASSUME NEW lines, IsText(lines)
    PROVE  IncludedFiles(lines) = {l[2] : l \in {x \in ToSet(lines) : x[1] = "include"}}
<1>1. DOMAIN lines = 1..Len(lines) /\ ToSet(lines) = {lines[i] : i \in 1..Len(lines)}
  BY TextIs
<1> QED
  BY <1>1 DEF IncludedFiles

TunnelsText(tunnels) ==
    IF tunnels = <<>> THEN <<<<"mode", "disabled">>>>
    ELSE <<<<"mode", "enabled">>>> \o LineEach(tunnels, TunnelLine)
         \o IncludeText({tunnels[i].psk : i \in DOMAIN tunnels})

(* A connection for each tunnel, and the secrets of all. *)
LEMMA TunnelsLines ==
    ASSUME NEW s, IsText(s)
    PROVE  LET lines == TunnelsText(s)
           IN  /\ IsText(lines)
               /\ lines[1][2] = "enabled" <=> s # <<>>
               /\ {l \in ToSet(lines) : l[1] = "connection"}
                    = {TunnelLine(s[i]) : i \in DOMAIN s}
               /\ IncludedFiles(lines) = {s[i].psk : i \in DOMAIN s}
<1> DEFINE lines == TunnelsText(s)
           S == {s[i].psk : i \in DOMAIN s}
           T == {TunnelLine(s[i]) : i \in DOMAIN s}
           n == Len(s)
           off == <<"mode", "disabled">>
           on == <<"mode", "enabled">>
<1>1. n \in Nat /\ DOMAIN s = 1..n /\ (s = <<>> <=> n = 0)
  BY TextIs
<1>2. /\ off[1] = "mode" /\ off[2] = "disabled" /\ on[1] = "mode" /\ on[2] = "enabled"
      /\ \A t : TunnelLine(t)[1] = "connection"
      /\ \A x : Include(x)[1] = "include" /\ Include(x)[2] = x
  BY DEF TunnelLine, Include
<1>3. CASE s = <<>>
  <2>1. lines = <<off>>
    BY <1>3 DEF TunnelsText
  <2>2. IsText(<<off>>) /\ ToSet(<<off>>) = {off} /\ <<off>>[1] = off
    BY OneLine
  <2>3. S = {} /\ T = {}
    <3>1. DOMAIN s = {}
      BY <1>1, <1>3
    <3> QED
      BY <3>1
  <2> HIDE DEF lines, off, S, T
  <2>4. IncludedFiles(lines) = {l[2] : l \in {x \in {off} : x[1] = "include"}}
    BY <2>1, <2>2, IncludedIs
  <2>5. {x \in {off} : x[1] = "include"} = {} /\ {x \in {off} : x[1] = "connection"} = {}
    BY <1>2
  <2>6. IncludedFiles(lines) = S
    BY <2>3, <2>4, <2>5
  <2>7. {l \in ToSet(lines) : l[1] = "connection"} = T
    BY <2>1, <2>2, <2>3, <2>5
  <2>8. lines[1] = off
    BY <2>1, <2>2
  <2>9. IsText(lines)
    BY <2>1, <2>2
  <2> QED
    BY <1>2, <1>3, <2>6, <2>7, <2>8, <2>9 DEF lines, S, T
<1>4. CASE s # <<>>
  <2> DEFINE M == <<on>>
             A == LineEach(s, TunnelLine)
             B == IncludeText(S)
  <2>1. lines = Cat(Cat(M, A), B)
    BY <1>4 DEF TunnelsText, Cat
  <2>2. IsText(M) /\ Len(M) = 1 /\ M[1] = on /\ ToSet(M) = {on}
    BY OneLine
  <2>3. IsText(A) /\ ToSet(A) = T
    <3>1. A = [i \in 1..n |-> TunnelLine(s[i])]
      BY <1>1 DEF LineEach
    <3> HIDE DEF A
    <3>2. A = [i \in 1..n |-> A[i]]
      BY <3>1
    <3>3. IsText(A) /\ Len(A) = n
      BY <1>1, <3>2, TextOf
    <3>4. ToSet(A) = {A[i] : i \in 1..n}
      BY <3>3, TextIs
    <3>5. T = {TunnelLine(s[i]) : i \in 1..n}
      BY <1>1
    <3> HIDE DEF T
    <3> QED
      BY <3>1, <3>3, <3>4, <3>5
  <2>4. IsText(B) /\ ToSet(B) = {Include(x) : x \in S}
    <3>1. IsFiniteSet(S)
      <4> DEFINE f == [i \in 1..n |-> s[i].psk]
      <4>1. IsFiniteSet(1..n)
        BY <1>1, FS_Interval
      <4>2. f \in [1..n -> {f[i] : i \in 1..n}]
        OBVIOUS
      <4>3. S = {f[i] : i \in 1..n}
        BY <1>1
      <4> HIDE DEF f
      <4>4. IsFiniteSet({f[i] : i \in 1..n})
        <5> DEFINE V == {f[i] : i \in 1..n}
        <5>1. f \in Surjection(1..n, V)
          BY <4>2 DEF Surjection
        <5> HIDE DEF V
        <5>2. IsFiniteSet(V)
          BY <4>1, <5>1, FS_Surjection
        <5> QED
          BY <5>2 DEF V
      <4> HIDE DEF S
      <4> QED
        BY <4>3, <4>4
    <3> HIDE DEF S
    <3> QED
      BY <3>1, IncludeLines
  <2> HIDE DEF lines, M, A, B, on, off, S, T
  <2> DEFINE u == Cat(M, A)
  <2>5. IsText(u) /\ ToSet(u) = ToSet(M) \cup ToSet(A)
        /\ \A i \in 1..Len(M) : u[i] = M[i]
    BY <2>2, <2>3, CatIs
  <2>6. Len(u) = Len(M) + Len(A) /\ Len(A) \in Nat
    <3>1. Len(A) \in Nat
      BY <2>3, TextIs
    <3> QED
      BY <2>2, <2>3, <3>1, CatIs
  <2> HIDE DEF u
  <2>7. lines = Cat(u, B)
    BY <2>1 DEF u
  <2>8. IsText(lines) /\ ToSet(lines) = ToSet(u) \cup ToSet(B)
        /\ \A i \in 1..Len(u) : lines[i] = u[i]
    BY <2>4, <2>5, <2>7, CatIs
  <2>9. lines[1] = on
    <3>1. 1 \in 1..Len(u) /\ 1 \in 1..Len(M)
      BY <2>2, <2>6
    <3> QED
      BY <2>2, <2>5, <2>8, <3>1
  <2>10. ToSet(lines) = {on} \cup T \cup {Include(x) : x \in S}
    BY <2>2, <2>3, <2>4, <2>5, <2>8
  <2>11. \A l \in T : l[1] = "connection"
    BY <1>2 DEF T
  <2>12. {l \in ToSet(lines) : l[1] = "connection"} = T
    BY <1>2, <2>10, <2>11
  <2>13. {l \in ToSet(lines) : l[1] = "include"} = {Include(x) : x \in S}
    BY <1>2, <2>10, <2>11
  <2>14. IncludedFiles(lines) = {l[2] : l \in {Include(x) : x \in S}}
    BY <2>8, <2>13, IncludedIs
  <2>15. {l[2] : l \in {Include(x) : x \in S}} = S
    BY <1>2
  <2> QED
    BY <1>2, <1>4, <2>8, <2>9, <2>12, <2>14, <2>15 DEF lines, S, T
<1> QED
  BY <1>3, <1>4

(* What charon loads is what the policy asks. *)
LEMMA TunnelsAre ==
    ASSUME NEW p, IsSections(p)
    PROVE  TunnelsAsAsked(p, Strongswan(Compile(p)))
<1> DEFINE s == p.ipsec
           n == Len(s)
           cs == [i \in DOMAIN s |-> CompileTunnel(s[i])]
           ir == Compile(p)
           lines == Strongswan(ir)
           V == [name : STRING, local : STRING, remote : STRING,
                 lsub : SUBSET SUBSET Hosts, rsub : SUBSET SUBSET Hosts,
                 psk : STRING, initiate : BOOLEAN]
<1>1. s \in Seq(V)
  BY DEF IsSections
<1>2. n \in Nat /\ DOMAIN s = 1..n /\ (s = <<>> <=> n = 0) /\ ToSet(s) = {s[i] : i \in 1..n}
  <2>1. IsText(s)
    BY <1>1 DEF IsText
  <2> QED
    BY <2>1, TextIs
<1>3. /\ cs = [i \in 1..n |-> cs[i]]
      /\ \A i \in 1..n : /\ cs[i].name = s[i].name /\ cs[i].remote = s[i].remote
                         /\ cs[i].psk = s[i].psk
  BY <1>2 DEF CompileTunnel
<1> DEFINE v == [ipsec |-> cs, wireguard |-> [i \in DOMAIN p.wireguard |->
                                                CompileInterface(p.wireguard[i])]]
<1>4. ir.vpn = Optional(s # <<>> \/ p.wireguard # <<>>, v)
  BY DEF Compile, CompileVPN
<1>5. v.ipsec = cs
  OBVIOUS
<1> HIDE DEF cs, v, ir, s, n
<1>6. IsText(cs) /\ Len(cs) = n /\ DOMAIN cs = 1..n /\ (cs = <<>> <=> s = <<>>)
  <2>1. IsText(cs) /\ Len(cs) = n
    BY <1>2, <1>3, TextOf
  <2>2. cs = <<>> <=> Len(cs) = 0
    BY <2>1, TextIs
  <2>3. DOMAIN cs = 1..n
    BY <1>3
  <2> QED
    BY <1>2, <2>1, <2>2, <2>3
<1>7. (IF ir.vpn = {} THEN <<>> ELSE The(ir.vpn).ipsec) = cs
  <2>1. CASE s # <<>> \/ p.wireguard # <<>>
    <3>1. ir.vpn # {} /\ The(ir.vpn) = v
      BY <1>4, <2>1 DEF Optional, The
    <3> QED
      BY <1>5, <3>1
  <2>2. CASE ~ (s # <<>> \/ p.wireguard # <<>>)
    <3>1. ir.vpn = {} /\ cs = <<>>
      BY <1>4, <1>6, <2>2 DEF Optional
    <3> QED
      BY <3>1
  <2> QED
    BY <2>1, <2>2
<1>8. lines = TunnelsText(cs)
  BY <1>7 DEF Strongswan, TunnelsText, IncludeText, LineOfEach, LineEach
<1> HIDE DEF lines
<1>9. /\ IsText(lines)
      /\ lines[1][2] = "enabled" <=> cs # <<>>
      /\ {l \in ToSet(lines) : l[1] = "connection"} = {TunnelLine(cs[i]) : i \in 1..n}
      /\ IncludedFiles(lines) = {cs[i].psk : i \in 1..n}
  BY <1>6, <1>8, TunnelsLines
<1>10. {<<l[2], l[4]>> : l \in {TunnelLine(cs[i]) : i \in 1..n}}
         = {<<t.name, t.remote>> : t \in ToSet(s)}
  <2>1. \A i \in 1..n : /\ TunnelLine(cs[i])[2] = s[i].name
                        /\ TunnelLine(cs[i])[4] = s[i].remote
    BY <1>3 DEF TunnelLine
  <2>2. {<<l[2], l[4]>> : l \in {TunnelLine(cs[i]) : i \in 1..n}}
          = {<<s[i].name, s[i].remote>> : i \in 1..n}
    BY <2>1
  <2>3. {<<t.name, t.remote>> : t \in ToSet(s)} = {<<s[i].name, s[i].remote>> : i \in 1..n}
    BY <1>2
  <2> QED
    BY <2>2, <2>3
<1>11. {cs[i].psk : i \in 1..n} = {t.psk : t \in ToSet(s)}
  BY <1>2, <1>3
<1> QED
  BY <1>6, <1>9, <1>10, <1>11 DEF TunnelsAsAsked, lines, s, ir

-----------------------------------------------------------------------------
(* The static routes.                                                      *)

(* A text that is there or not. *)
LEMMA WhenText ==
    ASSUME NEW condition \in BOOLEAN, NEW x, NEW y
    PROVE  IsText(When(condition, <<x, y>>))
<1>1. IsText(<<x, y>>)
  <2>1. <<x, y>> \in Seq({x, y})
    OBVIOUS
  <2> QED
    BY <2>1 DEF IsText
<1> QED
  BY <1>1, OneLine, JoinedEmpty DEF When

(* The destination is the third word, whatever follows it. *)
LEMMA RouteDestIs ==
    ASSUME NEW r
    PROVE  RouteDest(RouteLine(r)) = r.dst
<1> DEFINE a == <<"route", "replace", r.dst>>
           v == When(r.via # Absent, <<"via", r.via>>)
           d == When(r.dev # Absent, <<"dev", r.dev>>)
           m == When(r.metric # 0, <<"metric", r.metric>>)
           av == Cat(a, v)
           avd == Cat(av, d)
           t == Cat(avd, m)
<1>1. IsText(a) /\ Len(a) = 3 /\ a[3] = r.dst
  <2>1. a \in Seq({"route", "replace", r.dst})
    OBVIOUS
  <2> QED
    BY <2>1 DEF IsText
<1>2. IsText(v) /\ IsText(d) /\ IsText(m)
  BY WhenText
<1>3. RouteLine(r) = t
  BY DEF RouteLine, Cat
<1> HIDE DEF a, v, d, m
<1>4. Len(v) \in Nat /\ Len(d) \in Nat
  BY <1>2, TextIs
<1>5. IsText(av) /\ Len(av) = 3 + Len(v) /\ av[3] = r.dst
  <2>1. IsText(av) /\ Len(av) = Len(a) + Len(v) /\ \A i \in 1..Len(a) : av[i] = a[i]
    BY <1>1, <1>2, CatIs
  <2>2. 3 \in 1..3
    OBVIOUS
  <2> HIDE DEF av
  <2> QED
    BY <1>1, <2>1, <2>2
<1> HIDE DEF av
<1>6. IsText(avd) /\ Len(avd) = 3 + Len(v) + Len(d) /\ avd[3] = r.dst
  <2>1. IsText(avd) /\ Len(avd) = Len(av) + Len(d) /\ \A i \in 1..Len(av) : avd[i] = av[i]
    BY <1>2, <1>5, CatIs
  <2>2. 3 \in 1..Len(av)
    BY <1>4, <1>5
  <2> HIDE DEF avd
  <2> QED
    BY <1>4, <1>5, <2>1, <2>2
<1> HIDE DEF avd
<1>7. t[3] = r.dst
  <2>1. \A i \in 1..Len(avd) : t[i] = avd[i]
    BY <1>2, <1>6, CatIs
  <2>2. 3 \in 1..Len(avd)
    BY <1>4, <1>6
  <2> HIDE DEF t
  <2> QED
    BY <1>6, <2>1, <2>2
<1> QED
  BY <1>3, <1>7 DEF RouteDest

(* There is a route for each destination that is asked for. *)
LEMMA RoutesAre ==
    ASSUME NEW p, IsSections(p)
    PROVE  {RouteDest(l) : l \in ToSet(Routes(Compile(p)))} = {r.dst : r \in ToSet(p.routes)}
<1> DEFINE s == p.routes
           n == Len(s)
           t == Routes(Compile(p))
<1>1. n \in Nat /\ DOMAIN s = 1..n /\ ToSet(s) = {s[i] : i \in 1..n}
  <2>1. IsText(s)
    BY DEF IsSections, IsText
  <2> QED
    BY <2>1, TextIs
<1>2. t = [i \in 1..n |-> RouteLine(s[i])]
  <2>1. Compile(p).routes = s
    BY DEF Compile
  <2> HIDE DEF s, n
  <2> QED
    BY <1>1, <2>1 DEF Routes, LineEach
<1> HIDE DEF s, n, t
<1>3. ToSet(t) = {RouteLine(s[i]) : i \in 1..n}
  BY <1>2 DEF ToSet
<1>4. \A i \in 1..n : RouteDest(RouteLine(s[i])) = s[i].dst
  BY RouteDestIs
<1>5. {RouteDest(l) : l \in ToSet(t)} = {s[i].dst : i \in 1..n}
  BY <1>3, <1>4
<1>6. {r.dst : r \in ToSet(s)} = {s[i].dst : i \in 1..n}
  BY <1>1
<1> QED
  BY <1>5, <1>6 DEF s, t

(* Every section, for every policy that is committed. *)
LEMMA SectionsAre ==
    ASSUME InForce, Loaded
    PROVE  SectionsAsAsked
<1> DEFINE p == policy
           got == ParseWireguard(Wireguard(Compile(p)))
<1>1. /\ IsFirewall(p) /\ IsSections(p) /\ Validate(p)
      /\ artifacts = RenderAll(p)
  BY ArtifactsAre
<1>2. /\ artifacts.suricata = Suricata(Compile(p)) /\ artifacts.vector = Vector(Compile(p))
      /\ artifacts.netdev = Netdev(Compile(p)) /\ artifacts.routes = Routes(Compile(p))
      /\ artifacts.frr = Frr(Compile(p)) /\ artifacts.strongswan = Strongswan(Compile(p))
      /\ artifacts.wireguard = Wireguard(Compile(p))
  BY <1>1 DEF RenderAll
<1> HIDE DEF p
<1>3. Suricata(Compile(p)).mode = IF p.ids.enabled THEN p.ids.mode ELSE "disabled"
  <2>1. /\ ~ p.ids.enabled => Suricata(Compile(p)).mode = "disabled"
        /\ p.ids.enabled /\ p.ids.mode = "detect" => Suricata(Compile(p)).mode = "detect"
        /\ p.ids.enabled /\ p.ids.mode = "prevent" => Suricata(Compile(p)).mode = "prevent"
        /\ p.ids.enabled => p.ids.mode \in {"detect", "prevent"}
    BY <1>1, SuricataIs
  <2> QED
    BY <2>1
<1>4. Vector(Compile(p)).mode = IF p.telemetry.enabled THEN "enabled" ELSE "disabled"
  <2> DEFINE t == [url |-> IF p.telemetry.url = Absent THEN ClickHouse ELSE p.telemetry.url,
                   database |-> IF p.telemetry.database = Absent THEN Database
                                ELSE p.telemetry.database]
  <2>1. Compile(p).telemetry = Optional(p.telemetry.enabled, t)
    BY DEF Compile, CompileTelemetry
  <2> HIDE DEF t
  <2>2. Compile(p).telemetry = {} <=> ~ p.telemetry.enabled
    BY <2>1 DEF Optional
  <2> QED
    BY <2>2 DEF Vector
<1>5. {RouteDest(l) : l \in ToSet(Routes(Compile(p)))} = {r.dst : r \in ToSet(p.routes)}
  BY <1>1, RoutesAre
<1>6. MtusAsAsked(p, Netdev(Compile(p)))
  BY <1>1, LinksAsAsked
<1>7. /\ Len(got) = Len(p.wireguard)
      /\ \A i \in DOMAIN got : InterfaceAsAsked(p.wireguard[i], got[i])
  BY <1>1, WireguardIs
<1>8. RoutingAsAsked(p, Frr(Compile(p)))
  BY <1>1, RoutingIs DEF IsSections
<1>9. TunnelsAsAsked(p, Strongswan(Compile(p)))
  BY <1>1, TunnelsAre
<1>10. p = policy
  BY DEF p
<1> QED
  BY <1>2, <1>3, <1>4, <1>5, <1>6, <1>7, <1>8, <1>9, <1>10 DEF SectionsAsAsked

(* What each engine reads back from its artifact is what the policy says.  *)
THEOREM SectionsAlwaysAsked == Spec => []SectionsAsAsked
<1>1. ForceInv => SectionsAsAsked
  <2>1. ~ Loaded => SectionsAsAsked
    BY DEF SectionsAsAsked
  <2> QED
    BY <2>1, SectionsAre DEF ForceInv
<1> QED
  BY <1>1, ForceInvariant, PTL
=============================================================================
