---------------------------- MODULE MCNodeEngines ----------------------------
(***************************************************************************)
(* A small node: a NIC and a tunnel, two destinations, policies that route *)
(* over the one and the other, with and without metrics, that set MTUs,    *)
(* and that name a NIC which is not plugged in.                            *)
(***************************************************************************)
EXTENDS NodeEngines

CONSTANTS d1, d2, eth0, wg0

MCDests == {d1, d2}
MCLinks == {eth0, wg0}
MCNics == {eth0}
MCMetrics == {0, 5}
MCMissing == {"ghost"}

Line(d, m, l) == [dest |-> d, metric |-> m, dev |-> l]
Mtu(l) == [dev |-> l, mtu |-> "jumbo"]
Policy(r, w, m) == [routes |-> r, wg |-> w, mtus |-> m]

MCEmpty == Policy(<<>>, {}, <<>>)

One == <<Line(d1, 0, eth0)>>
Two == <<Line(d1, 0, eth0), Line(d2, 0, eth0)>>
Mixed == <<Line(d2, 0, wg0), Line(d1, 0, eth0)>>
Tunnelled == <<Line(d1, 0, wg0)>>
Twice == <<Line(d1, 0, eth0), Line(d1, 0, eth0)>>
Metered == <<Line(d1, 0, eth0), Line(d1, 5, eth0)>>

MCPolicies ==
    {MCEmpty,
     Policy(One, {}, <<>>), Policy(Two, {}, <<>>), Policy(Metered, {}, <<>>),
     Policy(<<>>, {wg0}, <<Mtu(wg0)>>),
     Policy(Tunnelled, {wg0}, <<>>), Policy(Mixed, {wg0}, <<Mtu(eth0)>>),
     Policy(Tunnelled, {}, <<>>),
     Policy(Two, {}, <<Mtu(eth0), Mtu("ghost")>>),
     Policy(<<>>, {}, <<Mtu("ghost")>>),
     Policy(Twice, {}, <<>>), Policy(<<>>, {}, <<Mtu(wg0)>>)}

MCConfigs == {p.routes : p \in MCPolicies}
=============================================================================
