--------------------------- MODULE MCServiceEngines ---------------------------
(***************************************************************************)
(* Policies with bgpd or with both daemons, two that differ only in        *)
(* frr.conf, with one of two tunnels or none, on a host where FRR was      *)
(* there before, with ospfd enabled.                                       *)
(***************************************************************************)
EXTENDS ServiceEngines

MCNoRouting == [daemons |-> {}, conf |-> "none"]
Bgp == [daemons |-> {"bgpd"}, conf |-> "bgp"]
Bgp2 == [daemons |-> {"bgpd"}, conf |-> "bgp2"]
Both == [daemons |-> {"bgpd", "ospfd"}, conf |-> "both"]

Policy(f, s) == [frr |-> f, ipsec |-> s]

MCPolicies ==
    {Policy(MCNoRouting, "none"), Policy(Bgp, "none"), Policy(Bgp2, "one"),
     Policy(Both, "two"), Policy(MCNoRouting, "one")}

MCConfigs == {p.frr : p \in MCPolicies}

MCFoundLines == {"bgpd", "ospfd"}
MCFoundDaemons == {"ospfd"}
=============================================================================
