CONSTANTS
    Configs <- MCConfigs
    NoRouting <- MCNoRouting
    Found = "found"
    FoundLines <- MCFoundLines
    FoundDaemons <- MCFoundDaemons
    Policies <- MCPolicies
    NoTunnels = "none"
    NoFile = "absent"
    Cut = "cut"
    Faults = {"reload", "write", "kill", "restart"}
SPECIFICATION Spec
INVARIANTS ServiceInv RoutingInForce LeftAlone PeeringTornDown TunnelsInForce NoTunnelsNoTrace
