CONSTANTS
    wg0 = wg0
    wg1 = wg1
    a1 = a1
    a2 = a2
    k1 = k1
    k2 = k2
    Names <- MCNames
    Addresses <- MCAddresses
    Peers <- MCPeers
    Foreign <- Other
    Configs <- MCConfigs
    Faults = {"cmd", "kill", "write"}
SPECIFICATION Spec
INVARIANTS WireguardInv KernelMatches
