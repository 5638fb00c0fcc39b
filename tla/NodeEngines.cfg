CONSTANTS
    d1 = d1
    d2 = d2
    eth0 = eth0
    wg0 = wg0
    Dests <- MCDests
    Metrics <- MCMetrics
    Links <- MCLinks
    Nics <- MCNics
    Absent = Absent
    Configs <- MCConfigs
    Policies <- MCPolicies
    Missing <- MCMissing
    Empty <- MCEmpty
    Nothing = Nothing
    Usual = "usual"
    Mtus = {"jumbo"}
    Faults = {"refuse", "kill", "write"}
    Events = {"crash", "reboot", "flap", "store"}
SPECIFICATION Spec
INVARIANTS NodeInv AskedInForce NodeFollowsRunning DeletesWork RestartRecovers
