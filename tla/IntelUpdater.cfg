CONSTANTS
    p0 = p0
    p1 = p1
    p2 = p2
    f1 = f1
    f2 = f2
    Policies <- MCPolicies
    EmptyPolicy = p0
    Invalid = {}
    Unrenderable = {}
    None = None
    Untouched = Untouched
    Torn = Torn
    Free = Free
    Clients = {c1}
    NumEngines = 2
    AtomicEngines <- NftOnly
    ExecEngines <- NftOnly
    ProcEngines <- NoEngines
    ServiceEngines <- NoEngines
    Faults = {"apply", "audit", "crash"}
    MaxVersions = 2
    MaxAudit = 4
    Nft = 1
    Feeds <- MCFeeds
    FeedsOf <- MCFeedsOf
    Loop = loop
    Callers = {r1}
    IntelFaults = {"feed", "program"}
    MaxFaults = 1
SPECIFICATION IntelFairSpec
INVARIANTS IntelInv RefreshPending
PROPERTY SetsRecover
