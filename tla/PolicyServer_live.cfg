CONSTANTS
    Policies = {p0}
    EmptyPolicy = p0
    Invalid = {}
    Unrenderable = {}
    None = None
    Untouched = Untouched
    Torn = Torn
    Free = Free
    Clients = {c1, c2}
    NumEngines = 2
    AtomicEngines <- Nftables
    ExecEngines <- Nftables
    ProcEngines <- Suricata
    ServiceEngines <- NoEngines
    Faults = {"ctx", "audit", "apply", "crash"}
    MaxVersions = 1
    MaxAudit = 2
SPECIFICATION FairSpec
INVARIANT AckedIsAudited
PROPERTIES Answered ServesAgain
