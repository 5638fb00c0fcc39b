CONSTANTS
    Policies = {p0, p1}
    EmptyPolicy = p0
    Invalid = {}
    Unrenderable = {}
    None = None
    Untouched = Untouched
    Torn = Torn
    Free = Free
    Clients = {c1}
    NumEngines = 3
    AtomicEngines <- Nftables
    ExecEngines <- Nftables
    ProcEngines <- Suricata
    ServiceEngines <- Frr
    Faults = {"validate", "apply", "torn", "restore", "ctx", "store", "crash", "reboot"}
    MaxVersions = 2
    MaxAudit = 4
SPECIFICATION Spec
INVARIANTS TypeOK CoverInv NoSilentDivergence
PROPERTY HistorySpec
