CONSTANTS
    Policies = {p0, p1, p2, p3}
    EmptyPolicy = p0
    Invalid = {p2}
    Unrenderable = {p3}
    None = None
    Untouched = Untouched
    Torn = Torn
    Free = Free
    Clients = {c1, c2}
    NumEngines = 3
    AtomicEngines <- Nftables
    ExecEngines <- Nftables
    ProcEngines <- Suricata
    ServiceEngines <- Frr
    Faults = {"validate", "apply"}
    MaxVersions = 2
    MaxAudit = 4
SPECIFICATION Spec
SYMMETRY Symmetry
INVARIANT OnlyAccepted
PROPERTIES AtomicSpec
