CONSTANTS
    Hosts <- MCHosts
    Family <- MCFamily
    Ifaces = {"lan", "wan"}
    AnyRef = "any"
    Absent = "absent"
    MaxPort = 3
    WellFormed <- MCWellFormed
    Rfc1918 <- MCRfc1918
    LocalRules = "local.rules"
    ClickHouse = "localhost"
    Database = "openngfw"
    LogDir = "log"
    RulesDir = "rules"
    Policies <- MCPolicies
    Flows <- MCFlows
    Route <- MCRoute
    Local = "local"
    Listed = {"b4", "s4"}
    None = None
    MaxConns = 1
SPECIFICATION Spec
INVARIANT EvaluatedAfterInspection
