------------------------------ MODULE ApiServer ------------------------------
(***************************************************************************)
(* The API as clients meet it: the gRPC services that controld registers   *)
(* (cmd/controld/main.go), the interceptor in front of them that           *)
(* authenticates and authorizes (internal/authz/authz.go), and the REST    *)
(* gateway, which dials the gRPC endpoint like any client and forwards the *)
(* Authorization header; ngfwctl (internal/cli) sends one RPC per command  *)
(* with its --token.  ListAlerts and ListFlows read the EVE file           *)
(* (EveReader); the commit path behind the other handlers is the subject   *)
(* of PolicyServer and IntelUpdater, and only whether it changes something *)
(* and whom it audits is kept here.                                        *)
(***************************************************************************)
EXTENDS EveReader

CONSTANTS
    Tokens,     \* tokens clients present
    Short,      \* the tokens of less than 16 characters
    NoToken,    \* no bearer token in the request
    UserFiles,  \* contents of the users file over time:
                \*   [private : BOOLEAN, users : Seq([name, token, role])]
    Off         \* no --users-file: every caller is "local"

Roles == {"viewer", "operator", "admin"}

Rank == [viewer |-> 1, operator |-> 2, admin |-> 3]

ASSUME ApiAssumption ==
    /\ Short \subseteq Tokens /\ NoToken \notin Tokens
    /\ \A f \in UserFiles : \A i \in DOMAIN f.users : f.users[i].token \in Tokens

VARIABLES
    usersFile,  \* the file on disk, or Off
    auth,       \* Authenticator.users, the table of the running daemon
    up,         \* the daemon serves
    changes,    \* parity of the changes made to candidate, versions or sets
    entry,      \* actor of the last audit entry
    caller      \* history variable: token of the last request

apiVars == <<usersFile, auth, up, changes, entry, caller>>
vars == <<apiVars, eveVars>>

-----------------------------------------------------------------------------
(* The services: the methods that gRPC dispatches to. *)
PolicyService == {"GetPolicy", "SetCandidate", "Validate", "Commit", "Rollback",
                  "ListVersions", "ListAuditEntries"}
IntelService == {"ListFeeds", "RefreshFeeds"}
AlertService == {"ListAlerts"}
FlowService == {"ListFlows"}
SystemService == {"GetVersion"}

Rpcs == PolicyService \cup IntelService \cup AlertService \cup FlowService
        \cup SystemService

(* The REST gateway: verb and path of each method. *)
Rest(verb, path, rpc) == [verb |-> verb, path |-> path, rpc |-> rpc]

PolicyRoutes ==
    {Rest("GET", "policy", "GetPolicy"), Rest("PUT", "candidate", "SetCandidate"),
     Rest("POST", "candidate/validate", "Validate"), Rest("POST", "commit", "Commit"),
     Rest("POST", "rollback", "Rollback"), Rest("GET", "versions", "ListVersions"),
     Rest("GET", "audit", "ListAuditEntries")}
IntelRoutes == {Rest("GET", "intel/feeds", "ListFeeds"),
                Rest("POST", "intel/refresh", "RefreshFeeds")}
AlertRoutes == {Rest("GET", "alerts", "ListAlerts")}
FlowRoutes == {Rest("GET", "flows", "ListFlows")}
SystemRoutes == {Rest("GET", "system/version", "GetVersion")}

RestRoutes == PolicyRoutes \cup IntelRoutes \cup AlertRoutes \cup FlowRoutes
              \cup SystemRoutes

(* The commands of ngfwctl, "a thin client of the canonical gRPC API". *)
Command(words, rpc) == [words |-> words, rpc |-> rpc]

PolicyCommands == {Command("policy set", "SetCandidate"), Command("policy show", "GetPolicy"),
                   Command("policy validate", "Validate")}
LifecycleCommands == {Command("commit", "Commit"), Command("rollback", "Rollback"),
                      Command("versions", "ListVersions"), Command("audit", "ListAuditEntries")}
IntelCommands == {Command("intel feeds", "ListFeeds"), Command("intel refresh", "RefreshFeeds"),
                  Command("flows", "ListFlows")}
AlertCommands == {Command("alerts", "ListAlerts")}
VersionCommands == {Command("version --remote", "GetVersion")}

Commands == PolicyCommands \cup LifecycleCommands \cup IntelCommands \cup AlertCommands
            \cup VersionCommands

(* The request message that a handler sees: a body that cannot be decoded  *)
(* is answered by the gateway, an absent one is the empty message.         *)
Bodies == {"good", "empty", "bad"}

Mutating == {"SetCandidate", "Commit", "Rollback"}

BodiesOf(rpc) ==
    IF rpc \in Mutating THEN Bodies ELSE {"empty"}

-----------------------------------------------------------------------------
(* authz.Load: any user at fault refuses the whole file. *)
Loads(f) ==
    /\ f.private
    /\ f.users # <<>>
    /\ \A i \in DOMAIN f.users :
          /\ f.users[i].name # ""
          /\ f.users[i].token \notin Short
          /\ f.users[i].role \in Roles
          /\ \A j \in 1..(i - 1) : f.users[j].token # f.users[i].token

Table(f) == [t \in {f.users[i].token : i \in DOMAIN f.users} |->
               LET i == CHOOSE j \in DOMAIN f.users : f.users[j].token = t
               IN  [name |-> f.users[i].name, role |-> f.users[i].role]]

(* Off is no table. *)
ASSUME OffAssumption == \A f \in UserFiles : Loads(f) => Table(f) # Off

MinRole(rpc) ==
    IF rpc \in {"SetCandidate", "Validate", "Commit", "Rollback", "RefreshFeeds"}
    THEN "operator" ELSE "viewer"

(* UnaryInterceptor, and the dispatch without one. *)
Admission(token, rpc) ==
    IF auth = Off THEN "ok"
    ELSE IF token \notin DOMAIN auth THEN "Unauthenticated"
    ELSE IF Rank[auth[token].role] < Rank[MinRole(rpc)] THEN "PermissionDenied"
    ELSE "ok"

Actor(token) == IF auth = Off THEN "local" ELSE auth[token].name

-----------------------------------------------------------------------------
(* Handlers, by what they change and audit. *)

(* SetCandidate: a request without a policy is refused.  Commit, Rollback: *)
(* a failure of apply is audited as well.  Whatever was done, the write of *)
(* its audit entry may fail.  RefreshFeeds changes the sets and is not     *)
(* audited; the others only read.                                          *)
Handle(rpc, actor, body) ==
    \/ /\ rpc \in Mutating
       /\ rpc = "SetCandidate" => body = "good"
       /\ changes' \in {changes, 1 - changes}
       /\ entry' \in IF rpc = "SetCandidate" /\ changes' = changes THEN {entry}
                     ELSE {entry, actor}
    \/ /\ rpc = "RefreshFeeds"
       /\ changes' \in {changes, 1 - changes}
       /\ UNCHANGED entry
    \/ /\ rpc = "SetCandidate" => body # "good"
       /\ rpc \notin {"Commit", "Rollback", "RefreshFeeds"}
       /\ UNCHANGED <<changes, entry>>

ReadsEve == [ListAlerts |-> "alert", ListFlows |-> "flow"]

(* Dispatch of one request that was admitted. *)
Call(rpc, actor, body) ==
    IF rpc \in DOMAIN ReadsEve
    THEN (\E l \in Limits : Begin(ReadsEve[rpc], l)) /\ UNCHANGED <<changes, entry>>
    ELSE Handle(rpc, actor, body) /\ UNCHANGED eveVars

Rejected == UNCHANGED <<changes, entry, eveVars>>

Grpc(rpc, token, body) ==
    /\ up
    /\ caller' = token
    /\ IF Admission(token, rpc) = "ok" THEN Call(rpc, Actor(token), body) ELSE Rejected
    /\ UNCHANGED <<usersFile, auth, up>>

(* Variant: the gateway calls the server in its own process, where no      *)
(* interceptor runs.                                                       *)
GatewayLocal(route, token, body) ==
    /\ up
    /\ body # "bad"
    /\ caller' = token
    /\ Call(route.rpc, "local", body)
    /\ UNCHANGED <<usersFile, auth, up>>

(* The gateway decodes the request and is a client of the gRPC server.     *)
Gateway(route, token, body) ==
    IF body = "bad"
    THEN /\ up
         /\ caller' = token
         /\ Rejected
         /\ UNCHANGED <<usersFile, auth, up>>
    ELSE Grpc(route.rpc, token, body)

(* ngfwctl decodes its argument or file itself and sends nothing that it   *)
(* cannot decode; a policy file it can decode is never an absent policy.   *)
Cli(command, token, body) ==
    /\ body # "bad"
    /\ command.rpc = "SetCandidate" => body = "good"
    /\ Grpc(command.rpc, token, body)

-----------------------------------------------------------------------------
Init ==
    /\ EveInit
    /\ usersFile \in UserFiles \cup {Off}
    /\ auth = Off
    /\ up = FALSE
    /\ changes = 0
    /\ entry = "nobody"
    /\ caller = NoToken

(* run: the users file is read once, and one that does not load ends it.   *)
Start ==
    /\ ~ up
    /\ up' = (usersFile = Off \/ Loads(usersFile))
    /\ auth' = IF usersFile # Off /\ Loads(usersFile) THEN Table(usersFile) ELSE Off
    /\ UNCHANGED <<usersFile, changes, entry, caller, eveVars>>

(* A graceful stop waits for requests. *)
Stop ==
    /\ up
    /\ reader = "idle"
    /\ up' = FALSE
    /\ auth' = Off
    /\ UNCHANGED <<usersFile, changes, entry, caller, eveVars>>

EditUsers ==
    /\ usersFile # Off
    /\ usersFile' \in UserFiles
    /\ UNCHANGED <<auth, up, changes, entry, caller, eveVars>>

(* A read of the EVE file has nothing in common with the other handlers:   *)
(* no other request is followed while one is under way.                    *)
Requests ==
    /\ reader = "idle"
    /\ \E token \in Tokens \cup {NoToken} :
          \/ \E rpc \in Rpcs : \E body \in BodiesOf(rpc) \ {"bad"} : Grpc(rpc, token, body)
          \/ \E route \in RestRoutes : \E body \in BodiesOf(route.rpc) : Gateway(route, token, body)
          \/ \E command \in Commands : \E body \in BodiesOf(command.rpc) : Cli(command, token, body)

Next ==
    \/ Start \/ Stop \/ EditUsers \/ Requests
    \/ (Suricata \/ EveStep \/ Answered) /\ UNCHANGED apiVars

Spec == Init /\ [][Next]_vars

-----------------------------------------------------------------------------
(* Properties *)

TypeOK ==
    /\ EveTypeOK
    /\ usersFile \in UserFiles \cup {Off}
    /\ auth # Off => \E f \in UserFiles : Loads(f) /\ auth = Table(f)
    /\ up \in BOOLEAN
    /\ changes \in {0, 1}
    /\ entry \in {"nobody", "local"}
                 \cup UNION {{f.users[i].name : i \in DOMAIN f.users} : f \in UserFiles}
    /\ caller \in Tokens \cup {NoToken}

(* "viewer: read-only RPCs; operator: viewer + candidate/commit/rollback + *)
(* intel refresh" (authz) and "RBAC enforced over gRPC and REST; audit     *)
(* records actors" (testing plan): when the daemon is given a users file   *)
(* nothing changes but for a caller who was an operator or an admin in the *)
(* file as it was when the daemon last started, by every way in, whatever  *)
(* became of the file since; a file that does not load opens nothing; and  *)
(* an audit entry has the name that file gives the caller's token.         *)
ChangesAuthorized ==
    [][/\ changes' # changes /\ usersFile # Off =>
             /\ auth # Off
             /\ caller' \in DOMAIN auth
             /\ auth[caller'].role \in {"operator", "admin"}
       /\ entry' # entry =>
             entry' = IF auth = Off THEN "local" ELSE auth[caller'].name]_vars
=============================================================================
