----------------------------- MODULE NodeEngines -----------------------------
(***************************************************************************)
(* The engines that share the node's links, under the supervisor: static   *)
(* routes (internal/engines/routes.go, line by line in RoutesEngine),      *)
(* WireGuard tunnels (wireguard.go, one step here, in detail in            *)
(* WireguardEngine) and link settings (netdev.go).  main.go orders them    *)
(* routes, wireguard, netdev; Supervisor.Apply (engine.go) restores in     *)
(* reverse the engines before one that failed, and not the one that        *)
(* failed.                                                                 *)
(*                                                                         *)
(* They meet in the kernel: a route over a tunnel needs the tunnel, and    *)
(* goes when it goes; an MTU goes with its link.  A reboot loses what the  *)
(* kernel holds and keeps the state files and the store; the daemon then   *)
(* applies the running policy with nothing to restore (main.go).           *)
(***************************************************************************)
EXTENDS RoutesEngine

CONSTANTS
    Nics,       \* links that are there without OpenNGFW
    Missing,    \* names of interfaces that the node does not have
    Policies,   \* the routes, tunnels and MTUs an operator may ask for
    Empty,      \* the policy of a node without a version
    Usual,      \* the MTU of a link nobody changed
    Mtus,       \* the MTUs policies ask for
    Nothing,    \* no artifacts to go back to
    Events      \* "crash", "reboot"; "flap": a NIC goes down and comes up;
                \* "store": CommitVersion may fail

Tunnels == Links \ Nics

ASSUME NodeAssumption ==
    /\ Nics \subseteq Links
    /\ Missing \cap Links = {}
    /\ Policies \subseteq
          [routes : Configs, wg : SUBSET Tunnels,
           mtus : Seq([dev : Links \cup Missing, mtu : Mtus])]
    /\ Empty = [routes |-> <<>>, wg |-> {}, mtus |-> <<>>]
    /\ Empty \in Policies /\ Nothing \notin Policies
    /\ Events \subseteq {"crash", "reboot", "flap", "store"}

VARIABLES
    wgState,    \* wireguard.state, the tunnels recorded last
    mtu,        \* the MTU of each link
    running,    \* the running policy of the store
    version,    \* there is a committed version
    mode,       \* where Supervisor.Apply is; "down": no daemon runs
    pos,        \* the engine it handles; "call": the routes engine is next
    next,       \* its argument next
    prev,       \* its argument prev: running, or nothing at start
    at,         \* the setting the netdev engine makes next
    outcome,    \* how the last Apply ended: "ok"; the engine that failed
                \* when no fault struck in it; or "struck"
    cut,        \* history variable: since the routes engine last went
                \* through it was cut short, or routes were lost while
                \* routes.state did not hold those of the running policy
    dropped     \* history variable: since then routes were lost

vars == <<routesVars, wgState, mtu, running, version, mode, pos, next, prev,
          at, outcome, cut, dropped>>

TypeOK ==
    /\ RoutesTypeOK
    /\ wgState \in SUBSET Tunnels
    /\ mtu \in [Links -> Mtus \cup {Usual}]
    /\ running \in Policies
    /\ version \in BOOLEAN
    /\ mode \in {"down", "idle", "apply", "restore", "record"}
    /\ pos \in {"call", "routes", "wireguard", "netdev"}
    /\ next \in Policies
    /\ prev \in Policies \cup {Nothing}
    /\ at \in 1..(Len(next.mtus) + 1)
    /\ outcome \in {"none", "ok", "routes", "netdev", "struck"}
    /\ cut \in BOOLEAN /\ dropped \in BOOLEAN
    /\ \A l \in Links \ links : mtu[l] = Usual

Init ==
    /\ RoutesInit
    /\ links = Nics
    /\ wgState = {}
    /\ mtu = [l \in Links |-> Usual]
    /\ running = Empty
    /\ version = FALSE
    /\ mode = "down"
    /\ pos = "call"
    /\ next = Empty
    /\ prev = Nothing
    /\ at = 1
    /\ outcome = "none"
    /\ cut = FALSE /\ dropped = FALSE

-----------------------------------------------------------------------------
(* The links, and what goes with one that goes. *)
LinksChange(up) ==
    /\ LinksBecome(up)
    /\ mtu' = [l \in Links |-> IF l \in up THEN mtu[l] ELSE Usual]

LosesRoutes(up) == Lost(up) # {}

(* Supervisor.Apply is over. *)
Return(m, how) ==
    /\ mode' = m
    /\ pos' = "call"
    /\ next' = Empty
    /\ prev' = Nothing
    /\ at' = 1
    /\ outcome' = how

Ended == IF prev = Nothing THEN "down" ELSE "idle"

(* The call: by a commit, with the running policy to go back to ...        *)
Begin(p, old) ==
    /\ mode' = "apply"
    /\ pos' = "call"
    /\ next' = p
    /\ prev' = old
    /\ outcome' = "none"
    /\ UNCHANGED <<routesVars, wgState, mtu, running, version, at, cut, dropped>>

Commit(p) == mode = "idle" /\ Begin(p, running)

(* ... or at start, when there is a version, with nothing. *)
Start ==
    /\ mode = "down"
    /\ IF version THEN Begin(running, Nothing)
       ELSE /\ mode' = "idle"
            /\ UNCHANGED <<routesVars, wgState, mtu, running, version, pos,
                           next, prev, at, outcome, cut, dropped>>

Target == IF mode = "restore" THEN prev ELSE next

-----------------------------------------------------------------------------
(* routes *)

CallRoutes ==
    /\ mode \in {"apply", "restore"}
    /\ pos = "call"
    /\ Apply(Target.routes)
    /\ pos' = "routes"
    /\ UNCHANGED <<wgState, mtu, running, version, mode, next, prev, at,
                   outcome, cut, dropped>>

(* A fault is told from a refusal of the kernel's own. *)
RoutesStep ==
    /\ pos = "routes"
    /\ BatchLine \/ BatchFail \/ WriteState
    /\ outcome' = IF result' = "error" /\ \A s \in Upcoming : Accepts(s)
                  THEN "struck" ELSE outcome
    /\ cut' = (result' # "ok" /\ (cut \/ outcome' = "struck"))
    /\ dropped' = (result' # "ok" /\ dropped)
    /\ UNCHANGED <<wgState, mtu, running, version, mode, pos, next, prev, at>>

(* It is the first engine: when it fails nothing was applied before it,    *)
(* and when it is restored nothing is left to restore.                     *)
RoutesDone ==
    /\ pos = "routes"
    /\ pc = "idle"
    /\ IF result = "ok" /\ mode = "apply"
       THEN /\ pos' = "wireguard"
            /\ UNCHANGED <<mode, next, prev, at, outcome>>
       ELSE Return(Ended, IF outcome = "none" THEN "routes" ELSE outcome)
    /\ UNCHANGED <<routesVars, wgState, mtu, running, version, cut, dropped>>

-----------------------------------------------------------------------------
(* wireguard: create what the policy has, delete what is recorded and left *)
(* it, record.                                                             *)
Wanted(old, t) == (links \cup t) \ (old \ t)

(* Variant: the restore loop stops before the first engine. *)
WireguardOnly ==
    /\ pos = "wireguard"
    /\ LinksChange(Wanted(wgState, Target.wg))
    /\ wgState' = Target.wg
    /\ clean' = (clean /\ ~ LosesRoutes(links'))
    /\ IF mode = "apply"
       THEN pos' = "netdev" /\ UNCHANGED <<mode, next, prev, at, outcome>>
       ELSE Return("idle", outcome)
    /\ UNCHANGED <<state, pc, config, adds, dels, result, running, version, cut, dropped>>

Wireguard ==
    /\ pos = "wireguard"
    /\ LinksChange(Wanted(wgState, Target.wg))
    /\ wgState' = Target.wg
    /\ clean' = (clean /\ ~ LosesRoutes(links'))
    /\ cut' = (cut \/ (LosesRoutes(links') /\ state # running.routes))
    /\ dropped' = (dropped \/ LosesRoutes(links'))
    /\ pos' = IF mode = "apply" THEN "netdev" ELSE "call"
    /\ UNCHANGED <<state, pc, config, adds, dels, result, running, version, mode,
                   next, prev, at, outcome>>

(* It fails, or an engine between routes and wireguard does, with a part   *)
(* of the work done.  When it was being restored the loop goes on.         *)
WireguardFail ==
    /\ pos = "wireguard"
    /\ Faults \cap {"refuse", "kill"} # {}
    /\ \E up \in {links, links \cup Target.wg, Wanted(wgState, Target.wg)} :
          LinksChange(up)
    /\ wgState' \in {wgState, {}}
    /\ clean' = FALSE
    /\ cut' = (cut \/ (LosesRoutes(links') /\ state # running.routes))
    /\ dropped' = (dropped \/ LosesRoutes(links'))
    /\ IF prev = Nothing THEN Return("down", "struck")
       ELSE mode' = "restore" /\ pos' = "call" /\ outcome' = "struck"
            /\ UNCHANGED <<next, prev, at>>
    /\ UNCHANGED <<state, pc, config, adds, dels, result, running, version>>

-----------------------------------------------------------------------------
(* netdev: one setting after the other. *)
Setting == next.mtus[at]

NetdevLine ==
    /\ pos = "netdev"
    /\ at <= Len(next.mtus)
    /\ Setting.dev \in links
    /\ mtu' = [mtu EXCEPT ![Setting.dev] = Setting.mtu]
    /\ at' = at + 1
    /\ UNCHANGED <<routesVars, wgState, running, version, mode, pos, next, prev,
                   outcome, cut, dropped>>

(* A link that is not there, or a fault: the engines before this one are   *)
(* restored.                                                               *)
NetdevFail ==
    /\ pos = "netdev"
    /\ at <= Len(next.mtus)
    /\ LET own == Setting.dev \notin links
           how == IF own THEN "netdev" ELSE "struck"
       IN  /\ own \/ Faults \cap {"refuse", "kill"} # {}
           /\ IF prev = Nothing THEN Return("down", how)
              ELSE mode' = "restore" /\ pos' = "wireguard" /\ at' = 1
                   /\ outcome' = how /\ UNCHANGED <<next, prev>>
    /\ UNCHANGED <<routesVars, wgState, mtu, running, version, cut, dropped>>

(* The last engine is done: at start the daemon serves. *)
NetdevDone ==
    /\ pos = "netdev"
    /\ at > Len(next.mtus)
    /\ IF prev = Nothing THEN Return("idle", "ok")
       ELSE mode' = "record" /\ pos' = "call" /\ at' = 1
            /\ UNCHANGED <<next, prev, outcome>>
    /\ UNCHANGED <<routesVars, wgState, mtu, running, version, cut, dropped>>

(* CommitVersion, or "ENGINES UPDATED, STORE WRITE FAILED". *)
Record ==
    /\ mode = "record"
    /\ \/ running' = next /\ version' = TRUE /\ Return("idle", "ok") /\ UNCHANGED clean
       \/ "store" \in Events /\ Return("idle", "struck") /\ clean' = FALSE
          /\ UNCHANGED <<running, version>>
    /\ UNCHANGED <<kernel, links, state, pc, config, adds, dels, result, wgState, mtu, cut, dropped>>

-----------------------------------------------------------------------------
(* What happens to the node. *)

Dies ==
    /\ Return("down", "none")
    /\ pc' = "idle" /\ adds' = {} /\ dels' = {} /\ config' = <<>> /\ result' = "none"
    /\ UNCHANGED <<state, wgState, running, version>>

AtRest == mode \in {"idle", "down"}

Crash ==
    /\ "crash" \in Events
    /\ mode # "down"
    /\ Dies
    /\ clean' = (clean /\ AtRest)
    /\ cut' = (cut \/ pc # "idle")
    /\ UNCHANGED <<kernel, links, mtu, dropped>>

(* A crash within os.WriteFile may also lose the file it truncated: that   *)
(* is WriteState's failure, followed by Crash.                             *)
Reboot ==
    /\ "reboot" \in Events
    /\ Dies
    /\ kernel' = [k \in Keys |-> Absent]
    /\ links' = Nics
    /\ mtu' = [l \in Links |-> Usual]
    /\ clean' = (clean /\ AtRest /\ state = running.routes)
    /\ cut' = (cut \/ state # running.routes)
    /\ dropped' = TRUE

(* A NIC loses its carrier and gets it back while no commit runs: it keeps *)
(* its MTU, the kernel drops its routes.                                   *)
Flap(l) ==
    /\ "flap" \in Events
    /\ mode = "idle"
    /\ \E k \in Keys : kernel[k] = l
    /\ kernel' = [k \in Keys |-> IF kernel[k] = l THEN Absent ELSE kernel[k]]
    /\ clean' = FALSE
    /\ cut' = (cut \/ state # running.routes)
    /\ dropped' = TRUE
    /\ outcome' = "none"
    /\ UNCHANGED <<links, state, pc, config, adds, dels, result, wgState, mtu,
                   running, version, mode, pos, next, prev, at>>

Next ==
    \/ \E p \in Policies : Commit(p)
    \/ Start \/ CallRoutes \/ RoutesStep \/ RoutesDone
    \/ Wireguard \/ WireguardFail
    \/ NetdevLine \/ NetdevFail \/ NetdevDone \/ Record
    \/ Crash \/ Reboot
    \/ \E l \in Nics : Flap(l)

Spec == Init /\ [][Next]_vars

-----------------------------------------------------------------------------
(* Properties *)

OverTunnel(p) == {p.routes[i].dev : i \in DOMAIN p.routes} \ Nics

(* The policy asks for every tunnel it routes over. *)
SelfContained(p) == OverTunnel(p) \subseteq p.wg

(* The tunnels it sets the MTU of without asking for them. *)
Borrowed(p) == ({p.mtus[i].dev : i \in DOMAIN p.mtus} \cap Tunnels) \ p.wg

(* The last setting of a link counts. *)
LastMtus(p) ==
    {i \in DOMAIN p.mtus :
        \A j \in DOMAIN p.mtus : p.mtus[j].dev = p.mtus[i].dev => j <= i}

(* When a commit, or the start, succeeded, every route, tunnel and MTU of  *)
(* the running policy is in the kernel, whatever failed, crashed or        *)
(* rebooted before (a policy that routes over a tunnel it does not itself  *)
(* ask for apart).                                                         *)
AskedInForce ==
    outcome = "ok" =>
        /\ SelfContained(running) => Holds(running.routes)
        /\ running.wg \subseteq links
        /\ \A i \in LastMtus(running) :
              mtu[running.mtus[i].dev] = running.mtus[i].mtu

(* "A commit is atomic from the operator's point of view" (Supervisor):    *)
(* between commits the table and the tunnels are those of the running      *)
(* policy and no others, after commits that succeeded and after commits    *)
(* that the netdev engine refused, through restarts and reboots, as long   *)
(* as no fault struck, no artifact had a metric or a destination twice, no *)
(* link took routes along, and the first engine did not fail half way.     *)
NodeFollowsRunning ==
    mode = "idle" /\ clean =>
        /\ Holds(running.routes) /\ Only(running.routes)
        /\ links = Nics \cup running.wg

(* "Re-applying is idempotent" (iproute.Render): the batch finds every     *)
(* route that it deletes, in commits, in restores and at start, with       *)
(* metrics or without, after refused commits and failed writes of the      *)
(* store.  There are three cases in which it does not: since the engine    *)
(* last went through a fault had cut it short, so that the state file and  *)
(* the table part and the retry deletes again what is gone; or routes were *)
(* lost, with a link or in a reboot; or the recorded artifact has a key    *)
(* twice, so that it is deleted twice.                                     *)
DeletesWork ==
    pc = "batch" /\ (\E s \in Upcoming : s.do = "del" /\ ~ Accepts(s)) =>
        cut \/ dropped \/ ~ Distinct(state)

(* "Re-apply the running policy at startup: kernel rulesets and child      *)
(* engines do not survive reboots/daemon restarts, the store does" (run):  *)
(* there are four cases in which the start fails by itself.  The routes    *)
(* engine does when the running policy routes over a tunnel, which the     *)
(* next engine is to create; when it was cut short, or routes were lost (a *)
(* reboot, a link) while routes.state named others than the running        *)
(* policy's, and no Apply of it has gone through since; or when the        *)
(* recorded artifact has a key twice, so that it is deleted twice.  The    *)
(* netdev engine does when the running policy sets the MTU of a tunnel     *)
(* that it found there and does not ask for.                               *)
RestartRecovers ==
    mode = "down" =>
        /\ outcome = "routes" =>
              OverTunnel(running) # {} \/ cut \/ ~ Distinct(state)
        /\ outcome = "netdev" => Borrowed(running) # {}

-----------------------------------------------------------------------------
(* The inductive invariant. *)

(* Where the supervisor and the engine it calls are, what they work for,   *)
(* and which of their files are up to date there.                          *)
ControlOK ==
    /\ AtRest => next = Empty /\ prev = Nothing
    /\ AtRest \/ mode = "record" => pos = "call"
    /\ pos # "routes" => pc = "idle"
    /\ pos # "netdev" => at = 1
    /\ pos = "netdev" => mode = "apply"
    /\ mode = "apply" => prev = running \/ (prev = Nothing /\ next = running)
    /\ mode \in {"restore", "record"} => prev = running
    /\ mode = "apply" => outcome \in {"none", "struck"}
    /\ pc # "idle" => config = Target.routes /\ result = "none"
    /\ pc = "batch" <=> adds \cup dels # {}
    /\ dels \subseteq Deletes(state, config)
    /\ \A i \in adds : \A j \in DOMAIN config : i <= j => j \in adds
    /\ pos = "routes" /\ pc = "idle" => result \in {"ok", "error"}
    /\ pos = "routes" /\ pc = "idle" /\ result = "ok" => state = Target.routes
    /\ pos = "wireguard" /\ mode = "apply" => state = next.routes
    /\ pos = "netdev" \/ mode = "record" =>
          state = next.routes /\ wgState = next.wg /\ next.wg \subseteq links
    /\ Nics \subseteq links /\ Lost(links) = {}
    /\ ~ version => running = Empty
    /\ outcome = "ok" => mode = "idle"

(* What an Apply that went so far has put into the kernel. *)
Added(i) == i \in DOMAIN config \ adds

Made(i) == i \in DOMAIN next.mtus /\ (mode = "record" \/ i < at)

ForceOK ==
    /\ pc # "idle" => \A i \in DOMAIN config : Added(i) =>
          /\ kernel[Key(config[i])] # Absent
          /\ (\A j \in DOMAIN config :
                 Added(j) /\ Key(config[j]) = Key(config[i]) => j <= i)
                 => kernel[Key(config[i])] = config[i].dev
    /\ pos = "routes" /\ pc = "idle" /\ result = "ok" => Holds(state)
    /\ pos = "wireguard" /\ mode = "apply" => Holds(state)
    /\ pos = "netdev" \/ mode = "record" =>
          /\ SelfContained(next) => Holds(next.routes)
          /\ \A i \in DOMAIN next.mtus : Made(i) =>
                /\ next.mtus[i].dev \in links
                /\ (\A j \in DOMAIN next.mtus :
                       Made(j) /\ next.mtus[j].dev = next.mtus[i].dev => j <= i)
                       => mtu[next.mtus[i].dev] = next.mtus[i].mtu
    /\ \A i \in DOMAIN running.mtus : running.mtus[i].dev \in Links
    /\ AskedInForce

(* While no fault has struck, files and kernel are those of one policy or  *)
(* of the step from one to the other.                                      *)
Exact(c) == Holds(c) /\ Only(c)

CleanOK ==
    clean =>
        /\ Simple(state)
        /\ AtRest =>
              /\ state = running.routes /\ wgState = running.wg
              /\ Only(state) /\ links \subseteq Nics \cup running.wg
        /\ mode = "idle" => Holds(state) /\ running.wg \subseteq links
        /\ mode = "apply" /\ pos # "netdev" =>
              wgState = running.wg /\ links \subseteq Nics \cup running.wg
        /\ pos = "netdev" \/ mode = "record" \/ (mode = "restore" /\ pos = "wireguard") =>
              wgState = next.wg /\ links = Nics \cup next.wg
        /\ mode = "restore" /\ pos # "wireguard" =>
              wgState = prev.wg /\ links = Nics \cup prev.wg
        /\ mode \in {"apply", "restore"} /\ pos = "call" =>
              Only(state) /\ (Holds(state) \/ state = Target.routes)
        /\ pos \in {"wireguard", "netdev"} \/ mode = "record" => Exact(state)
        /\ pos = "routes" /\ pc = "idle" => result = "ok" /\ Exact(state)
        /\ pc # "idle" =>
              /\ Simple(config)
              /\ \A k \in Keys : kernel[k] # Absent =>
                    /\ k[2] = 0
                    /\ k[1] \in DestsOf(config) \/ \E i \in dels : state[i].dest = k[1]
              /\ \A i \in dels : kernel[<<state[i].dest, 0>>] # Absent

(* Until the routes engine is cut short, what it recorded is the running   *)
(* policy's or is in the kernel, and a batch finds what it deletes.        *)
Recorded == \A i \in DOMAIN state : kernel[Key(state[i])] # Absent

Due(d) == {i \in dels : state[i].dest = d}

Harmless == (dropped /\ state = running.routes) \/ ~ Distinct(state)

RecoverOK ==
    /\ ~ cut /\ pc = "idle" => Harmless \/ Recorded
    /\ ~ cut /\ pc = "batch" =>
          \/ Harmless
          \/ /\ adds # {} => Recorded
             /\ \A d \in Dests : Cardinality(Due(d)) <= Cardinality(Present(d))
    /\ pos = "routes" /\ pc = "idle" /\ result = "error" /\ outcome = "none"
       /\ prev = Nothing =>
          OverTunnel(running) # {} \/ cut \/ ~ Distinct(state)
    /\ RestartRecovers

NodeInv == TypeOK /\ ControlOK /\ ForceOK /\ CleanOK /\ RecoverOK
=============================================================================
