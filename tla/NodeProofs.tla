----------------------------- MODULE NodeProofs -----------------------------
(***************************************************************************)
(* Proofs about the engines that share the node's links, for any           *)
(* destinations, metrics, links, policies, faults and events: NodeInv is   *)
(* inductive, and gives that what was asked for is in force, that nothing  *)
(* else is, that deletes find their routes, and when alone a start fails   *)
(* by itself.  The steps of the routes engine are told apart first; the    *)
(* proof that a step preserves a part of NodeInv has one step per action.  *)
(***************************************************************************)
EXTENDS NodeEngines, FiniteSetTheorems, WellFoundedInduction, TLAPS

(* The elements of a sequence. *)
LEMMA SeqElements ==
    ASSUME NEW S, NEW s \in Seq(S)
    PROVE  /\ DOMAIN s = 1..Len(s) /\ Len(s) \in Nat
           /\ \A i \in DOMAIN s : s[i] \in S
OBVIOUS

(* The lines of an artifact. *)
LEMMA ConfigType ==
    ASSUME NEW c \in Configs
    PROVE  /\ DOMAIN c \subseteq Nat /\ IsFiniteSet(DOMAIN c)
           /\ \A i \in DOMAIN c :
                 /\ c[i].dest \in Dests /\ c[i].metric \in Metrics
                 /\ c[i].dev \in Links /\ c[i].dev # Absent
                 /\ Key(c[i]) \in Keys
<1>1. c \in Seq([dest : Dests, metric : Metrics, dev : Links])
  BY RoutesAssumption
<1>2. DOMAIN c = 1..Len(c) /\ Len(c) \in Nat
  BY <1>1, SeqElements
<1>3. IsFiniteSet(DOMAIN c)
  BY <1>2, FS_Interval
<1>4. \A i \in DOMAIN c : c[i] \in [dest : Dests, metric : Metrics, dev : Links]
  BY <1>1, SeqElements
<1>5. ASSUME NEW i \in DOMAIN c
      PROVE  /\ c[i].dest \in Dests /\ c[i].metric \in Metrics
             /\ c[i].dev \in Links /\ c[i].dev # Absent
             /\ Key(c[i]) \in Keys
  <2>1. c[i].dest \in Dests /\ c[i].metric \in Metrics /\ c[i].dev \in Links
    BY <1>4
  <2>2. Key(c[i]) \in Keys
    BY <2>1 DEF Key, Keys
  <2> QED
    BY <2>1, <2>2, RoutesAssumption
<1>6. DOMAIN c \subseteq Nat
  BY <1>2
<1> QED
  BY <1>3, <1>5, <1>6

(* The parts of a policy. *)
LEMMA PolicyType ==
    ASSUME NEW p \in Policies
    PROVE  /\ p.routes \in Configs
           /\ p.wg \subseteq Links /\ p.wg \cap Nics = {}
           /\ DOMAIN p.mtus = 1..Len(p.mtus) /\ Len(p.mtus) \in Nat
           /\ \A i \in DOMAIN p.mtus : p.mtus[i].mtu \in Mtus
<1>0. p \in [routes : Configs, wg : SUBSET Tunnels,
             mtus : Seq([dev : Links \cup Missing, mtu : Mtus])]
  BY NodeAssumption
<1>1. /\ p.routes \in Configs /\ p.wg \in SUBSET Tunnels
      /\ p.mtus \in Seq([dev : Links \cup Missing, mtu : Mtus])
  BY <1>0
<1>2. /\ DOMAIN p.mtus = 1..Len(p.mtus) /\ Len(p.mtus) \in Nat
      /\ \A i \in DOMAIN p.mtus : p.mtus[i] \in [dev : Links \cup Missing, mtu : Mtus]
  BY <1>1, SeqElements
<1>3. \A i \in DOMAIN p.mtus : p.mtus[i].mtu \in Mtus
  BY <1>2
<1>4. p.wg \subseteq Links /\ p.wg \cap Nics = {}
  BY <1>1 DEF Tunnels
<1>5. p.routes \in Configs
  BY <1>1
<1> QED
  BY <1>2, <1>3, <1>4, <1>5

(* The first of some lines is one. *)
LEMMA FirstIsOne ==
    ASSUME NEW S \in SUBSET Nat, NEW i \in First(S)
    PROVE  /\ i \in S /\ First(S) = {i} /\ S \ First(S) = S \ {i}
           /\ \A j \in S : i <= j
<1>1. i \in S /\ \A j \in S : i <= j
  BY DEF First
<1>2. \A j \in First(S) : j = i
  <2> TAKE j \in First(S)
  <2>1. j \in S /\ j <= i /\ i <= j
    BY <1>1 DEF First
  <2>2. j \in Nat /\ i \in Nat
    BY <1>1, <2>1
  <2> QED
    BY <2>1, <2>2
<1> QED
  BY <1>1, <1>2

(* A set of numbers has a least one. *)
LEMMA LeastOf ==
    ASSUME NEW S \in SUBSET Nat, S # {}
    PROVE  \E i \in S : \A j \in S : i <= j
<1>1. PICK i \in S : \A j \in S : ~ (<<j, i>> \in OpToRel(<, Nat))
  BY NatLessThanWellFounded, WFMin
<1>2. ASSUME NEW j \in S
      PROVE  i <= j
  <2>1. i \in Nat /\ j \in Nat
    OBVIOUS
  <2>2. ~ (j < i)
    BY <1>1, <2>1 DEF OpToRel
  <2> QED
    BY <2>1, <2>2
<1> QED
  BY <1>2

(* A destination that is in the table has a lowest metric. *)
LEMMA LowestIsOne ==
    ASSUME NEW d \in Dests, Present(d) # {}
    PROVE  /\ Lowest(d) \in Present(d) /\ Lowest(d) \in Metrics
           /\ <<d, Lowest(d)>> \in Keys /\ kernel[<<d, Lowest(d)>>] # Absent
<1>1. Present(d) \in SUBSET Nat
  BY RoutesAssumption DEF Present
<1>2. \E m \in Present(d) : \A n \in Present(d) : m <= n
  BY <1>1, LeastOf
<1>3. Lowest(d) \in Present(d)
  BY <1>2 DEF Lowest
<1>4. Lowest(d) \in Metrics /\ kernel[<<d, Lowest(d)>>] # Absent
  BY <1>3 DEF Present
<1> QED
  BY <1>3, <1>4 DEF Keys

(* A line of the artifact goes into the kernel. *)
AddLine(i) ==
    /\ i \in adds /\ \A j \in adds : i <= j
    /\ config[i].dev \in links
    /\ kernel' = [kernel EXCEPT ![Key(config[i])] = config[i].dev]
    /\ adds' = adds \ {i} /\ dels' = dels

(* A recorded destination is deleted. *)
DelLine(i) ==
    /\ adds = {} /\ i \in dels
    /\ Present(state[i].dest) # {}
    /\ kernel' = [kernel EXCEPT ![<<state[i].dest, Lowest(state[i].dest)>>] = Absent]
    /\ adds' = adds /\ dels' = dels \ {i}

(* The lines not yet executed are numbers. *)
LEMMA LinesType ==
    ASSUME TypeOK
    PROVE  adds \in SUBSET Nat /\ dels \in SUBSET Nat
BY ConfigType DEF TypeOK, RoutesTypeOK

(* A statement executed is one of the two. *)
LEMMA BatchLineCases ==
    ASSUME TypeOK, BatchLine
    PROVE  (\E i \in adds : AddLine(i)) \/ (\E i \in dels : DelLine(i))
<1>1. PICK s \in Upcoming : Accepts(s) /\ Execute(s)
  BY DEF BatchLine
<1>2. ASSUME NEW i \in First(adds), s = [do |-> "replace", route |-> config[i]]
      PROVE  AddLine(i) /\ i \in adds
  <2>1. i \in adds /\ adds \ First(adds) = adds \ {i} /\ \A j \in adds : i <= j
    BY <1>2, LinesType, FirstIsOne
  <2>2. adds' = adds \ {i} /\ dels' = dels
    BY <2>1 DEF BatchLine
  <2>3. s.do = "replace" /\ s.route = config[i]
    BY <1>2
  <2>4. /\ config[i].dev \in links
        /\ kernel' = [kernel EXCEPT ![Key(config[i])] = config[i].dev]
    BY <1>1, <2>3 DEF Accepts, Execute
  <2> QED
    BY <2>1, <2>2, <2>4 DEF AddLine
<1>3. ASSUME adds = {}, NEW i \in First(dels),
             s = [do |-> "del", route |-> state[i]]
      PROVE  DelLine(i) /\ i \in dels
  <2>1. i \in dels /\ dels \ First(dels) = dels \ {i}
    BY <1>3, LinesType, FirstIsOne
  <2>2. adds' = adds /\ dels' = dels \ {i}
    BY <1>3, <2>1 DEF BatchLine
  <2>3. s.do = "del" /\ s.route = state[i]
    BY <1>3
  <2>4. /\ Present(state[i].dest) # {}
        /\ kernel' = [kernel EXCEPT ![<<state[i].dest, Lowest(state[i].dest)>>] = Absent]
    BY <1>1, <2>3 DEF Accepts, Execute
  <2> QED
    BY <1>3, <2>1, <2>2, <2>4 DEF DelLine
<1>4. \/ \E i \in First(adds) : s = [do |-> "replace", route |-> config[i]]
      \/ adds = {} /\ \E i \in First(dels) : s = [do |-> "del", route |-> state[i]]
  BY <1>1 DEF Upcoming
<1> QED
  BY <1>2, <1>3, <1>4

-----------------------------------------------------------------------------
(* The types. *)

(* A change of the links is one of the kernel's table, too.                *)
LEMMA LinksType ==
    ASSUME TypeOK, NEW up \in SUBSET Links, LinksChange(up)
    PROVE  /\ links' = up
           /\ kernel' \in [Keys -> Links \cup {Absent}]
           /\ mtu' \in [Links -> Mtus \cup {Usual}]
           /\ \A l \in Links \ links' : mtu'[l] = Usual
BY DEF TypeOK, RoutesTypeOK, LinksChange, LinksBecome

(* Where the links can go. *)
LEMMA WantedType ==
    ASSUME TypeOK, ControlOK, mode \in {"apply", "restore"}
    PROVE  /\ Target \in Policies /\ Target.routes \in Configs
           /\ Target.wg \in SUBSET Tunnels
           /\ Wanted(wgState, Target.wg) \in SUBSET Links
           /\ links \cup Target.wg \in SUBSET Links
           /\ Nics \subseteq Wanted(wgState, Target.wg)
<1>1. Target \in Policies
  BY NodeAssumption DEF TypeOK, Target, ControlOK
<1>2. Target.wg \in SUBSET Tunnels /\ Target.routes \in Configs
  BY <1>1, PolicyType DEF Tunnels
<1>3. links \in SUBSET Links /\ wgState \in SUBSET Tunnels /\ Nics \subseteq links
  BY DEF TypeOK, RoutesTypeOK, ControlOK
<1> QED
  BY <1>1, <1>2, <1>3 DEF Wanted, Tunnels

(* The routes engine keeps its variables in their sets. *)
LEMMA RoutesTypeStep ==
    ASSUME TypeOK, ControlOK, RoutesStep
    PROVE  RoutesTypeOK'
<1>1. CASE BatchLine
  <2>1. kernel' \in [Keys -> Links \cup {Absent}]
    <3>1. ASSUME NEW i \in adds, AddLine(i)
          PROVE  kernel' \in [Keys -> Links \cup {Absent}]
      <4>1. config \in Configs /\ i \in DOMAIN config
        BY <3>1 DEF TypeOK, RoutesTypeOK
      <4>2. Key(config[i]) \in Keys /\ config[i].dev \in Links
        BY <4>1, ConfigType
      <4> QED
        BY <3>1, <4>2 DEF AddLine, TypeOK, RoutesTypeOK
    <3>2. ASSUME NEW i \in dels, DelLine(i)
          PROVE  kernel' \in [Keys -> Links \cup {Absent}]
      BY <3>2 DEF DelLine, TypeOK, RoutesTypeOK
    <3> QED
      BY <1>1, <3>1, <3>2, BatchLineCases
  <2>2. adds' \in SUBSET DOMAIN config' /\ dels' \in SUBSET DOMAIN state'
    BY <1>1 DEF BatchLine, TypeOK, RoutesTypeOK
  <2>3. UNCHANGED <<links, state, config, result, clean>> /\ pc' \in {"batch", "write"}
    BY <1>1 DEF BatchLine
  <2> QED
    BY <2>1, <2>2, <2>3 DEF TypeOK, RoutesTypeOK
<1>2. CASE BatchFail
  BY <1>2 DEF BatchFail, Fail, TypeOK, RoutesTypeOK
<1>3. CASE WriteState
  <2>1. state' \in Configs
    BY <1>3, RoutesAssumption DEF WriteState, TypeOK, RoutesTypeOK
  <2>2. adds' = {} /\ dels' = {}
    BY <1>3 DEF WriteState, Fail, ControlOK
  <2>3. /\ UNCHANGED <<kernel, links, config>>
        /\ pc' = "idle" /\ result' \in {"ok", "error"} /\ clean' \in BOOLEAN
    BY <1>3 DEF WriteState, Fail, TypeOK, RoutesTypeOK
  <2> QED
    BY <2>1, <2>2, <2>3 DEF TypeOK, RoutesTypeOK
<1> QED
  BY <1>1, <1>2, <1>3 DEF RoutesStep

(* The variables of the node keep their types. *)
LEMMA TypeNext ==
    ASSUME TypeOK, ControlOK, [Next]_vars
    PROVE  TypeOK'
<1> USE NodeAssumption, RoutesAssumption
<1>1. 1 \in 1..(Len(Empty.mtus) + 1)
  OBVIOUS
<1>2. ASSUME NEW p \in Policies, Commit(p)
      PROVE  TypeOK'
  <2>1. 1 \in 1..(Len(p.mtus) + 1)
    BY PolicyType
  <2>2. at = 1
    BY <1>2 DEF Commit, ControlOK, TypeOK, AtRest
  <2> QED
    BY <1>2, <2>1, <2>2 DEF TypeOK, RoutesTypeOK, Commit, Begin, routesVars
<1>3. CASE Start
  <2>1. 1 \in 1..(Len(running.mtus) + 1)
    BY PolicyType DEF TypeOK
  <2>2. at = 1
    BY <1>3 DEF Start, ControlOK, TypeOK, AtRest
  <2> QED
    BY <1>3, <2>1, <2>2 DEF TypeOK, RoutesTypeOK, Start, Begin, routesVars
<1>4. CASE CallRoutes
  BY <1>4, WantedType DEF TypeOK, RoutesTypeOK, CallRoutes, Apply, Deletes
<1>5. CASE RoutesStep
  BY <1>5, RoutesTypeStep DEF TypeOK, RoutesStep, BatchLine, BatchFail, WriteState
<1>6. CASE RoutesDone
  BY <1>6, <1>1 DEF TypeOK, RoutesTypeOK, RoutesDone, Return, Ended, routesVars
<1>7. CASE Wireguard
  <2>1. mode \in {"apply", "restore"}
    BY <1>7 DEF Wireguard, TypeOK, ControlOK, AtRest
  <2>2. Wanted(wgState, Target.wg) \in SUBSET Links /\ Target.wg \in SUBSET Tunnels
    BY <2>1, WantedType
  <2>3. LinksChange(Wanted(wgState, Target.wg))
    BY <1>7 DEF Wireguard
  <2>4. /\ links' \in SUBSET Links
        /\ kernel' \in [Keys -> Links \cup {Absent}]
        /\ mtu' \in [Links -> Mtus \cup {Usual}]
        /\ \A l \in Links \ links' : mtu'[l] = Usual
    BY <2>2, <2>3, LinksType
  <2>5. /\ wgState' \in SUBSET Tunnels /\ clean' \in BOOLEAN /\ cut' \in BOOLEAN
        /\ dropped' \in BOOLEAN
        /\ pos' \in {"call", "routes", "wireguard", "netdev"}
    BY <1>7, <2>2 DEF Wireguard, TypeOK, RoutesTypeOK
  <2>6. UNCHANGED <<state, pc, config, adds, dels, result, running, version, mode,
                    next, prev, at, outcome>>
    BY <1>7 DEF Wireguard
  <2> QED
    BY <2>4, <2>5, <2>6 DEF TypeOK, RoutesTypeOK
<1>8. CASE WireguardFail
  <2>1. mode \in {"apply", "restore"}
    BY <1>8 DEF WireguardFail, TypeOK, ControlOK, AtRest
  <2>2. /\ Wanted(wgState, Target.wg) \in SUBSET Links
        /\ links \cup Target.wg \in SUBSET Links /\ links \in SUBSET Links
    BY <2>1, WantedType DEF TypeOK, RoutesTypeOK
  <2>3. PICK up \in SUBSET Links : LinksChange(up)
    BY <1>8, <2>2 DEF WireguardFail
  <2>4. /\ links' \in SUBSET Links
        /\ kernel' \in [Keys -> Links \cup {Absent}]
        /\ mtu' \in [Links -> Mtus \cup {Usual}]
        /\ \A l \in Links \ links' : mtu'[l] = Usual
    BY <2>3, LinksType
  <2>5. /\ wgState' \in SUBSET Tunnels /\ clean' \in BOOLEAN /\ cut' \in BOOLEAN
        /\ dropped' \in BOOLEAN
    BY <1>8 DEF WireguardFail, TypeOK, RoutesTypeOK
  <2>6. UNCHANGED <<state, pc, config, adds, dels, result, running, version>>
    BY <1>8 DEF WireguardFail
  <2>7. /\ mode' \in {"down", "restore"} /\ pos' = "call" /\ outcome' = "struck"
        /\ \/ next' = next /\ prev' = prev /\ at' = at
           \/ next' = Empty /\ prev' = Nothing /\ at' = 1
    BY <1>8 DEF WireguardFail, Return
  <2>8. next' \in Policies /\ prev' \in Policies \cup {Nothing}
        /\ at' \in 1..(Len(next'.mtus) + 1)
    BY <1>1, <2>7 DEF TypeOK
  <2> QED
    BY <2>4, <2>5, <2>6, <2>7, <2>8 DEF TypeOK, RoutesTypeOK
<1>9. CASE NetdevLine
  BY <1>9, PolicyType DEF TypeOK, RoutesTypeOK, NetdevLine, routesVars, Setting
<1>10. CASE NetdevFail
  <2>1. 1 \in 1..(Len(next.mtus) + 1)
    BY PolicyType DEF TypeOK
  <2> QED
    BY <1>10, <1>1, <2>1 DEF TypeOK, RoutesTypeOK, NetdevFail, Return, routesVars
<1>11. CASE NetdevDone
  <2>1. 1 \in 1..(Len(next.mtus) + 1)
    BY PolicyType DEF TypeOK
  <2> QED
    BY <1>11, <1>1, <2>1 DEF TypeOK, RoutesTypeOK, NetdevDone, Return, routesVars
<1>12. CASE Record
  BY <1>12, <1>1 DEF TypeOK, RoutesTypeOK, Record, Return
<1>13. CASE Crash
  BY <1>13, <1>1 DEF TypeOK, RoutesTypeOK, Crash, Dies, Return
<1>14. CASE Reboot
  BY <1>14, <1>1 DEF TypeOK, RoutesTypeOK, Reboot, Dies, Return
<1>15. ASSUME NEW l \in Nics, Flap(l)
       PROVE  TypeOK'
  BY <1>15 DEF TypeOK, RoutesTypeOK, Flap
<1>16. CASE UNCHANGED vars
  BY <1>16 DEF TypeOK, RoutesTypeOK, vars, routesVars
<1> QED
  BY <1>2, <1>3, <1>4, <1>5, <1>6, <1>7, <1>8, <1>9, <1>10, <1>11, <1>12,
     <1>13, <1>14, <1>15, <1>16 DEF Next

-----------------------------------------------------------------------------
(* Where the supervisor and the engines are. *)

(* When the links change, what is left in the table is behind one. *)
LEMMA LinksLost ==
    ASSUME TypeOK, NEW up \in SUBSET Links, LinksChange(up)
    PROVE  /\ Lost(links)' = {}
           /\ \A k \in Keys : kernel'[k] # Absent => kernel'[k] = kernel[k]
           /\ Lost(up) = {} => kernel' = kernel
<1>1. kernel' = [k \in Keys |-> IF k \in Lost(up) THEN Absent ELSE kernel[k]]
      /\ links' = up
  BY DEF LinksChange, LinksBecome
<1>2. \A k \in Keys : kernel'[k] \in up \cup {Absent}
  BY <1>1 DEF Lost
<1>3. \A k \in Keys : kernel'[k] # Absent => kernel'[k] = kernel[k]
  BY <1>1
<1>4. Lost(up) = {} => kernel' = kernel
  BY <1>1 DEF TypeOK, RoutesTypeOK
<1> QED
  BY <1>1, <1>2, <1>3, <1>4 DEF Lost

(* A step of the routes engine keeps the books of the batch. *)
LEMMA RoutesControl ==
    ASSUME TypeOK, ControlOK, RoutesStep
    PROVE  ControlOK'
<1> USE DEF AtRest
<1>1. mode \in {"apply", "restore"} /\ pos = "routes"
  BY DEF RoutesStep, ControlOK, TypeOK
<1>2. /\ UNCHANGED <<links, config, wgState, mtu, running, version, mode, pos,
                      next, prev, at>>
      /\ Target' = Target
  BY DEF RoutesStep, BatchLine, BatchFail, WriteState, Fail, Target
<1>3. /\ adds' \subseteq adds /\ dels' \subseteq dels
      /\ \A i \in adds' : \A j \in DOMAIN config' : i <= j => j \in adds'
  <2>1. CASE BatchLine
    <3>1. ASSUME NEW i \in adds, AddLine(i)
          PROVE  \A a \in adds' : \A j \in DOMAIN config' : a <= j => j \in adds'
      <4> SUFFICES ASSUME NEW a \in adds', NEW j \in DOMAIN config', a <= j
                   PROVE  j \in adds'
        OBVIOUS
      <4>1. adds' = adds \ {i} /\ i \in adds /\ \A k \in adds : i <= k
        BY <3>1 DEF AddLine
      <4>2. a \in adds /\ j \in adds /\ i <= a /\ a # i
        BY <4>1, <1>2 DEF ControlOK
      <4>3. i \in Nat /\ a \in Nat /\ j \in Nat
        BY <4>2, LinesType
      <4>4. j # i
        BY <4>2, <4>3
      <4> QED
        BY <4>1, <4>2, <4>4
    <3>2. ASSUME NEW i \in dels, DelLine(i)
          PROVE  adds' = {}
      BY <3>2 DEF DelLine
    <3>3. adds' \subseteq adds /\ dels' \subseteq dels
      BY <2>1 DEF BatchLine
    <3> QED
      BY <2>1, <3>1, <3>2, <3>3, BatchLineCases
  <2>2. CASE BatchFail \/ WriteState
    BY <2>2 DEF BatchFail, WriteState, Fail, ControlOK
  <2> QED
    BY <2>1, <2>2 DEF RoutesStep
<1>4. Lost(links)' = {}
  <2>1. ASSUME NEW i \in adds, AddLine(i)
        PROVE  \A k \in Keys : kernel'[k] \in links' \cup {Absent}
    BY <2>1, <1>2 DEF AddLine, ControlOK, Lost, TypeOK, RoutesTypeOK
  <2>2. ASSUME NEW i \in dels, DelLine(i)
        PROVE  \A k \in Keys : kernel'[k] \in links' \cup {Absent}
    BY <2>2, <1>2 DEF DelLine, ControlOK, Lost, TypeOK, RoutesTypeOK
  <2>3. CASE BatchLine
    BY <2>1, <2>2, <2>3, BatchLineCases DEF Lost
  <2>4. CASE BatchFail \/ WriteState
    BY <2>4, <1>2 DEF BatchFail, WriteState, Fail, ControlOK, Lost
  <2> QED
    BY <2>3, <2>4 DEF RoutesStep
<1>5. /\ pc' = "batch" <=> adds' \cup dels' # {}
      /\ dels' \subseteq Deletes(state, config)'
      /\ pc' = "idle" => result' \in {"ok", "error"}
      /\ pc' = "idle" /\ result' = "ok" => state' = Target.routes
      /\ pc' # "idle" => config' = Target.routes /\ result' = "none"
  <2>1. CASE BatchLine
    BY <2>1, <1>2, <1>3 DEF BatchLine, ControlOK, Deletes
  <2>2. CASE BatchFail
    BY <2>2 DEF BatchFail, Fail
  <2>3. CASE WriteState
    BY <2>3 DEF WriteState, Fail, ControlOK
  <2> QED
    BY <2>1, <2>2, <2>3 DEF RoutesStep
<1>6. /\ outcome' \in {outcome, "struck"} /\ (outcome = "ok" => mode = "idle")
      /\ mode = "apply" => outcome \in {"none", "struck"}
  BY DEF RoutesStep, ControlOK
<1> QED
  BY <1>1, <1>2, <1>3, <1>4, <1>5, <1>6 DEF ControlOK

(* The control is kept by every step. *)
LEMMA ControlNext ==
    ASSUME TypeOK, ControlOK, [Next]_vars
    PROVE  ControlOK'
<1> USE DEF AtRest
<1>1. Empty.routes = <<>> /\ Empty.wg = {}
  BY NodeAssumption
<1>2. ASSUME NEW p \in Policies, Commit(p)
      PROVE  ControlOK'
  BY <1>2 DEF ControlOK, Commit, Begin, routesVars, Deletes, Lost
<1>3. CASE Start
  BY <1>3 DEF ControlOK, Start, Begin, routesVars, Deletes, Lost
<1>4. CASE CallRoutes
  BY <1>4 DEF ControlOK, CallRoutes, Apply, Deletes, Target, Lost
<1>5. CASE RoutesStep
  BY <1>5, RoutesControl
<1>6. CASE RoutesDone
  BY <1>6 DEF ControlOK, RoutesDone, Return, Ended, routesVars, Target, Deletes, Lost
<1>7. CASE Wireguard
  <2>1. mode \in {"apply", "restore"}
    BY <1>7 DEF Wireguard, TypeOK, ControlOK
  <2>2. Wanted(wgState, Target.wg) \in SUBSET Links
    BY <2>1, WantedType
  <2>3. links' = Wanted(wgState, Target.wg) /\ Lost(links)' = {}
    BY <1>7, <2>2, LinksLost DEF Wireguard, LinksChange, LinksBecome
  <2>4. Nics \subseteq links'
    BY <2>1, <2>3, WantedType
  <2>5. Target.wg \subseteq links'
    BY <2>3 DEF Wanted
  <2>6. mode = "apply" => next.wg \subseteq links' /\ wgState' = next.wg
    BY <1>7, <2>5 DEF Target, Wireguard
  <2> HIDE DEF Target
  <2>7. /\ UNCHANGED <<state, pc, config, adds, dels, result, running, version, mode,
                        next, prev, at, outcome>>
        /\ pos' = IF mode = "apply" THEN "netdev" ELSE "call"
        /\ Target' = Target /\ pos = "wireguard"
    BY <1>7 DEF Wireguard, Target
  <2> QED
    BY <2>1, <2>3, <2>4, <2>6, <2>7 DEF ControlOK, Deletes
<1>8. CASE WireguardFail
  <2>1. mode \in {"apply", "restore"}
    BY <1>8 DEF WireguardFail, TypeOK, ControlOK
  <2>2. /\ Wanted(wgState, Target.wg) \in SUBSET Links
        /\ links \cup Target.wg \in SUBSET Links /\ links \in SUBSET Links
    BY <2>1, WantedType DEF TypeOK, RoutesTypeOK
  <2>3. /\ Nics \subseteq Wanted(wgState, Target.wg) /\ Nics \subseteq links
        /\ Nics \subseteq links \cup Target.wg
    BY <2>1, WantedType DEF ControlOK
  <2>4. PICK up \in SUBSET Links : LinksChange(up) /\ Nics \subseteq up
    BY <1>8, <2>2, <2>3 DEF WireguardFail
  <2>5. Lost(links)' = {} /\ Nics \subseteq links'
    BY <2>4, LinksLost DEF LinksChange, LinksBecome
  <2>6. /\ UNCHANGED <<state, pc, config, adds, dels, result, running, version>>
        /\ pos = "wireguard" /\ pos' = "call" /\ outcome' = "struck"
        /\ \/ mode' = "down" /\ next' = Empty /\ prev' = Nothing
           \/ mode' = "restore" /\ next' = next /\ prev' = prev /\ prev # Nothing
        /\ at' = 1
    BY <1>8 DEF WireguardFail, Return, ControlOK
  <2> QED
    BY <2>1, <2>5, <2>6 DEF ControlOK, Deletes
<1>9. CASE NetdevLine
  BY <1>9 DEF ControlOK, NetdevLine, routesVars, Deletes, Lost
<1>10. CASE NetdevFail
  BY <1>10 DEF ControlOK, NetdevFail, Return, routesVars, Deletes, Lost
<1>11. CASE NetdevDone
  BY <1>11 DEF ControlOK, NetdevDone, Return, routesVars, Deletes, Lost
<1>12. CASE Record
  BY <1>12 DEF ControlOK, Record, Return, Deletes, Lost
<1>13. CASE Crash
  BY <1>13 DEF ControlOK, Crash, Dies, Return, Deletes, Lost
<1>14. CASE Reboot
  BY <1>14 DEF ControlOK, Reboot, Dies, Return, Deletes, Lost
<1>15. ASSUME NEW l \in Nics, Flap(l)
       PROVE  ControlOK'
  BY <1>15 DEF ControlOK, Flap, Deletes, Lost
<1>16. CASE UNCHANGED vars
  BY <1>16 DEF ControlOK, vars, routesVars, Deletes, Lost, Target
<1> QED
  BY <1>2, <1>3, <1>4, <1>5, <1>6, <1>7, <1>8, <1>9, <1>10, <1>11, <1>12,
     <1>13, <1>14, <1>15, <1>16 DEF Next

-----------------------------------------------------------------------------
(* What was asked for is in force. *)

(* The line that is executed is the last of its key so far. *)
LEMMA AddForce ==
    ASSUME TypeOK, ControlOK, ForceOK, pc # "idle", NEW i \in adds, AddLine(i),
           UNCHANGED config
    PROVE  \A j \in DOMAIN config : Added(j)' =>
              /\ kernel'[Key(config[j])] # Absent
              /\ (\A n \in DOMAIN config :
                     Added(n)' /\ Key(config[n]) = Key(config[j]) => n <= j)
                    => kernel'[Key(config[j])] = config[j].dev
<1> DEFINE k == Key(config[i])
<1>1. /\ adds' = adds \ {i} /\ i \in DOMAIN config
      /\ kernel' = [kernel EXCEPT ![k] = config[i].dev]
      /\ kernel \in [Keys -> Links \cup {Absent}] /\ config \in Configs
  BY DEF AddLine, TypeOK, RoutesTypeOK
<1>2. k \in Keys /\ config[i].dev # Absent /\ \A j \in DOMAIN config : Key(config[j]) \in Keys
  BY <1>1, ConfigType
<1>3. kernel'[k] = config[i].dev /\ \A x \in Keys \ {k} : kernel'[x] = kernel[x]
  BY <1>1, <1>2
<1>4. \A j \in DOMAIN config : Added(j)' <=> Added(j) \/ j = i
  BY <1>1 DEF Added
<1>5. \A j \in DOMAIN config : Added(j) => ~ (i <= j)
  BY DEF Added, ControlOK
<1>6. DOMAIN config \subseteq Nat
  BY <1>1, ConfigType
<1> SUFFICES ASSUME NEW j \in DOMAIN config, Added(j)'
             PROVE  /\ kernel'[Key(config[j])] # Absent
                    /\ (\A n \in DOMAIN config :
                           Added(n)' /\ Key(config[n]) = Key(config[j]) => n <= j)
                          => kernel'[Key(config[j])] = config[j].dev
  OBVIOUS
<1> HIDE DEF k
<1>7. CASE Key(config[j]) = k
  <2>1. kernel'[Key(config[j])] # Absent
    BY <1>2, <1>3, <1>7
  <2>2. ASSUME \A n \in DOMAIN config :
                  Added(n)' /\ Key(config[n]) = Key(config[j]) => n <= j
        PROVE  j = i
    <3>1. i <= j
      BY <1>1, <1>4, <1>7, <2>2 DEF k
    <3> QED
      BY <3>1, <1>4, <1>5
  <2> QED
    BY <2>1, <2>2, <1>3, <1>7
<1>8. CASE Key(config[j]) # k
  <2>1. j # i /\ Added(j) /\ kernel'[Key(config[j])] = kernel[Key(config[j])]
    BY <1>2, <1>3, <1>4, <1>8 DEF k
  <2>2. /\ kernel[Key(config[j])] # Absent
        /\ (\A n \in DOMAIN config :
               Added(n) /\ Key(config[n]) = Key(config[j]) => n <= j)
              => kernel[Key(config[j])] = config[j].dev
    BY <2>1 DEF ForceOK
  <2> QED
    BY <2>1, <2>2, <1>4
<1> QED
  BY <1>7, <1>8

(* A delete spares the destinations of the artifact. *)
LEMMA DelSpares ==
    ASSUME TypeOK, ControlOK, NEW i \in dels, DelLine(i)
    PROVE  /\ state[i].dest \in Dests /\ state[i].dest \notin DestsOf(config)
           /\ <<state[i].dest, Lowest(state[i].dest)>> \in Keys
           /\ \A j \in DOMAIN config : kernel'[Key(config[j])] = kernel[Key(config[j])]
<1>1. state \in Configs /\ config \in Configs /\ i \in DOMAIN state
  BY DEF TypeOK, RoutesTypeOK
<1>2. state[i].dest \in Dests
  BY <1>1, ConfigType
<1>3. state[i].dest \notin DestsOf(config)
  BY DEF ControlOK, Deletes
<1>4. <<state[i].dest, Lowest(state[i].dest)>> \in Keys
  BY <1>2, LowestIsOne DEF DelLine
<1>5. ASSUME NEW j \in DOMAIN config
      PROVE  kernel'[Key(config[j])] = kernel[Key(config[j])]
  <2>1. config[j].dest # state[i].dest
    BY <1>3 DEF DestsOf
  <2>2. Key(config[j]) # <<state[i].dest, Lowest(state[i].dest)>> /\ Key(config[j]) \in Keys
    BY <2>1, <1>1, ConfigType DEF Key
  <2> QED
    BY <2>2 DEF DelLine, TypeOK, RoutesTypeOK
<1> QED
  BY <1>2, <1>3, <1>4, <1>5

(* A step of the routes engine. *)
LEMMA RoutesForce ==
    ASSUME TypeOK, ControlOK, ForceOK, RoutesStep
    PROVE  ForceOK'
<1>1. mode \in {"apply", "restore"} /\ pos = "routes" /\ outcome # "ok"
  BY DEF RoutesStep, ControlOK, TypeOK, AtRest
<1>2. UNCHANGED <<links, config, wgState, mtu, running, version, mode, pos,
                  next, prev, at>>
  BY DEF RoutesStep, BatchLine, BatchFail, WriteState, Fail
<1> DEFINE ForceOfBatch ==
      pc # "idle" => \A j \in DOMAIN config : Added(j) =>
         /\ kernel[Key(config[j])] # Absent
         /\ (\A n \in DOMAIN config :
               Added(n) /\ Key(config[n]) = Key(config[j]) => n <= j)
              => kernel[Key(config[j])] = config[j].dev
<1>3. ForceOfBatch'
  <2>1. ASSUME NEW i \in adds, AddLine(i), BatchLine
        PROVE  ForceOfBatch'
    BY <2>1, <1>2, AddForce DEF BatchLine
  <2>2. ASSUME NEW i \in dels, DelLine(i), BatchLine
        PROVE  ForceOfBatch'
    BY <2>2, <1>2, DelSpares DEF ForceOK, Added, DelLine, BatchLine
  <2>3. CASE BatchFail \/ WriteState
    BY <2>3 DEF BatchFail, WriteState, Fail
  <2> QED
    BY <2>1, <2>2, <2>3, BatchLineCases DEF RoutesStep
<1>4. pc' = "idle" /\ result' = "ok" => Holds(state)'
  <2>1. CASE WriteState /\ result' = "ok"
    <3>1. state' = config /\ kernel' = kernel /\ adds = {} /\ pc = "write"
      BY <2>1 DEF WriteState, Fail, ControlOK
    <3>2. Holds(config)
      BY <3>1 DEF ForceOK, Holds, Lasts, Added
    <3> QED
      BY <3>1, <3>2 DEF Holds, Lasts
  <2>2. CASE BatchLine
    BY <2>2 DEF BatchLine
  <2>3. CASE BatchFail
    BY <2>3 DEF BatchFail, Fail
  <2> QED
    BY <2>1, <2>2, <2>3 DEF RoutesStep
<1>5. outcome' # "ok"
  BY <1>1 DEF RoutesStep
<1>6. \A i \in DOMAIN running.mtus : running.mtus[i].dev \in Links
  BY DEF ForceOK
<1> QED
  BY <1>1, <1>2, <1>3, <1>4, <1>5, <1>6 DEF ForceOK, AskedInForce

(* Routes behind links that stay are not lost. *)
LEMMA HoldsThrough ==
    ASSUME TypeOK, NEW up \in SUBSET Links, LinksChange(up), NEW c \in Configs, Holds(c),
           {c[i].dev : i \in DOMAIN c} \subseteq up
    PROVE  Holds(c)'
<1> SUFFICES ASSUME NEW i \in Lasts(c)
             PROVE  kernel'[Key(c[i])] = c[i].dev
  BY DEF Holds, Lasts
<1>1. i \in DOMAIN c /\ kernel[Key(c[i])] = c[i].dev
  BY DEF Holds, Lasts
<1>2. Key(c[i]) \in Keys /\ c[i].dev \in up
  BY <1>1, ConfigType
<1> QED
  BY <1>1, <1>2 DEF LinksChange, LinksBecome, Lost

(* When the last engine is done, all that was asked for is in force. *)
LEMMA AllInForce ==
    ASSUME TypeOK, ControlOK, ForceOK,
           mode = "record" \/ (pos = "netdev" /\ at > Len(next.mtus))
    PROVE  /\ SelfContained(next) => Holds(next.routes)
           /\ next.wg \subseteq links
           /\ \A i \in DOMAIN next.mtus : next.mtus[i].dev \in links
           /\ \A i \in LastMtus(next) : mtu[next.mtus[i].dev] = next.mtus[i].mtu
<1>1. \A i \in DOMAIN next.mtus : Made(i)
  <2>1. DOMAIN next.mtus = 1..Len(next.mtus) /\ Len(next.mtus) \in Nat
    BY PolicyType DEF TypeOK
  <2>2. at \in 1..(Len(next.mtus) + 1)
    BY DEF TypeOK
  <2>3. CASE at > Len(next.mtus)
    <3> SUFFICES ASSUME NEW i \in 1..Len(next.mtus)
                 PROVE  i < at
      BY <2>1 DEF Made
    <3> QED
      BY <2>1, <2>2, <2>3
  <2> QED
    BY <2>3 DEF Made
<1>2. /\ SelfContained(next) => Holds(next.routes)
      /\ \A i \in DOMAIN next.mtus : next.mtus[i].dev \in links
      /\ \A i \in DOMAIN next.mtus :
            (\A j \in DOMAIN next.mtus : next.mtus[j].dev = next.mtus[i].dev => j <= i)
               => mtu[next.mtus[i].dev] = next.mtus[i].mtu
  BY <1>1 DEF ForceOK
<1>3. next.wg \subseteq links
  BY DEF ControlOK
<1> QED
  BY <1>2, <1>3 DEF LastMtus

(* What was asked for stays in force through every step. *)
LEMMA ForceNext ==
    ASSUME TypeOK, ControlOK, ForceOK, [Next]_vars
    PROVE  ForceOK'
<1> USE DEF AtRest
<1>1. Empty.mtus = <<>> /\ Nothing \notin Policies
  BY NodeAssumption
<1>2. ASSUME NEW p \in Policies, Commit(p)
      PROVE  ForceOK'
  BY <1>2 DEF ForceOK, ControlOK, AskedInForce, Commit, Begin, routesVars, Added, Made, Holds
<1>3. CASE Start
  BY <1>3 DEF ForceOK, ControlOK, AskedInForce, Start, Begin, routesVars, Added, Made, Holds
<1>4. CASE CallRoutes
  BY <1>4 DEF ForceOK, ControlOK, AskedInForce, CallRoutes, Apply, Added, Made, Holds
<1>5. CASE RoutesStep
  BY <1>5, RoutesForce
<1>6. CASE RoutesDone
  BY <1>6 DEF ForceOK, ControlOK, AskedInForce, RoutesDone, Return, Ended, routesVars,
              Added, Made, Holds, Target
<1>7. CASE Wireguard
  <2>1. /\ UNCHANGED <<state, pc, config, adds, dels, result, running, version, mode,
                        next, prev, at, outcome>>
        /\ pos' = IF mode = "apply" THEN "netdev" ELSE "call"
        /\ pos = "wireguard" /\ mode \in {"apply", "restore"} /\ at = 1
        /\ pc = "idle" /\ outcome # "ok"
    BY <1>7 DEF Wireguard, ControlOK, TypeOK
  <2>2. /\ \A i \in DOMAIN running.mtus : running.mtus[i].dev \in Links
        /\ mode = "apply" => Holds(state) /\ state = next.routes
    BY <2>1 DEF ForceOK, ControlOK
  <2>3. ASSUME mode = "apply", SelfContained(next)
        PROVE  Holds(next.routes)'
    <3>1. /\ Wanted(wgState, Target.wg) \in SUBSET Links
          /\ Nics \subseteq Wanted(wgState, Target.wg)
      BY <2>1, WantedType
    <3>2. LinksChange(Wanted(wgState, Target.wg)) /\ Target.wg = next.wg
      BY <1>7, <2>3 DEF Wireguard, Target
    <3>3. next.routes \in Configs
      BY PolicyType DEF TypeOK
    <3>4. {next.routes[i].dev : i \in DOMAIN next.routes} \subseteq Wanted(wgState, Target.wg)
      BY <2>3, <3>1, <3>2 DEF SelfContained, OverTunnel, Wanted
    <3>5. Holds(next.routes) /\ next' = next
      BY <2>1, <2>2, <2>3
    <3> HIDE DEF Target
    <3>6. ASSUME NEW c \in Configs, c = next.routes
          PROVE  Holds(c)'
      BY <3>1, <3>2, <3>4, <3>5, <3>6, HoldsThrough
    <3> QED
      BY <3>3, <3>5, <3>6 DEF Holds, Lasts
  <2>4. \A i \in DOMAIN next'.mtus : mode = "apply" => ~ Made(i)'
    <3>1. DOMAIN next.mtus = 1..Len(next.mtus) /\ Len(next.mtus) \in Nat
      BY PolicyType DEF TypeOK
    <3> QED
      BY <2>1, <3>1 DEF Made
  <2> QED
    BY <2>1, <2>2, <2>3, <2>4 DEF ForceOK, AskedInForce, SelfContained, OverTunnel
<1>8. CASE WireguardFail
  BY <1>8 DEF ForceOK, ControlOK, AskedInForce, WireguardFail, Return, Added, Made
<1>9. CASE NetdevLine
  <2>1. /\ UNCHANGED <<routesVars, wgState, running, version, mode, pos, next, prev,
                        outcome, cut>>
        /\ pos = "netdev" /\ mode = "apply" /\ pc = "idle" /\ outcome # "ok"
    BY <1>9 DEF NetdevLine, ControlOK
  <2>2. /\ DOMAIN next.mtus = 1..Len(next.mtus) /\ Len(next.mtus) \in Nat
        /\ at \in DOMAIN next.mtus
    BY <1>9, PolicyType DEF TypeOK, NetdevLine
  <2>3. /\ Setting.dev \in links /\ links \subseteq Links /\ at' = at + 1
        /\ mtu' = [mtu EXCEPT ![Setting.dev] = Setting.mtu]
        /\ mtu \in [Links -> Mtus \cup {Usual}]
    BY <1>9 DEF NetdevLine, TypeOK, RoutesTypeOK
  <2>4. \A i \in DOMAIN next.mtus : (Made(i)' <=> Made(i) \/ i = at) /\ (Made(i) => i < at)
    BY <2>1, <2>2, <2>3 DEF Made
  <2>5. ASSUME NEW i \in DOMAIN next.mtus, Made(i)'
        PROVE  /\ next.mtus[i].dev \in links
               /\ (\A j \in DOMAIN next.mtus :
                      Made(j)' /\ next.mtus[j].dev = next.mtus[i].dev => j <= i)
                     => mtu'[next.mtus[i].dev] = next.mtus[i].mtu
    <3>1. next.mtus[i].dev \in links
      BY <2>1, <2>3, <2>4, <2>5 DEF ForceOK, Setting
    <3>2. CASE next.mtus[i].dev = Setting.dev
      <4>1. ASSUME \A j \in DOMAIN next.mtus :
                      Made(j)' /\ next.mtus[j].dev = next.mtus[i].dev => j <= i
            PROVE  i = at
        <5>1. at <= i
          BY <2>2, <2>4, <3>2, <4>1 DEF Setting
        <5> QED
          BY <5>1, <2>2, <2>4, <2>5
      <4>2. mtu'[Setting.dev] = Setting.mtu
        BY <2>3
      <4> QED
        BY <3>1, <3>2, <4>1, <4>2 DEF Setting
    <3>3. CASE next.mtus[i].dev # Setting.dev
      <4>1. i # at /\ Made(i)
        BY <2>4, <2>5, <3>3 DEF Setting
      <4>2. mtu'[next.mtus[i].dev] = mtu[next.mtus[i].dev]
        BY <2>3, <3>1, <3>3
      <4> QED
        BY <2>1, <2>4, <3>1, <4>1, <4>2 DEF ForceOK
    <3> QED
      BY <3>2, <3>3
  <2>6. SelfContained(next) => Holds(next.routes)
    BY <2>1 DEF ForceOK
  <2>7. \A i \in DOMAIN running.mtus : running.mtus[i].dev \in Links
    BY DEF ForceOK
  <2> QED
    BY <2>1, <2>5, <2>6, <2>7 DEF ForceOK, AskedInForce, routesVars, Holds, Lasts,
       SelfContained, OverTunnel
<1>10. CASE NetdevFail
  BY <1>10 DEF ForceOK, ControlOK, AskedInForce, NetdevFail, Return, routesVars, Added, Made, Holds
<1>11. CASE NetdevDone
  <2>1. /\ UNCHANGED <<routesVars, wgState, mtu, running, version, cut>>
        /\ pos = "netdev" /\ mode = "apply" /\ pc = "idle" /\ outcome # "ok"
        /\ at > Len(next.mtus) /\ pos' = "call"
        /\ \/ prev = Nothing /\ mode' = "idle" /\ next = running
           \/ /\ prev # Nothing /\ mode' = "record" /\ outcome' = outcome
              /\ next' = next
    BY <1>1, <1>11 DEF NetdevDone, ControlOK, Return, TypeOK
  <2>2. /\ SelfContained(next) => Holds(next.routes)
        /\ next.wg \subseteq links
        /\ \A i \in DOMAIN next.mtus : next.mtus[i].dev \in links
        /\ \A i \in LastMtus(next) : mtu[next.mtus[i].dev] = next.mtus[i].mtu
    BY <2>1, AllInForce
  <2>3. \A i \in DOMAIN running.mtus : running.mtus[i].dev \in Links
    BY DEF ForceOK
  <2>4. CASE prev = Nothing
    BY <2>1, <2>2, <2>3, <2>4 DEF ForceOK, AskedInForce, routesVars, Holds, Lasts,
       SelfContained, OverTunnel, LastMtus
  <2>5. CASE prev # Nothing
    BY <2>1, <2>2, <2>3, <2>5 DEF ForceOK, AskedInForce, routesVars, Holds, Lasts,
       SelfContained, OverTunnel, LastMtus, Made
  <2> QED
    BY <2>4, <2>5
<1>12. CASE Record
  <2>1. /\ UNCHANGED <<kernel, links, state, pc, config, adds, dels, result, wgState,
                        mtu, cut>>
        /\ mode = "record" /\ mode' = "idle" /\ pos' = "call" /\ pc = "idle"
        /\ \/ running' = next /\ outcome' = "ok"
           \/ running' = running /\ outcome' = "struck"
    BY <1>12 DEF Record, ControlOK, Return
  <2>2. /\ SelfContained(next) => Holds(next.routes)
        /\ next.wg \subseteq links
        /\ \A i \in DOMAIN next.mtus : next.mtus[i].dev \in links
        /\ \A i \in LastMtus(next) : mtu[next.mtus[i].dev] = next.mtus[i].mtu
    BY <2>1, AllInForce
  <2>3. \A i \in DOMAIN running.mtus : running.mtus[i].dev \in Links
    BY DEF ForceOK
  <2>4. links \subseteq Links
    BY DEF TypeOK, RoutesTypeOK
  <2> QED
    BY <2>1, <2>2, <2>3, <2>4 DEF ForceOK, AskedInForce, Holds, Lasts,
       SelfContained, OverTunnel, LastMtus
<1>13. CASE Crash
  BY <1>13 DEF ForceOK, ControlOK, AskedInForce, Crash, Dies, Return, Added, Made
<1>14. CASE Reboot
  BY <1>14 DEF ForceOK, ControlOK, AskedInForce, Reboot, Dies, Return, Added, Made
<1>15. ASSUME NEW l \in Nics, Flap(l)
       PROVE  ForceOK'
  BY <1>15 DEF ForceOK, ControlOK, AskedInForce, Flap, Added, Made
<1>16. CASE UNCHANGED vars
  BY <1>16 DEF ForceOK, AskedInForce, vars, routesVars, Added, Made, Holds
<1> QED
  BY <1>2, <1>3, <1>4, <1>5, <1>6, <1>7, <1>8, <1>9, <1>10, <1>11, <1>12,
     <1>13, <1>14, <1>15, <1>16 DEF Next

-----------------------------------------------------------------------------
(* As long as no fault has struck there is nothing else. *)

(* Without metrics the recorded routes are keyed by their destination. *)
LEMMA SimpleKeys ==
    ASSUME NEW c \in Configs, Simple(c)
    PROVE  /\ \A i \in DOMAIN c : Key(c[i]) = <<c[i].dest, 0>> /\ Key(c[i]) \in Keys
           /\ Lasts(c) = DOMAIN c
           /\ \A k \in Keys : k[2] = 0 /\ k[1] \in DestsOf(c)
                 => \E i \in DOMAIN c : Key(c[i]) = k
<1>1. \A i \in DOMAIN c : Key(c[i]) = <<c[i].dest, 0>>
  BY DEF Simple, Key
<1>2. \A i \in DOMAIN c : Key(c[i]) \in Keys /\ i \in Nat
  BY ConfigType
<1>3. \A i, j \in DOMAIN c : Key(c[i]) = Key(c[j]) => i = j
  BY DEF Simple, Key
<1>4. Lasts(c) = DOMAIN c
  BY <1>2, <1>3 DEF Lasts
<1>5. ASSUME NEW k \in Keys, k[2] = 0, k[1] \in DestsOf(c)
      PROVE  \E i \in DOMAIN c : Key(c[i]) = k
  <2>1. PICK i \in DOMAIN c : c[i].dest = k[1]
    BY <1>5 DEF DestsOf
  <2>2. k = <<k[1], k[2]>>
    BY DEF Keys
  <2> QED
    BY <2>1, <2>2, <1>1, <1>5
<1> QED
  BY <1>1, <1>2, <1>4, <1>5

(* The delete of a route without a metric takes exactly that one. *)
LEMMA DelTakes ==
    ASSUME TypeOK, ControlOK, CleanOK, clean, pc # "idle", NEW i \in dels, DelLine(i)
    PROVE  kernel' = [kernel EXCEPT ![<<state[i].dest, 0>>] = Absent]
<1> DEFINE d == state[i].dest
<1>1. d \in Dests /\ Present(d) # {}
  BY ConfigType DEF DelLine, TypeOK, RoutesTypeOK
<1>2. \A m \in Present(d) : m = 0
  <2> SUFFICES ASSUME NEW m \in Present(d)
               PROVE  m = 0
    OBVIOUS
  <2>1. m \in Metrics /\ kernel[<<d, m>>] # Absent
    BY DEF Present
  <2>2. <<d, m>> \in Keys
    BY <1>1, <2>1 DEF Keys
  <2>3. \A k \in Keys : kernel[k] # Absent => k[2] = 0
    BY DEF CleanOK
  <2>4. <<d, m>>[2] = 0
    BY <2>1, <2>2, <2>3
  <2> QED
    BY <2>4
<1>3. Lowest(d) = 0
  BY <1>1, <1>2, LowestIsOne
<1> QED
  BY <1>3 DEF DelLine

(* A step of the routes engine. *)
LEMMA RoutesClean ==
    ASSUME TypeOK, ControlOK, ForceOK, ForceOK', CleanOK, RoutesStep
    PROVE  CleanOK'
<1> SUFFICES ASSUME clean'
             PROVE  CleanOK'
  BY DEF CleanOK
<1> USE DEF AtRest
<1>1. mode \in {"apply", "restore"} /\ pos = "routes"
  BY DEF RoutesStep, ControlOK, TypeOK
<1>2. UNCHANGED <<links, config, wgState, mtu, running, version, mode, pos,
                  next, prev, at>>
  BY DEF RoutesStep, BatchLine, BatchFail, WriteState, Fail
<1>3. clean /\ pc # "idle" /\ (BatchLine \/ (WriteState /\ result' = "ok"))
  BY DEF RoutesStep, BatchLine, BatchFail, WriteState, Fail
<1>4. /\ Simple(config) /\ Simple(state) /\ config \in Configs /\ state \in Configs
      /\ \A k \in Keys : kernel[k] # Absent =>
            /\ k[2] = 0
            /\ k[1] \in DestsOf(config) \/ \E i \in dels : state[i].dest = k[1]
      /\ \A i \in dels : kernel[<<state[i].dest, 0>>] # Absent
      /\ dels \subseteq DOMAIN state /\ adds \subseteq DOMAIN config
      /\ kernel \in [Keys -> Links \cup {Absent}]
  BY <1>3 DEF CleanOK, TypeOK, RoutesTypeOK
<1>5. /\ mode = "apply" => wgState = running.wg /\ links \subseteq Nics \cup running.wg
      /\ mode = "restore" => wgState = prev.wg /\ links = Nics \cup prev.wg
  BY <1>1, <1>3 DEF CleanOK
<1> DEFINE Table ==
      /\ \A k \in Keys : kernel[k] # Absent =>
            /\ k[2] = 0
            /\ k[1] \in DestsOf(config) \/ \E i \in dels : state[i].dest = k[1]
      /\ \A i \in dels : kernel[<<state[i].dest, 0>>] # Absent
<1>6. CASE BatchLine
  <2>1. pc' # "idle" /\ UNCHANGED <<state, config>>
    BY <1>6 DEF BatchLine
  <2>2. ASSUME NEW i \in adds, AddLine(i)
        PROVE  Table'
    <3>1. /\ Key(config[i]) = <<config[i].dest, 0>> /\ Key(config[i]) \in Keys
          /\ config[i].dest \in DestsOf(config) /\ config[i].dev # Absent
      BY <1>4, SimpleKeys, ConfigType DEF DestsOf
    <3>2. /\ kernel' = [kernel EXCEPT ![<<config[i].dest, 0>>] = config[i].dev]
          /\ dels' = dels /\ <<config[i].dest, 0>> \in Keys
      BY <2>2, <3>1 DEF AddLine
    <3>3. \A k \in Keys : kernel'[k] # Absent =>
            /\ k[2] = 0
            /\ k[1] \in DestsOf(config) \/ \E j \in dels : state[j].dest = k[1]
      BY <1>4, <3>1, <3>2
    <3>4. \A j \in dels : kernel'[<<state[j].dest, 0>>] # Absent
      BY <1>4, <3>1, <3>2
    <3> QED
      BY <2>1, <3>2, <3>3, <3>4 DEF DestsOf
  <2>3. ASSUME NEW i \in dels, DelLine(i)
        PROVE  Table'
    <3> DEFINE d == state[i].dest
    <3>1. /\ kernel' = [kernel EXCEPT ![<<d, 0>>] = Absent] /\ dels' = dels \ {i}
      BY <1>3, <2>3, DelTakes DEF DelLine
    <3>2. \A j \in dels' : state[j].dest # d
      BY <1>4, <3>1 DEF Simple
    <3>3. <<d, 0>> \in Keys
      BY <1>4, SimpleKeys
    <3>4. ASSUME NEW k \in Keys, kernel'[k] # Absent
          PROVE  /\ k[2] = 0
                 /\ k[1] \in DestsOf(config) \/ \E j \in dels' : state[j].dest = k[1]
      <4>1. k # <<d, 0>> /\ kernel[k] # Absent
        BY <1>4, <3>1, <3>3, <3>4
      <4>2. k = <<k[1], k[2]>> /\ k[2] = 0
        BY <1>4, <4>1 DEF Keys
      <4>3. k[1] # d
        BY <4>1, <4>2
      <4> QED
        BY <1>4, <3>1, <4>1, <4>2, <4>3
    <3>5. ASSUME NEW j \in dels'
          PROVE  kernel'[<<state[j].dest, 0>>] # Absent
      <4>1. j \in dels /\ state[j].dest # d
        BY <3>1, <3>2
      <4>2. <<state[j].dest, 0>> \in Keys /\ <<state[j].dest, 0>> # <<d, 0>>
        BY <1>4, <4>1, SimpleKeys
      <4> QED
        BY <1>4, <3>1, <4>1, <4>2
    <3> QED
      BY <2>1, <3>4, <3>5 DEF DestsOf
  <2>4. Table'
    BY <1>6, <2>2, <2>3, BatchLineCases
  <2> QED
    BY <1>1, <1>2, <1>4, <1>5, <2>1, <2>4 DEF CleanOK
<1>7. CASE WriteState /\ result' = "ok"
  <2>1. state' = config /\ kernel' = kernel /\ dels = {} /\ pc' = "idle"
    BY <1>7 DEF WriteState, Fail, ControlOK
  <2>2. Holds(state)'
    BY <1>1, <1>2, <1>7, <2>1 DEF ForceOK
  <2>3. \A k \in Keys : kernel[k] # Absent => \E i \in DOMAIN config : Key(config[i]) = k
    BY <1>4, <2>1, SimpleKeys
  <2>4. Only(state)'
    BY <2>1, <2>3 DEF Only
  <2> QED
    BY <1>1, <1>2, <1>4, <1>5, <1>7, <2>1, <2>2, <2>4 DEF CleanOK, Exact, Simple
<1> QED
  BY <1>3, <1>6, <1>7

(* The call of the routes engine. *)
LEMMA CallClean ==
    ASSUME TypeOK, ControlOK, CleanOK, CallRoutes
    PROVE  CleanOK'
<1> SUFFICES ASSUME clean'
             PROVE  CleanOK'
  BY DEF CleanOK
<1> USE DEF AtRest
<1>1. mode \in {"apply", "restore"} /\ pos = "call" /\ clean /\ Simple(Target.routes)
  BY DEF CallRoutes, Apply
<1>2. /\ config' = Target.routes /\ pc' # "idle" /\ pos' = "routes"
      /\ dels' = Deletes(state, Target.routes)
      /\ UNCHANGED <<kernel, links, state, wgState, mtu, running, version, mode, next,
                      prev>>
  BY DEF CallRoutes, Apply
<1>3. /\ Simple(state) /\ state \in Configs /\ Only(state)
      /\ Holds(state) \/ state = Target.routes
      /\ mode = "apply" => wgState = running.wg /\ links \subseteq Nics \cup running.wg
      /\ mode = "restore" => wgState = prev.wg /\ links = Nics \cup prev.wg
  BY <1>1 DEF CleanOK, TypeOK, RoutesTypeOK
<1>4. ASSUME NEW k \in Keys, kernel[k] # Absent
      PROVE  /\ k[2] = 0
             /\ k[1] \in DestsOf(Target.routes) \/ \E i \in dels' : state[i].dest = k[1]
  <2>1. PICK i \in DOMAIN state : Key(state[i]) = k
    BY <1>3, <1>4 DEF Only
  <2>2. k = <<state[i].dest, 0>>
    BY <1>3, <2>1, SimpleKeys
  <2> QED
    BY <1>2, <2>2 DEF Deletes
<1>5. ASSUME NEW i \in dels'
      PROVE  kernel[<<state[i].dest, 0>>] # Absent
  <2>1. i \in DOMAIN state /\ state[i].dest \notin DestsOf(Target.routes)
    BY <1>2 DEF Deletes
  <2>2. Holds(state)
    BY <1>3, <2>1 DEF DestsOf
  <2>3. i \in Lasts(state) /\ Key(state[i]) = <<state[i].dest, 0>>
    BY <1>3, <2>1, SimpleKeys
  <2>4. kernel[<<state[i].dest, 0>>] = state[i].dev
    BY <2>2, <2>3 DEF Holds
  <2> QED
    BY <1>3, <2>1, <2>4, ConfigType
<1>6. /\ \A k \in Keys : kernel'[k] # Absent =>
            /\ k[2] = 0
            /\ k[1] \in DestsOf(config)' \/ \E i \in dels' : state'[i].dest = k[1]
      /\ \A i \in dels' : kernel'[<<state'[i].dest, 0>>] # Absent
  BY <1>2, <1>4, <1>5 DEF DestsOf
<1>7. Simple(config)' /\ Simple(state)'
  BY <1>1, <1>2, <1>3 DEF Simple
<1>8. /\ mode' = "apply" => wgState' = running'.wg /\ links' \subseteq Nics \cup running'.wg
      /\ mode' = "restore" => wgState' = prev'.wg /\ links' = Nics \cup prev'.wg
  BY <1>2, <1>3
<1> HIDE DEF Target
<1> QED
  BY <1>1, <1>2, <1>6, <1>7, <1>8 DEF CleanOK

(* The tunnels become those of the policy. *)
LEMMA WireguardClean ==
    ASSUME TypeOK, ControlOK, CleanOK, Wireguard
    PROVE  CleanOK'
<1> SUFFICES ASSUME clean'
             PROVE  CleanOK'
  BY DEF CleanOK
<1> USE DEF AtRest
<1>1. /\ UNCHANGED <<state, pc, config, adds, dels, result, running, version, mode,
                      next, prev, at, outcome>>
      /\ pos' = IF mode = "apply" THEN "netdev" ELSE "call"
      /\ pos = "wireguard" /\ mode \in {"apply", "restore"} /\ pc = "idle"
      /\ clean /\ wgState' = Target.wg /\ Lost(Wanted(wgState, Target.wg)) = {}
      /\ links' = Wanted(wgState, Target.wg)
  BY DEF Wireguard, ControlOK, TypeOK, LinksChange, LinksBecome, LosesRoutes
<1>2. kernel' = kernel
  BY <1>1, WantedType, LinksLost DEF Wireguard
<1>3. Exact(state) /\ Simple(state)
  BY <1>1 DEF CleanOK
<1>4. links' = Nics \cup Target.wg
  <2>1. Target.wg \cap Nics = {} /\ Nics \subseteq links /\ wgState \cap Nics = {}
    BY <1>1, WantedType DEF TypeOK, ControlOK, Tunnels
  <2>2. links \subseteq Nics \cup wgState
    BY <1>1 DEF CleanOK
  <2> QED
    BY <1>1, <2>1, <2>2 DEF Wanted
<1>5. Exact(state)' /\ Simple(state)'
  BY <1>1, <1>2, <1>3 DEF Exact, Holds, Only, Simple, Lasts
<1>6. CASE mode = "apply"
  <2>1. wgState' = next'.wg /\ links' = Nics \cup next'.wg
    BY <1>1, <1>4, <1>6 DEF Target
  <2> HIDE DEF Target
  <2> QED
    BY <1>1, <1>5, <1>6, <2>1 DEF CleanOK
<1>7. CASE mode = "restore"
  <2>1. wgState' = prev'.wg /\ links' = Nics \cup prev'.wg
    BY <1>1, <1>4, <1>7 DEF Target
  <2> QED
    BY <1>1, <1>5, <1>7, <2>1 DEF CleanOK, Exact
<1> QED
  BY <1>1, <1>6, <1>7

(* While no fault strikes every step goes from one policy to the other. *)
LEMMA CleanNext ==
    ASSUME TypeOK, ControlOK, ForceOK, ForceOK', CleanOK, [Next]_vars
    PROVE  CleanOK'
<1> SUFFICES ASSUME clean'
             PROVE  CleanOK'
  BY DEF CleanOK
<1> USE DEF AtRest
<1>1. /\ Empty.routes = <<>> /\ Empty.wg = {} /\ Nothing \notin Policies
      /\ running \in Policies
  BY NodeAssumption DEF TypeOK
<1>2. ASSUME NEW p \in Policies, Commit(p)
      PROVE  CleanOK'
  BY <1>2 DEF CleanOK, ControlOK, Commit, Begin, routesVars, Exact, Holds, Only
<1>3. CASE Start
  <2>1. CASE version
    BY <1>1, <1>3, <2>1 DEF CleanOK, ControlOK, Start, Begin, routesVars, Exact, Holds, Only, Target
  <2>2. CASE ~ version
    <3>1. running = Empty /\ state = <<>>
      BY <1>1, <1>3, <2>2 DEF CleanOK, ControlOK, Start, routesVars
    <3>2. Holds(state)
      BY <3>1 DEF Holds, Lasts
    <3> QED
      BY <1>1, <1>3, <2>2, <3>1, <3>2
         DEF CleanOK, ControlOK, Start, routesVars, Exact, Holds, Only
  <2> QED
    BY <2>1, <2>2
<1>4. CASE CallRoutes
  BY <1>4, CallClean
<1>5. CASE RoutesStep
  BY <1>5, RoutesClean
<1>6. CASE RoutesDone
  <2>1. /\ UNCHANGED <<routesVars, wgState, mtu, running, version, cut>>
        /\ pos = "routes" /\ pc = "idle" /\ clean /\ result = "ok"
        /\ mode \in {"apply", "restore"} /\ Exact(state) /\ Simple(state)
        /\ state = Target.routes
    BY <1>6 DEF RoutesDone, routesVars, CleanOK, ControlOK, TypeOK
  <2>2. Exact(state)' /\ Simple(state)'
    BY <2>1 DEF Exact, Holds, Only, Simple, Lasts, routesVars
  <2>3. CASE mode = "apply"
    BY <1>6, <2>1, <2>2, <2>3 DEF RoutesDone, CleanOK, routesVars
  <2>4. CASE mode = "restore"
    <3>1. prev = running /\ wgState = running.wg /\ links = Nics \cup running.wg
          /\ state = running.routes
      BY <2>1, <2>4 DEF CleanOK, ControlOK, Target
    <3> QED
      BY <1>1, <1>6, <2>1, <2>2, <2>4, <3>1
         DEF RoutesDone, Return, Ended, CleanOK, routesVars, Exact
  <2> QED
    BY <2>1, <2>3, <2>4
<1>7. CASE Wireguard
  BY <1>7, WireguardClean
<1>8. CASE WireguardFail
  BY <1>8 DEF WireguardFail
<1>9. CASE NetdevLine
  BY <1>9 DEF CleanOK, ControlOK, NetdevLine, routesVars, Exact, Holds, Only
<1>10. CASE NetdevFail
  BY <1>1, <1>10 DEF CleanOK, ControlOK, NetdevFail, Return, routesVars, Exact, Holds, Only, Target
<1>11. CASE NetdevDone
  BY <1>1, <1>11 DEF CleanOK, ControlOK, NetdevDone, Return, routesVars, Exact, Holds, Only
<1>12. CASE Record
  BY <1>12 DEF CleanOK, ControlOK, Record, Return, Exact, Holds, Only
<1>13. CASE Crash
  BY <1>13 DEF CleanOK, ControlOK, Crash, Dies, Return, Only
<1>14. CASE Reboot
  BY <1>14 DEF CleanOK, ControlOK, Reboot, Dies, Return, Only
<1>15. ASSUME NEW l \in Nics, Flap(l)
       PROVE  CleanOK'
  BY <1>15 DEF Flap
<1>16. CASE UNCHANGED vars
  BY <1>16 DEF CleanOK, vars, routesVars, Exact, Holds, Only, Target
<1> QED
  BY <1>2, <1>3, <1>4, <1>5, <1>6, <1>7, <1>8, <1>9, <1>10, <1>11, <1>12,
     <1>13, <1>14, <1>15, <1>16 DEF Next

-----------------------------------------------------------------------------
(* A start fails by itself in no other case. *)

(* Of a recorded artifact that is in the table and names no key twice, no  *)
(* more lines are deleted than there are routes.                           *)
LEMMA DueCounted ==
    ASSUME TypeOK, Recorded, Distinct(state), NEW d \in Dests, NEW D \in SUBSET DOMAIN state
    PROVE  Cardinality({i \in D : state[i].dest = d}) <= Cardinality(Present(d))
<1> DEFINE E == {i \in D : state[i].dest = d}
           f == [i \in E |-> state[i].metric]
<1>1. state \in Configs /\ E \subseteq DOMAIN state
  BY DEF TypeOK, RoutesTypeOK
<1>2. \A i \in E : Key(state[i]) = <<d, state[i].metric>> /\ state[i].metric \in Metrics
  BY <1>1, ConfigType DEF Key
<1>3. \A i \in E : state[i].metric \in Present(d)
  BY <1>1, <1>2 DEF Present, Recorded
<1>4. \A i, j \in E : state[i].metric = state[j].metric => i = j
  BY <1>1, <1>2 DEF Distinct
<1>5. f \in Injection(E, Present(d))
  BY <1>3, <1>4 DEF Injection, IsInjective
<1>6. IsFiniteSet(Present(d))
  BY RoutesAssumption, FS_Subset DEF Present
<1> QED
  BY <1>5, <1>6, FS_Injection

(* Where something is due to be deleted, there is something to delete. *)
LEMMA DueIsThere ==
    ASSUME TypeOK, NEW i \in dels, dels \subseteq DOMAIN state, state \in Configs,
           \A d \in Dests : Cardinality(Due(d)) <= Cardinality(Present(d))
    PROVE  Present(state[i].dest) # {}
<1> DEFINE d == state[i].dest
<1>1. d \in Dests /\ IsFiniteSet(DOMAIN state)
  BY ConfigType
<1>2. i \in Due(d) /\ Due(d) \in SUBSET DOMAIN state
  BY DEF Due
<1>3. IsFiniteSet(Due(d))
  BY <1>1, <1>2, FS_Subset
<1>4. Cardinality(Due(d)) # 0 /\ Cardinality(Due(d)) \in Nat
  BY <1>2, <1>3, FS_EmptySet, FS_CardinalityType
<1>5. Cardinality(Due(d)) <= Cardinality(Present(d))
  BY <1>1
<1>6. ASSUME Present(d) = {}
      PROVE  FALSE
  <2>1. Cardinality(Present(d)) = 0
    BY <1>6, FS_EmptySet
  <2> QED
    BY <2>1, <1>4, <1>5
<1> QED
  BY <1>6

(* A statement executed keeps the count. *)
LEMMA LineCounted ==
    ASSUME TypeOK, ControlOK, BatchLine, Distinct(state),
           adds # {} => Recorded,
           \A d \in Dests : Cardinality(Due(d)) <= Cardinality(Present(d))
    PROVE  /\ adds' # {} => Recorded'
           /\ \A d \in Dests : Cardinality(Due(d)') <= Cardinality(Present(d)')
<1>1. /\ state' = state /\ state \in Configs /\ config \in Configs
      /\ dels \subseteq DOMAIN state /\ adds \subseteq DOMAIN config
      /\ kernel \in [Keys -> Links \cup {Absent}]
  BY DEF BatchLine, TypeOK, RoutesTypeOK
<1>2. /\ \A i \in DOMAIN state : Key(state[i]) \in Keys
      /\ IsFiniteSet(DOMAIN state) /\ IsFiniteSet(Metrics)
  BY <1>1, ConfigType, RoutesAssumption
<1>3. ASSUME NEW i \in adds, AddLine(i)
      PROVE  /\ Recorded'
             /\ \A d \in Dests : Cardinality(Due(d)') <= Cardinality(Present(d)')
  <2>1. config[i].dev # Absent /\ Key(config[i]) \in Keys
    BY <1>1, <1>3, ConfigType
  <2>2. /\ kernel' = [kernel EXCEPT ![Key(config[i])] = config[i].dev]
        /\ dels' = dels /\ Recorded
    BY <1>3 DEF AddLine
  <2>3. \A k \in Keys : kernel[k] # Absent => kernel'[k] # Absent
    BY <1>1, <2>1, <2>2
  <2>4. Recorded'
    BY <1>1, <1>2, <2>2, <2>3 DEF Recorded
  <2>5. ASSUME NEW d \in Dests
        PROVE  Cardinality(Due(d)') <= Cardinality(Present(d)')
    <3>1. Due(d)' = Due(d)
      BY <1>1, <2>2 DEF Due
    <3>2. Present(d) \subseteq Present(d)' /\ Present(d)' \subseteq Metrics
      BY <2>3 DEF Present, Keys
    <3>3. IsFiniteSet(Present(d)')
      BY <1>2, <3>2, FS_Subset
    <3>4. Cardinality(Present(d)) <= Cardinality(Present(d)')
      BY <3>2, <3>3, FS_Subset
    <3>5. /\ Cardinality(Present(d)') \in Nat
          /\ Cardinality(Present(d)) \in Nat
      BY <3>2, <3>3, FS_Subset, FS_CardinalityType
    <3>6. Due(d) \subseteq DOMAIN state
      BY <1>1 DEF Due
    <3>7. Cardinality(Due(d)) \in Nat
      BY <1>2, <3>6, FS_Subset, FS_CardinalityType
    <3>8. Cardinality(Due(d)) <= Cardinality(Present(d))
      OBVIOUS
    <3> QED
      BY <3>1, <3>4, <3>5, <3>7, <3>8
  <2> QED
    BY <2>4, <2>5
<1>4. ASSUME NEW i \in dels, DelLine(i)
      PROVE  \A d \in Dests : Cardinality(Due(d)') <= Cardinality(Present(d)')
  <2> DEFINE e == state[i].dest
  <2>1. /\ e \in Dests /\ Lowest(e) \in Present(e) /\ <<e, Lowest(e)>> \in Keys
        /\ kernel' = [kernel EXCEPT ![<<e, Lowest(e)>>] = Absent]
        /\ dels' = dels \ {i}
    BY <1>1, <1>4, ConfigType, LowestIsOne DEF DelLine
  <2> SUFFICES ASSUME NEW d \in Dests
               PROVE  Cardinality(Due(d)') <= Cardinality(Present(d)')
    OBVIOUS
  <2>2. Due(d) \subseteq DOMAIN state /\ Present(d) \subseteq Metrics
    BY <1>1 DEF Due, Present
  <2>3. IsFiniteSet(Due(d)) /\ IsFiniteSet(Present(d))
    BY <1>2, <2>2, FS_Subset
  <2>4. Cardinality(Due(d)) \in Nat /\ Cardinality(Present(d)) \in Nat
    BY <2>3, FS_CardinalityType
  <2>5. Cardinality(Due(d)) <= Cardinality(Present(d))
    OBVIOUS
  <2> HIDE DEF e
  <2>6. CASE d = e
    <3>1. Due(d)' = Due(d) \ {i} /\ i \in Due(d)
      BY <1>1, <2>1, <2>6 DEF Due, e
    <3>2. Present(d)' = Present(d) \ {Lowest(e)}
      <4>1. ASSUME NEW m \in Metrics
            PROVE  kernel'[<<d, m>>] # Absent <=> kernel[<<d, m>>] # Absent /\ m # Lowest(e)
        <5>1. <<d, m>> \in Keys /\ (<<d, m>> = <<e, Lowest(e)>> <=> m = Lowest(e))
          BY <2>6 DEF Keys
        <5> QED
          BY <1>1, <2>1, <5>1
      <4> QED
        BY <4>1 DEF Present
    <3>3. Lowest(e) \in Present(d)
      BY <2>1, <2>6
    <3>4. Cardinality(Due(d)') = Cardinality(Due(d)) - 1
      BY <2>3, <3>1, FS_RemoveElement
    <3>5. Cardinality(Present(d)') = Cardinality(Present(d)) - 1
      BY <2>3, <3>2, <3>3, FS_RemoveElement
    <3> QED
      BY <2>4, <2>5, <3>4, <3>5
  <2>7. CASE d # e
    <3>1. Due(d)' = Due(d)
      BY <1>1, <2>1, <2>7 DEF Due, e
    <3>2. \A m \in Metrics : kernel'[<<d, m>>] = kernel[<<d, m>>]
      BY <1>1, <2>1, <2>7 DEF Keys
    <3>3. Present(d)' = Present(d)
      BY <3>2 DEF Present
    <3> QED
      BY <2>5, <3>1, <3>3
  <2> QED
    BY <2>6, <2>7
<1>5. ASSUME NEW i \in dels, DelLine(i)
      PROVE  adds' = {}
  BY <1>5 DEF DelLine
<1> QED
  BY <1>3, <1>4, <1>5, BatchLineCases

(* A batch that no fault cut short fails only over a link that is missing. *)
LEMMA OwnFail ==
    ASSUME TypeOK, ControlOK, RecoverOK, ~ cut, pc = "batch",
           NEW s \in Upcoming, ~ Accepts(s)
    PROVE  /\ Harmless \/ Recorded
           /\ prev = Nothing => OverTunnel(running) # {} \/ ~ Distinct(state)
<1>1. /\ state \in Configs /\ config \in Configs
      /\ dels \subseteq DOMAIN state /\ adds \subseteq DOMAIN config
      /\ dels \subseteq Deletes(state, config)
      /\ Nics \subseteq links /\ config = Target.routes
  BY DEF TypeOK, RoutesTypeOK, ControlOK
<1>2. prev = Nothing => config = running.routes
  BY <1>1, NodeAssumption DEF ControlOK, TypeOK, Target, AtRest
<1>3. \/ Harmless
      \/ /\ adds # {} => Recorded
         /\ \A d \in Dests : Cardinality(Due(d)) <= Cardinality(Present(d))
  BY DEF RecoverOK
<1>4. CASE s.do = "replace"
  <2>1. PICK i \in First(adds) : s = [do |-> "replace", route |-> config[i]]
    BY <1>4 DEF Upcoming
  <2>2. i \in DOMAIN config /\ adds # {} /\ config[i].dev \notin Nics
    BY <1>1, <2>1 DEF First, Accepts
  <2>3. prev = Nothing => OverTunnel(running) # {}
    BY <1>2, <2>2 DEF OverTunnel
  <2> QED
    BY <1>3, <2>2, <2>3
<1>5. CASE s.do = "del"
  <2>1. PICK i \in dels : s = [do |-> "del", route |-> state[i]]
    BY <1>5 DEF Upcoming, First
  <2>2. Present(state[i].dest) = {}
    BY <2>1 DEF Accepts
  <2>3. Harmless
    BY <1>1, <1>3, <2>2, DueIsThere
  <2>4. state # config
    BY <1>1, <2>1 DEF Deletes, DestsOf
  <2> QED
    BY <1>2, <2>3, <2>4 DEF Harmless
<1>6. s.do \in {"replace", "del"}
  BY DEF Upcoming
<1> QED
  BY <1>4, <1>5, <1>6

(* A step of the routes engine. *)
LEMMA RoutesRecover ==
    ASSUME TypeOK, ControlOK, ForceOK, RecoverOK, RoutesStep
    PROVE  RecoverOK'
<1>1. /\ mode \in {"apply", "restore"} /\ pos = "routes" /\ pc # "idle"
      /\ pc # "idle" => result = "none"
      /\ pc = "batch" <=> adds \cup dels # {}
  BY DEF RoutesStep, ControlOK, TypeOK, AtRest, BatchLine, BatchFail, WriteState
<1>2. /\ UNCHANGED <<links, config, wgState, mtu, running, version, mode, pos,
                      next, prev, at>>
      /\ outcome' = IF result' = "error" /\ \A s \in Upcoming : Accepts(s)
                    THEN "struck" ELSE outcome
      /\ cut' = (result' # "ok" /\ (cut \/ outcome' = "struck"))
      /\ dropped' = (result' # "ok" /\ dropped)
  BY DEF RoutesStep, BatchLine, BatchFail, WriteState, Fail
<1>3. CASE BatchLine
  <2>1. /\ pc' \in {"batch", "write"} /\ state' = state /\ result' = result
        /\ pc = "batch"
    BY <1>3 DEF BatchLine
  <2>2. ~ cut' => ~ cut
    BY <1>1, <1>2, <2>1
  <2>3. ASSUME ~ cut'
        PROVE  \/ Harmless'
               \/ /\ adds' # {} => Recorded'
                  /\ \A d \in Dests : Cardinality(Due(d)') <= Cardinality(Present(d)')
    <3>1. \/ Harmless
          \/ /\ adds # {} => Recorded
             /\ \A d \in Dests : Cardinality(Due(d)) <= Cardinality(Present(d))
      BY <2>1, <2>2, <2>3 DEF RecoverOK
    <3>2. Harmless <=> Harmless'
      BY <1>1, <1>2, <2>1 DEF Harmless, Distinct
    <3>3. ~ Harmless => Distinct(state)
      BY DEF Harmless
    <3> QED
      BY <1>3, <3>1, <3>2, <3>3, LineCounted
  <2>4. RestartRecovers'
    BY <1>1, <1>2 DEF RestartRecovers
  <2> QED
    BY <1>1, <1>2, <2>1, <2>3, <2>4 DEF RecoverOK
<1>4. CASE BatchFail
  <2>1. /\ pc' = "idle" /\ result' = "error" /\ UNCHANGED <<kernel, state>>
        /\ pc = "batch"
    BY <1>4 DEF BatchFail, Fail
  <2>2. ASSUME ~ cut'
        PROVE  /\ Harmless \/ Recorded
               /\ prev = Nothing => OverTunnel(running) # {} \/ ~ Distinct(state)
    <3>1. ~ cut /\ outcome' # "struck"
      BY <1>2, <2>1, <2>2 DEF TypeOK
    <3>2. PICK s \in Upcoming : ~ Accepts(s)
      BY <1>2, <2>1, <3>1
    <3> QED
      BY <2>1, <3>1, <3>2, OwnFail
  <2>3. /\ Harmless' <=> Harmless
        /\ Recorded' <=> Recorded
        /\ Distinct(state)' <=> Distinct(state)
        /\ OverTunnel(running)' = OverTunnel(running)
    BY <1>1, <1>2, <2>1 DEF TypeOK, Harmless, Distinct, Recorded, OverTunnel
  <2>4. RestartRecovers'
    BY <1>1, <1>2 DEF RestartRecovers
  <2> QED
    BY <1>2, <2>1, <2>2, <2>3, <2>4 DEF RecoverOK
<1>5. CASE WriteState
  <2>1. /\ pc' = "idle" /\ kernel' = kernel /\ pc = "write" /\ adds = {} /\ dels = {}
        /\ \/ state' = config /\ result' = "ok"
           \/ result' = "error"
    BY <1>1, <1>5 DEF WriteState, Fail
  <2>2. Upcoming = {}
    BY <2>1 DEF Upcoming, First
  <2>3. result' = "error" => outcome' = "struck" /\ cut'
    BY <1>2, <2>2
  <2>4. ASSUME result' = "ok"
        PROVE  Recorded'
    <3>1. state' = config
      BY <2>1, <2>4
    <3>2. \A i \in DOMAIN config : kernel[Key(config[i])] # Absent
      BY <2>1 DEF ForceOK, Added
    <3> QED
      BY <2>1, <3>1, <3>2 DEF Recorded
  <2>5. RestartRecovers'
    BY <1>1, <1>2 DEF RestartRecovers
  <2> QED
    BY <2>1, <2>3, <2>4, <2>5 DEF RecoverOK
<1> QED
  BY <1>3, <1>4, <1>5 DEF RoutesStep

(* When the links change, the recorded routes stay or are known. *)
LEMMA LinksRecover ==
    ASSUME TypeOK, RecoverOK, pc = "idle", NEW up \in SUBSET Links, LinksChange(up),
           UNCHANGED <<state, running>>,
           cut' = (cut \/ (LosesRoutes(links') /\ state # running.routes)),
           dropped' = (dropped \/ LosesRoutes(links'))
    PROVE  ~ cut' => Harmless' \/ Recorded'
<1> SUFFICES ASSUME ~ cut'
             PROVE  Harmless' \/ Recorded'
  OBVIOUS
<1>1. ~ cut /\ (Lost(up) = {} \/ state = running.routes)
  BY DEF LosesRoutes, LinksChange, LinksBecome, TypeOK
<1>2. Harmless \/ Recorded
  BY <1>1 DEF RecoverOK
<1>3. CASE Lost(up) = {}
  <2>1. kernel' = kernel
    BY <1>3, LinksLost
  <2>2. dropped => dropped'
    OBVIOUS
  <2> QED
    BY <1>2, <2>1, <2>2 DEF Harmless, Recorded, Distinct
<1>4. CASE Lost(up) # {} /\ state = running.routes
  <2>1. dropped'
    BY <1>4 DEF LosesRoutes, LinksChange, LinksBecome, Lost
  <2> QED
    BY <1>4, <2>1 DEF Harmless
<1> QED
  BY <1>1, <1>3, <1>4

(* The netdev engine fails at start only over a tunnel that is borrowed. *)
LEMMA StartBorrows ==
    ASSUME TypeOK, ControlOK, ForceOK, pos = "netdev", at <= Len(next.mtus),
           Setting.dev \notin links, prev = Nothing
    PROVE  Borrowed(running) # {}
<1>1. next = running /\ running \in Policies
  BY NodeAssumption DEF ControlOK, TypeOK
<1>2. DOMAIN next.mtus = 1..Len(next.mtus) /\ Len(next.mtus) \in Nat
  BY <1>1, PolicyType
<1>3. at \in DOMAIN running.mtus
  BY <1>1, <1>2 DEF TypeOK
<1>4. Setting.dev = running.mtus[at].dev /\ Setting.dev \in Links
  BY <1>1, <1>3 DEF ForceOK, Setting
<1>5. Setting.dev \in Tunnels
  BY <1>4 DEF ControlOK, Tunnels
<1>6. Setting.dev \notin running.wg
  BY <1>1 DEF ControlOK
<1> QED
  BY <1>3, <1>4, <1>5, <1>6 DEF Borrowed

(* The causes for which a start fails stay what they are. *)
LEMMA RecoverNext ==
    ASSUME TypeOK, ControlOK, ForceOK, RecoverOK, [Next]_vars
    PROVE  RecoverOK'
<1> USE DEF AtRest
<1>1. Nothing \notin Policies /\ running \in Policies
  BY NodeAssumption DEF TypeOK
<1>2. ASSUME NEW p \in Policies, Commit(p)
      PROVE  RecoverOK'
  BY <1>2 DEF RecoverOK, RestartRecovers, ControlOK, Commit, Begin, routesVars,
              Harmless, Recorded, Distinct
<1>3. CASE Start
  BY <1>3 DEF RecoverOK, RestartRecovers, ControlOK, Start, Begin, routesVars,
              Harmless, Recorded, Distinct
<1>4. CASE CallRoutes
  <2>1. /\ mode \in {"apply", "restore"} /\ pc = "idle" /\ pc' # "idle"
        /\ dels' = Deletes(state, Target.routes)
        /\ UNCHANGED <<kernel, state, running, mode, cut, dropped>>
    BY <1>4 DEF CallRoutes, Apply
  <2>2. \/ cut \/ Harmless \/ Recorded
    BY <2>1 DEF RecoverOK
  <2>3. dels' \subseteq DOMAIN state
    BY <2>1 DEF Deletes
  <2>4. ASSUME Recorded, Distinct(state)
        PROVE  \A d \in Dests : Cardinality(Due(d)') <= Cardinality(Present(d)')
    <3> TAKE d \in Dests
    <3>1. Due(d)' = {i \in dels' : state[i].dest = d} /\ Present(d)' = Present(d)
      BY <2>1 DEF Due, Present
    <3> QED
      BY <2>3, <2>4, <3>1, DueCounted
  <2>5. /\ Harmless' <=> Harmless
        /\ Recorded' <=> Recorded
    BY <2>1 DEF Harmless, Recorded, Distinct
  <2>6. ~ Harmless => Distinct(state)
    BY DEF Harmless
  <2>7. RestartRecovers'
    BY <2>1 DEF RestartRecovers
  <2> QED
    BY <2>1, <2>2, <2>4, <2>5, <2>6, <2>7 DEF RecoverOK
<1>5. CASE RoutesStep
  BY <1>5, RoutesRecover
<1>6. CASE RoutesDone
  <2>1. /\ UNCHANGED <<routesVars, wgState, mtu, running, version, cut, dropped>>
        /\ pos = "routes" /\ pc = "idle" /\ pos' # "routes"
    BY <1>6 DEF RoutesDone, Return
  <2>2. /\ Harmless' <=> Harmless
        /\ Recorded' <=> Recorded
    BY <2>1 DEF Harmless, Recorded, Distinct, routesVars
  <2>3. ASSUME mode' = "down"
        PROVE  /\ prev = Nothing /\ result = "error" /\ outcome' \in {"routes", "struck"}
               /\ outcome' = "routes" => outcome = "none"
    <3>1. prev = Nothing /\ ~ (result = "ok" /\ mode = "apply")
      BY <1>6, <2>1, <2>3 DEF RoutesDone, Return, Ended, ControlOK
    <3>2. mode = "apply" /\ result \in {"ok", "error"} /\ outcome \in {"none", "struck"}
      BY <1>1, <2>1, <3>1 DEF ControlOK, TypeOK
    <3> QED
      BY <1>6, <3>1, <3>2 DEF RoutesDone, Return
  <2>4. RestartRecovers'
    BY <2>1, <2>3 DEF RestartRecovers, RecoverOK, routesVars, OverTunnel, Distinct
  <2> QED
    BY <2>1, <2>2, <2>4 DEF RecoverOK, routesVars
<1>7. CASE Wireguard
  <2>1. /\ UNCHANGED <<state, pc, running, mode>> /\ pc = "idle" /\ pos' # "routes"
        /\ mode \in {"apply", "restore"}
        /\ cut' = (cut \/ (LosesRoutes(links') /\ state # running.routes))
        /\ dropped' = (dropped \/ LosesRoutes(links'))
        /\ LinksChange(Wanted(wgState, Target.wg))
    BY <1>7 DEF Wireguard, ControlOK, TypeOK
  <2>2. ~ cut' => Harmless' \/ Recorded'
    BY <2>1, WantedType, LinksRecover
  <2>3. RestartRecovers'
    BY <2>1 DEF RestartRecovers
  <2> QED
    BY <2>1, <2>2, <2>3 DEF RecoverOK
<1>8. CASE WireguardFail
  <2>1. /\ UNCHANGED <<state, pc, running>> /\ pc = "idle" /\ pos' # "routes"
        /\ mode \in {"apply", "restore"} /\ outcome' = "struck"
        /\ cut' = (cut \/ (LosesRoutes(links') /\ state # running.routes))
        /\ dropped' = (dropped \/ LosesRoutes(links'))
    BY <1>8 DEF WireguardFail, Return, ControlOK, TypeOK
  <2>2. PICK up \in SUBSET Links : LinksChange(up)
    BY <1>8, <2>1, WantedType DEF WireguardFail, TypeOK, RoutesTypeOK
  <2>3. ~ cut' => Harmless' \/ Recorded'
    BY <2>1, <2>2, LinksRecover
  <2>4. RestartRecovers'
    BY <2>1 DEF RestartRecovers
  <2> QED
    BY <2>1, <2>3, <2>4 DEF RecoverOK
<1>9. CASE NetdevLine
  BY <1>9 DEF RecoverOK, RestartRecovers, ControlOK, NetdevLine, routesVars,
              Harmless, Recorded, Distinct
<1>10. CASE NetdevFail
  <2>1. /\ UNCHANGED <<routesVars, running, cut, dropped>> /\ pc = "idle" /\ pos' # "routes"
        /\ outcome' # "routes"
    BY <1>10 DEF NetdevFail, Return, ControlOK
  <2>2. mode' = "down" /\ outcome' = "netdev" => Borrowed(running) # {}
    BY <1>10, StartBorrows DEF NetdevFail, Return
  <2>3. /\ Harmless' <=> Harmless
        /\ Recorded' <=> Recorded
        /\ Borrowed(running)' = Borrowed(running)
    BY <2>1 DEF Harmless, Recorded, Distinct, routesVars, Borrowed
  <2>4. RestartRecovers'
    BY <2>1, <2>2, <2>3 DEF RestartRecovers
  <2> QED
    BY <2>1, <2>3, <2>4 DEF RecoverOK, routesVars
<1>11. CASE NetdevDone
  BY <1>11 DEF RecoverOK, RestartRecovers, ControlOK, NetdevDone, Return, routesVars,
               Harmless, Recorded, Distinct
<1>12. CASE Record
  BY <1>12 DEF RecoverOK, RestartRecovers, ControlOK, Record, Return,
               Harmless, Recorded, Distinct
<1>13. CASE Crash
  BY <1>13 DEF RecoverOK, RestartRecovers, ControlOK, Crash, Dies, Return,
               Harmless, Recorded, Distinct
<1>14. CASE Reboot
  BY <1>14 DEF RecoverOK, RestartRecovers, ControlOK, Reboot, Dies, Return, Harmless
<1>15. ASSUME NEW l \in Nics, Flap(l)
       PROVE  RecoverOK'
  BY <1>15 DEF RecoverOK, RestartRecovers, ControlOK, Flap, Harmless
<1>16. CASE UNCHANGED vars
  <2>1. /\ Harmless' <=> Harmless
        /\ Recorded' <=> Recorded
        /\ \A d \in Dests : Due(d)' = Due(d) /\ Present(d)' = Present(d)
    BY <1>16 DEF vars, routesVars, Harmless, Recorded, Distinct, Due, Present
  <2> QED
    BY <1>16, <2>1 DEF RecoverOK, RestartRecovers, vars, routesVars
<1> QED
  BY <1>2, <1>3, <1>4, <1>5, <1>6, <1>7, <1>8, <1>9, <1>10, <1>11, <1>12,
     <1>13, <1>14, <1>15, <1>16 DEF Next

-----------------------------------------------------------------------------
(* The node before the daemon's first start. *)
LEMMA NodeInit == Init => NodeInv
<1> SUFFICES ASSUME Init
             PROVE  NodeInv
  OBVIOUS
<1>1. /\ Empty.routes = <<>> /\ Empty.wg = {} /\ Empty.mtus = <<>> /\ Empty \in Policies
      /\ Nics \subseteq Links /\ <<>> \in Configs
      /\ 1 \in 1..(Len(Empty.mtus) + 1)
  BY NodeAssumption, RoutesAssumption
<1>2. TypeOK
  BY <1>1 DEF Init, RoutesInit, TypeOK, RoutesTypeOK
<1>3. ControlOK
  BY <1>1 DEF Init, RoutesInit, ControlOK, AtRest, Lost, Deletes
<1>4. ForceOK
  BY <1>1 DEF Init, RoutesInit, ForceOK, AskedInForce
<1>5. CleanOK
  BY <1>1 DEF Init, RoutesInit, CleanOK, AtRest, Simple, Only
<1>6. RecoverOK
  BY <1>1 DEF Init, RoutesInit, RecoverOK, RestartRecovers, Recorded
<1> QED
  BY <1>2, <1>3, <1>4, <1>5, <1>6 DEF NodeInv

(* Every step keeps the whole of it. *)
LEMMA NodeNext == NodeInv /\ [Next]_vars => NodeInv'
<1> SUFFICES ASSUME NodeInv, [Next]_vars
             PROVE  NodeInv'
  OBVIOUS
<1>1. TypeOK /\ ControlOK /\ ForceOK /\ CleanOK /\ RecoverOK
  BY DEF NodeInv
<1>2. TypeOK'
  BY <1>1, TypeNext
<1>3. ControlOK'
  BY <1>1, ControlNext
<1>4. ForceOK'
  BY <1>1, ForceNext
<1>5. CleanOK'
  BY <1>1, <1>4, CleanNext
<1>6. RecoverOK'
  BY <1>1, RecoverNext
<1> QED
  BY <1>2, <1>3, <1>4, <1>5, <1>6 DEF NodeInv

(* NodeInv, with the types of all variables, holds always: the supervisor  *)
(* and the engines agree on where they are, and files, table and links are *)
(* those of the policies they work for (Supervisor.Apply, Routes.Apply,    *)
(* WireGuard.Apply, Netdev.Apply).                                         *)
THEOREM NodeInvCorrect == Spec => []NodeInv
<1>1. Init => NodeInv
  BY NodeInit
<1>2. NodeInv /\ [Next]_vars => NodeInv'
  BY NodeNext
<1> QED
  BY <1>1, <1>2, PTL DEF Spec

(* After a commit or a start that succeeded, every route, tunnel and MTU   *)
(* of the running policy is in the kernel, whatever failed, crashed or     *)
(* rebooted before.                                                        *)
THEOREM ForceCorrect == Spec => []AskedInForce
<1>1. NodeInv => AskedInForce
  BY DEF NodeInv, ForceOK
<1> QED
  BY <1>1, NodeInvCorrect, PTL

(* Between commits table and tunnels are those of the running policy and   *)
(* no others, also after commits that the netdev engine refused and        *)
(* Supervisor.Apply restored, as long as no fault struck, no artifact had  *)
(* a metric or a destination twice, no link took routes along, and the     *)
(* routes engine did not fail half way.                                    *)
THEOREM FollowsCorrect == Spec => []NodeFollowsRunning
<1>1. NodeInv => NodeFollowsRunning
  BY DEF NodeInv, CleanOK, NodeFollowsRunning, AtRest, TypeOK, ControlOK
<1> QED
  BY <1>1, NodeInvCorrect, PTL

(* The deletes that Routes.Apply appends find their routes, in commits, in  *)
(* restores and at start, unless a fault cut the engine short or routes    *)
(* were lost since it last went through, or the recorded artifact has a    *)
(* destination and metric twice: by counting, destination by destination,  *)
(* the deletes that are due against the routes that are there.             *)
THEOREM DeletesCorrect == Spec => []DeletesWork
<1>1. NodeInv => DeletesWork
  <2> SUFFICES ASSUME NodeInv, pc = "batch", ~ cut, ~ dropped, Distinct(state),
                      NEW s \in Upcoming, s.do = "del"
               PROVE  Accepts(s)
    BY DEF DeletesWork
  <2>1. PICK i \in dels : s = [do |-> "del", route |-> state[i]]
    BY DEF Upcoming, First
  <2>2. \A d \in Dests : Cardinality(Due(d)) <= Cardinality(Present(d))
    BY DEF NodeInv, RecoverOK, Harmless
  <2>3. TypeOK /\ state \in Configs /\ dels \subseteq DOMAIN state
    BY DEF NodeInv, TypeOK, RoutesTypeOK
  <2>4. Present(state[i].dest) # {}
    BY <2>2, <2>3, DueIsThere
  <2> QED
    BY <2>1, <2>4 DEF Accepts
<1> QED
  BY <1>1, NodeInvCorrect, PTL

(* The re-apply at start fails by itself only in the four cases that       *)
(* RestartRecovers names: however long the history of commits, faults,     *)
(* crashes, reboots and links that went, there is no fifth.                *)
THEOREM RestartCorrect == Spec => []RestartRecovers
<1>1. NodeInv => RestartRecovers
  BY DEF NodeInv, RecoverOK
<1> QED
  BY <1>1, NodeInvCorrect, PTL
=============================================================================
