---------------------------- MODULE ServiceProofs ----------------------------
(***************************************************************************)
(* Proofs about the engines that configure a system service, FRR and       *)
(* strongSwan under the supervisor, for any artifacts and policies and any *)
(* set of failures.  ServiceInv is inductive: first the engine of FRR,     *)
(* step by step, then the two together.                                    *)
(***************************************************************************)
EXTENDS ServiceEngines, TLAPS

(* An artifact without daemons is the one without routing, and no artifact *)
(* is taken for what was found on the host.                                *)
LEMMA NotRoutingConf == FrrTypeOK /\ ~ Routing => config = NoRouting
BY FrrAssumption DEF FrrTypeOK, Routing

(* The types and FrrInv at the start. *)
LEMMA FrrInitInv == FrrInit => FrrInv
<1> SUFFICES ASSUME FrrInit PROVE FrrInv
  OBVIOUS
<1>1. service \in [daemons : SUBSET Daemons, conf : Confs]
  BY FrrAssumption DEF FrrInit, Confs
<1>2. FrrTypeOK
  BY <1>1, FrrAssumption DEF FrrInit, FrrTypeOK, Confs
<1>3. ~ Routing
  BY FrrAssumption DEF FrrInit, Routing
<1> QED
  BY <1>2, <1>3
     DEF FrrInit, FrrInv, PathOK, FilesOK, MarkerOK, NotOurs, UntouchedOK, LeftAlone

(* What one step of the FRR engine does to its types: a call, a step of    *)
(* Apply, a restart of the service.                                        *)
LEMMA FrrTypeNext ==
    ASSUME FrrTypeOK,
           (\E c \in Configs : Apply(c)) \/ FrrStep \/ FrrRestart
    PROVE  FrrTypeOK'
<1>b. daemonsFile \in SUBSET Daemons
  BY FrrAssumption DEF FrrTypeOK
<1>a. Reload => service' \in [daemons : SUBSET Daemons, conf : Confs]
  BY <1>b DEF Reload, FrrTypeOK
<1> USE FrrAssumption DEF FrrTypeOK, Confs, Daemons
<1>1. ASSUME NEW c \in Configs, Apply(c) PROVE FrrTypeOK'
  BY <1>1 DEF Apply
<1>2. ASSUME EnableDaemons PROVE FrrTypeOK'
  BY <1>2 DEF EnableDaemons, Error
<1>3. ASSUME WriteConf PROVE FrrTypeOK'
  BY <1>3 DEF WriteConf, Error, Routing
<1>4. ASSUME Reload PROVE FrrTypeOK'
  BY <1>a, <1>4 DEF Reload, Error, Routing
<1>5. ASSUME Mark PROVE FrrTypeOK'
  BY <1>5 DEF Mark, Error
<1>6. ASSUME Unmark PROVE FrrTypeOK'
  BY <1>6 DEF Unmark, Error
<1>7. ASSUME FrrRestart PROVE FrrTypeOK'
  BY <1>7 DEF FrrRestart
<1> QED
  BY <1>1, <1>2, <1>3, <1>4, <1>5, <1>6, <1>7 DEF FrrStep

(* The engine of FRR keeps its invariant: one step per action, each over   *)
(* the four parts.                                                         *)
LEMMA FrrNext ==
    ASSUME FrrInv,
           (\E c \in Configs : Apply(c)) \/ FrrStep \/ FrrRestart
    PROVE  FrrInv'
<1> DEFINE Rest == PathOK /\ FilesOK /\ MarkerOK /\ UntouchedOK
<1>a. FrrTypeOK /\ FrrTypeOK'
  BY FrrTypeNext DEF FrrInv
<1>b. Rest
  BY DEF FrrInv
<1>c. (~ Routing)' => config' = NoRouting
  BY <1>a, FrrAssumption DEF FrrTypeOK, Routing
<1> USE DEF PathOK, FilesOK, MarkerOK, UntouchedOK, LeftAlone, NotOurs, Routing
<1>1. ASSUME NEW c \in Configs, Apply(c) PROVE Rest'
  BY <1>1, <1>a, <1>b, <1>c DEF Apply, FrrTypeOK
<1>2. ASSUME EnableDaemons PROVE Rest'
  BY <1>2, <1>a, <1>b, <1>c DEF EnableDaemons, Error
<1>3. ASSUME WriteConf PROVE Rest'
  BY <1>3, <1>a, <1>b, <1>c DEF WriteConf, Error
<1>4. ASSUME Reload PROVE Rest'
  BY <1>4, <1>a, <1>b, <1>c DEF Reload, Error
<1>5. ASSUME Mark PROVE Rest'
  BY <1>5, <1>a, <1>b, <1>c DEF Mark, Error
<1>6. ASSUME Unmark PROVE Rest'
  <2>0. /\ pc' = "idle" /\ config' = config /\ ~ Routing /\ config = NoRouting
        /\ UNCHANGED <<lines, daemonsFile, confFile, service, asked>>
    BY <1>6, <1>b, <1>c DEF Unmark, Error
  <2>1. /\ asked /\ confFile = NoRouting.conf
        /\ service = [daemons |-> daemonsFile, conf |-> confFile]
    BY <1>6, <1>b, <2>0 DEF Unmark
  <2>2. result' = "ok" => ~ marker'
    BY <1>6 DEF Unmark, Error
  <2> QED
    BY <2>0, <2>1, <2>2
<1>7. ASSUME FrrRestart PROVE Rest'
  BY <1>7, <1>a, <1>b, <1>c DEF FrrRestart
<1> QED
  BY <1>a, <1>1, <1>2, <1>3, <1>4, <1>5, <1>6, <1>7 DEF FrrStep, FrrInv

-----------------------------------------------------------------------------
(* Nothing of FRR's changes in the other steps. *)
LEMMA FrrUnchanged == ASSUME FrrInv, UNCHANGED frrVars PROVE FrrInv'
BY DEF FrrInv, frrVars, FrrTypeOK, Confs, PathOK, FilesOK, MarkerOK, NotOurs,
       UntouchedOK, LeftAlone, Routing

(* The invariant holds at the start. *)
LEMMA ServiceInit == Init => ServiceInv
<1> SUFFICES ASSUME Init PROVE ServiceInv
  OBVIOUS
<1>1. FrrInv /\ FrrTypeOK
  BY FrrInitInv DEF Init, FrrInv
<1>2. NoTunnels \in Tunnels /\ running \in Policies /\ running.ipsec = NoTunnels
  BY ServiceAssumption DEF Init, Tunnels
<1>3. TypeOK
  BY <1>1, <1>2 DEF Init, TypeOK, FrrInit
<1> QED
  BY <1>1, <1>2, <1>3, ServiceAssumption
     DEF Init, ServiceInv, OrderOK, DropinOK, TunnelsInForce, FrrInit, Connections

(* What swanctl loads from the drop-in is an artifact's connections. *)
LEMMA ConnectionsType == \A f : Connections(f) \in Tunnels
BY ServiceAssumption DEF Connections, Tunnels

(* When the strongSwan engine fails the FRR engine is called for the       *)
(* running policy: FRR keeps its invariant, and nobody relies on charon.   *)
LEMMA SwanFailsNext ==
    ASSUME ServiceInv, SwanFails, UNCHANGED next
    PROVE  /\ FrrInv' /\ FrrTypeOK' /\ step' = "frr" /\ restoring' = TRUE
           /\ running' \in Policies /\ next' \in Policies
<1>1. running.frr \in Configs
  BY ServiceAssumption DEF ServiceInv, TypeOK
<1>2. FrrInv'
  BY <1>1, FrrNext DEF ServiceInv, SwanFails
<1> QED
  BY <1>2 DEF ServiceInv, TypeOK, SwanFails, FrrInv

(* Every step of the two engines and of their services keeps it. *)
LEMMA ServiceNext == ASSUME ServiceInv, [Next]_vars PROVE ServiceInv'
<1>a. TypeOK /\ FrrInv /\ FrrTypeOK /\ OrderOK /\ DropinOK /\ TunnelsInForce
  BY DEF ServiceInv, FrrInv
<1>b. \A f : Connections(f) \in Tunnels
  BY ConnectionsType
<1>c. NoTunnels \in Tunnels /\ NoFile \notin Tunnels /\ Cut \notin Tunnels /\ NoFile # Cut
  BY ServiceAssumption DEF Tunnels
<1>d. next.ipsec \in Tunnels /\ running.ipsec \in Tunnels
  BY <1>a DEF TypeOK, Tunnels
<1>e. \A f \in Tunnels : Connections(f) = f
  BY DEF Connections
<1>f. Connections(NoFile) = NoTunnels
  BY <1>c DEF Connections
<1> DEFINE Goal == TypeOK' /\ OrderOK' /\ DropinOK' /\ TunnelsInForce'
<1>1. ASSUME NEW p \in Policies, Commit(p) PROVE FrrInv' /\ Goal
  <2>1. p.frr \in Configs
    BY ServiceAssumption
  <2>2. FrrInv' /\ FrrTypeOK'
    BY <1>1, <1>a, <2>1, FrrNext DEF Commit, FrrInv
  <2> QED
    BY <1>1, <1>a, <2>2 DEF Commit, TypeOK, OrderOK, DropinOK, TunnelsInForce
<1>2. ASSUME Frr PROVE FrrInv' /\ Goal
  <2>1. FrrInv' /\ FrrTypeOK'
    BY <1>2, <1>a, FrrNext DEF Frr, FrrInv
  <2> QED
    BY <1>2, <1>a, <2>1 DEF Frr, TypeOK, OrderOK, DropinOK, TunnelsInForce
<1>3. ASSUME FrrDone PROVE FrrInv' /\ Goal
  <2>1. FrrInv' /\ FrrTypeOK' /\ UNCHANGED <<pc, result>>
    BY <1>3, <1>a, FrrUnchanged DEF FrrDone, FrrInv, frrVars
  <2> QED
    BY <1>3, <1>a, <2>1 DEF FrrDone, TypeOK, OrderOK, DropinOK, TunnelsInForce
<1>4. ASSUME SwanWrite PROVE FrrInv' /\ Goal
  <2>0. /\ step = "swan" /\ UNCHANGED <<loaded, next>> /\ tunnelled' \in BOOLEAN
        /\ next.ipsec # NoTunnels => tunnelled'
        /\ tunnelled => tunnelled'
        /\ dropin = NoFile => loaded = NoTunnels
        /\ ~ tunnelled => dropin = NoFile
    BY <1>4, <1>a DEF SwanWrite, TypeOK, DropinOK
  <2>1. CASE /\ next.ipsec = NoTunnels /\ dropin = NoFile /\ step' = "idle"
             /\ running' = next /\ UNCHANGED <<frrVars, dropin, restoring>>
    <3>1. FrrInv' /\ FrrTypeOK' /\ UNCHANGED <<pc, result>>
      BY <2>1, <1>a, FrrUnchanged DEF FrrInv, frrVars
    <3> QED
      BY <2>0, <2>1, <3>1, <1>a, <1>f
         DEF TypeOK, OrderOK, DropinOK, TunnelsInForce
  <2>2. CASE /\ next.ipsec # NoTunnels \/ dropin # NoFile
             /\ dropin' = next.ipsec /\ step' = "load"
             /\ UNCHANGED <<frrVars, restoring, running>>
    <3>1. FrrInv' /\ FrrTypeOK' /\ UNCHANGED <<pc, result>>
      BY <2>2, <1>a, FrrUnchanged DEF FrrInv, frrVars
    <3> QED
      BY <2>0, <2>2, <3>1, <1>a, <1>c, <1>d
         DEF TypeOK, OrderOK, DropinOK, TunnelsInForce
  <2>3. CASE /\ next.ipsec # NoTunnels \/ dropin # NoFile
             /\ dropin' \in {dropin, Cut} /\ SwanFails
    <3>1. /\ FrrInv' /\ FrrTypeOK' /\ step' = "frr" /\ restoring' = TRUE
          /\ running' \in Policies /\ next' \in Policies
      BY <2>0, <2>3, SwanFailsNext
    <3> QED
      BY <2>0, <2>3, <3>1, <1>a, <1>c DEF TypeOK, OrderOK, DropinOK, TunnelsInForce
  <2> QED
    BY <1>4, <2>1, <2>2, <2>3 DEF SwanWrite
<1>5. ASSUME SwanLoad PROVE FrrInv' /\ Goal
  <2>0. /\ step = "load" /\ dropin = next.ipsec /\ Connections(dropin) = next.ipsec
        /\ dropin # NoFile /\ UNCHANGED <<dropin, next, tunnelled>>
    BY <1>5, <1>a, <1>c, <1>d, <1>e DEF SwanLoad, DropinOK
  <2>1. CASE /\ loaded' = Connections(dropin) /\ step' = "idle"
             /\ running' = next /\ UNCHANGED <<frrVars, restoring>>
    <3>1. FrrInv' /\ FrrTypeOK' /\ UNCHANGED <<pc, result>>
      BY <2>1, <1>a, FrrUnchanged DEF FrrInv, frrVars
    <3> QED
      BY <2>0, <2>1, <3>1, <1>a, <1>d
         DEF TypeOK, OrderOK, DropinOK, TunnelsInForce
  <2>2. CASE loaded' \in {loaded, Connections(dropin)} /\ SwanFails
    <3>1. /\ FrrInv' /\ FrrTypeOK' /\ step' = "frr" /\ restoring' = TRUE
          /\ running' \in Policies /\ next' \in Policies
      BY <2>0, <2>2, SwanFailsNext
    <3> QED
      BY <2>0, <2>2, <3>1, <1>a, <1>d
         DEF TypeOK, OrderOK, DropinOK, TunnelsInForce
  <2> QED
    BY <1>5, <2>1, <2>2 DEF SwanLoad
<1>6. ASSUME CharonRestart PROVE FrrInv' /\ Goal
  <2>1. FrrInv' /\ FrrTypeOK' /\ UNCHANGED <<pc, result>>
    BY <1>6, <1>a, FrrUnchanged DEF CharonRestart, FrrInv, frrVars
  <2> QED
    BY <1>6, <1>a, <1>b, <1>f, <2>1
       DEF CharonRestart, TypeOK, OrderOK, DropinOK, TunnelsInForce
<1>7. ASSUME ServiceRestart PROVE FrrInv' /\ Goal
  <2>1. FrrInv' /\ FrrTypeOK' /\ UNCHANGED <<pc, result>>
    BY <1>7, <1>a, FrrNext DEF ServiceRestart, FrrRestart, FrrInv
  <2> QED
    BY <1>7, <1>a, <2>1 DEF ServiceRestart, TypeOK, OrderOK, DropinOK, TunnelsInForce
<1>8. ASSUME UNCHANGED vars PROVE FrrInv' /\ Goal
  <2>1. FrrInv' /\ FrrTypeOK' /\ UNCHANGED <<pc, result>>
    BY <1>8, <1>a, FrrUnchanged DEF vars, FrrInv, frrVars
  <2> QED
    BY <1>8, <1>a, <2>1 DEF vars, TypeOK, OrderOK, DropinOK, TunnelsInForce
<1> QED
  BY <1>1, <1>2, <1>3, <1>4, <1>5, <1>6, <1>7, <1>8 DEF Next, ServiceInv

-----------------------------------------------------------------------------
(* ServiceInv holds in every reachable state, for any policies, any files  *)
(* found on the host and any set of failures.                              *)
THEOREM ServiceInvCorrect == Spec => []ServiceInv
BY ServiceInit, ServiceNext, PTL DEF Spec

(* The types of both engines. *)
THEOREM ServiceTypeCorrect == Spec => []TypeOK
<1>1. ServiceInv => TypeOK
  BY DEF ServiceInv
<1> QED
  BY <1>1, ServiceInvCorrect, PTL

(* An Apply with routing that succeeded left the service running its       *)
(* frr.conf, with those of its daemons that the daemons file has a line    *)
(* for and no other, and the marker in place: whatever failed before it,   *)
(* and however often the service restarts afterwards.                      *)
THEOREM RoutingCorrect == Spec => []RoutingInForce
<1>1. ServiceInv => RoutingInForce
  BY DEF ServiceInv, FrrInv, PathOK, FilesOK, RoutingInForce
<1> QED
  BY <1>1, ServiceInvCorrect, PTL

(* A host whose policies never had routing keeps its own FRR.              *)
THEOREM LeftAloneCorrect == Spec => []LeftAlone
<1>1. ServiceInv => LeftAlone
  BY DEF ServiceInv, FrrInv, UntouchedOK
<1> QED
  BY <1>1, ServiceInvCorrect, PTL

(* An Apply without routing that succeeded left no routing of ours behind, *)
(* unless an earlier one never came to its marker.                         *)
THEOREM TornDownCorrect == Spec => []PeeringTornDown
<1>1. ServiceInv => PeeringTornDown
  BY DEF ServiceInv, FrrInv, PathOK, MarkerOK, NotOurs, PeeringTornDown
<1> QED
  BY <1>1, ServiceInvCorrect, PTL

(* A commit that succeeded left charon with the tunnels of its policy,     *)
(* whatever failed, was restored or restarted in between.                  *)
THEOREM TunnelsCorrect == Spec => []TunnelsInForce
<1>1. ServiceInv => TunnelsInForce
  BY DEF ServiceInv
<1> QED
  BY <1>1, ServiceInvCorrect, PTL

(* A node whose policies never had tunnels has no drop-in and no           *)
(* connection of ours.                                                     *)
THEOREM NoTraceCorrect == Spec => []NoTunnelsNoTrace
<1>1. ServiceInv => NoTunnelsNoTrace
  BY DEF ServiceInv, DropinOK, NoTunnelsNoTrace
<1> QED
  BY <1>1, ServiceInvCorrect, PTL
=============================================================================
