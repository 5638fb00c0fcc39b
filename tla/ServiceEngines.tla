---------------------------- MODULE ServiceEngines ----------------------------
(***************************************************************************)
(* The engines that configure a system service: FRR (FrrEngine) and, after *)
(* it, strongSwan (internal/engines/strongswan.go), under the supervisor.  *)
(*                                                                         *)
(* The strongSwan engine owns one drop-in under swanctl's conf.d.  Apply   *)
(* writes it and has swanctl load the connections; an artifact without     *)
(* tunnels is not even written where no drop-in is.  charon is external:   *)
(* it runs what swanctl loaded last, and what the drop-in says after a     *)
(* restart.  When it fails the FRR engine, already switched, is restored,  *)
(* and the drop-in stays as the failure left it.                           *)
(***************************************************************************)
EXTENDS FrrEngine

CONSTANTS
    Policies,   \* [frr : Configs, ipsec : the strongswan artifact]
    NoTunnels,  \* the artifact of a policy without IPsec tunnels
    NoFile,     \* the drop-in is not there
    Cut         \* the drop-in when a write was cut short: no connections

Tunnels == {p.ipsec : p \in Policies}

ASSUME ServiceAssumption ==
    /\ \A p \in Policies : p.frr \in Configs
    /\ [frr |-> NoRouting, ipsec |-> NoTunnels] \in Policies
    /\ {NoFile, Cut} \cap Tunnels = {}
    /\ NoFile # Cut

VARIABLES
    dropin,     \* conf.d/openngfw.conf
    loaded,     \* the connections of ours that charon has
    step,       \* what runs: "frr", "swan" (Apply begins), "load", "idle"
    restoring,  \* the supervisor is in its restore loop
    running,    \* the policy that was applied last
    next,       \* the policy being applied
    tunnelled   \* history variable: some artifact had tunnels

vars == <<frrVars, dropin, loaded, step, restoring, running, next, tunnelled>>

TypeOK ==
    /\ FrrTypeOK
    /\ dropin \in Tunnels \cup {NoFile, Cut}
    /\ loaded \in Tunnels
    /\ step \in {"idle", "frr", "swan", "load"}
    /\ restoring \in BOOLEAN
    /\ running \in Policies /\ next \in Policies
    /\ tunnelled \in BOOLEAN
    /\ pc # "idle" => step = "frr"

Init ==
    /\ FrrInit
    /\ dropin = NoFile
    /\ loaded = NoTunnels
    /\ step = "idle"
    /\ restoring = FALSE
    /\ running = [frr |-> NoRouting, ipsec |-> NoTunnels]
    /\ next = running
    /\ tunnelled = FALSE

-----------------------------------------------------------------------------
Commit(p) ==
    /\ step = "idle"
    /\ Apply(p.frr)
    /\ step' = "frr"
    /\ restoring' = FALSE
    /\ next' = p
    /\ UNCHANGED <<dropin, loaded, running, tunnelled>>

Frr ==
    /\ step = "frr"
    /\ FrrStep
    /\ UNCHANGED <<dropin, loaded, step, restoring, running, next, tunnelled>>

FrrDone ==
    /\ step = "frr"
    /\ pc = "idle"
    /\ step' = IF result = "ok" /\ ~ restoring THEN "swan" ELSE "idle"
    /\ UNCHANGED <<frrVars, dropin, loaded, restoring, running, next, tunnelled>>

(* Variant: without tunnels nothing is ever done. *)
SwanWriteOnly ==
    /\ step = "swan"
    /\ tunnelled' = (tunnelled \/ next.ipsec # NoTunnels)
    /\ IF next.ipsec = NoTunnels
       THEN step' = "idle" /\ running' = next /\ UNCHANGED dropin
       ELSE dropin' = next.ipsec /\ step' = "load" /\ UNCHANGED running
    /\ UNCHANGED <<frrVars, loaded, restoring, next>>

(* Variant: the drop-in is written whether there is one or not. *)
SwanWriteAlways ==
    /\ step = "swan"
    /\ tunnelled' = (tunnelled \/ next.ipsec # NoTunnels)
    /\ dropin' = next.ipsec
    /\ step' = "load"
    /\ UNCHANGED <<frrVars, loaded, restoring, running, next>>

(* Apply failed: FRR goes back to the policy before. *)
SwanFails ==
    /\ Apply(running.frr)
    /\ step' = "frr"
    /\ restoring' = TRUE
    /\ UNCHANGED running

(* os.WriteFile, unless there is nothing to clean up. *)
SwanWrite ==
    /\ step = "swan"
    /\ tunnelled' = (tunnelled \/ next.ipsec # NoTunnels)
    /\ UNCHANGED <<loaded, next>>
    /\ \/ /\ next.ipsec = NoTunnels /\ dropin = NoFile
          /\ step' = "idle"
          /\ running' = next
          /\ UNCHANGED <<frrVars, dropin, restoring>>
       \/ /\ next.ipsec # NoTunnels \/ dropin # NoFile
          /\ dropin' = next.ipsec
          /\ step' = "load"
          /\ UNCHANGED <<frrVars, restoring, running>>
       \/ /\ next.ipsec # NoTunnels \/ dropin # NoFile
          /\ Faults \cap {"write", "kill"} # {}
          /\ dropin' \in {dropin, Cut}
          /\ SwanFails

Connections(file) == IF file \in Tunnels THEN file ELSE NoTunnels

(* swanctl: it fails, or is killed, before it loaded anything or after. *)
SwanLoad ==
    /\ step = "load"
    /\ UNCHANGED <<dropin, next, tunnelled>>
    /\ \/ /\ loaded' = Connections(dropin)
          /\ step' = "idle"
          /\ running' = next
          /\ UNCHANGED <<frrVars, restoring>>
       \/ /\ Faults \cap {"reload", "kill"} # {}
          /\ loaded' \in {loaded, Connections(dropin)}
          /\ SwanFails

(* External: charon restarts by itself. *)
CharonRestart ==
    /\ "restart" \in Faults
    /\ loaded' = Connections(dropin)
    /\ UNCHANGED <<frrVars, dropin, step, restoring, running, next, tunnelled>>

ServiceRestart == FrrRestart /\ UNCHANGED <<dropin, loaded, step, restoring, running, next, tunnelled>>

Next ==
    \/ \E p \in Policies : Commit(p)
    \/ Frr \/ FrrDone \/ SwanWrite \/ SwanLoad
    \/ CharonRestart \/ ServiceRestart

Spec == Init /\ [][Next]_vars

-----------------------------------------------------------------------------
(* Properties *)

(* When a commit succeeded charon has exactly the tunnels of the policy,   *)
(* the ones an earlier policy had being gone, whatever failed or restarted *)
(* before; in particular "nothing managed, nothing to clean up" (Apply) is *)
(* true of a node without a drop-in.                                       *)
TunnelsInForce ==
    step = "idle" /\ ~ restoring /\ result = "ok" => loaded = running.ipsec

(* A node whose policy never had tunnels has no drop-in and no connections *)
(* of ours, through commits, failures and restores.                        *)
NoTunnelsNoTrace == ~ tunnelled => dropin = NoFile /\ loaded = NoTunnels

-----------------------------------------------------------------------------
(* The inductive invariant: what a restart of charon would find is what    *)
(* the supervisor believes.                                                *)

(* The strongSwan engine runs after an FRR engine that succeeded. *)
OrderOK == step \in {"swan", "load"} => result = "ok" /\ ~ restoring

DropinOK ==
    /\ step = "load" => dropin = next.ipsec
    /\ step = "idle" /\ ~ restoring /\ result = "ok" =>
          Connections(dropin) = running.ipsec
    /\ dropin = NoFile => loaded = NoTunnels
    /\ ~ tunnelled => dropin = NoFile

ServiceInv == TypeOK /\ FrrInv /\ OrderOK /\ DropinOK /\ TunnelsInForce
=============================================================================
