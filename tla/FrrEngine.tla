------------------------------ MODULE FrrEngine ------------------------------
(***************************************************************************)
(* The FRR engine (internal/engines/frr.go).  FRR runs as a system service *)
(* from two files, the daemons file and frr.conf.  Apply of an artifact    *)
(* with routing writes both, reloads the service and then leaves a marker, *)
(* "OpenNGFW manages FRR here"; Apply of an artifact without routing does  *)
(* nothing unless the marker is there, and otherwise writes frr.conf,      *)
(* reloads and removes the marker.                                         *)
(*                                                                         *)
(* Each write, reload or removal is a step, so that an error, a cancelled  *)
(* context or a crash may end Apply between any two of them.  The service  *)
(* is external: a reload makes it run what the files say.                  *)
(***************************************************************************)
EXTENDS Naturals

CONSTANTS
    Configs,    \* frr artifacts: [daemons : SUBSET Daemons, conf : ...]
    NoRouting,  \* the artifact of a policy without routing
    Found,      \* the frr.conf that was there before OpenNGFW
    FoundLines, \* the daemons that the daemons file had a line for before
    FoundDaemons, \* those of them that were enabled
    Faults      \* "reload": it may fail; "write": so may a write;
                \* "kill": the process or its context may end;
                \* "restart": a service may restart by itself

Daemons == {"bgpd", "ospfd"}

ASSUME FrrAssumption ==
    /\ \A c \in Configs : c.daemons \subseteq Daemons
    /\ NoRouting \in Configs /\ NoRouting.daemons = {}
    /\ \A c \in Configs : c.daemons = {} => c = NoRouting
    /\ \A c \in Configs : c.conf # Found
    /\ FoundLines \subseteq Daemons /\ FoundDaemons \subseteq FoundLines
    /\ Faults \subseteq {"reload", "write", "kill", "restart"}

VARIABLES
    lines,          \* daemons that have a line in /etc/frr/daemons
    daemonsFile,    \* those of them that are enabled there
    confFile,       \* /etc/frr/frr.conf
    marker,         \* frr.managed exists
    service,        \* what FRR runs: the files at its last reload
    pc,             \* where Apply is
    config,         \* its argument
    result,         \* what the last Apply returned
    asked,          \* history variable: some artifact had routing
    unmarked        \* history variable: Apply ended between the write of
                    \* frr.conf and the marker, and has not gone through since

frrVars == <<lines, daemonsFile, confFile, marker, service, pc, config, result, asked,
          unmarked>>

Confs == {c.conf : c \in Configs} \cup {Found, "truncated"}

FrrTypeOK ==
    /\ lines \in SUBSET FoundLines
    /\ daemonsFile \in SUBSET lines
    /\ confFile \in Confs
    /\ marker \in BOOLEAN
    /\ service \in [daemons : SUBSET Daemons, conf : Confs]
    /\ pc \in {"idle", "enable", "write", "reload", "mark", "unmark"}
    /\ config \in Configs
    /\ result \in {"none", "ok", "error"}
    /\ asked \in BOOLEAN
    /\ unmarked \in BOOLEAN

FrrInit ==
    /\ lines = FoundLines
    /\ daemonsFile = FoundDaemons
    /\ confFile = Found
    /\ marker = FALSE
    /\ service = [daemons |-> FoundDaemons, conf |-> Found]
    /\ pc = "idle"
    /\ config = NoRouting
    /\ result = "none"
    /\ asked = FALSE
    /\ unmarked = FALSE

-----------------------------------------------------------------------------
Routing == config.daemons # {}

(* Apply returns early on an error; so does a context that is done, and a  *)
(* crash looks the same from here.                                         *)
Error == pc' = "idle" /\ result' = "error"

(* Variant: the marker is not looked at. *)
ApplyAlways(c) ==
    /\ pc = "idle"
    /\ config' = c
    /\ asked' = (asked \/ c.daemons # {})
    /\ pc' = IF c.daemons # {} THEN "enable" ELSE "write"
    /\ result' = "none"
    /\ UNCHANGED <<lines, daemonsFile, confFile, marker, service, unmarked>>

(* Apply without routing stops at once where there is no marker. *)
Apply(c) ==
    /\ pc = "idle"
    /\ config' = c
    /\ asked' = (asked \/ c.daemons # {})
    /\ IF c.daemons # {} THEN pc' = "enable" /\ result' = "none"
       ELSE IF marker THEN pc' = "write" /\ result' = "none"
       ELSE pc' = "idle" /\ result' = "ok"
    /\ UNCHANGED <<lines, daemonsFile, confFile, marker, service, unmarked>>

(* Variant: daemons that are not wanted any more stay enabled. *)
EnableDaemonsAdds ==
    /\ pc = "enable"
    /\ daemonsFile' = daemonsFile \cup (config.daemons \cap lines)
    /\ pc' = "write"
    /\ UNCHANGED <<lines, confFile, marker, service, config, result, asked, unmarked>>

(* enableDaemons rewrites the lines that the file has for the two daemons  *)
(* OpenNGFW knows and keeps every other line; a daemon without a line is   *)
(* not given one.  A failed write leaves the old file or a part of the new *)
(* one, in which lines are missing or cut before their "yes".              *)
EnableDaemons ==
    /\ pc = "enable"
    /\ UNCHANGED <<confFile, marker, service, config, asked, unmarked>>
    /\ \/ /\ daemonsFile' = config.daemons \cap lines
          /\ pc' = "write"
          /\ UNCHANGED <<lines, result>>
       \/ /\ Faults \cap {"write", "kill"} # {}
          /\ \/ UNCHANGED <<lines, daemonsFile>>
             \/ /\ lines' \in SUBSET lines
                /\ daemonsFile' \in SUBSET (config.daemons \cap lines')
          /\ Error

(* os.WriteFile(frr.conf), which truncates the file first. *)
WriteConf ==
    /\ pc = "write"
    /\ UNCHANGED <<lines, daemonsFile, marker, service, config, asked>>
    /\ \/ /\ confFile' = config.conf
          /\ pc' = "reload"
          /\ UNCHANGED <<result, unmarked>>
       \/ /\ Faults \cap {"write", "kill"} # {}
          /\ confFile' \in {confFile, "truncated"}
          /\ unmarked' = (unmarked \/ (Routing /\ ~ marker))
          /\ Error

(* Variant: a failed reload is ignored. *)
ReloadIgnored ==
    /\ pc = "reload"
    /\ \/ service' = [daemons |-> daemonsFile, conf |-> confFile]
       \/ "reload" \in Faults /\ UNCHANGED service
    /\ pc' = IF Routing THEN "mark" ELSE "unmark"
    /\ UNCHANGED <<lines, daemonsFile, confFile, marker, config, result, asked, unmarked>>

(* The reload command.  When it fails or is killed the service may have    *)
(* taken the files nevertheless.                                           *)
Reload ==
    /\ pc = "reload"
    /\ service' \in {[daemons |-> daemonsFile, conf |-> confFile], service}
    /\ \/ /\ service' = [daemons |-> daemonsFile, conf |-> confFile]
          /\ pc' = IF Routing THEN "mark" ELSE "unmark"
          /\ UNCHANGED <<result, unmarked>>
       \/ /\ Faults \cap {"reload", "kill"} # {}
          /\ unmarked' = (unmarked \/ (Routing /\ ~ marker))
          /\ Error
    /\ UNCHANGED <<lines, daemonsFile, confFile, marker, config, asked>>

(* Variant: the marker is forgotten. *)
MarkNever ==
    /\ pc = "mark"
    /\ pc' = "idle" /\ result' = "ok"
    /\ unmarked' = FALSE
    /\ UNCHANGED <<lines, daemonsFile, confFile, marker, service, config, asked>>

(* The marker is written last; a failed write may have created it. *)
Mark ==
    /\ pc = "mark"
    /\ UNCHANGED <<lines, daemonsFile, confFile, service, config, asked>>
    /\ \/ marker' = TRUE /\ pc' = "idle" /\ result' = "ok" /\ unmarked' = FALSE
       \/ /\ Faults \cap {"write", "kill"} # {}
          /\ marker' \in {marker, TRUE}
          /\ unmarked' = (unmarked \/ ~ marker)
          /\ Error

Unmark ==
    /\ pc = "unmark"
    /\ UNCHANGED <<lines, daemonsFile, confFile, service, config, asked, unmarked>>
    /\ \/ marker' = FALSE /\ pc' = "idle" /\ result' = "ok"
       \/ Faults \cap {"write", "kill"} # {} /\ UNCHANGED marker /\ Error

FrrStep == EnableDaemons \/ WriteConf \/ Reload \/ Mark \/ Unmark

(* External: the service restarts by itself and reads the files as they    *)
(* are.                                                                    *)
FrrRestart ==
    /\ "restart" \in Faults
    /\ service' = [daemons |-> daemonsFile, conf |-> confFile]
    /\ UNCHANGED <<lines, daemonsFile, confFile, marker, pc, config, result, asked, unmarked>>

-----------------------------------------------------------------------------
(* Properties *)

(* When Apply of an artifact with routing succeeds the service runs that   *)
(* configuration with no daemon the artifact does not want, and the marker *)
(* is there, whatever half-done Apply came before.  "Enables the needed    *)
(* daemons" (Apply) it does for those that still have a line in the        *)
(* daemons file: a line that was not there, or that a write cut short took *)
(* away, does not come back, and Apply reports success without the daemon. *)
RoutingInForce ==
    result = "ok" /\ Routing =>
        /\ service = [daemons |-> config.daemons \cap lines, conf |-> config.conf]
        /\ marker

(* "A node whose policy never enabled routing is left completely alone"    *)
(* (Apply): the files and the service are as they were found, through any  *)
(* number of commits, restores and failures.                               *)
LeftAlone ==
    ~ asked =>
        /\ lines = FoundLines /\ daemonsFile = FoundDaemons /\ confFile = Found
        /\ service = [daemons |-> FoundDaemons, conf |-> Found]

(* "Remove bgp from policy + commit: peering torn down" (testing plan):    *)
(* after a successful Apply without routing the service runs no routing    *)
(* configuration of ours, whatever failed before, but for one failure: an  *)
(* Apply that wrote our files and never came to the marker.                *)
PeeringTornDown ==
    result = "ok" /\ ~ Routing /\ ~ unmarked =>
        service.conf \in {Found, NoRouting.conf}

-----------------------------------------------------------------------------
(* What is known at each step of Apply, whatever ended an earlier one: the *)
(* inductive invariant of this engine.                                     *)

(* Where Apply is, and for which artifacts it gets there. *)
PathOK ==
    /\ pc # "idle" => result = "none"
    /\ pc \in {"enable", "mark"} => Routing
    /\ pc = "unmark" => ~ Routing
    /\ pc # "idle" /\ ~ Routing => marker
    /\ result = "ok" => (marker <=> Routing)

(* The files are behind the artifact as far as Apply has come, and the     *)
(* service from the reload on: a restart changes nothing any more.         *)
FilesOK ==
    /\ Routing /\ (pc \in {"write", "reload", "mark"} \/ result = "ok") =>
          daemonsFile = config.daemons \cap lines
    /\ pc \in {"reload", "mark", "unmark"} \/ (Routing /\ result = "ok") =>
          confFile = config.conf
    /\ pc \in {"mark", "unmark"} \/ (Routing /\ result = "ok") =>
          service = [daemons |-> daemonsFile, conf |-> confFile]

NotOurs == {Found, NoRouting.conf}

(* Without the marker nothing of ours is in the file or in the service,    *)
(* but for the Apply under way and for one that never came to the marker.  *)
MarkerOK ==
    ~ marker /\ ~ unmarked =>
        \/ Routing /\ pc \in {"reload", "mark"}
        \/ confFile \in NotOurs /\ service.conf \in NotOurs

UntouchedOK == LeftAlone /\ (Routing => asked) /\ (~ asked => ~ marker /\ pc = "idle")

FrrInv == FrrTypeOK /\ PathOK /\ FilesOK /\ MarkerOK /\ UntouchedOK
=============================================================================
