----------------------------- MODULE ProcEngines -----------------------------
(***************************************************************************)
(* The engines that run a child process, Suricata (internal/engines/       *)
(* suricata.go) and Vector (vector.go), on the process manager they embed. *)
(* Apply reads the mode marker of the artifact: "disabled" stops the       *)
(* child; otherwise it writes the configuration file and restarts the      *)
(* child on it, with the arguments of the mode.  One such engine is        *)
(* modelled; Vector is the one whose only mode is "enabled".               *)
(*                                                                         *)
(* A process reads its file when it starts.                                *)
(***************************************************************************)
EXTENDS ProcManager

CONSTANTS
    Artifacts,  \* [mode, body]
    NoFile      \* what is not a whole artifact: no file, or a part of one

Modes == {"disabled", "detect", "prevent", "enabled"}

ASSUME ProcEnginesAssumption ==
    /\ \A a \in Artifacts : a.mode \in Modes
    /\ NoFile \notin Artifacts

VARIABLES
    file,       \* suricata.yaml or vector.yaml
    artifact,   \* the argument of the last Apply
    at,         \* where Apply is: "idle", "write", "call", "proc"
    outcome,    \* what it returned
    ranOn       \* the mode of the arguments of the youngest process, and
                \* what it read

engineVars == <<file, artifact, at, outcome, ranOn>>

EngineTypeOK ==
    /\ TypeOK
    /\ file \in Artifacts \cup {NoFile}
    /\ artifact \in Artifacts
    /\ at \in {"idle", "write", "call", "proc"}
    /\ outcome \in {"none", "ok", "error"}
    /\ ranOn \in {<<"none", NoFile>>} \cup (Modes \ {"disabled"}) \X Artifacts
    /\ pc[Engine] # "idle" => at = "proc"

EngineInit ==
    /\ Init
    /\ file = NoFile
    /\ artifact \in {a \in Artifacts : a.mode = "disabled"}
    /\ at = "idle"
    /\ outcome = "none"
    /\ ranOn = <<"none", NoFile>>

-----------------------------------------------------------------------------
(* Bound: no artifact that needs a process beyond MaxProcs. *)
EngineApply(a) ==
    /\ at = "idle"
    /\ Running
    /\ a.mode # "disabled" => procs[MaxProcs] = "unborn"
    /\ artifact' = a
    /\ at' = IF a.mode = "disabled" THEN "call" ELSE "write"
    /\ outcome' = "none"
    /\ UNCHANGED <<vars, file, ranOn>>

(* Directories and rule files, which stay when they are there, and         *)
(* os.WriteFile of the configuration.                                      *)
WriteConfig ==
    /\ at = "write"
    /\ Running
    /\ \/ file' = artifact /\ at' = "call" /\ UNCHANGED outcome
       \/ /\ "start" \in Faults
          /\ file' \in {file, NoFile}
          /\ at' = "idle"
          /\ outcome' = "error"
    /\ UNCHANGED <<vars, artifact, ranOn>>

(* Variant: a child that runs is left alone. *)
CallOnce ==
    /\ at = "call"
    /\ IF artifact.mode # "disabled" /\ cmd # Nil
       THEN at' = "idle" /\ outcome' = "ok" /\ UNCHANGED vars
       ELSE /\ CallEngine
            /\ goal' = IF artifact.mode = "disabled" THEN "stop" ELSE "restart"
            /\ at' = "proc"
            /\ UNCHANGED outcome
    /\ UNCHANGED <<file, artifact, ranOn>>

(* stop() or restart(). *)
Call ==
    /\ at = "call"
    /\ CallEngine
    /\ goal' = IF artifact.mode = "disabled" THEN "stop" ELSE "restart"
    /\ at' = "proc"
    /\ UNCHANGED <<file, artifact, outcome, ranOn>>

Returned ==
    /\ at = "proc"
    /\ pc[Engine] = "idle"
    /\ at' = "idle"
    /\ outcome' = result
    /\ UNCHANGED <<vars, file, artifact, ranOn>>

(* The arguments: --af-packet, -q <queue>, --config. *)
StartChild ==
    /\ Start
    /\ ranOn' = IF procs' = procs THEN ranOn ELSE <<artifact.mode, file>>
    /\ UNCHANGED <<file, artifact, at, outcome>>

(* The context is not passed on: neither Apply ends before its child.  Of  *)
(* main, only a return that does not wait for handlers may come between.   *)
MainCalls ==
    /\ CallMain
    /\ graceful' => at = "idle"
    /\ UNCHANGED engineVars

EngineNext ==
    \/ \E a \in Artifacts : EngineApply(a)
    \/ WriteConfig \/ Call \/ Returned \/ StartChild \/ MainCalls
    \/ /\ \/ ExitMain \/ Check
          \/ \E g \in {Engine, Main} : StopLocked(g) \/ Reap(g)
          \/ \E p \in Procs : Exit(p) \/ WaiterLock(p)
       /\ UNCHANGED engineVars

engineAll == <<vars, engineVars>>

EngineSpec == EngineInit /\ [][EngineNext]_engineAll

(* Goroutines run and get the lock, and a child that was signalled ends.   *)
EngineFairness ==
    /\ WF_engineAll(StartChild) /\ SF_engineAll(Check /\ UNCHANGED engineVars)
    /\ \A g \in {Engine, Main} :
          WF_engineAll(StopLocked(g) /\ UNCHANGED engineVars)
          /\ WF_engineAll(Reap(g) /\ UNCHANGED engineVars)
    /\ \A p \in Procs :
          SF_engineAll(WaiterLock(p) /\ UNCHANGED engineVars)
          /\ WF_engineAll(procs[p] # "up" /\ Exit(p) /\ UNCHANGED engineVars)

EngineFairSpec == EngineSpec /\ EngineFairness

-----------------------------------------------------------------------------
(* Properties *)

(* "Apply writes the config and (re)starts or stops Suricata accordingly": *)
(* after an Apply that succeeded nothing runs that should be stopped, and  *)
(* what runs unsignalled runs in the mode of that artifact and has read    *)
(* that artifact, whatever writes and starts failed before; a child that   *)
(* is not there was reported.                                              *)
AppliedRuns ==
    at = "idle" /\ outcome = "ok" /\ pc[Main] = "idle" =>
        /\ \A p \in Procs : procs[p] = "up" => p = mine /\ ranOn = <<artifact.mode, artifact>>
        /\ artifact.mode # "disabled" => cmd = mine \/ mine \in logged

-----------------------------------------------------------------------------
(* The inductive invariant of the engines on their process manager. *)

(* The child that the last restart started, or what became of it: it runs  *)
(* what Apply was given and is the current child until it is seen to die.  *)
MineRuns ==
    /\ mine \in Procs /\ ranOn = <<artifact.mode, artifact>>
    /\ cmd = mine \/ (cmd = Nil /\ mine \in logged)

(* What the goroutine of Apply knows on its way, main being at rest. *)
CallOK ==
    /\ at = "proc" => goal = IF artifact.mode = "disabled" THEN "stop" ELSE "restart"
    /\ at \in {"call", "proc"} /\ artifact.mode # "disabled" => file = artifact
    /\ pc[Engine] \in {"start", "sleep"} => goal = "restart"
    /\ pc[Main] = "idle" =>
          /\ pc[Engine] = "sleep" => MineRuns
          /\ (at = "proc" /\ pc[Engine] = "idle" /\ result = "ok")
             \/ (at = "idle" /\ outcome = "ok") =>
                IF artifact.mode = "disabled" THEN cmd = Nil ELSE MineRuns

EnginesInv == EngineTypeOK /\ ProcInv /\ CallOK
=============================================================================
