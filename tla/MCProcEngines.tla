---------------------------- MODULE MCProcEngines ----------------------------
(***************************************************************************)
(* Suricata with an artifact of each mode.                                 *)
(***************************************************************************)
EXTENDS ProcEngines

MCArtifacts ==
    {[mode |-> "disabled", body |-> "none"], [mode |-> "detect", body |-> "a"],
     [mode |-> "prevent", body |-> "b"]}
=============================================================================
