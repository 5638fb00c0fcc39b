----------------------------- MODULE Supervisor -----------------------------
(***************************************************************************)
(* Supervisor.Apply (internal/engines/engine.go): switch every engine to   *)
(* the artifact of a new policy, in order; when one fails, put the engines *)
(* already switched back to the previous policy, in reverse order.         *)
(*                                                                         *)
(* Engines are numbered in the order in which controld hands them to       *)
(* NewSupervisor.  RenderAll produces an artifact for every engine, so the *)
(* "no artifact: skip" branches matter only for prev = nil (supPrev =      *)
(* None), the call made at daemon start.                                   *)
(*                                                                         *)
(* live[e] is what engine e enforces, told apart by the policy whose       *)
(* artifact it took last:                                                  *)
(*    a policy   - the artifact of that policy, completely;                *)
(*    Untouched  - nothing of ours (never applied, or lost in a restart);  *)
(*    Torn       - a part of some artifact: the engine's Apply failed      *)
(*                 half way.                                               *)
(* One Apply of one engine is one step.  What each engine does inside its  *)
(* Apply is the subject of the modules of the engines.                     *)
(***************************************************************************)
EXTENDS Integers, PolicyDomain

CONSTANTS
    Untouched, Torn,    \* the two contents that are no policy's
    NumEngines,         \* engines are 1..NumEngines
    AtomicEngines,      \* engines whose failed Apply leaves no mixture (nft -f)
    ExecEngines,        \* engines whose Apply always runs a command under ctx
    Faults              \* which failures of the environment a run includes

FaultKinds == {"validate", "apply", "torn", "restore", "ctx", "store",
               "audit", "crash", "reboot"}

Engines == 1..NumEngines

ASSUME SupervisorAssumption ==
    /\ NumEngines \in Nat \ {0}
    /\ Untouched \notin Policies /\ Torn \notin Policies
    /\ AtomicEngines \subseteq Engines
    /\ ExecEngines \subseteq Engines
    /\ Faults \subseteq FaultKinds

VARIABLES
    live,       \* what each engine enforces
    supMode,    \* where the call of Apply is
    supPos,     \* the engine it handles next
    supNext,    \* argument next: the policy to apply
    supPrev,    \* argument prev: the policy to go back to, or None
    named       \* engines named in the error Apply builds up

supVars == <<live, supMode, supPos, supNext, supPrev, named>>

Contents == Policies \cup {Untouched, Torn}

Modes == {"idle", "apply", "restore", "ok", "failed"}

SupTypeOK ==
    /\ live \in [Engines -> Contents]
    /\ supMode \in Modes
    /\ supPos \in 0..(NumEngines + 1)
    /\ supNext \in Policies \cup {None}
    /\ supPrev \in Policies \cup {None}
    /\ named \in SUBSET Engines
    /\ supMode = "apply" => supPos \in Engines /\ supNext \in Policies
    /\ supMode = "restore" => supPos \in Engines /\ supPrev \in Policies

SupInit ==
    /\ live = [e \in Engines |-> Untouched]
    /\ supMode = "idle"
    /\ supPos = 0
    /\ supNext = None
    /\ supPrev = None
    /\ named = {}

(* The call: Apply(ctx, next, prev). *)
SupCall(next, prev) ==
    /\ supMode = "idle"
    /\ supMode' = "apply"
    /\ supPos' = 1
    /\ supNext' = next
    /\ supPrev' = prev
    /\ named' = {}
    /\ UNCHANGED live

(* The caller takes the result and the call is over. *)
SupReturn ==
    /\ supMode' = "idle"
    /\ supPos' = 0
    /\ supNext' = None
    /\ supPrev' = None
    /\ UNCHANGED <<live, named>>

(* What a failed Apply of engine e with policy p may leave behind.  A      *)
(* command killed because ctx ended may already have done all its work.    *)
FailureLeaves(e, p, cancelled) ==
    {live[e]}
    \cup (IF e \notin AtomicEngines /\ "torn" \in Faults THEN {Torn} ELSE {})
    \cup (IF cancelled THEN {p} ELSE {})

(* A command is not even started under a context that is done. *)
MaySucceed(e, cancelled) == ~ (cancelled /\ e \in ExecEngines)

(* e.Apply(ctx, cfg) succeeded: on to the next engine. *)
SupApplyOk(cancelled) ==
    /\ supMode = "apply"
    /\ MaySucceed(supPos, cancelled)
    /\ live' = [live EXCEPT ![supPos] = supNext]
    /\ supMode' = IF supPos = NumEngines THEN "ok" ELSE "apply"
    /\ supPos' = supPos + 1
    /\ UNCHANGED <<supNext, supPrev, named>>

(* Variant: the restore loop stops before the first engine. *)
SupApplyFailShort(cancelled) ==
    /\ supMode = "apply"
    /\ "apply" \in Faults \/ cancelled
    /\ \E c \in FailureLeaves(supPos, supNext, cancelled) :
          live' = [live EXCEPT ![supPos] = c]
    /\ named' = {supPos}
    /\ supMode' = IF supPrev = None \/ supPos <= 2 THEN "failed" ELSE "restore"
    /\ supPos' = supPos - 1
    /\ UNCHANGED <<supNext, supPrev>>

(* e.Apply(ctx, cfg) failed: name the engine and start the restore loop    *)
(* over the engines applied before it.  The failing engine itself is not   *)
(* in `applied`, so it is not restored.                                    *)
SupApplyFail(cancelled) ==
    /\ supMode = "apply"
    /\ "apply" \in Faults \/ cancelled
    /\ \E c \in FailureLeaves(supPos, supNext, cancelled) :
          live' = [live EXCEPT ![supPos] = c]
    /\ named' = {supPos}
    /\ supMode' = IF supPrev = None \/ supPos = 1 THEN "failed" ELSE "restore"
    /\ supPos' = supPos - 1
    /\ UNCHANGED <<supNext, supPrev>>

(* applied[i].Apply(ctx, prevCfg) succeeded. *)
SupRestoreOk(cancelled) ==
    /\ supMode = "restore"
    /\ MaySucceed(supPos, cancelled)
    /\ live' = [live EXCEPT ![supPos] = supPrev]
    /\ supMode' = IF supPos = 1 THEN "failed" ELSE "restore"
    /\ supPos' = supPos - 1
    /\ UNCHANGED <<supNext, supPrev, named>>

(* Variant: the error of a failed restore is dropped. *)
SupRestoreFailSilent(cancelled) ==
    /\ supMode = "restore"
    /\ "restore" \in Faults \/ cancelled
    /\ \E c \in FailureLeaves(supPos, supPrev, cancelled) :
          live' = [live EXCEPT ![supPos] = c]
    /\ supMode' = IF supPos = 1 THEN "failed" ELSE "restore"
    /\ supPos' = supPos - 1
    /\ UNCHANGED <<supNext, supPrev, named>>

(* applied[i].Apply(ctx, prevCfg) failed: the error also names this engine *)
(* ("RESTORE FAILED for engine"), and the loop goes on.                    *)
SupRestoreFail(cancelled) ==
    /\ supMode = "restore"
    /\ "restore" \in Faults \/ cancelled
    /\ \E c \in FailureLeaves(supPos, supPrev, cancelled) :
          live' = [live EXCEPT ![supPos] = c]
    /\ named' = named \cup {supPos}
    /\ supMode' = IF supPos = 1 THEN "failed" ELSE "restore"
    /\ supPos' = supPos - 1
    /\ UNCHANGED <<supNext, supPrev>>
=============================================================================
