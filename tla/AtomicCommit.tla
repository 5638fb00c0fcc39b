---------------------------- MODULE AtomicCommit ----------------------------
(***************************************************************************)
(* Supervisor's promise: "a commit is atomic from the operator's point of  *)
(* view" (internal/engines/engine.go).  Outside a change every engine      *)
(* enforces the committed policy.  During one, an engine enforces the old  *)
(* policy or the new one and nothing else.  The change ends with all       *)
(* engines on the new policy, which is then the committed one, or with all *)
(* on the old one.                                                         *)
(***************************************************************************)
CONSTANTS Policies, None, EmptyPolicy

VARIABLES
    committed,  \* the committed policy
    target,     \* the policy a change is switching to, or None
    visible     \* the policies that the engines enforce

vars == <<committed, target, visible>>

Init ==
    /\ committed = EmptyPolicy
    /\ target = None
    /\ visible = {EmptyPolicy}

Begin ==
    /\ target = None
    /\ target' \in Policies
    /\ UNCHANGED <<committed, visible>>

Switch ==
    /\ target # None
    /\ visible' \in (SUBSET {committed, target}) \ {{}}
    /\ UNCHANGED <<committed, target>>

Commit ==
    /\ target # None
    /\ visible = {target}
    /\ committed' = target
    /\ target' = None
    /\ UNCHANGED visible

Abort ==
    /\ target # None
    /\ visible = {committed}
    /\ target' = None
    /\ UNCHANGED <<committed, visible>>

Next == Begin \/ Switch \/ Commit \/ Abort

Spec == Init /\ [][Next]_vars
=============================================================================
