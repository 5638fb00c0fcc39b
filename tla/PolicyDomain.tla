---------------------------- MODULE PolicyDomain ----------------------------
(***************************************************************************)
(* What the control plane knows about policies.  A policy is an opaque     *)
(* value; what the commit path tells apart is whether policy.Validate      *)
(* accepts it (internal/policy) and whether RenderAll can render it        *)
(* (internal/renderers/render.go).  Both are functions of the policy       *)
(* alone, so each is a set.  The engines' own checks depend on the host    *)
(* (a missing binary, a missing key file) and are not in here.             *)
(***************************************************************************)
CONSTANTS
    Policies,       \* the policies an operator may write
    EmptyPolicy,    \* &Policy{}: what a node with no committed version runs
    None,           \* "no policy"
    Invalid,        \* policies that policy.Validate refuses
    Unrenderable    \* policies that pass it and that RenderAll refuses

ASSUME PolicyAssumption ==
    /\ EmptyPolicy \in Policies
    /\ None \notin Policies
    /\ Invalid \subseteq Policies
    /\ Unrenderable \subseteq Policies
    /\ EmptyPolicy \notin Invalid \cup Unrenderable

(* policy.Validate(p) returns no errors. *)
Validates(p) == p \notin Invalid

(* RenderAll(p) returns the artifacts of all engines. *)
Renders(p) == p \notin Unrenderable

Acceptable == {p \in Policies : Validates(p) /\ Renders(p)}
=============================================================================
