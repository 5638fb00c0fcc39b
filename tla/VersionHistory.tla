--------------------------- MODULE VersionHistory ---------------------------
(***************************************************************************)
(* What an operator may rely on about the configuration history, whatever  *)
(* fails: versions are only ever added at the end and never change, the    *)
(* newest is the running one, and a new version is either exactly the      *)
(* policy that is staged at that moment (commit) or a copy of an older     *)
(* version (rollback).  Either one empties the staging area.               *)
(***************************************************************************)
EXTENDS Integers, Sequences

CONSTANTS Policies, None

VARIABLES staged, history, current

vars == <<staged, history, current>>

Init == staged = None /\ history = <<>> /\ current = 0

Stage ==
    /\ staged' \in Policies
    /\ UNCHANGED <<history, current>>

Grow(p) ==
    /\ history' = Append(history, p)
    /\ current' = Len(history) + 1
    /\ staged' = None

Commit == staged # None /\ Grow(staged)

Rollback == \E v \in 1..Len(history) : Grow(history[v])

Next == Stage \/ Commit \/ Rollback

Spec == Init /\ [][Next]_vars
=============================================================================
