------------------------------- MODULE Store -------------------------------
(***************************************************************************)
(* The configuration store of controld (internal/store/store.go): one      *)
(* bbolt database with the staged candidate, the numbered history of       *)
(* committed policies, the pointer to the running version and the audit    *)
(* log.                                                                    *)
(*                                                                         *)
(* A bbolt Update is one atomic, durable transaction, so every operator    *)
(* below that changes state is a single step; nothing here is lost in a    *)
(* crash.  CommitVersion and AppendAudit are separate transactions, and    *)
(* the caller (PolicyServer) may fail or crash between them.               *)
(*                                                                         *)
(* A policy is an opaque value: nothing in the store looks inside it.      *)
(* Version and audit ids are bbolt bucket sequences, which start at 1 and  *)
(* grow by one per entry, so both logs are sequences indexed by their id.  *)
(***************************************************************************)
EXTENDS Integers, Sequences, PolicyDomain

VARIABLES
    candidate,      \* bucket "candidate": a policy, or None
    versions,       \* buckets "versions" and "version_info"
    running,        \* bucket "meta": the running version id, 0 if never set
    audit           \* bucket "audit"

storeVars == <<candidate, versions, running, audit>>

(* What an audit entry says that matters here: the action and the version. *)
(* Actor, time and wording are left out.                                   *)
Actions == {"set-candidate", "commit", "rollback", "commit-failed",
            "rollback-failed"}

AuditEntry == [action : Actions, version : Nat]

StoreTypeOK ==
    /\ candidate \in Policies \cup {None}
    /\ versions \in Seq(Policies)
    /\ running \in 0..Len(versions)
    /\ audit \in Seq(AuditEntry)

Open ==
    /\ candidate = None
    /\ versions = <<>>
    /\ running = 0
    /\ audit = <<>>

(* GetRunning: the running policy; a fresh node runs the empty one. *)
GetRunning == IF running = 0 THEN EmptyPolicy ELSE versions[running]

(* GetVersion succeeds for these ids. *)
VersionIds == 1..Len(versions)

(* SetCandidate: replace the staged policy. *)
PutCandidate(p) ==
    /\ candidate' = p
    /\ UNCHANGED <<versions, running, audit>>

(* Variant: the running pointer moves but the version is not stored. *)
CommitVersionUnwritten(p) ==
    /\ running' = Len(versions) + 1
    /\ candidate' = None
    /\ UNCHANGED <<versions, audit>>

(* Variant: the candidate stays staged. *)
CommitVersionStaged(p) ==
    /\ versions' = Append(versions, p)
    /\ running' = Len(versions) + 1
    /\ UNCHANGED <<candidate, audit>>

(* CommitVersion: number p, make it the running version and clear the      *)
(* candidate, whoever staged it, in one transaction.                       *)
CommitVersion(p) ==
    /\ versions' = Append(versions, p)
    /\ running' = Len(versions) + 1
    /\ candidate' = None
    /\ UNCHANGED audit

(* AppendAudit: one more entry at the end of the log. *)
AppendAudit(a, v) ==
    /\ audit' = Append(audit, [action |-> a, version |-> v])
    /\ UNCHANGED <<candidate, versions, running>>
=============================================================================
