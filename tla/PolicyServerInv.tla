-------------------------- MODULE PolicyServerInv --------------------------
(***************************************************************************)
(* The inductive invariant of PolicyServer: TypeOK and, in named parts,    *)
(* what each stage of a handler knows.  MCPolicyServer checks it with TLC, *)
(* PolicyServerProofs proves it and draws the conclusions.                 *)
(***************************************************************************)
EXTENDS PolicyServer

(* The stages in which a handler holds s.mu. *)
Locked == {"put", "putAudit", "read", "check", "apply", "record", "audit",
           "notify", "fail"}

(* The stages of Commit and Rollback. *)
Applying == {"read", "check", "apply", "record", "audit", "notify", "fail"}

(* A stage belongs to the request it serves. *)
StageOK ==
    \A c \in Clients :
        /\ stage[c] \in {"put", "putAudit"} =>
              request[c].op = "set" /\ request[c].policy \in Policies
        /\ stage[c] = "queued" =>
              \/ request[c].op = "set" /\ request[c].policy \in Policies
              \/ request[c].op \in {"commit", "rollback"}
        /\ stage[c] \in Applying => request[c].op \in {"commit", "rollback"}
        /\ stage[c] \in {"check", "apply", "record"} => job[c] \in Policies

(* The lock is held exactly by the handler that is past Lock, and nothing  *)
(* is in flight unless the daemon serves.                                  *)
LockOK ==
    /\ \A c \in Clients : stage[c] \in Locked <=> mu = c
    /\ daemon # "serving" => \A c \in Clients : stage[c] = "idle"

(* The supervisor works for the start-up or for the lock's holder. *)
SupOK ==
    /\ daemon = "down" => supMode = "idle"
    /\ daemon = "starting" =>
          /\ running > 0
          /\ supMode \in {"apply", "ok", "failed"}
          /\ supNext = GetRunning /\ supPrev = None
    /\ daemon = "serving" /\ (\A c \in Clients : stage[c] # "apply") =>
          supMode = "idle"
    /\ \A c \in Clients : stage[c] = "apply" =>
          supMode # "idle" /\ supNext = job[c] /\ supPrev = GetRunning
    /\ supMode = "apply" => \A e \in Engines : e < supPos => live[e] = supNext
    /\ supMode = "ok" => \A e \in Engines : live[e] = supNext

(* Engine e enforces the running version or was named in an error that     *)
(* arrived.                                                                *)
Covered(e) == live[e] = GetRunning \/ e \in alarm

(* How far that holds at each stage. *)
CoverOK ==
    /\ daemon = "serving" /\ running > 0 =>
          /\ (\A c \in Clients : stage[c] \notin {"apply", "record", "fail"}) =>
                \A e \in Engines : Covered(e)
          /\ supMode = "apply" => \A e \in Engines : e >= supPos => Covered(e)
          /\ supMode = "restore" =>
                \A e \in Engines : e > supPos => Covered(e) \/ e \in named
          /\ supMode = "failed" => \A e \in Engines : Covered(e) \/ e \in named
          /\ \A c \in Clients : stage[c] = "fail" =>
                \A e \in Engines : Covered(e) \/ e \in named
    /\ \A c \in Clients : stage[c] = "record" =>
          \A e \in Engines : live[e] = job[c]

(* What the handler read is still what the store says: the candidate of a  *)
(* Commit, a version of the history for a Rollback.                        *)
ReadOK ==
    /\ running = Len(versions)
    /\ \A c \in Clients : stage[c] \in {"check", "apply", "record"} =>
          /\ request[c].op = "commit" => candidate = job[c]
          /\ request[c].op = "rollback" =>
                \E v \in 1..Len(versions) : versions[v] = job[c]

(* Version v is in the audit log. *)
Audited(v) ==
    \E i \in 1..Len(audit) :
        audit[i].version = v /\ audit[i].action \in {"commit", "rollback"}

AuditOK ==
    /\ AckedIsAudited
    /\ \A c \in Clients : stage[c] \in {"audit", "notify"} => running > 0
    /\ \A c \in Clients : stage[c] = "notify" => Audited(running)

(* Nothing refused is on its way to an engine. *)
AcceptOK ==
    /\ OnlyAccepted
    /\ \A c \in Clients : stage[c] \in {"apply", "record"} => job[c] \in Acceptable

(* An RPC context ends only where the run includes it. *)
ContextOK == cancelled # {} => "ctx" \in Faults

(* One of the two witnesses of an error is always there: the caller waits  *)
(* for the answer, or the audit log can be written.                        *)
OneWitness == ~ ({"ctx", "audit"} \subseteq Faults)

Control == TypeOK /\ StageOK /\ LockOK

IInv == Control /\ SupOK /\ ReadOK

(* What IInv needs on top for the properties of the engines and the log.   *)
SafeInv == IInv /\ AuditOK /\ AcceptOK /\ ContextOK

CoverInv == SafeInv /\ CoverOK

(* The failures under which a commit is all or nothing: an engine that     *)
(* refuses an artifact is left as it was, and the way back works.          *)
CleanFailures == Faults \subseteq {"validate", "apply", "audit"}

(* Engine e is seen to enforce the running version. *)
Follows(e) == Seen(e) = GetRunning

(* How far a change has come at each stage: with supNext to the left of    *)
(* the supervisor's position and the running version to the right of it.   *)
AtomOK ==
    /\ daemon = "down" /\ running = 0 => \A e \in Engines : Follows(e)
    /\ daemon = "serving" /\ Changing = {} => \A e \in Engines : Follows(e)
    /\ \A c \in Clients :
          /\ stage[c] = "apply" =>
                /\ supMode = "apply" =>
                      \A e \in Engines : e >= supPos => Follows(e)
                /\ supMode = "restore" =>
                      \A e \in Engines :
                         IF e > supPos THEN Follows(e) ELSE live[e] = supNext
                /\ supMode = "failed" => \A e \in Engines : Follows(e)
          /\ stage[c] = "record" => \A e \in Engines : live[e] = job[c]
          /\ stage[c] = "fail" =>
                job[c] \in Policies /\ \A e \in Engines : Follows(e)

AtomInv == SafeInv /\ AtomOK
=============================================================================
