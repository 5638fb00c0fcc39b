---------------------------- MODULE PolicyServer ----------------------------
(***************************************************************************)
(* The commit path of controld: the PolicyService handlers                 *)
(* (internal/apiserver/policy.go) over the store and the supervisor, and   *)
(* the daemon around them (cmd/controld/main.go): start-up re-apply,       *)
(* shutdown, crash and reboot.                                             *)
(*                                                                         *)
(* Every client runs at most one RPC.  The mutating handlers hold s.mu     *)
(* from their first line to their answer; a client's stage is where its    *)
(* handler is.  Between two stages any other client, a cancelled context,  *)
(* a crash or a reboot may strike.  Reads of the store that are followed   *)
(* by no other step of the same handler (GetPolicy, ListVersions,          *)
(* ListAuditEntries) change nothing and are not actions; Validate, which   *)
(* reads without the lock and answers later, is.                           *)
(***************************************************************************)
EXTENDS Store, Supervisor

CONSTANTS
    Clients,        \* concurrent callers of the PolicyService
    Free,           \* the mutex when nobody holds it
    ProcEngines,    \* child processes: gone when the daemon is
    ServiceEngines, \* configured through files of a system service: survive
    MaxVersions,    \* bound: no commit or rollback is called beyond it
    MaxAudit        \* bound: no mutating call is made beyond it

ASSUME ServerAssumption ==
    /\ Free \notin Clients
    /\ ProcEngines \subseteq Engines
    /\ ServiceEngines \subseteq Engines
    /\ MaxVersions \in Nat /\ MaxAudit \in Nat

VARIABLES
    daemon,     \* "down", "starting" (main.run before Serve), "serving"
    mu,         \* PolicyServer.mu: its holder, or Free
    stage,      \* where each client's handler is
    request,    \* what it was asked for
    job,        \* the policy it read: the candidate, or the rollback target
    cancelled,  \* clients whose RPC context is done (timeout, disconnect)
    answer,     \* the last answer each client received
    trigger,    \* intelTrigger: channel of capacity 1, TRUE when full
    alarm       \* history variable: engines named in an error that reached
                \* the caller or the audit log since they were last applied

serverVars == <<daemon, mu, stage, request, job, cancelled, answer, trigger,
                alarm>>
vars == <<storeVars, supVars, serverVars>>

Stages == {"idle", "queued", "put", "putAudit", "read", "check", "apply",
           "record", "audit", "notify", "fail", "validateRead", "validate"}

Requests ==
    [op : {"none", "set", "commit", "rollback", "validate"},
     policy : Policies \cup {None},
     version : Nat]

NoRequest == [op |-> "none", policy |-> None, version |-> 0]

(* "ok" with the version number, or the code path that returned the error. *)
Answers ==
    [res : {"none", "ok", "refused", "failed", "unrecorded", "unaudited"},
     version : Nat]

NoAnswer == [res |-> "none", version |-> 0]

TypeOK ==
    /\ StoreTypeOK
    /\ SupTypeOK
    /\ daemon \in {"down", "starting", "serving"}
    /\ mu \in Clients \cup {Free}
    /\ stage \in [Clients -> Stages]
    /\ request \in [Clients -> Requests]
    /\ job \in [Clients -> Policies \cup {None}]
    /\ cancelled \in SUBSET Clients
    /\ answer \in [Clients -> Answers]
    /\ trigger \in BOOLEAN
    /\ alarm \in SUBSET Engines

Init ==
    /\ Open
    /\ SupInit
    /\ daemon = "down"
    /\ mu = Free
    /\ stage = [c \in Clients |-> "idle"]
    /\ request = [c \in Clients |-> NoRequest]
    /\ job = [c \in Clients |-> None]
    /\ cancelled = {}
    /\ answer = [c \in Clients |-> NoAnswer]
    /\ trigger = FALSE
    /\ alarm = {}

-----------------------------------------------------------------------------
(* Bookkeeping shared by the handlers. *)

Goto(c, s) == stage' = [stage EXCEPT ![c] = s]

(* Variant: an early return that leaves the lock held. *)
ReplyLocked(c, res, v) ==
    /\ Goto(c, "idle")
    /\ UNCHANGED mu
    /\ answer' = [answer EXCEPT ![c] =
                    IF c \in cancelled THEN NoAnswer
                    ELSE [res |-> res, version |-> v]]
    /\ cancelled' = cancelled \ {c}
    /\ request' = [request EXCEPT ![c] = NoRequest]
    /\ job' = [job EXCEPT ![c] = None]

(* The handler returns: the lock is released (defer s.mu.Unlock) and a     *)
(* caller that is still there receives the answer.                         *)
Reply(c, res, v) ==
    /\ Goto(c, "idle")
    /\ mu' = IF mu = c THEN Free ELSE mu
    /\ answer' = [answer EXCEPT ![c] =
                    IF c \in cancelled THEN NoAnswer
                    ELSE [res |-> res, version |-> v]]
    /\ cancelled' = cancelled \ {c}
    /\ request' = [request EXCEPT ![c] = NoRequest]
    /\ job' = [job EXCEPT ![c] = None]

(* The handler moves on to stage s, and keeps the lock. *)
Proceed(c, s) ==
    /\ Goto(c, s)
    /\ UNCHANGED <<mu, answer, cancelled, request, job>>

(* No policy server variable but the ones of Reply and Proceed. *)
RestUnchanged == UNCHANGED <<daemon, trigger, alarm>>

(* An error text reaches the operator through the answer or the audit log. *)
Witnessed(c, audited) == audited \/ c \notin cancelled

-----------------------------------------------------------------------------
(* Calls, cancellation, the lock. *)

InFlight == {c \in Clients : stage[c] # "idle"}

(* The RPCs a client may issue, within the bounds. *)
Calls ==
    (IF Len(audit) < MaxAudit
     THEN [op : {"set"}, policy : Policies, version : {0}] ELSE {})
    \cup
    (IF Len(audit) < MaxAudit /\ Len(versions) < MaxVersions
     THEN [op : {"commit"}, policy : {None}, version : {0}]
          \cup [op : {"rollback"}, policy : {None}, version : 1..MaxVersions]
     ELSE {})
    \cup [op : {"validate"}, policy : {None}, version : {0}]

Call(c) ==
    /\ daemon = "serving"
    /\ stage[c] = "idle"
    /\ \E r \in Calls :
          /\ request' = [request EXCEPT ![c] = r]
          /\ Goto(c, IF r.op = "validate" THEN "validateRead" ELSE "queued")
    /\ answer' = [answer EXCEPT ![c] = NoAnswer]
    /\ UNCHANGED <<storeVars, supVars, mu, job, cancelled>>
    /\ RestUnchanged

(* The client's deadline passes or it disconnects.  The handler is not     *)
(* stopped: only what looks at ctx notices.                                *)
Cancel(c) ==
    /\ "ctx" \in Faults
    /\ stage[c] # "idle"
    /\ c \notin cancelled
    /\ cancelled' = cancelled \cup {c}
    /\ UNCHANGED <<storeVars, supVars, mu, stage, request, job, answer>>
    /\ RestUnchanged

(* Variant: the handler does not wait for the lock. *)
LockAlways(c) ==
    /\ stage[c] = "queued"
    /\ mu' = c
    /\ Goto(c, IF request[c].op = "set" THEN "put" ELSE "read")
    /\ UNCHANGED <<storeVars, supVars, request, job, cancelled, answer>>
    /\ RestUnchanged

(* s.mu.Lock(), which knows nothing of ctx. *)
Lock(c) ==
    /\ stage[c] = "queued"
    /\ mu = Free
    /\ mu' = c
    /\ Goto(c, IF request[c].op = "set" THEN "put" ELSE "read")
    /\ UNCHANGED <<storeVars, supVars, request, job, cancelled, answer>>
    /\ RestUnchanged

-----------------------------------------------------------------------------
(* SetCandidate: store the policy, then audit it.  A failed audit write is *)
(* reported although the candidate is stored.                              *)

SetCandidateStore(c) ==
    /\ stage[c] = "put"
    /\ UNCHANGED supVars
    /\ RestUnchanged
    /\ \/ PutCandidate(request[c].policy) /\ Proceed(c, "putAudit")
       \/ "store" \in Faults /\ UNCHANGED storeVars /\ Reply(c, "failed", 0)

SetCandidateAudit(c) ==
    /\ stage[c] = "putAudit"
    /\ UNCHANGED supVars
    /\ RestUnchanged
    /\ \/ AppendAudit("set-candidate", 0) /\ Reply(c, "ok", 0)
       \/ "audit" \in Faults /\ UNCHANGED storeVars /\ Reply(c, "unaudited", 0)

-----------------------------------------------------------------------------
(* Validate: reads the candidate without the lock, answers later.          *)

ValidateRead(c) ==
    /\ stage[c] = "validateRead"
    /\ UNCHANGED <<storeVars, supVars>>
    /\ RestUnchanged
    /\ \/ candidate = None /\ Reply(c, "refused", 0)
       \/ /\ candidate # None
          /\ job' = [job EXCEPT ![c] = candidate]
          /\ Goto(c, "validate")
          /\ UNCHANGED <<mu, request, cancelled, answer>>
       \/ "store" \in Faults /\ Reply(c, "failed", 0)

ValidateAnswer(c) ==
    /\ stage[c] = "validate"
    /\ UNCHANGED <<storeVars, supVars>>
    /\ RestUnchanged
    /\ \/ job[c] \in Acceptable /\ Reply(c, "ok", 0)
       \/ /\ job[c] \notin Acceptable \/ c \in cancelled
                \/ "validate" \in Faults
          /\ Reply(c, "failed", 0)

-----------------------------------------------------------------------------
(* Commit and Rollback read what they are to apply, then share apply().    *)

CommitRead(c) ==
    /\ stage[c] = "read"
    /\ request[c].op = "commit"
    /\ UNCHANGED <<storeVars, supVars>>
    /\ RestUnchanged
    /\ \/ candidate = None /\ Reply(c, "refused", 0)
       \/ /\ candidate # None
          /\ job' = [job EXCEPT ![c] = candidate]
          /\ Goto(c, "check")
          /\ UNCHANGED <<mu, request, cancelled, answer>>
       \/ "store" \in Faults /\ Reply(c, "failed", 0)

RollbackRead(c) ==
    /\ stage[c] = "read"
    /\ request[c].op = "rollback"
    /\ UNCHANGED <<storeVars, supVars>>
    /\ RestUnchanged
    /\ \/ /\ request[c].version \notin VersionIds \/ "store" \in Faults
          /\ Reply(c, "refused", 0)
       \/ /\ request[c].version \in VersionIds
          /\ job' = [job EXCEPT ![c] = versions[request[c].version]]
          /\ Goto(c, "check")
          /\ UNCHANGED <<mu, request, cancelled, answer>>

(* Variant: policy.Validate is left to the Validate RPC. *)
PassesChecksRender(p) == Renders(p) /\ Renders(GetRunning)

(* policy.Validate, render, sup.Validate, GetRunning and the render of the *)
(* previous policy: no side effects, and nothing they read can change      *)
(* under the lock, so they are one step.  An engine's own check may fail   *)
(* for reasons of the host, or because ctx is done; the read may fail.     *)
PassesChecks(p) == Validates(p) /\ Renders(p) /\ Renders(GetRunning)

ApplyCheck(c) ==
    /\ stage[c] = "check"
    /\ UNCHANGED storeVars
    /\ RestUnchanged
    /\ \/ /\ PassesChecks(job[c])
          /\ SupCall(job[c], GetRunning)
          /\ Proceed(c, "apply")
       \/ /\ \/ ~ PassesChecks(job[c]) \/ c \in cancelled
             \/ Faults \cap {"validate", "store"} # {}
          /\ named' = {}
          /\ UNCHANGED <<live, supMode, supPos, supNext, supPrev>>
          /\ Proceed(c, "fail")

(* One engine's step of sup.Apply(ctx, artifacts, prevArtifacts), run by   *)
(* the handler that called it.                                             *)
ApplyEngine(c) ==
    /\ stage[c] = "apply"
    /\ \/ /\ SupApplyOk(c \in cancelled) \/ SupRestoreOk(c \in cancelled)
          /\ alarm' = alarm \ {supPos}
       \/ /\ SupApplyFail(c \in cancelled) \/ SupRestoreFail(c \in cancelled)
          /\ UNCHANGED alarm
    /\ UNCHANGED <<storeVars, daemon, mu, stage, request, job, cancelled,
                   answer, trigger>>

ApplyResult(c) ==
    /\ stage[c] = "apply"
    /\ supMode \in {"ok", "failed"}
    /\ SupReturn
    /\ Proceed(c, IF supMode = "ok" THEN "record" ELSE "fail")
    /\ UNCHANGED storeVars
    /\ RestUnchanged

(* store.CommitVersion.  When it fails the engines already run the new     *)
(* policy, and the error says so of all of them.                           *)
ApplyRecord(c) ==
    /\ stage[c] = "record"
    /\ RestUnchanged
    /\ \/ /\ CommitVersion(job[c])
          /\ UNCHANGED supVars
          /\ Proceed(c, "audit")
       \/ /\ "store" \in Faults
          /\ named' = Engines
          /\ UNCHANGED <<storeVars, live, supMode, supPos, supNext, supPrev>>
          /\ Proceed(c, "fail")

(* Variant: a failed audit write is ignored. *)
ApplyAuditIgnored(c) ==
    /\ stage[c] = "audit"
    /\ UNCHANGED supVars
    /\ RestUnchanged
    /\ \/ AppendAudit(request[c].op, running)
       \/ "audit" \in Faults /\ UNCHANGED storeVars
    /\ Proceed(c, "notify")

(* The audit entry of the new version is a transaction of its own; when it *)
(* fails the handler returns an error and does not get to OnCommit.        *)
ApplyAudit(c) ==
    /\ stage[c] = "audit"
    /\ UNCHANGED supVars
    /\ RestUnchanged
    /\ \/ AppendAudit(request[c].op, running) /\ Proceed(c, "notify")
       \/ /\ "audit" \in Faults
          /\ UNCHANGED storeVars
          /\ Reply(c, "unaudited", running)

(* s.OnCommit(): a send on a full channel is dropped; then the answer. *)
ApplyNotify(c) ==
    /\ stage[c] = "notify"
    /\ trigger' = TRUE
    /\ Reply(c, "ok", running)
    /\ UNCHANGED <<storeVars, supVars, daemon, alarm>>

(* fail(): the audit write is attempted, its own error is dropped, and the *)
(* caller gets the error that names the engines.                           *)
ApplyFail(c) ==
    /\ stage[c] = "fail"
    /\ \E audited \in BOOLEAN :
          /\ audited \/ "audit" \in Faults
          /\ IF audited
             THEN AppendAudit(IF request[c].op = "commit" THEN "commit-failed"
                              ELSE "rollback-failed", 0)
             ELSE UNCHANGED storeVars
          /\ alarm' = IF Witnessed(c, audited) THEN alarm \cup named ELSE alarm
    /\ Reply(c, "failed", 0)
    /\ named' = {}
    /\ UNCHANGED <<live, supMode, supPos, supNext, supPrev, daemon, trigger>>

-----------------------------------------------------------------------------
(* The daemon. *)

(* main.run: open the store, read the running policy; a node that has a    *)
(* committed version re-applies it before serving, with no previous policy *)
(* to go back to.  A fresh node serves at once and touches no engine.      *)
(* When the read fails run returns, and the daemon is down as before.      *)
Start ==
    /\ daemon = "down"
    /\ IF running > 0 /\ Renders(GetRunning)
       THEN /\ daemon' = "starting"
            /\ SupCall(GetRunning, None)
       ELSE /\ running = 0
            /\ daemon' = "serving"
            /\ UNCHANGED supVars
    /\ UNCHANGED <<storeVars, mu, stage, request, job, cancelled, answer,
                   trigger, alarm>>

(* sup.Apply(rootCtx, artifacts, nil), one engine. *)
StartApply ==
    /\ daemon = "starting"
    /\ \/ SupApplyOk(FALSE) /\ alarm' = alarm \ {supPos}
       \/ SupApplyFail(FALSE) /\ UNCHANGED alarm
    /\ UNCHANGED <<storeVars, daemon, mu, stage, request, job, cancelled,
                   answer, trigger>>

(* Variant: the test of the error is inverted. *)
StartResultInverted ==
    /\ daemon = "starting"
    /\ supMode \in {"ok", "failed"}
    /\ daemon' = IF supMode = "failed" THEN "serving" ELSE "down"
    /\ trigger' = (supMode = "failed")
    /\ SupReturn
    /\ UNCHANGED <<storeVars, mu, stage, request, job, cancelled, answer,
                   alarm>>

(* Success: trigger the intel updater and serve.  Failure: run returns and *)
(* the process exits, with whatever the engines took; the children die.    *)
StartResult ==
    /\ daemon = "starting"
    /\ supMode \in {"ok", "failed"}
    /\ daemon' = IF supMode = "ok" THEN "serving" ELSE "down"
    /\ trigger' = (supMode = "ok")
    /\ IF supMode = "ok"
       THEN SupReturn
       ELSE /\ live' = [e \in Engines |->
                          IF e \in ProcEngines THEN Untouched ELSE live[e]]
            /\ supMode' = "idle" /\ supPos' = 0
            /\ supNext' = None /\ supPrev' = None
            /\ named' = {}
    /\ UNCHANGED <<storeVars, mu, stage, request, job, cancelled, answer,
                   alarm>>

(* The intel updater takes the token (Updater.Run); what it does with it   *)
(* is the module IntelUpdater.                                             *)
TakeTrigger ==
    /\ trigger
    /\ trigger' = FALSE
    /\ UNCHANGED <<storeVars, supVars, daemon, mu, stage, request, job,
                   cancelled, answer, alarm>>

(* What the engines may hold after the process stopped in the middle of an *)
(* engine's Apply: that engine has the old content, the new one or, unless *)
(* its Apply is atomic, a part.                                            *)
CutShort ==
    IF supMode \notin {"apply", "restore"} THEN {live}
    ELSE {[live EXCEPT ![supPos] = x] :
            x \in {live[supPos], IF supMode = "apply" THEN supNext ELSE supPrev}
                  \cup (IF supPos \in AtomicEngines THEN {} ELSE {Torn})}

(* The process is gone: handlers, lock and channel with it.  The engines   *)
(* in lost no longer enforce anything of ours.                             *)
Die(lost) ==
    /\ daemon # "down"
    /\ daemon' = "down"
    /\ \E left \in CutShort :
          live' = [e \in Engines |-> IF e \in lost THEN Untouched ELSE left[e]]
    /\ supMode' = "idle" /\ supPos' = 0
    /\ supNext' = None /\ supPrev' = None
    /\ named' = {}
    /\ mu' = Free
    /\ stage' = [c \in Clients |-> "idle"]
    /\ request' = [c \in Clients |-> NoRequest]
    /\ job' = [c \in Clients |-> None]
    /\ cancelled' = {}
    /\ answer' = [c \in Clients |-> IF stage[c] = "idle" THEN answer[c] ELSE NoAnswer]
    /\ trigger' = FALSE
    /\ UNCHANGED <<storeVars, alarm>>

(* controld is killed; systemd kills its control group, children included. *)
Crash == "crash" \in Faults /\ Die(ProcEngines)

(* The machine restarts: kernel state is lost too; system services come    *)
(* back with the files they had.                                           *)
Reboot == "reboot" \in Faults /\ Die(Engines \ ServiceEngines)

(* SIGTERM: GracefulStop waits for the RPCs, the deferred Stops end the    *)
(* children.                                                               *)
Shutdown ==
    /\ daemon = "serving"
    /\ InFlight = {}
    /\ Die(ProcEngines)

-----------------------------------------------------------------------------
Handler(c) ==
    \/ Lock(c)
    \/ SetCandidateStore(c) \/ SetCandidateAudit(c)
    \/ ValidateRead(c) \/ ValidateAnswer(c)
    \/ CommitRead(c) \/ RollbackRead(c)
    \/ ApplyCheck(c) \/ ApplyEngine(c) \/ ApplyResult(c)
    \/ ApplyRecord(c) \/ ApplyAudit(c) \/ ApplyNotify(c) \/ ApplyFail(c)

Daemon == Start \/ StartApply \/ StartResult

Next ==
    \/ \E c \in Clients : Call(c) \/ Cancel(c) \/ Handler(c)
    \/ Daemon
    \/ TakeTrigger
    \/ Crash \/ Reboot \/ Shutdown

Spec == Init /\ [][Next]_vars

(* Go runs every ready goroutine, and sync.Mutex hands the lock to a       *)
(* waiter that was passed over too long (starvation mode).  After a crash  *)
(* and after a start-up that failed systemd starts the daemon again        *)
(* (Restart=on-failure in controld.service); who stopped it with SIGTERM   *)
(* is taken to start it again.                                             *)
Fairness ==
    /\ \A c \in Clients : WF_vars(Handler(c)) /\ SF_vars(Lock(c))
    /\ WF_vars(Daemon)

FairSpec == Spec /\ Fairness

-----------------------------------------------------------------------------
(* Properties *)

Quiet == daemon = "serving" /\ mu = Free

(* Nothing fails silently (apply in policy.go, Apply in engine.go): while  *)
(* the daemon serves and no change is under way, an engine that does not   *)
(* enforce the running version was named in an error that the caller or    *)
(* the audit log got.  Crashes, reboots, torn engines, failed restores and *)
(* failed store writes are no excuse.                                      *)
NoSilentDivergence ==
    Quiet /\ running > 0 =>
        \A e \in Engines : live[e] = GetRunning \/ e \in alarm

(* A commit or rollback that was answered with a version number is in the  *)
(* history and in the audit log from then on, crashes included.            *)
AckedIsAudited ==
    \A c \in Clients :
        answer[c].res = "ok" /\ answer[c].version > 0 =>
            /\ answer[c].version \in VersionIds
            /\ \E i \in 1..Len(audit) :
                  /\ audit[i].version = answer[c].version
                  /\ audit[i].action \in {"commit", "rollback"}

(* Commit validates again what it read, so no policy that policy.Validate  *)
(* or RenderAll refuses is ever recorded or reaches an engine, whatever is *)
(* staged between a Validate and a Commit; hence "render previous" and the *)
(* render at start-up cannot fail.                                         *)
OnlyAccepted ==
    /\ \A v \in VersionIds : versions[v] \in Acceptable
    /\ \A e \in Engines : live[e] \in Acceptable \cup {Untouched, Torn}

(* Every RPC is answered or dies with the daemon: no handler waits for     *)
(* ever on s.mu or in the restore loop.                                    *)
Answered == \A c \in Clients : stage[c] # "idle" ~> stage[c] = "idle"

(* The start-up is cut short: an engine refuses the running policy, or the *)
(* process is killed or stopped.                                           *)
Interrupted ==
    \/ StartApply /\ supMode' = "failed"
    \/ Crash \/ Reboot \/ Shutdown

(* Whatever a crash or a start-up that failed half way left in the engines *)
(* and in the store, the daemon comes back to serve ("Re-apply the running *)
(* version so a reboot converges", main.run), unless it is interrupted     *)
(* again and again for ever.                                               *)
ServesAgain == []<>(daemon = "serving") \/ []<><<Interrupted>>_vars

-----------------------------------------------------------------------------
(* The specifications this one implements. *)

History == INSTANCE VersionHistory
              WITH staged <- candidate, history <- versions, current <- running

(* The history implements VersionHistory under every fault: CommitVersion  *)
(* records exactly the staged policy, or an old version, and never clears  *)
(* a candidate other than the one it recorded because a concurrent         *)
(* SetCandidate got in between.                                            *)
HistorySpec == History!Spec

(* The change under way: from the first engine switched to the version     *)
(* recorded or the failure answered.                                       *)
Changing == {c \in Clients : stage[c] \in {"apply", "record", "fail"}}

(* The policy it switches to. *)
Target ==
    IF Changing = {} THEN None ELSE job[CHOOSE c \in Changing : TRUE]

(* The policy that engine e is seen to enforce: before the first version   *)
(* an engine without anything of ours stands for the empty policy, which   *)
(* is what a fresh node is said to run.                                    *)
Seen(e) ==
    IF live[e] = Untouched /\ running = 0 THEN EmptyPolicy ELSE live[e]

(* While the daemon is down nothing is promised. *)
Visible ==
    IF daemon # "serving" THEN {GetRunning} ELSE {Seen(e) : e \in Engines}

Atomic == INSTANCE AtomicCommit
             WITH committed <- GetRunning, target <- Target, visible <- Visible

(* When an engine's failed Apply leaves that engine as it was, and nothing *)
(* fails on the way back, Supervisor.Apply and apply() make a commit all   *)
(* or nothing.                                                             *)
AtomicSpec == Atomic!Spec
=============================================================================
