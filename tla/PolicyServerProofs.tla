------------------------- MODULE PolicyServerProofs -------------------------
(***************************************************************************)
(* Proofs about the commit path, for any number of clients, engines,       *)
(* policies and any set of failures: IInv is inductive, hence the types    *)
(* are right and PolicyServer implements VersionHistory.  Each proof that  *)
(* a step preserves a part of IInv has one step per action or group of     *)
(* actions.  The second half builds on it: acknowledged versions are       *)
(* audited, nothing refused is recorded or applied, and no engine parts    *)
(* from the running version without an error that someone sees.            *)
(***************************************************************************)
EXTENDS PolicyServerInv, TLAPS

(* The running policy is a policy, also on a fresh node.                   *)
LEMMA GetRunningType == StoreTypeOK => GetRunning \in Policies
BY PolicyAssumption DEF StoreTypeOK, GetRunning

(* The types, stages and lock are right at the start.                      *)
LEMMA ControlInit == Init => Control
<1> SUFFICES ASSUME Init PROVE Control
  OBVIOUS
<1>1. StoreTypeOK
  BY DEF Init, Open, StoreTypeOK
<1>2. SupTypeOK
  BY SupervisorAssumption DEF Init, SupInit, SupTypeOK, Modes, Contents
<1>3. TypeOK
  BY <1>1, <1>2
     DEF Init, TypeOK, Stages, Requests, NoRequest, Answers, NoAnswer
<1>4. StageOK
  BY DEF Init, StageOK, Applying
<1>5. LockOK
  BY ServerAssumption DEF Init, LockOK, Locked
<1> QED
  BY <1>3, <1>4, <1>5 DEF Control

(* A handler that returns or moves on keeps the types of what it touches. *)
LEMMA ReplyType ==
    ASSUME TypeOK, NEW c \in Clients, NEW v \in Nat,
           NEW res \in {"ok", "refused", "failed", "unaudited"}, Reply(c, res, v)
    PROVE  /\ stage' \in [Clients -> Stages]
           /\ mu' \in Clients \cup {Free}
           /\ answer' \in [Clients -> Answers]
           /\ cancelled' \in SUBSET Clients
           /\ request' \in [Clients -> Requests]
           /\ job' \in [Clients -> Policies \cup {None}]
BY DEF TypeOK, Reply, Goto, Stages, Answers, NoAnswer, Requests, NoRequest

(* The same for a handler that moves on to another stage.                  *)
LEMMA ProceedType ==
    ASSUME TypeOK, NEW c \in Clients, NEW s \in Stages, Proceed(c, s)
    PROVE  /\ stage' \in [Clients -> Stages]
           /\ mu' \in Clients \cup {Free}
           /\ answer' \in [Clients -> Answers]
           /\ cancelled' \in SUBSET Clients
           /\ request' \in [Clients -> Requests]
           /\ job' \in [Clients -> Policies \cup {None}]
BY DEF TypeOK, Proceed, Goto

(* The variables of the supervisor. *)
LEMMA SupType ==
    ASSUME StoreTypeOK, SupTypeOK, NEW b,
           \/ \E p \in Policies, q \in Policies \cup {None} : SupCall(p, q)
           \/ SupReturn \/ SupApplyOk(b) \/ SupApplyFail(b)
           \/ SupRestoreOk(b) \/ SupRestoreFail(b)
    PROVE  SupTypeOK'
<1> USE SupervisorAssumption, PolicyAssumption
        DEF SupTypeOK, Engines, Modes, Contents, FailureLeaves
<1>1. ASSUME NEW p \in Policies, NEW q \in Policies \cup {None}, SupCall(p, q)
      PROVE  SupTypeOK'
  BY <1>1 DEF SupCall
<1>2. ASSUME SupReturn PROVE SupTypeOK'
  BY <1>2 DEF SupReturn
<1>3. ASSUME SupApplyOk(b) PROVE SupTypeOK'
  BY <1>3 DEF SupApplyOk
<1>4. ASSUME SupApplyFail(b) PROVE SupTypeOK'
  BY <1>4 DEF SupApplyFail
<1>5. ASSUME SupRestoreOk(b) PROVE SupTypeOK'
  BY <1>5 DEF SupRestoreOk
<1>6. ASSUME SupRestoreFail(b) PROVE SupTypeOK'
  BY <1>6 DEF SupRestoreFail
<1> QED
  BY <1>1, <1>2, <1>3, <1>4, <1>5, <1>6

(* The variables of the store. *)
LEMMA StoreType ==
    ASSUME StoreTypeOK,
           \/ \E p \in Policies : PutCandidate(p) \/ CommitVersion(p)
           \/ \E a \in Actions, v \in Nat : AppendAudit(a, v)
    PROVE  StoreTypeOK'
<1> USE DEF StoreTypeOK
<1>1. ASSUME NEW p \in Policies, PutCandidate(p) PROVE StoreTypeOK'
  BY <1>1 DEF PutCandidate
<1>2. ASSUME NEW p \in Policies, CommitVersion(p) PROVE StoreTypeOK'
  <2>1. versions' \in Seq(Policies) /\ Len(versions') = Len(versions) + 1
    BY <1>2 DEF CommitVersion
  <2> QED
    BY <1>2, <2>1 DEF CommitVersion
<1>3. ASSUME NEW a \in Actions, NEW v \in Nat, AppendAudit(a, v)
      PROVE  StoreTypeOK'
  BY <1>3 DEF AppendAudit, AuditEntry
<1> QED
  BY <1>1, <1>2, <1>3

(* Every step keeps the types.                                             *)
LEMMA TypeStep == ASSUME Control, [Next]_vars PROVE TypeOK'
<1> USE DEF Control
<1>a. StoreTypeOK /\ SupTypeOK /\ GetRunning \in Policies /\ running \in Nat
  BY GetRunningType DEF TypeOK, StoreTypeOK
<1>b. ASSUME UNCHANGED storeVars PROVE StoreTypeOK'
  BY <1>a, <1>b DEF StoreTypeOK, storeVars
<1>c. ASSUME UNCHANGED supVars PROVE SupTypeOK'
  BY <1>a, <1>c DEF SupTypeOK, supVars
<1>1. ASSUME NEW c \in Clients, Call(c) PROVE TypeOK'
  <2>1. Calls \subseteq Requests
    BY DEF Calls, Requests
  <2> QED
    BY <1>1, <1>b, <1>c, <2>1
       DEF Call, TypeOK, Goto, RestUnchanged, Stages, Answers, NoAnswer
<1>2. ASSUME NEW c \in Clients, Cancel(c) PROVE TypeOK'
  BY <1>2, <1>b, <1>c DEF Cancel, TypeOK, RestUnchanged
<1>3. ASSUME NEW c \in Clients, Lock(c) PROVE TypeOK'
  BY <1>3, <1>b, <1>c DEF Lock, TypeOK, Goto, RestUnchanged, Stages
<1>4. ASSUME NEW c \in Clients, SetCandidateStore(c) PROVE TypeOK'
  BY <1>4, <1>a, <1>b, <1>c, StoreType, ReplyType, ProceedType
     DEF SetCandidateStore, StageOK, TypeOK, RestUnchanged, Stages
<1>5. ASSUME NEW c \in Clients, SetCandidateAudit(c) PROVE TypeOK'
  BY <1>5, <1>a, <1>b, <1>c, StoreType, ReplyType
     DEF SetCandidateAudit, TypeOK, RestUnchanged, Actions
<1>6. ASSUME NEW c \in Clients, ValidateRead(c) PROVE TypeOK'
  BY <1>6, <1>a, <1>b, <1>c, ReplyType
     DEF ValidateRead, TypeOK, StoreTypeOK, RestUnchanged, Goto, Stages
<1>7. ASSUME NEW c \in Clients, ValidateAnswer(c) PROVE TypeOK'
  BY <1>7, <1>a, <1>b, <1>c, ReplyType DEF ValidateAnswer, TypeOK, RestUnchanged
<1>8. ASSUME NEW c \in Clients, CommitRead(c) PROVE TypeOK'
  BY <1>8, <1>a, <1>b, <1>c, ReplyType
     DEF CommitRead, TypeOK, StoreTypeOK, RestUnchanged, Goto, Stages
<1>9. ASSUME NEW c \in Clients, RollbackRead(c) PROVE TypeOK'
  <2>1. request[c].version \in VersionIds => versions[request[c].version] \in Policies
    BY DEF TypeOK, StoreTypeOK, VersionIds
  <2> QED
    BY <1>9, <2>1, <1>a, <1>b, <1>c, ReplyType
       DEF RollbackRead, TypeOK, RestUnchanged, Goto, Stages
<1>10. ASSUME NEW c \in Clients, ApplyCheck(c) PROVE TypeOK'
  <2>1. SupTypeOK'
    BY <1>10, <1>a, SupType DEF ApplyCheck, StageOK, SupTypeOK, Engines
  <2> QED
    BY <1>10, <2>1, <1>b, ProceedType
       DEF ApplyCheck, TypeOK, RestUnchanged, Stages
<1>11. ASSUME NEW c \in Clients, ApplyEngine(c) PROVE TypeOK'
  <2>1. SupTypeOK'
    BY <1>11, <1>a, SupType DEF ApplyEngine
  <2> QED
    BY <1>11, <2>1, <1>b DEF ApplyEngine, TypeOK
<1>12. ASSUME NEW c \in Clients, ApplyResult(c) PROVE TypeOK'
  <2>1. SupTypeOK'
    BY <1>12, <1>a, SupType DEF ApplyResult
  <2> QED
    BY <1>12, <2>1, <1>b, ProceedType DEF ApplyResult, TypeOK, RestUnchanged, Stages
<1>13. ASSUME NEW c \in Clients, ApplyRecord(c) PROVE TypeOK'
  <2>1. SupTypeOK'
    BY <1>13, <1>a, <1>c DEF ApplyRecord, SupTypeOK, Engines
  <2>2. StoreTypeOK'
    BY <1>13, <1>a, <1>b, StoreType DEF ApplyRecord, StageOK
  <2> QED
    BY <1>13, <2>1, <2>2, ProceedType DEF ApplyRecord, TypeOK, RestUnchanged, Stages
<1>14. ASSUME NEW c \in Clients, ApplyAudit(c) PROVE TypeOK'
  <2>1. request[c].op \in Actions
    BY <1>14 DEF ApplyAudit, StageOK, Applying, Actions
  <2>2. StoreTypeOK'
    BY <1>14, <2>1, <1>a, <1>b, StoreType DEF ApplyAudit
  <2> QED
    BY <1>14, <2>2, <1>a, <1>c, ReplyType, ProceedType
       DEF ApplyAudit, TypeOK, RestUnchanged, Stages
<1>15. ASSUME NEW c \in Clients, ApplyNotify(c) PROVE TypeOK'
  BY <1>15, <1>a, <1>b, <1>c, ReplyType DEF ApplyNotify, TypeOK
<1>16. ASSUME NEW c \in Clients, ApplyFail(c) PROVE TypeOK'
  <2>1. SupTypeOK'
    BY <1>16, <1>a DEF ApplyFail, SupTypeOK
  <2>2. StoreTypeOK'
    BY <1>16, <1>a, <1>b, StoreType DEF ApplyFail, Actions
  <2>3. alarm' \in SUBSET Engines
    BY <1>16, <1>a DEF ApplyFail, TypeOK, SupTypeOK
  <2> QED
    BY <1>16, <2>1, <2>2, <2>3, ReplyType DEF ApplyFail, TypeOK
<1>17. ASSUME Start PROVE TypeOK'
  <2>1. SupTypeOK'
    BY <1>17, <1>a, <1>c, SupType DEF Start
  <2> QED
    BY <1>17, <2>1, <1>b DEF Start, TypeOK
<1>18. ASSUME StartApply PROVE TypeOK'
  <2>1. SupTypeOK'
    BY <1>18, <1>a, SupType DEF StartApply
  <2> QED
    BY <1>18, <2>1, <1>b DEF StartApply, TypeOK
<1>19. ASSUME StartResult PROVE TypeOK'
  <2>1. SupTypeOK'
    <3>1. CASE supMode = "ok"
      BY <1>19, <3>1, <1>a, SupType DEF StartResult
    <3>2. CASE supMode # "ok"
      BY <1>19, <3>2, <1>a, SupervisorAssumption
         DEF StartResult, SupTypeOK, Modes, Contents
    <3> QED BY <3>1, <3>2
  <2> QED
    BY <1>19, <2>1, <1>b DEF StartResult, TypeOK
<1>20. ASSUME TakeTrigger PROVE TypeOK'
  BY <1>20, <1>b, <1>c DEF TakeTrigger, TypeOK
<1>21. ASSUME NEW lost \in SUBSET Engines, Die(lost) PROVE TypeOK'
  <2>1. \A left \in CutShort : left \in [Engines -> Contents]
    BY <1>a, SupervisorAssumption DEF CutShort, SupTypeOK, Contents, Engines
  <2>2. SupTypeOK'
    BY <1>21, <2>1, SupervisorAssumption DEF Die, SupTypeOK, Modes, Contents
  <2> QED
    BY <1>21, <2>2, <1>b
       DEF Die, TypeOK, Stages, Requests, NoRequest, Answers, NoAnswer
<1>22. ASSUME UNCHANGED vars PROVE TypeOK'
  BY <1>22, <1>b, <1>c DEF vars, serverVars, TypeOK
<1> QED
  BY <1>1, <1>2, <1>3, <1>4, <1>5, <1>6, <1>7, <1>8, <1>9, <1>10, <1>11,
     <1>12, <1>13, <1>14, <1>15, <1>16, <1>17, <1>18, <1>19, <1>20, <1>21,
     <1>22, ServerAssumption
     DEF Next, Handler, Daemon, Crash, Reboot, Shutdown

-----------------------------------------------------------------------------
(* Stages and the lock. *)

(* A handler that returns releases the lock and is idle.                   *)
LEMMA ReplyControl ==
    ASSUME Control, NEW c \in Clients, NEW res, NEW v, Reply(c, res, v),
           daemon' = daemon, stage[c] # "idle"
    PROVE  StageOK' /\ LockOK'
BY ServerAssumption
   DEF Control, TypeOK, StageOK, LockOK, Reply, Goto, Applying, Locked, NoRequest

(* A handler that moves on keeps the lock and enters a stage of its request. *)
LEMMA ProceedControl ==
    ASSUME Control, NEW c \in Clients, NEW s \in Locked, Proceed(c, s),
           daemon' = daemon, mu = c,
           s \in {"put", "putAudit"} =>
              request[c].op = "set" /\ request[c].policy \in Policies,
           s \in Applying => request[c].op \in {"commit", "rollback"},
           s \in {"check", "apply", "record"} => job[c] \in Policies
    PROVE  StageOK' /\ LockOK'
BY ServerAssumption
   DEF Control, TypeOK, StageOK, LockOK, Proceed, Goto, Applying, Locked

(* Every step keeps types, stages and lock in order.                       *)
LEMMA ControlNext == ASSUME Control, [Next]_vars PROVE Control'
<1>a. TypeOK'
  BY TypeStep
<1>b. ASSUME NEW c \in Clients, stage[c] \in Locked
      PROVE  mu = c /\ stage[c] # "idle"
  BY <1>b DEF Control, LockOK, Locked
<1> DEFINE Goal == StageOK' /\ LockOK'
<1>1. ASSUME NEW c \in Clients, Call(c) PROVE Goal
  BY <1>1, ServerAssumption
     DEF Call, Calls, Control, TypeOK, StageOK, LockOK, Goto, RestUnchanged,
         Applying, Locked
<1>2. ASSUME NEW c \in Clients, Cancel(c) PROVE Goal
  BY <1>2 DEF Cancel, Control, StageOK, LockOK, RestUnchanged
<1>3. ASSUME NEW c \in Clients, Lock(c) PROVE Goal
  BY <1>3, ServerAssumption
     DEF Lock, Control, TypeOK, StageOK, LockOK, Goto, RestUnchanged,
         Applying, Locked
<1>4. ASSUME NEW c \in Clients, SetCandidateStore(c) PROVE Goal
  BY <1>4, <1>b, ReplyControl, ProceedControl
     DEF SetCandidateStore, RestUnchanged, Control, StageOK, Locked, Applying
<1>5. ASSUME NEW c \in Clients, SetCandidateAudit(c) PROVE Goal
  BY <1>5, ReplyControl DEF SetCandidateAudit, RestUnchanged
<1>6. ASSUME NEW c \in Clients, ValidateRead(c) PROVE Goal
  <2>1. CASE Reply(c, "refused", 0) \/ Reply(c, "failed", 0)
    BY <1>6, <2>1, ReplyControl DEF ValidateRead, RestUnchanged
  <2>2. CASE /\ candidate # None /\ job' = [job EXCEPT ![c] = candidate]
             /\ Goto(c, "validate") /\ UNCHANGED <<mu, request, cancelled, answer>>
    BY <1>6, <2>2, ServerAssumption
       DEF ValidateRead, Control, TypeOK, StageOK, LockOK, Goto, RestUnchanged,
           Applying, Locked
  <2> QED BY <1>6, <2>1, <2>2 DEF ValidateRead
<1>7. ASSUME NEW c \in Clients, ValidateAnswer(c) PROVE Goal
  BY <1>7, ReplyControl DEF ValidateAnswer, RestUnchanged
<1>8. ASSUME NEW c \in Clients, CommitRead(c) PROVE Goal
  <2>1. CASE Reply(c, "refused", 0) \/ Reply(c, "failed", 0)
    BY <1>8, <2>1, ReplyControl DEF CommitRead, RestUnchanged
  <2>2. CASE /\ candidate # None /\ job' = [job EXCEPT ![c] = candidate]
             /\ Goto(c, "check") /\ UNCHANGED <<mu, request, cancelled, answer>>
    BY <1>8, <2>2, ServerAssumption
       DEF CommitRead, Control, TypeOK, StoreTypeOK, StageOK, LockOK, Goto,
           RestUnchanged, Applying, Locked
  <2> QED BY <1>8, <2>1, <2>2 DEF CommitRead
<1>9. ASSUME NEW c \in Clients, RollbackRead(c) PROVE Goal
  <2>1. CASE Reply(c, "refused", 0) \/ Reply(c, "failed", 0)
    BY <1>9, <2>1, ReplyControl DEF RollbackRead, RestUnchanged
  <2>2. CASE /\ request[c].version \in VersionIds /\ job' = [job EXCEPT ![c] = versions[request[c].version]]
             /\ Goto(c, "check") /\ UNCHANGED <<mu, request, cancelled, answer>>
    <3>1. versions[request[c].version] \in Policies
      BY <2>2 DEF VersionIds, Control, TypeOK, StoreTypeOK
    <3> QED
      BY <1>9, <2>2, <3>1, ServerAssumption
         DEF RollbackRead, Control, TypeOK, StageOK, LockOK, Goto,
             RestUnchanged, Applying, Locked
  <2> QED BY <1>9, <2>1, <2>2 DEF RollbackRead
<1>10. ASSUME NEW c \in Clients, ApplyCheck(c) PROVE Goal
  BY <1>10, <1>b, ProceedControl
     DEF ApplyCheck, RestUnchanged, Control, StageOK, Locked, Applying
<1>11. ASSUME NEW c \in Clients, ApplyEngine(c) PROVE Goal
  BY <1>11 DEF ApplyEngine, Control, StageOK, LockOK
<1>12. ASSUME NEW c \in Clients, ApplyResult(c) PROVE Goal
  BY <1>12, <1>b, ProceedControl
     DEF ApplyResult, RestUnchanged, Control, StageOK, Locked, Applying
<1>13. ASSUME NEW c \in Clients, ApplyRecord(c) PROVE Goal
  BY <1>13, <1>b, ProceedControl
     DEF ApplyRecord, RestUnchanged, Control, StageOK, Locked, Applying
<1>14. ASSUME NEW c \in Clients, ApplyAudit(c) PROVE Goal
  BY <1>14, <1>b, ReplyControl, ProceedControl
     DEF ApplyAudit, RestUnchanged, Control, StageOK, Locked, Applying
<1>15. ASSUME NEW c \in Clients, ApplyNotify(c) PROVE Goal
  BY <1>15, ReplyControl DEF ApplyNotify
<1>16. ASSUME NEW c \in Clients, ApplyFail(c) PROVE Goal
  BY <1>16, ReplyControl DEF ApplyFail
<1>17. ASSUME Start \/ StartApply \/ StartResult \/ TakeTrigger PROVE Goal
  BY <1>17
     DEF Start, StartApply, StartResult, TakeTrigger, Control, StageOK, LockOK
<1>18. ASSUME NEW lost, Die(lost) PROVE Goal
  BY <1>18, ServerAssumption DEF Die, StageOK, LockOK, Locked, Applying
<1>19. ASSUME UNCHANGED vars PROVE Goal
  BY <1>19 DEF vars, serverVars, storeVars, supVars, Control, StageOK, LockOK
<1> QED
  BY <1>a, <1>1, <1>2, <1>3, <1>4, <1>5, <1>6, <1>7, <1>8, <1>9, <1>10, <1>11,
     <1>12, <1>13, <1>14, <1>15, <1>16, <1>17, <1>18, <1>19
     DEF Next, Handler, Daemon, Crash, Reboot, Shutdown, Control

(* The types, the stages and the lock are always as they should be: the    *)
(* mutating handlers exclude each other.                                   *)
THEOREM ControlCorrect == Spec => []Control
<1>1. Init => Control
  BY ControlInit
<1>2. Control /\ [Next]_vars => Control'
  BY ControlNext
<1> QED
  BY <1>1, <1>2, PTL DEF Spec

(* The types of the store, the supervisor and the server.                  *)
THEOREM TypeCorrect == Spec => []TypeOK
<1>1. Control => TypeOK
  BY DEF Control
<1> QED
  BY <1>1, ControlCorrect, PTL

-----------------------------------------------------------------------------
(* The supervisor works for one caller, and what a handler read stays true. *)

(* A step that touches neither the supervisor, nor who calls it, nor the   *)
(* running version.                                                        *)
LEMMA SupIdleStep ==
    ASSUME IInv, Control', daemon' = daemon, UNCHANGED supVars,
           versions' = versions, running' = running,
           \A d \in Clients : /\ stage'[d] = "apply" <=> stage[d] = "apply"
                              /\ stage[d] = "apply" => job'[d] = job[d]
    PROVE  SupOK'
BY DEF IInv, SupOK, supVars, GetRunning

(* The steps of the supervisor itself, for either caller. *)
LEMMA SupWorkStep ==
    ASSUME IInv, NEW b,
           \/ SupApplyOk(b) \/ SupApplyFail(b)
           \/ SupRestoreOk(b) \/ SupRestoreFail(b),
           daemon' = daemon, stage' = stage, job' = job,
           versions' = versions, running' = running,
           daemon = "starting" \/ \E c \in Clients : stage[c] = "apply"
    PROVE  SupOK'
<1>1. /\ supNext' = supNext /\ supPrev' = supPrev /\ GetRunning' = GetRunning
      /\ supMode' \in {"apply", "restore", "ok", "failed"}
      /\ supPos \in Engines
  BY DEF SupApplyOk, SupApplyFail, SupRestoreOk, SupRestoreFail, GetRunning,
         IInv, Control, TypeOK, SupTypeOK
<1>2. ASSUME supMode' \in {"apply", "ok"}
      PROVE  /\ supMode = "apply" /\ supPos' = supPos + 1
             /\ live' = [live EXCEPT ![supPos] = supNext]
             /\ supMode' = "ok" => supPos = NumEngines
  BY <1>2 DEF SupApplyOk, SupApplyFail, SupRestoreOk, SupRestoreFail
<1>3. ASSUME supMode' \in {"apply", "ok"}, NEW e \in Engines, e < supPos'
      PROVE  live'[e] = supNext'
  BY <1>1, <1>2, <1>3, SupervisorAssumption
     DEF IInv, SupOK, Control, TypeOK, SupTypeOK, Engines
<1>4. supMode' = "ok" => \A e \in Engines : e < supPos'
  BY <1>1, <1>2, SupervisorAssumption DEF Engines
<1>5. daemon = "starting" => supMode' # "restore"
  BY DEF SupApplyOk, SupApplyFail, SupRestoreOk, SupRestoreFail, IInv, SupOK
<1>6. daemon # "down"
  BY DEF SupApplyOk, SupApplyFail, SupRestoreOk, SupRestoreFail, IInv, SupOK
<1> QED
  BY <1>1, <1>3, <1>4, <1>5, <1>6 DEF IInv, Control, LockOK, SupOK

(* Every step keeps the supervisor in the hands of its caller.              *)
LEMMA SupNext == ASSUME IInv, [Next]_vars PROVE SupOK'
<1>a. Control /\ Control' /\ running \in Nat /\ GetRunning \in Policies
  BY ControlNext, GetRunningType DEF IInv, Control, TypeOK, StoreTypeOK
<1>b. \A c, d \in Clients : stage[c] \in Locked /\ stage[d] \in Locked => c = d
  BY DEF IInv, Control, LockOK
<1>c. \A c \in Clients : stage[c] # "idle" => daemon = "serving"
  BY DEF IInv, Control, LockOK
<1>1. ASSUME NEW c \in Clients, Call(c) \/ Cancel(c) \/ Lock(c) PROVE SupOK'
  BY <1>1, <1>a, SupIdleStep
     DEF Call, Cancel, Lock, Goto, RestUnchanged, storeVars, Control, TypeOK
<1>2. ASSUME NEW c \in Clients,
             \/ SetCandidateStore(c) \/ SetCandidateAudit(c)
             \/ ValidateRead(c) \/ ValidateAnswer(c)
             \/ CommitRead(c) \/ RollbackRead(c)
             \/ ApplyAudit(c) \/ ApplyNotify(c)
      PROVE  SupOK'
  BY <1>2, <1>a, SupIdleStep
     DEF SetCandidateStore, SetCandidateAudit, ValidateRead, ValidateAnswer,
         CommitRead, RollbackRead, ApplyAudit, ApplyNotify, PutCandidate,
         AppendAudit, Reply, Proceed, Goto, RestUnchanged, storeVars, Control,
         TypeOK
<1>3. ASSUME NEW c \in Clients, ApplyCheck(c) PROVE SupOK'
  <2>1. \A d \in Clients : stage[d] # "apply"
    BY <1>3, <1>b DEF ApplyCheck, Locked
  <2>2. /\ daemon = "serving" /\ daemon' = daemon /\ job' = job
        /\ GetRunning' = GetRunning
        /\ \A d \in Clients : d # c => stage'[d] # "apply"
    BY <1>3, <1>c, <1>a, <2>1
       DEF ApplyCheck, RestUnchanged, Proceed, Goto, storeVars, GetRunning,
           Control, TypeOK
  <2>3. CASE PassesChecks(job[c]) /\ SupCall(job[c], GetRunning) /\ Proceed(c, "apply")
    BY <2>2, <2>3, <1>a, SupervisorAssumption
       DEF SupOK, SupCall, Proceed, Goto, Control, TypeOK, Engines
  <2>4. CASE /\ UNCHANGED <<live, supMode, supPos, supNext, supPrev>>
             /\ Proceed(c, "fail")
    BY <2>1, <2>2, <2>4, <1>a DEF IInv, SupOK, Proceed, Goto, Control, TypeOK
  <2> QED
    BY <1>3, <2>3, <2>4 DEF ApplyCheck
<1>4. ASSUME NEW c \in Clients, ApplyEngine(c) PROVE SupOK'
  BY <1>4, SupWorkStep DEF ApplyEngine, storeVars
<1>5. ASSUME NEW c \in Clients, ApplyResult(c) PROVE SupOK'
  <2>1. \A d \in Clients : stage'[d] # "apply"
    BY <1>5, <1>a, <1>b DEF ApplyResult, Proceed, Goto, Control, TypeOK, Locked
  <2> QED
    BY <1>5, <1>c, <2>1 DEF ApplyResult, SupReturn, RestUnchanged, SupOK
<1>6. ASSUME NEW c \in Clients, ApplyRecord(c) PROVE SupOK'
  <2>1. \A d \in Clients : stage[d] # "apply" /\ stage'[d] # "apply"
    BY <1>6, <1>a, <1>b DEF ApplyRecord, Proceed, Goto, Control, TypeOK, Locked
  <2> QED
    BY <1>6, <1>c, <2>1
       DEF ApplyRecord, RestUnchanged, IInv, SupOK, supVars
<1>7. ASSUME NEW c \in Clients, ApplyFail(c) PROVE SupOK'
  <2>1. \A d \in Clients : stage[d] # "apply" /\ stage'[d] # "apply"
    BY <1>7, <1>a, <1>b DEF ApplyFail, Reply, Goto, Control, TypeOK, Locked
  <2> QED
    BY <1>7, <1>c, <2>1 DEF ApplyFail, IInv, SupOK
<1>8. ASSUME Start PROVE SupOK'
  <2>1. CASE running > 0 /\ Renders(GetRunning)
    BY <1>8, <1>a, <2>1, SupervisorAssumption
       DEF Start, SupCall, SupOK, GetRunning, storeVars, Control, LockOK, Engines
  <2>2. CASE ~ (running > 0 /\ Renders(GetRunning))
    BY <1>8, <1>a, <2>2 DEF Start, IInv, SupOK, supVars, Control, LockOK
  <2> QED BY <2>1, <2>2
<1>9. ASSUME StartApply PROVE SupOK'
  BY <1>9, SupWorkStep DEF StartApply, storeVars
<1>10. ASSUME StartResult PROVE SupOK'
  BY <1>10, <1>a DEF StartResult, SupReturn, SupOK, Control, LockOK
<1>11. ASSUME TakeTrigger PROVE SupOK'
  BY <1>11, <1>a, SupIdleStep DEF TakeTrigger, storeVars
<1>12. ASSUME NEW lost, Die(lost) PROVE SupOK'
  BY <1>12 DEF Die, SupOK
<1>13. ASSUME UNCHANGED vars PROVE SupOK'
  BY <1>13, <1>a, SupIdleStep DEF vars, serverVars, storeVars
<1> QED
  BY <1>1, <1>2, <1>3, <1>4, <1>5, <1>6, <1>7, <1>8, <1>9, <1>10, <1>11, <1>12,
     <1>13 DEF Next, Handler, Daemon, Crash, Reboot, Shutdown

(* What a Commit or Rollback read stays true until it is recorded.         *)
LEMMA ReadNext == ASSUME IInv, [Next]_vars PROVE ReadOK'
<1> DEFINE Reading == {"check", "apply", "record"}
<1>a. Control /\ Control'
  BY ControlNext DEF IInv
<1>b. \A c, d \in Clients : stage[c] \in Locked /\ stage[d] \in Locked => c = d
  BY DEF IInv, Control, LockOK
<1>c. ASSUME UNCHANGED storeVars,
             \A d \in Clients : stage'[d] \in Reading =>
                /\ stage[d] \in Reading /\ job'[d] = job[d]
                /\ request'[d] = request[d]
      PROVE  ReadOK'
  BY <1>c DEF IInv, ReadOK, storeVars
<1>d. ASSUME UNCHANGED <<candidate, versions, running>>,
             \A d \in Clients : stage'[d] \notin Reading
      PROVE  ReadOK'
  BY <1>d DEF IInv, ReadOK
<1>1. ASSUME NEW c \in Clients,
             \/ Call(c) \/ Cancel(c) \/ Lock(c) \/ ValidateAnswer(c)
             \/ ApplyCheck(c) \/ ApplyEngine(c) \/ ApplyResult(c)
             \/ ApplyNotify(c)
      PROVE  ReadOK'
  BY <1>1, <1>a, <1>c
     DEF Call, Cancel, Lock, ValidateAnswer, ApplyCheck, ApplyEngine,
         ApplyResult, ApplyNotify, Reply, Proceed, Goto, Control, TypeOK
<1>2. ASSUME NEW c \in Clients,
             SetCandidateStore(c) \/ SetCandidateAudit(c) \/ ApplyAudit(c) \/ ApplyFail(c)
      PROVE  ReadOK'
  <2>1. \A d \in Clients : stage'[d] \notin Reading
    BY <1>2, <1>a, <1>b
       DEF SetCandidateStore, SetCandidateAudit, ApplyAudit, ApplyFail, Reply,
           Proceed, Goto, Control, TypeOK, Locked
  <2>2. versions' = versions /\ running' = running
    BY <1>2
       DEF SetCandidateStore, SetCandidateAudit, ApplyAudit, ApplyFail,
           PutCandidate, AppendAudit, storeVars
  <2> QED
    BY <2>1, <2>2 DEF IInv, ReadOK
<1>3. ASSUME NEW c \in Clients, ValidateRead(c) PROVE ReadOK'
  BY <1>3, <1>a, <1>c DEF ValidateRead, Reply, Goto, Control, TypeOK
<1>4. ASSUME NEW c \in Clients, CommitRead(c) PROVE ReadOK'
  <2>1. CASE Reply(c, "refused", 0) \/ Reply(c, "failed", 0)
    BY <1>4, <2>1, <1>a, <1>c DEF CommitRead, Reply, Goto, Control, TypeOK
  <2>2. CASE /\ candidate # None /\ job' = [job EXCEPT ![c] = candidate]
             /\ Goto(c, "check") /\ UNCHANGED <<mu, request, cancelled, answer>>
    <3>1. /\ UNCHANGED storeVars /\ request' = request
          /\ job'[c] = candidate /\ request[c].op = "commit"
          /\ \A d \in Clients : d # c => stage'[d] = stage[d] /\ job'[d] = job[d]
      BY <1>4, <2>2, <1>a DEF CommitRead, Goto, Control, TypeOK
    <3> QED
      BY <3>1 DEF IInv, ReadOK, storeVars
  <2> QED BY <1>4, <2>1, <2>2 DEF CommitRead
<1>5. ASSUME NEW c \in Clients, RollbackRead(c) PROVE ReadOK'
  <2>1. CASE Reply(c, "refused", 0) \/ Reply(c, "failed", 0)
    BY <1>5, <2>1, <1>a, <1>c DEF RollbackRead, Reply, Goto, Control, TypeOK
  <2>2. CASE /\ request[c].version \in VersionIds /\ job' = [job EXCEPT ![c] = versions[request[c].version]]
             /\ Goto(c, "check") /\ UNCHANGED <<mu, request, cancelled, answer>>
    <3>1. /\ UNCHANGED storeVars /\ request' = request
          /\ job'[c] = versions[request[c].version] /\ request[c].op = "rollback"
          /\ \A d \in Clients : d # c => stage'[d] = stage[d] /\ job'[d] = job[d]
      BY <1>5, <2>2, <1>a DEF RollbackRead, Goto, Control, TypeOK
    <3> QED
      BY <2>2, <3>1 DEF IInv, ReadOK, storeVars, VersionIds
  <2> QED BY <1>5, <2>1, <2>2 DEF RollbackRead
<1>6. ASSUME NEW c \in Clients, ApplyRecord(c) PROVE ReadOK'
  <2>1. \A d \in Clients : stage'[d] \notin Reading
    BY <1>6, <1>a, <1>b DEF ApplyRecord, Proceed, Goto, Control, TypeOK, Locked
  <2>2. running' = Len(versions')
    BY <1>6, <1>a
       DEF ApplyRecord, CommitVersion, storeVars, IInv, ReadOK, Control, TypeOK,
           StoreTypeOK
  <2> QED
    BY <2>1, <2>2 DEF ReadOK
<1>7. ASSUME Start \/ StartApply \/ StartResult \/ TakeTrigger PROVE ReadOK'
  BY <1>7, <1>c DEF Start, StartApply, StartResult, TakeTrigger
<1>8. ASSUME NEW lost, Die(lost) PROVE ReadOK'
  BY <1>8, <1>c DEF Die
<1>9. ASSUME UNCHANGED vars PROVE ReadOK'
  BY <1>9, <1>c DEF vars, serverVars
<1> QED
  BY <1>1, <1>2, <1>3, <1>4, <1>5, <1>6, <1>7, <1>8, <1>9
     DEF Next, Handler, Daemon, Crash, Reboot, Shutdown

(* The inductive invariant holds at the start.                             *)
LEMMA InvInit == Init => IInv
BY ControlInit
   DEF Init, Open, SupInit, IInv, SupOK, ReadOK

(* The inductive invariant of the commit path. *)
THEOREM InvCorrect == Spec => []IInv
<1>1. Init => IInv
  BY InvInit
<1>2. IInv /\ [Next]_vars => IInv'
  BY ControlNext, SupNext, ReadNext DEF IInv
<1> QED
  BY <1>1, <1>2, PTL DEF Spec

-----------------------------------------------------------------------------
(* PolicyServer implements VersionHistory. *)

(* Every step is a step of VersionHistory or leaves the history alone.     *)
LEMMA HistoryStep == IInv /\ [Next]_vars => [History!Next]_History!vars
<1> SUFFICES ASSUME IInv, [Next]_vars,
                    ~ UNCHANGED <<candidate, versions, running>>
             PROVE  History!Next
  BY DEF History!vars
<1>1. \/ \E c \in Clients : SetCandidateStore(c) \/ ApplyRecord(c)
  BY DEF Next, Handler, Daemon, Crash, Reboot, Shutdown, Call, Cancel, Lock,
         SetCandidateAudit, ValidateRead, ValidateAnswer, CommitRead,
         RollbackRead, ApplyCheck, ApplyEngine, ApplyResult, ApplyAudit,
         ApplyNotify, ApplyFail, Start, StartApply, StartResult, TakeTrigger,
         Die, AppendAudit, storeVars, vars
<1>2. ASSUME NEW c \in Clients, SetCandidateStore(c) PROVE History!Next
  <2>1. PutCandidate(request[c].policy) /\ request[c].policy \in Policies
    BY <1>2 DEF SetCandidateStore, storeVars, IInv, Control, StageOK
  <2> QED
    BY <2>1 DEF PutCandidate, History!Next, History!Stage
<1>3. ASSUME NEW c \in Clients, ApplyRecord(c) PROVE History!Next
  <2>1. CommitVersion(job[c]) /\ job[c] \in Policies
    BY <1>3 DEF ApplyRecord, storeVars, IInv, Control, StageOK
  <2>2. History!Grow(job[c])
    BY <2>1 DEF CommitVersion, History!Grow
  <2>3. CASE request[c].op = "commit"
    <3>1. candidate = job[c]
      BY <1>3, <2>3 DEF ApplyRecord, IInv, ReadOK
    <3> QED
      BY <2>1, <2>2, <3>1, PolicyAssumption DEF History!Next, History!Commit
  <2>4. CASE request[c].op = "rollback"
    <3>1. PICK v \in 1..Len(versions) : versions[v] = job[c]
      BY <1>3, <2>4 DEF ApplyRecord, IInv, ReadOK
    <3> QED
      BY <2>2, <3>1 DEF History!Next, History!Rollback
  <2> QED
    BY <1>3, <2>3, <2>4 DEF ApplyRecord, IInv, Control, StageOK, Applying
<1> QED
  BY <1>1, <1>2, <1>3

(* The configuration history keeps its promise whatever fails: versions    *)
(* are only appended, the newest runs, a commit records exactly the staged *)
(* policy and a rollback an old version.                                   *)
THEOREM HistoryCorrect == Spec => HistorySpec
<1>1. Init => History!Init
  BY DEF Init, Open, History!Init
<1>2. IInv /\ [Next]_vars => [History!Next]_History!vars
  BY HistoryStep
<1> QED
  BY <1>1, <1>2, InvCorrect, PTL DEF Spec, HistorySpec, History!Spec

-----------------------------------------------------------------------------
(* Safety.                                                                 *)

(* The only three ways in which a step writes to the store.                *)
LEMMA StoreStep ==
    ASSUME [Next]_vars
    PROVE  \/ UNCHANGED storeVars
           \/ \E c \in Clients : stage[c] = "put" /\ PutCandidate(request[c].policy)
           \/ \E c \in Clients : stage[c] = "record" /\ CommitVersion(job[c])
           \/ \E a, v : AppendAudit(a, v)
BY DEF Next, Handler, Daemon, Crash, Reboot, Shutdown, Call, Cancel, Lock,
       SetCandidateStore, SetCandidateAudit, ValidateRead, ValidateAnswer,
       CommitRead, RollbackRead, ApplyCheck, ApplyEngine, ApplyResult,
       ApplyRecord, ApplyAudit, ApplyNotify, ApplyFail, Start, StartApply,
       StartResult, TakeTrigger, Die, vars

(* The history and the audit log only grow.                                *)
LEMMA LogsGrow ==
    ASSUME Control, [Next]_vars
    PROVE  /\ Len(versions) \in Nat /\ Len(versions') \in Nat
           /\ Len(versions) <= Len(versions')
           /\ \A v : Audited(v) => Audited(v)'
<1>1. StoreTypeOK
  BY DEF Control, TypeOK
<1>2. CASE UNCHANGED <<versions, audit>>
  BY <1>1, <1>2 DEF StoreTypeOK, Audited
<1>3. ASSUME NEW p, CommitVersion(p)
      PROVE  Len(versions') = Len(versions) + 1 /\ audit' = audit
  BY <1>1, <1>3 DEF CommitVersion, StoreTypeOK
<1>4. ASSUME NEW a, NEW v, AppendAudit(a, v)
      PROVE  /\ versions' = versions
             /\ Len(audit) \in Nat /\ Len(audit') = Len(audit) + 1
             /\ \A i \in 1..Len(audit) : audit'[i] = audit[i]
  BY <1>1, <1>4 DEF AppendAudit, StoreTypeOK
<1>5. CASE \E p : CommitVersion(p)
  BY <1>1, <1>3, <1>5 DEF StoreTypeOK, Audited
<1>6. CASE \E a, v : AppendAudit(a, v)
  <2>1. versions' = versions /\ \A v : Audited(v) => Audited(v)'
    BY <1>4, <1>6 DEF Audited
  <2> QED
    BY <1>1, <2>1 DEF StoreTypeOK
<1> QED
  BY <1>2, <1>5, <1>6, StoreStep DEF storeVars, PutCandidate

-----------------------------------------------------------------------------
(* The audit log. *)

(* One handler at a time is past Lock. *)
LEMMA OneHolder ==
    ASSUME Control, NEW c \in Clients, NEW d \in Clients,
           stage[c] \in Locked, stage[d] \in Locked
    PROVE  c = d
BY DEF Control, LockOK

(* Where an answer can come from. *)
LEMMA AnswerStep ==
    ASSUME Control, [Next]_vars, NEW d \in Clients
    PROVE  \/ answer'[d] = answer[d]
           \/ answer'[d].res # "ok" \/ answer'[d].version = 0
           \/ /\ stage[d] = "notify" /\ UNCHANGED storeVars
              /\ answer'[d] = [res |-> "ok", version |-> running]
<1> USE DEF Control, TypeOK
<1>1. ASSUME NEW c \in Clients, NEW res, NEW v, Reply(c, res, v),
             res # "ok" \/ v = 0
      PROVE  answer'[d] = answer[d] \/ answer'[d].res # "ok" \/ answer'[d].version = 0
  BY <1>1 DEF Reply, NoAnswer
<1>2. ASSUME NEW c \in Clients,
             \/ SetCandidateStore(c) \/ SetCandidateAudit(c)
             \/ ValidateRead(c) \/ ValidateAnswer(c)
             \/ CommitRead(c) \/ RollbackRead(c) \/ ApplyAudit(c) \/ ApplyFail(c)
      PROVE  answer'[d] = answer[d] \/ answer'[d].res # "ok" \/ answer'[d].version = 0
  BY <1>1, <1>2
     DEF SetCandidateStore, SetCandidateAudit, ValidateRead, ValidateAnswer,
         CommitRead, RollbackRead, ApplyAudit, ApplyFail, Proceed
<1>3. ASSUME NEW c \in Clients, Call(c) \/ Cancel(c) \/ Lock(c)
      PROVE  answer'[d] = answer[d] \/ answer'[d].res # "ok"
  BY <1>3 DEF Call, Cancel, Lock, NoAnswer
<1>4. ASSUME NEW c \in Clients,
             ApplyCheck(c) \/ ApplyEngine(c) \/ ApplyResult(c) \/ ApplyRecord(c)
      PROVE  answer' = answer
  BY <1>4 DEF ApplyCheck, ApplyEngine, ApplyResult, ApplyRecord, Proceed
<1>5. ASSUME NEW c \in Clients, ApplyNotify(c)
      PROVE  \/ answer'[d] = answer[d] \/ answer'[d].res # "ok"
             \/ /\ stage[d] = "notify" /\ UNCHANGED storeVars
                /\ answer'[d] = [res |-> "ok", version |-> running]
  BY <1>5 DEF ApplyNotify, Reply, NoAnswer
<1>6. ASSUME Start \/ StartApply \/ StartResult \/ TakeTrigger \/ UNCHANGED vars
      PROVE  answer' = answer
  BY <1>6 DEF Start, StartApply, StartResult, TakeTrigger, vars, serverVars
<1>7. ASSUME NEW lost, Die(lost)
      PROVE  answer'[d] = answer[d] \/ answer'[d].res # "ok"
  BY <1>7 DEF Die, NoAnswer
<1> QED
  BY <1>2, <1>3, <1>4, <1>5, <1>6, <1>7
     DEF Next, Handler, Daemon, Crash, Reboot, Shutdown

(* How a handler gets to its audit stages. *)
LEMMA AuditStageStep ==
    ASSUME Control, [Next]_vars, NEW d \in Clients,
           stage'[d] \in {"audit", "notify"}
    PROVE  \/ stage'[d] = stage[d]
           \/ stage[d] = "record" /\ stage'[d] = "audit" /\ CommitVersion(job[d])
           \/ /\ stage[d] = "audit" /\ stage'[d] = "notify"
              /\ AppendAudit(request[d].op, running)
<1> USE DEF Control, TypeOK
<1>1. ASSUME NEW c \in Clients, c # d,
             Call(c) \/ Cancel(c) \/ Handler(c)
      PROVE  stage'[d] = stage[d]
  BY <1>1
     DEF Handler, Call, Cancel, Lock, SetCandidateStore, SetCandidateAudit,
         ValidateRead, ValidateAnswer, CommitRead, RollbackRead, ApplyCheck,
         ApplyEngine, ApplyResult, ApplyRecord, ApplyAudit, ApplyNotify,
         ApplyFail, Reply, Proceed, Goto
<1>2. CASE ApplyRecord(d)
  BY <1>2 DEF ApplyRecord, Proceed, Goto
<1>3. CASE ApplyAudit(d)
  BY <1>3 DEF ApplyAudit, Proceed, Reply, Goto
<1>4. CASE \/ Call(d) \/ Cancel(d) \/ Lock(d)
           \/ SetCandidateStore(d) \/ SetCandidateAudit(d)
           \/ ValidateRead(d) \/ ValidateAnswer(d)
           \/ CommitRead(d) \/ RollbackRead(d)
           \/ ApplyCheck(d) \/ ApplyEngine(d) \/ ApplyResult(d)
           \/ ApplyNotify(d) \/ ApplyFail(d)
  BY <1>4
     DEF Call, Cancel, Lock, SetCandidateStore, SetCandidateAudit,
         ValidateRead, ValidateAnswer, CommitRead, RollbackRead, ApplyCheck,
         ApplyEngine, ApplyResult, ApplyNotify, ApplyFail, Reply, Proceed, Goto
<1>5. CASE Daemon \/ TakeTrigger \/ UNCHANGED vars
  BY <1>5 DEF Daemon, Start, StartApply, StartResult, TakeTrigger, vars, serverVars
<1>6. CASE \E lost : Die(lost)
  BY <1>6 DEF Die
<1> QED
  BY <1>1, <1>2, <1>3, <1>4, <1>5, <1>6
     DEF Next, Handler, Crash, Reboot, Shutdown

(* A version is in the audit log before it is acknowledged.                *)
LEMMA AuditNext == ASSUME IInv, AuditOK, [Next]_vars PROVE AuditOK'
<1>a. Control /\ running \in Nat /\ StoreTypeOK /\ StoreTypeOK'
  BY ControlNext DEF IInv, Control, TypeOK, StoreTypeOK
<1>b. \A d \in Clients :
        stage[d] \in Locked =>
           \/ UNCHANGED storeVars
           \/ stage[d] = "put" /\ PutCandidate(request[d].policy)
           \/ stage[d] = "record" /\ CommitVersion(job[d])
           \/ \E a, v : AppendAudit(a, v)
  BY <1>a, StoreStep, OneHolder DEF Locked
<1>1. AckedIsAudited'
  <2> SUFFICES ASSUME NEW d \in Clients, NEW v, answer'[d].res = "ok",
                      answer'[d].version = v, v > 0
               PROVE  v \in VersionIds' /\ Audited(v)'
    BY DEF AckedIsAudited, Audited
  <2>1. CASE answer'[d] = answer[d]
    <3>1. v \in VersionIds /\ Audited(v)
      BY <2>1 DEF AuditOK, AckedIsAudited, Audited
    <3> QED
      BY <1>a, <3>1, LogsGrow DEF VersionIds
  <2>2. CASE /\ stage[d] = "notify" /\ UNCHANGED storeVars
             /\ answer'[d] = [res |-> "ok", version |-> running]
    <3>1. v = running
      BY <2>2
    <3>2. Audited(v) /\ v \in VersionIds
      BY <1>a, <2>2, <3>1 DEF AuditOK, VersionIds, StoreTypeOK
    <3> QED
      BY <1>a, <3>2, LogsGrow DEF VersionIds
  <2> QED
    BY <2>1, <2>2, <1>a, AnswerStep
<1>2. ASSUME NEW d \in Clients, stage'[d] \in {"audit", "notify"}
      PROVE  running' > 0
  <2>1. CASE stage[d] = "record" /\ CommitVersion(job[d])
    BY <1>a, <2>1 DEF CommitVersion, StoreTypeOK
  <2>2. CASE stage[d] \in {"audit", "notify"}
    <3>1. running > 0
      BY <2>2 DEF AuditOK
    <3>2. running' = running
      BY <1>b, <2>2 DEF Locked, AppendAudit, storeVars
    <3> QED
      BY <3>1, <3>2
  <2> QED
    BY <1>a, <1>2, <2>1, <2>2, AuditStageStep
<1>3. ASSUME NEW d \in Clients, stage'[d] = "notify" PROVE Audited(running)'
  <2>1. CASE stage[d] = "notify"
    <3>1. Audited(running) /\ running' = running
      BY <1>b, <2>1 DEF Locked, AppendAudit, storeVars, AuditOK
    <3> QED
      BY <1>a, <3>1, LogsGrow DEF Audited
  <2>2. CASE stage[d] = "audit" /\ AppendAudit(request[d].op, running)
    <3>1. request[d].op \in {"commit", "rollback"}
      BY <1>a, <2>2 DEF Control, StageOK, Applying
    <3>2. /\ Len(audit) + 1 \in 1..Len(audit') /\ running' = running
          /\ audit'[Len(audit) + 1] = [action |-> request[d].op, version |-> running]
      BY <1>a, <2>2 DEF AppendAudit, StoreTypeOK
    <3> QED
      BY <3>1, <3>2 DEF Audited
  <2> QED
    BY <1>a, <1>3, <2>1, <2>2, AuditStageStep
<1> QED
  BY <1>1, <1>2, <1>3 DEF AuditOK

-----------------------------------------------------------------------------
(* Nothing that policy.Validate or RenderAll refuses gets through.         *)

(* What a failed or cut-short Apply may leave is no new policy.            *)
LEMMA LeavesAcceptable ==
    ASSUME NEW e \in Engines, NEW p \in Acceptable, NEW b,
           live[e] \in Acceptable \cup {Untouched, Torn}
    PROVE  FailureLeaves(e, p, b) \subseteq Acceptable \cup {Untouched, Torn}
BY DEF FailureLeaves

(* The four steps of the supervisor put an acceptable policy on an engine. *)
LEMMA SupAccept ==
    ASSUME SupTypeOK, NEW b,
           \A e \in Engines : live[e] \in Acceptable \cup {Untouched, Torn},
           supMode = "apply" => supNext \in Acceptable,
           supMode = "restore" => supPrev \in Acceptable,
           \/ SupApplyOk(b) \/ SupApplyFail(b)
           \/ SupRestoreOk(b) \/ SupRestoreFail(b)
    PROVE  \A e \in Engines : live'[e] \in Acceptable \cup {Untouched, Torn}
<1>1. CASE SupApplyOk(b) \/ SupRestoreOk(b)
  BY <1>1 DEF SupApplyOk, SupRestoreOk, SupTypeOK
<1>2. CASE SupApplyFail(b)
  <2>1. supPos \in Engines /\ supNext \in Acceptable
    BY <1>2 DEF SupApplyFail, SupTypeOK
  <2> QED
    BY <1>2, <2>1, LeavesAcceptable DEF SupApplyFail, SupTypeOK
<1>3. CASE SupRestoreFail(b)
  <2>1. supPos \in Engines /\ supPrev \in Acceptable
    BY <1>3 DEF SupRestoreFail, SupTypeOK
  <2> QED
    BY <1>3, <2>1, LeavesAcceptable DEF SupRestoreFail, SupTypeOK
<1> QED
  BY <1>1, <1>2, <1>3

(* No step lets a refused policy through.                                  *)
LEMMA AcceptNext == ASSUME IInv, AcceptOK, [Next]_vars PROVE AcceptOK'
<1> DEFINE LiveOK == \A e \in Engines : live[e] \in Acceptable \cup {Untouched, Torn}
           JobOK == \A c \in Clients : stage[c] \in {"apply", "record"} =>
                                          job[c] \in Acceptable
           HistOK == \A v \in VersionIds : versions[v] \in Acceptable
<1>a. /\ Control /\ TypeOK /\ StoreTypeOK /\ SupTypeOK
      /\ LiveOK /\ JobOK /\ HistOK
  BY DEF IInv, Control, TypeOK, AcceptOK, OnlyAccepted
<1>b. GetRunning \in Acceptable
  BY <1>a, PolicyAssumption
     DEF GetRunning, StoreTypeOK, VersionIds, Acceptable, Validates, Renders
<1>c. /\ supMode = "apply" => supNext \in Acceptable
      /\ supMode = "restore" => supPrev \in Acceptable
  <2>1. CASE \E c \in Clients : stage[c] = "apply"
    BY <1>a, <1>b, <2>1 DEF IInv, SupOK
  <2>2. CASE \A c \in Clients : stage[c] # "apply"
    BY <1>a, <1>b, <2>2 DEF IInv, SupOK, TypeOK
  <2> QED BY <2>1, <2>2
<1>1. HistOK'
  <2>1. ASSUME NEW c \in Clients, stage[c] = "record", CommitVersion(job[c])
        PROVE  HistOK'
    <3>1. job[c] \in Acceptable /\ job[c] \in Policies
      BY <1>a, <2>1 DEF Acceptable
    <3> QED
      BY <1>a, <2>1, <3>1 DEF CommitVersion, VersionIds, StoreTypeOK
  <2> QED
    BY <1>a, <2>1, StoreStep DEF storeVars, PutCandidate, AppendAudit, VersionIds
<1>2. LiveOK'
  <2>1. ASSUME NEW c \in Clients, ApplyEngine(c) PROVE LiveOK'
    BY <1>a, <1>c, <2>1, SupAccept DEF ApplyEngine
  <2>2. CASE StartApply
    BY <1>a, <1>c, <2>2, SupAccept DEF StartApply
  <2>3. CASE StartResult
    BY <1>a, <2>3 DEF StartResult, SupReturn
  <2>4. ASSUME NEW lost, Die(lost) PROVE LiveOK'
    <3>1. \A left \in CutShort : \A e \in Engines :
             left[e] \in Acceptable \cup {Untouched, Torn}
      BY <1>a, <1>c DEF CutShort, SupTypeOK
    <3> QED
      BY <2>4, <3>1 DEF Die
  <2>5. ASSUME NEW c \in Clients,
               \/ Call(c) \/ Cancel(c) \/ Lock(c) \/ SetCandidateStore(c)
               \/ SetCandidateAudit(c) \/ ValidateRead(c) \/ ValidateAnswer(c)
               \/ CommitRead(c) \/ RollbackRead(c) \/ ApplyCheck(c)
               \/ ApplyResult(c) \/ ApplyRecord(c) \/ ApplyAudit(c)
               \/ ApplyNotify(c) \/ ApplyFail(c)
        PROVE  live' = live
    BY <2>5
       DEF Call, Cancel, Lock, SetCandidateStore, SetCandidateAudit,
           ValidateRead, ValidateAnswer, CommitRead, RollbackRead, ApplyCheck,
           ApplyResult, ApplyRecord, ApplyAudit, ApplyNotify, ApplyFail,
           SupCall, SupReturn, supVars
  <2>6. CASE Start \/ TakeTrigger \/ UNCHANGED vars
    BY <1>a, <2>6 DEF Start, TakeTrigger, SupCall, supVars, vars
  <2> QED
    BY <1>a, <2>1, <2>2, <2>3, <2>4, <2>5, <2>6
       DEF Next, Handler, Daemon, Crash, Reboot, Shutdown
<1>3. JobOK'
  <2>1. ASSUME NEW c \in Clients, ApplyCheck(c) PROVE JobOK'
    <3>1. PassesChecks(job[c]) /\ job[c] \in Policies => job[c] \in Acceptable
      BY DEF PassesChecks, Acceptable
    <3>2. job[c] \in Policies
      BY <1>a, <2>1 DEF ApplyCheck, Control, StageOK
    <3> QED
      BY <1>a, <2>1, <3>1, <3>2 DEF ApplyCheck, Proceed, Goto, TypeOK
  <2>2. ASSUME NEW c \in Clients,
               \/ Call(c) \/ Cancel(c) \/ Lock(c) \/ SetCandidateStore(c)
               \/ SetCandidateAudit(c) \/ ValidateRead(c) \/ ValidateAnswer(c)
               \/ CommitRead(c) \/ RollbackRead(c) \/ ApplyEngine(c)
               \/ ApplyResult(c) \/ ApplyRecord(c) \/ ApplyAudit(c)
               \/ ApplyNotify(c) \/ ApplyFail(c)
        PROVE  \A d \in Clients : stage'[d] \in {"apply", "record"} =>
                  stage[d] \in {"apply", "record"} /\ job'[d] = job[d]
    BY <1>a, <2>2
       DEF Call, Cancel, Lock, SetCandidateStore, SetCandidateAudit,
           ValidateRead, ValidateAnswer, CommitRead, RollbackRead, ApplyEngine,
           ApplyResult, ApplyRecord, ApplyAudit, ApplyNotify, ApplyFail,
           Reply, Proceed, Goto, TypeOK
  <2>3. CASE Start \/ StartApply \/ StartResult \/ TakeTrigger \/ UNCHANGED vars
    BY <1>a, <2>3
       DEF Start, StartApply, StartResult, TakeTrigger, vars, serverVars
  <2>4. ASSUME NEW lost, Die(lost) PROVE JobOK'
    BY <2>4 DEF Die
  <2> QED
    BY <1>a, <2>1, <2>2, <2>3, <2>4
       DEF Next, Handler, Daemon, Crash, Reboot, Shutdown
<1> QED
  BY <1>1, <1>2, <1>3 DEF AcceptOK, OnlyAccepted

(* A context ends only in Cancel.                                          *)
LEMMA ContextNext == ASSUME ContextOK, [Next]_vars PROVE ContextOK'
BY DEF ContextOK, Next, Handler, Daemon, Crash, Reboot, Shutdown, Call, Cancel,
       Lock, SetCandidateStore, SetCandidateAudit, ValidateRead,
       ValidateAnswer, CommitRead, RollbackRead, ApplyCheck, ApplyEngine,
       ApplyResult, ApplyRecord, ApplyAudit, ApplyNotify, ApplyFail, Start,
       StartApply, StartResult, TakeTrigger, Die, Reply, Proceed, vars,
       serverVars

(* The second part of the inductive invariant.                             *)
LEMMA SafeInvCorrect == Spec => []SafeInv
<1>1. Init => SafeInv
  BY InvInit, PolicyAssumption
     DEF Init, Open, SupInit, SafeInv, AuditOK, AckedIsAudited, AcceptOK,
         OnlyAccepted, ContextOK, VersionIds, NoAnswer
<1>2. SafeInv /\ [Next]_vars => SafeInv'
  BY ControlNext, SupNext, ReadNext, AuditNext, AcceptNext, ContextNext
     DEF SafeInv, IInv
<1> QED
  BY <1>1, <1>2, PTL DEF Spec

(* A commit or rollback that was answered with a version number is in the  *)
(* history and in the audit log from then on, crashes included: apply() in *)
(* policy.go writes the version, then the audit entry, then answers.       *)
THEOREM AckCorrect == Spec => []AckedIsAudited
<1>1. SafeInv => AckedIsAudited
  BY DEF SafeInv, AuditOK
<1> QED
  BY <1>1, SafeInvCorrect, PTL

(* No policy that policy.Validate or RenderAll refuses is ever recorded or *)
(* reaches an engine: apply() in policy.go checks again what it read under *)
(* the lock, whatever Validate said before.                                *)
THEOREM AcceptCorrect == Spec => []OnlyAccepted
<1>1. SafeInv => OnlyAccepted
  BY DEF SafeInv, AcceptOK
<1> QED
  BY <1>1, SafeInvCorrect, PTL

-----------------------------------------------------------------------------
(* No engine parts from the running version unseen.                        *)

(* A step that leaves the engines, the supervisor, the errors and the      *)
(* running version alone keeps the cover, unless it brings a handler to a  *)
(* stage that promises more.                                               *)
LEMMA CoverIdleStep ==
    ASSUME CoverInv, IInv',
           daemon' = daemon, live' = live, supMode' = supMode,
           supPos' = supPos, named' = named, alarm' = alarm,
           versions' = versions, running' = running,
           \A d \in Clients :
              /\ stage'[d] \in {"apply", "record", "fail"}
                    <=> stage[d] \in {"apply", "record", "fail"}
              /\ stage'[d] \in {"record", "fail"} =>
                    stage'[d] = stage[d] /\ job'[d] = job[d]
    PROVE  CoverOK'
BY DEF CoverInv, CoverOK, Covered, GetRunning

(* A call of Supervisor.Apply under the lock.                              *)
LEMMA CoverWorkStep ==
    ASSUME CoverInv, IInv', NEW c \in Clients, stage[c] = "apply",
           ApplyEngine(c)
    PROVE  CoverOK'
<1> DEFINE b == c \in cancelled
<1>1. /\ daemon = "serving" /\ daemon' = daemon /\ stage' = stage
      /\ job' = job /\ running' = running /\ GetRunning' = GetRunning
      /\ supPrev = GetRunning /\ supPrev \in Policies
      /\ live \in [Engines -> Contents] /\ running \in Nat
      /\ \A d \in Clients : stage[d] \notin {"record", "fail"}
  BY OneHolder, GetRunningType
     DEF ApplyEngine, storeVars, GetRunning, CoverInv, SafeInv, IInv, Control,
         LockOK, SupOK, TypeOK, StoreTypeOK, SupTypeOK, Locked
<1>2. supPos \in Nat /\ (supMode \in {"apply", "restore"} => supPos \in Engines)
  BY SupervisorAssumption
     DEF CoverInv, SafeInv, IInv, Control, TypeOK, SupTypeOK
<1> SUFFICES ASSUME running > 0
             PROVE  /\ supMode' = "apply" =>
                          \A e \in Engines : e >= supPos' => Covered(e)'
                    /\ supMode' = "restore" =>
                          \A e \in Engines : e > supPos' => Covered(e)' \/ e \in named'
                    /\ supMode' = "failed" =>
                          \A e \in Engines : Covered(e)' \/ e \in named'
  BY <1>1 DEF CoverOK
<1>3. /\ supMode = "apply" => \A e \in Engines : e >= supPos => Covered(e)
      /\ supMode = "restore" =>
            \A e \in Engines : e > supPos => Covered(e) \/ e \in named
  BY <1>1 DEF CoverInv, CoverOK
<1>4. CASE SupApplyOk(b) /\ alarm' = alarm \ {supPos}
  <2>1. /\ supMode = "apply" /\ supMode' \in {"apply", "ok"} /\ supPos' = supPos + 1
        /\ \A e \in Engines : e # supPos => live'[e] = live[e]
    BY <1>1, <1>4 DEF SupApplyOk
  <2> QED
    BY <1>1, <1>2, <1>3, <1>4, <2>1 DEF Covered, Engines
<1>5. CASE SupApplyFail(b) /\ UNCHANGED alarm
  <2>1. /\ supMode = "apply" /\ supMode' \in {"restore", "failed"}
        /\ supMode' = "failed" => supPos = 1
        /\ supPos' = supPos - 1 /\ named' = {supPos}
        /\ \A e \in Engines : e # supPos => live'[e] = live[e]
    BY <1>1, <1>5, PolicyAssumption DEF SupApplyFail
  <2> QED
    BY <1>1, <1>2, <1>3, <1>5, <2>1 DEF Covered, Engines
<1>6. CASE SupRestoreOk(b) /\ alarm' = alarm \ {supPos}
  <2>1. /\ supMode = "restore" /\ supMode' \in {"restore", "failed"}
        /\ supMode' = "failed" => supPos = 1
        /\ supPos' = supPos - 1 /\ named' = named /\ supPos \in Engines
        /\ live'[supPos] = GetRunning'
        /\ \A e \in Engines : e # supPos => live'[e] = live[e]
    BY <1>1, <1>2, <1>6 DEF SupRestoreOk
  <2> QED
    BY <1>1, <1>2, <1>3, <1>6, <2>1 DEF Covered, Engines
<1>7. CASE SupRestoreFail(b) /\ UNCHANGED alarm
  <2>1. /\ supMode = "restore" /\ supMode' \in {"restore", "failed"}
        /\ supMode' = "failed" => supPos = 1
        /\ supPos' = supPos - 1 /\ named' = named \cup {supPos}
        /\ \A e \in Engines : e # supPos => live'[e] = live[e]
    BY <1>1, <1>7 DEF SupRestoreFail
  <2> QED
    BY <1>1, <1>2, <1>3, <1>7, <2>1 DEF Covered, Engines
<1> QED
  BY <1>4, <1>5, <1>6, <1>7 DEF ApplyEngine, SupApplyOk, SupApplyFail,
     SupRestoreOk, SupRestoreFail

(* An error has a witness.                                                 *)
LEMMA AlarmReaches ==
    ASSUME OneWitness, SafeInv, NEW c \in Clients, ApplyFail(c)
    PROVE  alarm' = alarm \cup named
BY DEF OneWitness, SafeInv, ContextOK, ApplyFail, Witnessed

(* No step uncovers an engine.                                             *)
LEMMA CoverNext ==
    ASSUME OneWitness, CoverInv, SafeInv', [Next]_vars
    PROVE  CoverOK'
<1>a. /\ Control /\ Control' /\ IInv' /\ TypeOK /\ SupOK /\ CoverOK
      /\ running \in Nat /\ live \in [Engines -> Contents]
  BY DEF CoverInv, SafeInv, IInv, Control, TypeOK, StoreTypeOK, SupTypeOK
<1>b. \A c, d \in Clients : stage[c] \in Locked /\ stage[d] \in Locked => c = d
  BY <1>a, OneHolder
<1>c. \A c \in Clients : stage[c] # "idle" => daemon = "serving"
  BY <1>a DEF Control, LockOK
<1>1. ASSUME NEW c \in Clients,
             \/ Call(c) \/ Cancel(c) \/ Lock(c)
             \/ SetCandidateStore(c) \/ SetCandidateAudit(c)
             \/ ValidateRead(c) \/ ValidateAnswer(c)
             \/ CommitRead(c) \/ RollbackRead(c)
             \/ ApplyAudit(c) \/ ApplyNotify(c)
      PROVE  CoverOK'
  <2>1. /\ daemon' = daemon /\ live' = live /\ supMode' = supMode
        /\ supPos' = supPos /\ named' = named /\ alarm' = alarm
        /\ versions' = versions /\ running' = running
    BY <1>1
       DEF Call, Cancel, Lock, SetCandidateStore, SetCandidateAudit,
           ValidateRead, ValidateAnswer, CommitRead, RollbackRead, ApplyAudit,
           ApplyNotify, PutCandidate, AppendAudit, RestUnchanged, storeVars,
           supVars
  <2>2. \A d \in Clients :
          /\ stage'[d] \in {"apply", "record", "fail"}
                <=> stage[d] \in {"apply", "record", "fail"}
          /\ stage'[d] \in {"record", "fail"} =>
                stage'[d] = stage[d] /\ job'[d] = job[d]
    BY <1>1, <1>a
       DEF Call, Cancel, Lock, SetCandidateStore, SetCandidateAudit,
           ValidateRead, ValidateAnswer, CommitRead, RollbackRead, ApplyAudit,
           ApplyNotify, Reply, Proceed, Goto, TypeOK
  <2> QED
    BY <1>a, <2>1, <2>2, CoverIdleStep
<1>2. ASSUME NEW c \in Clients, ApplyCheck(c) PROVE CoverOK'
  <2>1. /\ \A d \in Clients : stage[d] \notin {"apply", "record", "fail"}
        /\ \A d \in Clients : d # c => stage'[d] \notin {"apply", "record", "fail"}
    BY <1>2, <1>a, <1>b DEF ApplyCheck, Proceed, Goto, TypeOK, Locked
  <2>2. /\ daemon = "serving" /\ daemon' = daemon /\ alarm' = alarm
        /\ live' = live /\ running' = running /\ GetRunning' = GetRunning
        /\ stage'[c] \in {"apply", "fail"}
        /\ supMode = "idle"
    BY <1>2, <1>a, <1>c, <2>1
       DEF ApplyCheck, SupCall, Proceed, Goto, RestUnchanged, storeVars,
           GetRunning, TypeOK, SupOK
  <2>3. running > 0 => \A e \in Engines : Covered(e)'
    BY <1>a, <2>1, <2>2 DEF CoverOK, Covered
  <2>4. supMode' \in {"idle", "apply"}
    BY <1>2, <2>2 DEF ApplyCheck, SupCall
  <2> QED
    BY <2>1, <2>2, <2>3, <2>4 DEF CoverOK
<1>3. ASSUME NEW c \in Clients, ApplyEngine(c) PROVE CoverOK'
  BY <1>3, <1>a, CoverWorkStep DEF ApplyEngine
<1>4. ASSUME NEW c \in Clients, ApplyResult(c) PROVE CoverOK'
  <2>1. /\ \A d \in Clients : d # c => stage'[d] \notin {"apply", "record", "fail"}
        /\ daemon' = daemon /\ daemon = "serving" /\ alarm' = alarm
        /\ live' = live /\ named' = named /\ job' = job
        /\ running' = running /\ GetRunning' = GetRunning
        /\ supMode' = "idle"
        /\ stage'[c] = IF supMode = "ok" THEN "record" ELSE "fail"
        /\ supMode = "ok" \/ supMode = "failed"
        /\ supNext = job[c]
    BY <1>4, <1>a, <1>b, <1>c
       DEF ApplyResult, SupReturn, RestUnchanged, storeVars, GetRunning,
           Proceed, Goto, TypeOK, SupOK, Locked
  <2>2. supMode = "ok" => \A e \in Engines : live'[e] = job'[c]
    BY <1>a, <2>1 DEF SupOK
  <2>3. supMode = "failed" /\ running' > 0 =>
           \A e \in Engines : Covered(e)' \/ e \in named'
    BY <1>a, <2>1 DEF CoverOK, Covered
  <2> QED
    BY <2>1, <2>2, <2>3 DEF CoverOK
<1>5. ASSUME NEW c \in Clients, ApplyRecord(c) PROVE CoverOK'
  <2>1. /\ \A d \in Clients : d # c => stage'[d] \notin {"apply", "record", "fail"}
        /\ \A d \in Clients : stage[d] # "apply"
        /\ daemon = "serving" /\ daemon' = daemon /\ alarm' = alarm /\ live' = live
        /\ supMode' = "idle" /\ stage[c] = "record"
        /\ stage'[c] \in {"audit", "fail"}
    BY <1>5, <1>a, <1>b, <1>c
       DEF ApplyRecord, RestUnchanged, supVars, Proceed, Goto, TypeOK, SupOK,
           Locked
  <2>2. CASE CommitVersion(job[c]) /\ Proceed(c, "audit")
    <3>1. GetRunning' = job[c] /\ stage'[c] = "audit"
      BY <1>a, <2>2 DEF CommitVersion, GetRunning, TypeOK, StoreTypeOK, Proceed, Goto
    <3>2. \A e \in Engines : live[e] = job[c]
      BY <1>a, <2>1 DEF CoverOK
    <3> QED
      BY <2>1, <3>1, <3>2 DEF CoverOK, Covered
  <2>3. CASE named' = Engines /\ Proceed(c, "fail")
    <3>1. stage'[c] = "fail"
      BY <1>a, <2>3 DEF Proceed, Goto, TypeOK
    <3> QED
      BY <2>1, <2>3, <3>1 DEF CoverOK
  <2> QED
    BY <1>5, <2>2, <2>3 DEF ApplyRecord
<1>6. ASSUME NEW c \in Clients, ApplyFail(c) PROVE CoverOK'
  <2>1. /\ \A d \in Clients : stage'[d] \notin {"apply", "record", "fail"}
        /\ \A d \in Clients : stage[d] # "apply"
        /\ stage[c] = "fail" /\ daemon = "serving" /\ daemon' = daemon
        /\ alarm' = alarm \cup named /\ live' = live
        /\ running' = running /\ GetRunning' = GetRunning
        /\ supMode' = "idle"
    BY <1>6, <1>a, <1>b, <1>c, AlarmReaches
       DEF ApplyFail, AppendAudit, storeVars, GetRunning, Reply, Goto, TypeOK,
           SupOK, Locked, CoverInv
  <2> QED
    BY <1>a, <2>1 DEF CoverOK, Covered
<1>7. ASSUME StartResult PROVE CoverOK'
  <2>1. /\ \A d \in Clients : stage'[d] = "idle"
        /\ supMode' = "idle" /\ GetRunning' = GetRunning
    BY <1>7, <1>a, SupervisorAssumption
       DEF StartResult, SupReturn, storeVars, GetRunning, Control, LockOK
  <2>2. daemon' = "serving" => \A e \in Engines : live'[e] = GetRunning
    BY <1>7, <1>a DEF StartResult, SupReturn, SupOK
  <2> QED
    BY <2>1, <2>2 DEF CoverOK, Covered
<1>8. ASSUME Start \/ StartApply PROVE CoverOK'
  <2>1. \A d \in Clients : stage'[d] = "idle"
    BY <1>8, <1>a DEF Start, StartApply, Control, LockOK
  <2>2. daemon' = "serving" => running' = 0
    BY <1>8 DEF Start, StartApply, storeVars
  <2> QED
    BY <2>1, <2>2 DEF CoverOK
<1>9. ASSUME NEW lost, Die(lost) PROVE CoverOK'
  BY <1>9 DEF Die, CoverOK
<1>10. ASSUME TakeTrigger \/ UNCHANGED vars PROVE CoverOK'
  BY <1>10, <1>a, CoverIdleStep
     DEF TakeTrigger, vars, serverVars, storeVars, supVars
<1> QED
  BY <1>1, <1>2, <1>3, <1>4, <1>5, <1>6, <1>7, <1>8, <1>9, <1>10
     DEF Next, Handler, Daemon, Crash, Reboot, Shutdown

(* Whenever an engine does not follow the store, somebody is answerable    *)
(* for it: a change or a start under way, the error a caller was told or   *)
(* the audit log, for every set of failures but one that lets the caller   *)
(* leave and the audit write fail together.                                *)
THEOREM CoverCorrect ==
    ASSUME OneWitness
    PROVE  Spec => []CoverInv
<1>1. Init => CoverOK
  BY DEF Init, CoverOK
<1>2. CoverInv /\ SafeInv' /\ [Next]_vars => CoverOK'
  BY CoverNext
<1> QED
  BY <1>1, <1>2, SafeInvCorrect, PTL DEF Spec, CoverInv

(* While the daemon serves and no change is under way, an engine that does *)
(* not enforce the running version was named in an error that reached the  *)
(* caller or the audit log: for every number of engines and clients and    *)
(* for every set of failures, but one that lets the caller leave and the   *)
(* audit write fail together.                                              *)
THEOREM DivergenceCorrect ==
    ASSUME OneWitness
    PROVE  Spec => []NoSilentDivergence
<1>1. CoverInv => NoSilentDivergence
  BY ServerAssumption DEF CoverInv, SafeInv, IInv, Control, LockOK, Locked, CoverOK,
         Covered, NoSilentDivergence, Quiet
<1> QED
  BY <1>1, CoverCorrect, PTL
-----------------------------------------------------------------------------
(* A commit is all or nothing when engines fail cleanly. *)

(* At most one change is under way, so Target is its policy.               *)
LEMMA OneChange ==
    ASSUME Control
    PROVE  /\ Changing = {} => Target = None
           /\ \A c \in Clients : stage[c] \in {"apply", "record", "fail"} =>
                 Changing = {c} /\ Target = job[c]
<1>1. ASSUME NEW c \in Clients, stage[c] \in {"apply", "record", "fail"}
      PROVE  Changing = {c}
  <2>1. \A d \in Changing : d = c
    BY <1>1, OneHolder DEF Changing, Locked
  <2> QED
    BY <1>1, <2>1 DEF Changing
<1> QED
  BY <1>1 DEF Target

(* A step that leaves the engines, the supervisor and the running version  *)
(* alone and starts or ends no change keeps AtomOK.                        *)
LEMMA AtomIdleStep ==
    ASSUME AtomInv,
           daemon' = daemon, live' = live, supMode' = supMode,
           supPos' = supPos, supNext' = supNext,
           versions' = versions, running' = running,
           \A d \in Clients :
              /\ stage'[d] \in {"apply", "record", "fail"}
                    <=> stage[d] \in {"apply", "record", "fail"}
              /\ stage'[d] \in {"apply", "record", "fail"} =>
                    stage'[d] = stage[d] /\ job'[d] = job[d]
    PROVE  /\ AtomOK'
           /\ Changing' = Changing
           /\ \A d \in Changing : job'[d] = job[d]
           /\ Visible' = Visible /\ GetRunning' = GetRunning
BY DEF AtomInv, AtomOK, Follows, Seen, GetRunning, Changing, Visible

(* The steps of a handler outside a change satisfy its hypotheses.         *)
LEMMA AtomQuiet ==
    ASSUME TypeOK, NEW c \in Clients,
           \/ Call(c) \/ Cancel(c) \/ Lock(c)
           \/ SetCandidateStore(c) \/ SetCandidateAudit(c)
           \/ ValidateRead(c) \/ ValidateAnswer(c)
           \/ CommitRead(c) \/ RollbackRead(c)
           \/ ApplyAudit(c) \/ ApplyNotify(c)
    PROVE  /\ daemon' = daemon /\ live' = live /\ supMode' = supMode
           /\ supPos' = supPos /\ supNext' = supNext
           /\ versions' = versions /\ running' = running
           /\ \A d \in Clients :
                 /\ stage'[d] \in {"apply", "record", "fail"}
                       <=> stage[d] \in {"apply", "record", "fail"}
                 /\ stage'[d] \in {"apply", "record", "fail"} =>
                       stage'[d] = stage[d] /\ job'[d] = job[d]
<1>1. /\ daemon' = daemon /\ live' = live /\ supMode' = supMode
      /\ supPos' = supPos /\ supNext' = supNext
      /\ versions' = versions /\ running' = running
  BY DEF Call, Cancel, Lock, SetCandidateStore, SetCandidateAudit,
         ValidateRead, ValidateAnswer, CommitRead, RollbackRead, ApplyAudit,
         ApplyNotify, PutCandidate, AppendAudit, RestUnchanged, storeVars,
         supVars
<1>2. \A d \in Clients :
        /\ stage'[d] \in {"apply", "record", "fail"}
              <=> stage[d] \in {"apply", "record", "fail"}
        /\ stage'[d] \in {"apply", "record", "fail"} =>
              stage'[d] = stage[d] /\ job'[d] = job[d]
  BY DEF Call, Cancel, Lock, SetCandidateStore, SetCandidateAudit,
         ValidateRead, ValidateAnswer, CommitRead, RollbackRead, ApplyAudit,
         ApplyNotify, Reply, Proceed, Goto, TypeOK
<1> QED
  BY <1>1, <1>2

(* A step of Supervisor.Apply under the lock.                              *)
LEMMA AtomWorkStep ==
    ASSUME CleanFailures, AtomInv, NEW c \in Clients, ApplyEngine(c)
    PROVE  AtomOK'
<1> DEFINE b == c \in cancelled
<1>1. /\ daemon = "serving" /\ daemon' = daemon /\ stage' = stage
      /\ stage[c] = "apply" /\ Changing' = {c}
      /\ job' = job /\ running' = running /\ GetRunning' = GetRunning
      /\ supPrev = GetRunning /\ supPrev \in Policies
      /\ live \in [Engines -> Contents] /\ running \in Nat
      /\ \A d \in Clients : stage[d] \notin {"record", "fail"}
  BY OneHolder, OneChange, GetRunningType
     DEF ApplyEngine, storeVars, GetRunning, AtomInv, SafeInv, IInv, Control,
         LockOK, SupOK, TypeOK, StoreTypeOK, SupTypeOK, Locked, Changing
<1>2. /\ supPos \in Nat /\ (supMode \in {"apply", "restore"} => supPos \in Engines)
      /\ supMode = "apply" => \A e \in Engines : e < supPos => live[e] = supNext
      /\ supMode = "apply" => \A e \in Engines : e >= supPos => Follows(e)
      /\ supMode = "restore" =>
            \A e \in Engines :
               IF e > supPos THEN Follows(e) ELSE live[e] = supNext
  BY <1>1, SupervisorAssumption
     DEF AtomInv, AtomOK, SafeInv, IInv, SupOK, Control, TypeOK, SupTypeOK
<1>3. ~ b /\ "torn" \notin Faults /\ "restore" \notin Faults
  BY DEF CleanFailures, AtomInv, SafeInv, ContextOK
<1>4. \A e \in Engines : live'[e] = live[e] => (Follows(e) <=> Follows(e)')
  BY <1>1 DEF Follows, Seen
<1> SUFFICES /\ supMode' = "apply" =>
                   \A e \in Engines : e >= supPos' => Follows(e)'
             /\ supMode' = "restore" =>
                   \A e \in Engines :
                      IF e > supPos' THEN Follows(e)' ELSE live'[e] = supNext'
             /\ supMode' = "failed" => \A e \in Engines : Follows(e)'
  BY <1>1 DEF AtomOK
<1>5. CASE SupApplyOk(b)
  <2>1. /\ supMode = "apply" /\ supMode' \in {"apply", "ok"} /\ supPos' = supPos + 1
        /\ \A e \in Engines : e # supPos => live'[e] = live[e]
    BY <1>1, <1>5 DEF SupApplyOk
  <2> QED
    BY <1>2, <1>4, <2>1 DEF Engines
<1>6. CASE SupApplyFail(b)
  <2>1. FailureLeaves(supPos, supNext, b) = {live[supPos]}
    BY <1>3 DEF FailureLeaves
  <2>2. /\ supMode = "apply" /\ supMode' \in {"restore", "failed"}
        /\ supMode' = "failed" => supPos = 1
        /\ supPos' = supPos - 1 /\ supNext' = supNext
        /\ live' = [live EXCEPT ![supPos] = live[supPos]]
    BY <1>1, <1>6, <2>1, PolicyAssumption DEF SupApplyFail
  <2>3. live' = live
    BY <1>1, <2>2
  <2> QED
    BY <1>2, <1>4, <2>2, <2>3 DEF Engines
<1>7. CASE SupRestoreOk(b)
  <2>1. /\ supMode = "restore" /\ supMode' \in {"restore", "failed"}
        /\ supMode' = "failed" => supPos = 1
        /\ supPos' = supPos - 1 /\ supNext' = supNext /\ supPos \in Engines
        /\ live'[supPos] = GetRunning'
        /\ \A e \in Engines : e # supPos => live'[e] = live[e]
    BY <1>1, <1>2, <1>7 DEF SupRestoreOk
  <2>2. \A e \in Engines : e = supPos => Follows(e)'
    BY <1>1, <2>1, SupervisorAssumption DEF Follows, Seen
  <2> QED
    BY <1>2, <1>4, <2>1, <2>2 DEF Engines
<1>8. CASE SupRestoreFail(b)
  BY <1>3, <1>8 DEF SupRestoreFail
<1> QED
  BY <1>5, <1>6, <1>7, <1>8 DEF ApplyEngine

(* No step of the commit path breaks a commit apart.                       *)
LEMMA AtomNext ==
    ASSUME CleanFailures, AtomInv, SafeInv', [Next]_vars
    PROVE  AtomOK'
<1>a. /\ Control /\ Control' /\ TypeOK /\ SupOK /\ SupOK' /\ AtomOK
      /\ running \in Nat /\ live \in [Engines -> Contents]
  BY DEF AtomInv, SafeInv, IInv, Control, TypeOK, StoreTypeOK, SupTypeOK
<1>b. \A c, d \in Clients : stage[c] \in Locked /\ stage[d] \in Locked => c = d
  BY <1>a, OneHolder
<1>c. \A c \in Clients : stage[c] # "idle" => daemon = "serving"
  BY <1>a DEF Control, LockOK
<1>1. ASSUME NEW c \in Clients,
             \/ Call(c) \/ Cancel(c) \/ Lock(c)
             \/ SetCandidateStore(c) \/ SetCandidateAudit(c)
             \/ ValidateRead(c) \/ ValidateAnswer(c)
             \/ CommitRead(c) \/ RollbackRead(c)
             \/ ApplyAudit(c) \/ ApplyNotify(c)
      PROVE  AtomOK'
  BY <1>1, <1>a, AtomQuiet, AtomIdleStep
<1>2. ASSUME NEW c \in Clients, ApplyCheck(c) PROVE AtomOK'
  <2>1. /\ \A d \in Clients : stage[d] \notin {"apply", "record", "fail"}
        /\ \A d \in Clients : d # c => stage'[d] \notin {"apply", "record", "fail"}
        /\ stage[c] = "check"
    BY <1>2, <1>a, <1>b DEF ApplyCheck, Proceed, Goto, TypeOK, Locked
  <2>2. /\ daemon = "serving" /\ daemon' = daemon /\ job' = job
        /\ live' = live /\ running' = running /\ GetRunning' = GetRunning
        /\ stage'[c] \in {"apply", "fail"} /\ stage \in [Clients -> Stages]
        /\ stage' = [stage EXCEPT ![c] = stage'[c]]
        /\ supMode = "idle" /\ supMode' \in {"idle", "apply"}
    BY <1>2, <1>a, <1>c, <2>1
       DEF ApplyCheck, SupCall, Proceed, Goto, RestUnchanged, storeVars,
           GetRunning, TypeOK, SupOK
  <2>3. \A e \in Engines : Follows(e)'
    BY <1>a, <2>1, <2>2 DEF AtomOK, Changing, Follows, Seen
  <2>4. job[c] \in Policies
    BY <1>a, <2>1 DEF Control, StageOK
  <2>5. Changing' # {}
    BY <2>2 DEF Changing
  <2> QED
    BY <2>1, <2>2, <2>3, <2>4, <2>5 DEF AtomOK
<1>3. ASSUME NEW c \in Clients, ApplyEngine(c) PROVE AtomOK'
  BY <1>3, AtomWorkStep
<1>4. ASSUME NEW c \in Clients, ApplyResult(c) PROVE AtomOK'
  <2>1. /\ \A d \in Clients : d # c => stage'[d] \notin {"apply", "record", "fail"}
        /\ daemon' = daemon /\ daemon = "serving"
        /\ live' = live /\ job' = job /\ stage[c] = "apply"
        /\ running' = running /\ GetRunning' = GetRunning
        /\ stage'[c] = IF supMode = "ok" THEN "record" ELSE "fail"
        /\ supMode = "ok" \/ supMode = "failed"
        /\ supNext = job[c]
    BY <1>4, <1>a, <1>b, <1>c
       DEF ApplyResult, SupReturn, RestUnchanged, storeVars, GetRunning,
           Proceed, Goto, TypeOK, SupOK, Locked
  <2>2. supMode = "ok" => \A e \in Engines : live'[e] = job'[c]
    BY <1>a, <2>1 DEF SupOK
  <2>3. supMode = "failed" => \A e \in Engines : Follows(e)'
    BY <1>a, <2>1 DEF AtomOK, Follows, Seen
  <2>4. job[c] \in Policies
    BY <1>a, <2>1 DEF Control, StageOK
  <2>5. Changing' # {}
    BY <2>1 DEF Changing
  <2> QED
    BY <2>1, <2>2, <2>3, <2>4, <2>5 DEF AtomOK
<1>5. ASSUME NEW c \in Clients, ApplyRecord(c) PROVE AtomOK'
  <2>1. /\ \A d \in Clients : d # c => stage'[d] \notin {"apply", "record", "fail"}
        /\ stage[c] = "record" /\ stage'[c] = "audit"
        /\ daemon = "serving" /\ daemon' = daemon /\ live' = live
        /\ CommitVersion(job[c])
    BY <1>5, <1>a, <1>b, <1>c
       DEF CleanFailures, ApplyRecord, RestUnchanged, supVars, Proceed, Goto,
           TypeOK, Locked
  <2>2. GetRunning' = job[c] /\ running' > 0
    BY <1>a, <2>1 DEF CommitVersion, GetRunning, TypeOK, StoreTypeOK
  <2>3. \A e \in Engines : live[e] = job[c]
    BY <1>a, <2>1 DEF AtomOK
  <2>4. \A e \in Engines : Follows(e)'
    BY <2>1, <2>2, <2>3 DEF Follows, Seen
  <2>5. \A d \in Clients : stage'[d] \notin {"apply", "record", "fail"}
    BY <2>1
  <2> QED
    BY <2>1, <2>4, <2>5 DEF AtomOK
<1>6. ASSUME NEW c \in Clients, ApplyFail(c) PROVE AtomOK'
  <2>1. /\ \A d \in Clients : stage'[d] \notin {"apply", "record", "fail"}
        /\ stage[c] = "fail" /\ daemon = "serving" /\ daemon' = daemon
        /\ live' = live /\ running' = running /\ GetRunning' = GetRunning
    BY <1>6, <1>a, <1>b, <1>c
       DEF ApplyFail, AppendAudit, storeVars, GetRunning, Reply, Goto, TypeOK,
           Locked
  <2>2. \A e \in Engines : Follows(e)'
    BY <1>a, <2>1 DEF AtomOK, Follows, Seen
  <2> QED
    BY <2>1, <2>2 DEF AtomOK
<1>7. ASSUME StartResult PROVE AtomOK'
  <2>1. /\ \A d \in Clients : stage'[d] = "idle"
        /\ running > 0 /\ running' = running /\ GetRunning' = GetRunning
    BY <1>7, <1>a DEF StartResult, storeVars, GetRunning, Control, LockOK, SupOK
  <2>2. daemon' = "serving" => \A e \in Engines : live'[e] = GetRunning
    BY <1>7, <1>a DEF StartResult, SupReturn, SupOK
  <2>3. daemon' = "serving" => \A e \in Engines : Follows(e)'
    BY <1>a, <2>1, <2>2 DEF Follows, Seen
  <2> QED
    BY <1>a, <2>1, <2>3 DEF AtomOK
<1>8. ASSUME Start \/ StartApply PROVE AtomOK'
  <2>1. \A d \in Clients : stage'[d] = "idle"
    BY <1>8, <1>a DEF Start, StartApply, Control, LockOK
  <2>2. CASE Start /\ daemon' = "serving"
    <3>1. /\ daemon = "down" /\ running = 0 /\ running' = running
          /\ live' = live /\ GetRunning' = GetRunning
      BY <2>2 DEF Start, storeVars, supVars, GetRunning
    <3>2. \A e \in Engines : Follows(e)'
      BY <1>a, <3>1 DEF AtomOK, Follows, Seen
    <3> QED
      BY <2>1, <2>2, <3>2 DEF AtomOK
  <2>3. CASE daemon' = "starting"
    BY <2>1, <2>3 DEF AtomOK
  <2> QED
    BY <1>8, <2>2, <2>3 DEF Start, StartApply
<1>9. ASSUME Shutdown PROVE AtomOK'
  <2>1. /\ daemon = "serving" /\ Changing = {} /\ supMode = "idle"
    BY <1>9, <1>a DEF Shutdown, InFlight, Changing, SupOK
  <2>2. /\ daemon' = "down" /\ running' = running /\ GetRunning' = GetRunning
        /\ \A d \in Clients : stage'[d] = "idle"
        /\ \A e \in Engines : live'[e] \in {live[e], Untouched}
    BY <1>9, <2>1 DEF Shutdown, Die, CutShort, storeVars, GetRunning
  <2>3. \A e \in Engines : Follows(e)
    BY <1>a, <2>1 DEF AtomOK
  <2>4. running' = 0 => \A e \in Engines : Follows(e)'
    BY <2>2, <2>3 DEF Follows, Seen, GetRunning
  <2> QED
    BY <2>2, <2>4 DEF AtomOK
<1>10. ASSUME TakeTrigger \/ UNCHANGED vars PROVE AtomOK'
  BY <1>10, AtomIdleStep
     DEF TakeTrigger, vars, serverVars, storeVars, supVars
<1>11. ~ Crash /\ ~ Reboot
  BY DEF CleanFailures, Crash, Reboot
<1> QED
  BY <1>1, <1>2, <1>3, <1>4, <1>5, <1>6, <1>7, <1>8, <1>9, <1>10, <1>11
     DEF Next, Handler, Daemon

(* Outside a change the engines are seen to enforce the running version.   *)
LEMMA VisibleAtRest ==
    ASSUME AtomInv, Changing = {}
    PROVE  Target = None /\ Visible = {GetRunning}
<1>1. Target = None
  BY DEF Target
<1>2. CASE daemon = "serving"
  <2>1. \A e \in Engines : Seen(e) = GetRunning
    BY <1>2 DEF AtomInv, AtomOK, Follows
  <2>2. 1 \in Engines
    BY SupervisorAssumption DEF Engines
  <2> QED
    BY <1>1, <1>2, <2>1, <2>2 DEF Visible
<1> QED
  BY <1>1, <1>2 DEF Visible

(* Every step maps to a step of AtomicCommit or to a stutter: ApplyCheck   *)
(* begins a change, ApplyEngine switches, ApplyRecord commits, ApplyFail   *)
(* aborts, and no other step is seen.                                      *)
LEMMA AtomicStep ==
    ASSUME CleanFailures, AtomInv, AtomInv', [Next]_vars
    PROVE  [Atomic!Next]_Atomic!vars
<1> DEFINE Still == UNCHANGED <<GetRunning, Target, Visible>>
<1>a. /\ Control /\ Control' /\ TypeOK /\ SupOK /\ AtomOK /\ AtomOK'
      /\ running \in Nat /\ live \in [Engines -> Contents]
  BY DEF AtomInv, SafeInv, IInv, Control, TypeOK, StoreTypeOK, SupTypeOK
<1>b. /\ Changing = {} => Target = None
      /\ \A c \in Clients : stage[c] \in {"apply", "record", "fail"} =>
            Changing = {c} /\ Target = job[c] /\ daemon = "serving"
  BY <1>a, OneChange DEF Control, LockOK
<1>c. /\ Changing' = {} => Target' = None
      /\ \A c \in Clients : stage'[c] \in {"apply", "record", "fail"} =>
            Changing' = {c} /\ Target' = job'[c] /\ daemon' = "serving"
  <2>1. Changing' = {} => Target' = None
    BY DEF Target
  <2>2. ASSUME NEW c \in Clients, stage'[c] \in {"apply", "record", "fail"}
        PROVE  Changing' = {c} /\ Target' = job'[c] /\ daemon' = "serving"
    <3>1. mu' = c /\ daemon' = "serving"
      BY <1>a, <2>2 DEF Control, LockOK, Locked
    <3>2. \A d \in Clients : stage'[d] \in {"apply", "record", "fail"} => d = c
      BY <1>a, <3>1 DEF Control, LockOK, Locked
    <3>3. Changing' = {c}
      BY <2>2, <3>2 DEF Changing
    <3> QED
      BY <3>1, <3>3 DEF Target
  <2> QED
    BY <2>1, <2>2
<1>d. 1 \in Engines /\ None \notin Policies
  BY SupervisorAssumption, PolicyAssumption DEF Engines
<1> SUFFICES Still \/ Atomic!Next
  BY DEF Atomic!vars
<1>1. ASSUME NEW c \in Clients,
             \/ Call(c) \/ Cancel(c) \/ Lock(c)
             \/ SetCandidateStore(c) \/ SetCandidateAudit(c)
             \/ ValidateRead(c) \/ ValidateAnswer(c)
             \/ CommitRead(c) \/ RollbackRead(c)
             \/ ApplyAudit(c) \/ ApplyNotify(c)
      PROVE  Still
  <2>1. /\ Changing' = Changing
        /\ \A d \in Changing : job'[d] = job[d]
        /\ Visible' = Visible /\ GetRunning' = GetRunning
    BY <1>1, <1>a, AtomQuiet, AtomIdleStep
  <2>2. Target' = Target
    BY <2>1 DEF Target
  <2> QED
    BY <2>1, <2>2
<1>2. ASSUME NEW c \in Clients, ApplyCheck(c) PROVE Atomic!Begin
  <2>1. /\ stage[c] = "check" /\ job' = job /\ daemon' = daemon
        /\ live' = live /\ running' = running /\ GetRunning' = GetRunning
        /\ stage'[c] \in {"apply", "fail"}
    BY <1>2, <1>a
       DEF ApplyCheck, SupCall, Proceed, Goto, RestUnchanged, storeVars,
           GetRunning, TypeOK
  <2>2. Changing = {}
    BY <1>a, <2>1, OneHolder DEF Changing, Locked
  <2>3. Target = None
    BY <1>b, <2>2
  <2>4. Target' = job[c] /\ job[c] \in Policies
    BY <1>a, <1>c, <2>1 DEF Control, StageOK
  <2>5. Visible' = Visible
    BY <2>1 DEF Visible, Seen
  <2> QED
    BY <2>1, <2>3, <2>4, <2>5 DEF Atomic!Begin
<1>3. ASSUME NEW c \in Clients, ApplyEngine(c) PROVE Atomic!Switch
  <2>1. /\ stage[c] = "apply" /\ stage' = stage /\ job' = job
        /\ GetRunning' = GetRunning /\ running' = running
        /\ daemon = "serving" /\ daemon' = daemon
    BY <1>3, <1>b DEF ApplyEngine, storeVars, GetRunning
  <2>2. Target = job[c] /\ Target' = job[c] /\ job[c] \in Policies
    BY <1>a, <1>b, <1>c, <2>1 DEF Control, StageOK
  <2>3. Visible' = {Seen(e)' : e \in Engines}
    BY <2>1 DEF Visible
  <2>4. /\ supMode' \in {"apply", "restore", "ok", "failed"} /\ supNext' = job[c]
        /\ supMode' = "apply" => \A e \in Engines : e < supPos' => live'[e] = supNext'
        /\ supMode' = "ok" => \A e \in Engines : live'[e] = supNext'
        /\ supPos' \in Int
    BY <2>1, SupervisorAssumption
       DEF AtomInv, SafeInv, IInv, SupOK, Control, TypeOK, SupTypeOK, Modes
  <2>5. /\ supMode' = "apply" => \A e \in Engines : e >= supPos' => Follows(e)'
        /\ supMode' = "restore" =>
              \A e \in Engines :
                 IF e > supPos' THEN Follows(e)' ELSE live'[e] = supNext'
        /\ supMode' = "failed" => \A e \in Engines : Follows(e)'
    BY <1>a, <2>1 DEF AtomOK
  <2>6. \A e \in Engines : Follows(e)' \/ live'[e] = job[c]
    BY <2>4, <2>5 DEF Engines
  <2>7. \A e \in Engines : Seen(e)' \in {GetRunning, Target}
    BY <2>1, <2>2, <2>6, SupervisorAssumption DEF Follows, Seen
  <2>8. Visible' \in (SUBSET {GetRunning, Target}) \ {{}}
    BY <1>d, <2>3, <2>7
  <2> QED
    BY <1>d, <2>1, <2>2, <2>8 DEF Atomic!Switch
<1>4. ASSUME NEW c \in Clients, ApplyResult(c) PROVE Still
  <2>1. /\ stage[c] = "apply" /\ stage'[c] \in {"record", "fail"} /\ job' = job
        /\ GetRunning' = GetRunning /\ running' = running /\ live' = live
        /\ daemon' = daemon
    BY <1>4, <1>a
       DEF ApplyResult, SupReturn, RestUnchanged, storeVars, GetRunning,
           Proceed, Goto, TypeOK
  <2>2. Target' = Target
    BY <1>b, <1>c, <2>1
  <2> QED
    BY <2>1, <2>2 DEF Visible, Seen
<1>5. ASSUME NEW c \in Clients, ApplyRecord(c) PROVE Atomic!Commit
  <2>1. /\ stage[c] = "record" /\ daemon = "serving" /\ daemon' = daemon
        /\ live' = live /\ CommitVersion(job[c])
        /\ stage' = [stage EXCEPT ![c] = "audit"]
    BY <1>5, <1>b
       DEF CleanFailures, ApplyRecord, RestUnchanged, supVars, Proceed, Goto
  <2>2. Target = job[c] /\ job[c] \in Policies
    BY <1>a, <1>b, <2>1 DEF Control, StageOK
  <2>3. GetRunning' = job[c] /\ running' > 0
    BY <1>a, <2>1 DEF CommitVersion, GetRunning, TypeOK, StoreTypeOK
  <2>4. \A e \in Engines : Seen(e) = job[c] /\ Seen(e)' = job[c]
    BY <1>a, <2>1, <2>2, <2>3, SupervisorAssumption DEF AtomOK, Seen
  <2>5. Visible = {job[c]} /\ Visible' = {job[c]}
    BY <1>d, <2>1, <2>4 DEF Visible
  <2>6. Changing' = {}
    <3>1. \A d \in Clients : stage'[d] \notin {"apply", "record", "fail"}
      BY <1>a, <2>1, OneHolder DEF Locked, TypeOK
    <3> QED
      BY <3>1 DEF Changing
  <2> QED
    BY <1>c, <1>d, <2>2, <2>3, <2>5, <2>6 DEF Atomic!Commit
<1>6. ASSUME NEW c \in Clients, ApplyFail(c) PROVE Atomic!Abort
  <2>1. /\ stage[c] = "fail" /\ daemon = "serving" /\ daemon' = daemon
        /\ live' = live /\ running' = running /\ GetRunning' = GetRunning
        /\ stage' = [stage EXCEPT ![c] = "idle"]
    BY <1>6, <1>b DEF ApplyFail, AppendAudit, storeVars, GetRunning, Reply, Goto
  <2>2. Target = job[c] /\ job[c] \in Policies
    BY <1>a, <1>b, <2>1 DEF AtomOK
  <2>3. \A e \in Engines : Seen(e) = GetRunning /\ Seen(e)' = GetRunning
    BY <1>a, <2>1 DEF AtomOK, Follows, Seen
  <2>4. Visible = {GetRunning} /\ Visible' = {GetRunning}
    BY <1>d, <2>1, <2>3 DEF Visible
  <2>5. Changing' = {}
    <3>1. \A d \in Clients : stage'[d] \notin {"apply", "record", "fail"}
      BY <1>a, <2>1, OneHolder DEF Locked, TypeOK
    <3> QED
      BY <3>1 DEF Changing
  <2> QED
    BY <1>c, <1>d, <2>1, <2>2, <2>4, <2>5 DEF Atomic!Abort
<1>7. ASSUME Daemon \/ Shutdown PROVE Still
  <2>1. /\ Changing = {} /\ Changing' = {} /\ GetRunning' = GetRunning
    BY <1>7, <1>a
       DEF Daemon, Start, StartApply, StartResult, Shutdown, Die, InFlight,
           Control, LockOK, Changing, storeVars, GetRunning
  <2>2. /\ Target = None /\ Visible = {GetRunning}
    BY <2>1, VisibleAtRest
  <2>3. /\ Target' = None /\ Visible' = {GetRunning'}
    <3>1. daemon' = "serving" => \A e \in Engines : Seen(e)' = GetRunning'
      BY <1>a, <2>1 DEF AtomOK, Follows
    <3> QED
      BY <1>c, <1>d, <2>1, <3>1 DEF Visible
  <2> QED
    BY <2>1, <2>2, <2>3
<1>8. ASSUME TakeTrigger \/ UNCHANGED vars PROVE Still
  <2>1. /\ daemon' = daemon /\ live' = live /\ stage' = stage /\ job' = job
        /\ running' = running /\ versions' = versions
    BY <1>8 DEF TakeTrigger, vars, serverVars, storeVars, supVars
  <2>2. GetRunning' = GetRunning /\ Visible' = Visible /\ Changing' = Changing
    BY <2>1 DEF GetRunning, Visible, Seen, Changing
  <2> QED
    BY <2>1, <2>2 DEF Target
<1>9. ~ Crash /\ ~ Reboot
  BY DEF CleanFailures, Crash, Reboot
<1> QED
  BY <1>1, <1>2, <1>3, <1>4, <1>5, <1>6, <1>7, <1>8, <1>9
     DEF Next, Handler, Atomic!Next

(* Supervisor.Apply (engine.go) and apply() (policy.go) make a commit all  *)
(* or nothing, for every number of engines and clients, when an engine     *)
(* that refuses an artifact keeps what it had and the way back works: an   *)
(* engine enforces the running version or the one it is changed to, and a  *)
(* change ends with all of them on one of the two.                         *)
THEOREM AtomicCorrect ==
    ASSUME CleanFailures
    PROVE  Spec => AtomicSpec
<1>1. Init => AtomOK /\ Atomic!Init
  <2> SUFFICES ASSUME Init PROVE AtomOK /\ Atomic!Init
    OBVIOUS
  <2>1. Changing = {} /\ GetRunning = EmptyPolicy /\ Visible = {EmptyPolicy}
    BY DEF Init, Open, Changing, GetRunning, Visible
  <2>2. AtomOK
    BY <2>1 DEF Init, Open, SupInit, AtomOK, Follows, Seen
  <2> QED
    BY <2>1, <2>2 DEF Atomic!Init, Target
<1>2. AtomInv /\ SafeInv' /\ [Next]_vars => AtomOK'
  BY AtomNext
<1>3. AtomInv /\ AtomInv' /\ [Next]_vars => [Atomic!Next]_Atomic!vars
  BY AtomicStep
<1> QED
  BY <1>1, <1>2, <1>3, SafeInvCorrect, PTL
     DEF Spec, AtomInv, AtomicSpec, Atomic!Spec

=============================================================================
