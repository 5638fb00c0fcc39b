---------------------------- MODULE IntelProofs ----------------------------
(***************************************************************************)
(* Proofs about the threat-intel updater beside the commit path, for any   *)
(* number of engines, clients, callers, feeds and policies: every step is  *)
(* one of the policy server or leaves it alone, so its inductive invariant *)
(* IInv carries over; IntelInv is inductive on top of it, and says of the  *)
(* sets what RefreshPending needs as long as no change has failed.         *)
(***************************************************************************)
EXTENDS IntelUpdater, PolicyServerProofs

(* The updater is an observer of the policy server: it takes the token     *)
(* (TakeTrigger) and changes nothing else there.                           *)
LEMMA IntelStepIsStep == [IntelNext]_allVars => [Next]_vars
BY DEF IntelNext, ControlStep, Tick, Triggered, RefreshFeeds, Refresh,
       ReadPolicy, FetchAll, ApplySets, Next, allVars

(* What is proved of the policy server holds beside the updater.           *)
LEMMA ServerBeside == IntelSpec => []IInv
<1>1. IntelInit => Init
  BY DEF IntelInit
<1>2. IntelSpec => Spec
  BY <1>1, IntelStepIsStep, PTL DEF IntelSpec, Spec
<1> QED
  BY <1>2, InvCorrect, PTL

(* The feeds of the running policy are feeds; a fresh node enables none.   *)
LEMMA EnabledType ==
    ASSUME IInv
    PROVE  Enabled \in SUBSET Feeds /\ (running = 0 => Enabled = {})
BY GetRunningType, IntelAssumption
   DEF Enabled, GetRunning, IInv, Control, TypeOK

-----------------------------------------------------------------------------
(* The types of the updater. *)

(* The history of the faults is typed.                                     *)
LEMMA FaultType ==
    ASSUME IntelTypeOK,
           Sound \/ (\E f : Strikes(f))
    PROVE  struck' \in BOOLEAN /\ faults' \in Nat
<1>1. faults \in Nat /\ struck \in BOOLEAN
  BY DEF IntelTypeOK
<1>2. FaultStrikes => faults' \in Nat
  BY <1>1 DEF FaultStrikes
<1> QED
  BY <1>1, <1>2 DEF Sound, Strikes

(* The types hold at the start.                                            *)
LEMMA IntelTypeInit == IntelInit => IntelTypeOK
<1> SUFFICES ASSUME IntelInit PROVE IntelTypeOK
  OBVIOUS
<1>1. struck \in BOOLEAN /\ failed \in BOOLEAN
  BY DEF IntelInit
<1>2. faults \in Nat
  BY DEF IntelInit
<1>3. /\ sets \in SUBSET Feeds
      /\ step \in [Refreshers -> {"idle", "read", "fetch", "program"}]
      /\ wanted \in [Refreshers -> SUBSET Feeds]
      /\ fetched \in [Refreshers -> SUBSET Feeds]
      /\ result \in [Callers -> {"none", "ok", "error"}]
  BY DEF IntelInit, Resting
<1> QED
  BY <1>1, <1>2, <1>3 DEF IntelTypeOK

(* One refresh moves on and the others stay where they are.                *)
LEMMA RefreshType ==
    ASSUME IInv, IntelTypeOK, NEW r \in Refreshers,
           \/ Begin(r) \/ Refresh(r)
    PROVE  IntelTypeOK'
<1>f. Sound \/ (\E f : Strikes(f)) => struck' \in BOOLEAN /\ faults' \in Nat
  BY FaultType
<1> USE DEF IntelTypeOK
<1>a. Enabled \in SUBSET Feeds
  BY EnabledType
<1>b. r # Loop => r \in Callers
  BY DEF Refreshers
<1>c. ASSUME NEW res \in {"ok", "error"}, Return(r, res)
      PROVE  /\ step' \in [Refreshers -> {"idle", "read", "fetch", "program"}]
             /\ wanted' \in [Refreshers -> SUBSET Feeds]
             /\ fetched' \in [Refreshers -> SUBSET Feeds]
             /\ result' \in [Callers -> {"none", "ok", "error"}]
  BY <1>c, <1>b DEF Return
<1>1. CASE Begin(r)
  BY <1>1 DEF Begin
<1>2. CASE ReadPolicy(r)
  BY <1>2, <1>a, <1>c DEF ReadPolicy
<1>3. CASE FetchAll(r)
  <2>1. struck' \in BOOLEAN /\ faults' \in Nat
    BY <1>3, <1>f DEF FetchAll
  <2>2. /\ UNCHANGED <<sets, wanted, result, failed>>
        /\ step' = [step EXCEPT ![r] = "program"]
        /\ \E got \in SUBSET wanted[r] : fetched' = [fetched EXCEPT ![r] = got]
    BY <1>3 DEF FetchAll
  <2>3. wanted[r] \in SUBSET Feeds
    OBVIOUS
  <2> QED
    BY <2>1, <2>2, <2>3
<1>4. CASE ApplySets(r)
  <2>1. fetched[r] \in SUBSET Feeds
    OBVIOUS
  <2> QED
    <3>1. struck' \in BOOLEAN /\ faults' \in Nat
      BY <1>4, <1>f DEF ApplySets
    <3>2. /\ UNCHANGED failed /\ sets' \in {sets, fetched[r]}
          /\ Return(r, "ok") \/ Return(r, "error")
      BY <1>4 DEF ApplySets
    <3> QED
      BY <2>1, <1>c, <3>1, <3>2
<1> QED
  BY <1>1, <1>2, <1>3, <1>4 DEF Refresh

(* A step of the control plane empties the sets or leaves them.            *)
LEMMA ControlSets == ASSUME ControlStep PROVE sets' \in {{}, sets}
BY DEF ControlStep

(* The types of the updater are preserved.                                 *)
LEMMA IntelTypeNext ==
    ASSUME IInv, IntelTypeOK, [IntelNext]_allVars
    PROVE  IntelTypeOK'
<1>1. CASE ControlStep
  <2>1. faults \in Nat /\ (FaultStrikes => faults' \in Nat)
    BY DEF IntelTypeOK, FaultStrikes
  <2>2. faults' \in Nat
    BY <1>1, <2>1 DEF ControlStep
  <2>3. failed' \in BOOLEAN /\ struck' = struck
    BY <1>1 DEF ControlStep, IntelTypeOK
  <2> QED
    BY <1>1, <2>2, <2>3, ControlSets DEF ControlStep, IntelTypeOK
<1>2. CASE Tick \/ Triggered
  BY <1>2, RefreshType DEF Tick, Triggered, Refreshers
<1>3. CASE \E r \in Callers : RefreshFeeds(r)
  BY <1>3, RefreshType DEF RefreshFeeds, Refreshers
<1>4. CASE \E r \in Refreshers : Refresh(r)
  BY <1>4, RefreshType
<1>5. CASE UNCHANGED allVars
  BY <1>5 DEF allVars, intelVars, IntelTypeOK
<1> QED
  BY <1>1, <1>2, <1>3, <1>4, <1>5 DEF IntelNext

(* The updater's variables have their types, under every failure. *)
THEOREM IntelTypeCorrect == IntelSpec => []IntelTypeOK
<1>1. IntelInit => IntelTypeOK
  BY IntelTypeInit
<1>2. IInv /\ IntelTypeOK /\ [IntelNext]_allVars => IntelTypeOK'
  BY IntelTypeNext
<1> QED
  BY <1>1, <1>2, ServerBeside, PTL DEF IntelSpec

-----------------------------------------------------------------------------
(* While no change has failed, the table is the running policy's. *)

(* A step away from the supervisor, the store's versions and the stages    *)
(* between the first engine call and the record.                           *)
LEMMA SmoothIdleStep ==
    ASSUME SmoothOK, daemon' = daemon, live' = live,
           supMode' = supMode, versions' = versions, running' = running,
           \A d \in Clients :
              /\ stage'[d] \in {"apply", "record"} <=> stage[d] \in {"apply", "record"}
              /\ stage'[d] = "record" => stage[d] = "record" /\ job'[d] = job[d]
    PROVE  SmoothOK'
BY DEF SmoothOK, GetRunning

(* No step of the policy server breaks it, but for the failure of a change. *)
LEMMA SmoothNext ==
    ASSUME IInv, SmoothOK, [Next]_vars, ~ ChangeFails
    PROVE  SmoothOK'
<1>a. /\ Control /\ Control' /\ TypeOK /\ SupOK /\ Nft \in Engines
      /\ running \in Nat /\ StoreTypeOK
      /\ supMode \notin {"restore", "failed"}
  BY ControlNext, IntelAssumption
     DEF IInv, Control, TypeOK, StoreTypeOK, SmoothOK
<1>b. \A c, d \in Clients : stage[c] \in Locked /\ stage[d] \in Locked => c = d
  BY <1>a, OneHolder
<1>c. \A c \in Clients : stage[c] # "idle" => daemon = "serving"
  BY <1>a DEF Control, LockOK
<1>1. ASSUME NEW c \in Clients,
             \/ Call(c) \/ Cancel(c) \/ Lock(c)
             \/ SetCandidateStore(c) \/ SetCandidateAudit(c)
             \/ ValidateRead(c) \/ ValidateAnswer(c)
             \/ CommitRead(c) \/ RollbackRead(c)
             \/ ApplyAudit(c) \/ ApplyNotify(c)
      PROVE  SmoothOK'
  <2>1. /\ daemon' = daemon /\ live' = live /\ supMode' = supMode
        /\ versions' = versions /\ running' = running
    BY <1>1, <1>a
       DEF Call, Cancel, Lock, SetCandidateStore, SetCandidateAudit,
           ValidateRead, ValidateAnswer, CommitRead, RollbackRead, ApplyAudit,
           ApplyNotify, PutCandidate, AppendAudit, Reply, Proceed,
           RestUnchanged, storeVars, supVars
  <2>2. \A d \in Clients :
          /\ stage'[d] \in {"apply", "record"} <=> stage[d] \in {"apply", "record"}
          /\ stage'[d] = "record" => stage[d] = "record" /\ job'[d] = job[d]
    BY <1>1, <1>a
       DEF Call, Cancel, Lock, SetCandidateStore, SetCandidateAudit,
           ValidateRead, ValidateAnswer, CommitRead, RollbackRead, ApplyAudit,
           ApplyNotify, Reply, Proceed, Goto, TypeOK
  <2> QED
    BY <2>1, <2>2, SmoothIdleStep
<1>2. ASSUME NEW c \in Clients, ApplyCheck(c) PROVE SmoothOK'
  <2>1. /\ \A d \in Clients : stage[d] \notin {"apply", "record"}
        /\ \A d \in Clients : d # c => stage'[d] \notin {"apply", "record"}
        /\ stage'[c] \in {"apply", "fail"}
    BY <1>2, <1>a, <1>b DEF ApplyCheck, Proceed, Goto, TypeOK, Locked
  <2>2. /\ daemon' = daemon /\ live' = live
        /\ running' = running /\ GetRunning' = GetRunning
        /\ supMode' \in {supMode, "apply"}
    BY <1>2, <1>a
       DEF ApplyCheck, SupCall, Proceed, RestUnchanged, storeVars, GetRunning
  <2> QED
    BY <1>a, <2>1, <2>2 DEF SmoothOK
<1>3. ASSUME NEW c \in Clients, ApplyEngine(c) PROVE SmoothOK'
  <2>1. SupApplyOk(c \in cancelled) /\ stage' = stage
    BY <1>3, <1>a
       DEF ApplyEngine, SupApplyFail, SupRestoreOk, SupRestoreFail, ChangeFails
  <2>2. supMode' \in {"apply", "ok"} /\ stage[c] = "apply"
    BY <1>3, <2>1 DEF ApplyEngine, SupApplyOk
  <2>3. \A d \in Clients : stage[d] # "record"
    BY <1>b, <2>2 DEF Locked
  <2> QED
    BY <2>1, <2>2, <2>3 DEF SmoothOK
<1>4. ASSUME NEW c \in Clients, ApplyResult(c) PROVE SmoothOK'
  <2>1. /\ supMode = "ok" /\ supMode' = "idle" /\ live' = live
        /\ stage[c] = "apply" /\ stage'[c] = "record" /\ job' = job
       
    BY <1>4, <1>a DEF ApplyResult, SupReturn, Proceed, Goto, TypeOK
  <2>2. \A d \in Clients : d # c => stage'[d] # "record"
    BY <1>4, <1>a, <1>b, <2>1 DEF ApplyResult, Proceed, Goto, TypeOK, Locked
  <2>3. live[Nft] = job[c]
    BY <1>a, <2>1 DEF SupOK
  <2> QED
    BY <2>1, <2>2, <2>3 DEF SmoothOK
<1>5. ASSUME NEW c \in Clients, ApplyRecord(c) PROVE SmoothOK'
  <2>1. /\ CommitVersion(job[c]) /\ live' = live /\ supMode' = supMode
        /\ stage[c] = "record" /\ stage'[c] = "audit"
    BY <1>5, <1>a DEF ApplyRecord, supVars, Proceed, Goto, TypeOK, ChangeFails
  <2>2. GetRunning' = job[c]
    BY <1>a, <2>1 DEF CommitVersion, GetRunning, StoreTypeOK
  <2>3. \A d \in Clients : stage'[d] # "record"
    BY <1>5, <1>a, <1>b, <2>1 DEF ApplyRecord, Proceed, Goto, TypeOK, Locked
  <2>4. live[Nft] = job[c]
    BY <2>1 DEF SmoothOK
  <2> QED
    BY <1>a, <2>1, <2>2, <2>3, <2>4 DEF SmoothOK
<1>6. ASSUME NEW c \in Clients, ApplyFail(c) PROVE SmoothOK'
  <2>1. /\ daemon' = daemon /\ live' = live /\ supMode' = supMode
        /\ versions' = versions /\ running' = running
    BY <1>6, <1>a DEF ApplyFail, AppendAudit, Reply, storeVars
  <2>2. \A d \in Clients :
          /\ stage'[d] \in {"apply", "record"} <=> stage[d] \in {"apply", "record"}
          /\ stage'[d] = "record" => stage[d] = "record" /\ job'[d] = job[d]
    BY <1>6, <1>a DEF ApplyFail, Reply, Goto, TypeOK
  <2> QED
    BY <2>1, <2>2, SmoothIdleStep
<1>7. ASSUME StartResult PROVE SmoothOK'
  <2>1. /\ supMode = "ok" /\ supMode' = "idle" /\ live' = live
        /\ GetRunning' = GetRunning
    BY <1>7, <1>a DEF StartResult, SupReturn, storeVars, GetRunning
  <2>2. \A d \in Clients : stage'[d] = "idle"
    BY <1>7, <1>a DEF StartResult, Control, LockOK
  <2>3. live[Nft] = GetRunning
    BY <1>7, <1>a, <2>1 DEF StartResult, SupOK
  <2> QED
    BY <2>1, <2>2, <2>3 DEF SmoothOK
<1>8. ASSUME Start PROVE SmoothOK'
  <2>1. /\ supMode' \in {supMode, "apply"}
        /\ daemon' = "serving" => running' = 0
    BY <1>8, <1>a DEF Start, SupCall, supVars, storeVars
  <2>2. \A d \in Clients : stage'[d] = "idle"
    BY <1>8, <1>a DEF Start, Control, LockOK
  <2> QED
    BY <1>a, <2>1, <2>2 DEF SmoothOK
<1>9. ASSUME StartApply PROVE SmoothOK'
  <2>1. SupApplyOk(FALSE) /\ daemon' = "starting"
    BY <1>9, <1>a DEF StartApply, SupApplyFail, ChangeFails
  <2>2. \A d \in Clients : stage'[d] = "idle"
    BY <1>9, <1>a DEF StartApply, Control, LockOK
  <2>3. supMode' \in {"apply", "ok"}
    BY <2>1 DEF SupApplyOk
  <2> QED
    BY <2>1, <2>2, <2>3 DEF SmoothOK
<1>10. ASSUME NEW lost, Die(lost) PROVE SmoothOK'
  BY <1>10 DEF Die, SmoothOK
<1>11. ASSUME TakeTrigger \/ UNCHANGED vars PROVE SmoothOK'
  BY <1>11, <1>a, SmoothIdleStep
     DEF TakeTrigger, vars, serverVars, storeVars, supVars
<1> QED
  BY <1>1, <1>2, <1>3, <1>4, <1>5, <1>6, <1>7, <1>8, <1>9, <1>10, <1>11
     DEF Next, Handler, Daemon, Crash, Reboot, Shutdown

-----------------------------------------------------------------------------
(* The sets of the table. *)

(* What a settled state can come from: a settled one with the same table,  *)
(* the same running version and the same sets, a step that sends the       *)
(* token, or the start of a node that runs nothing.                        *)
LEMMA ControlSettles ==
    ASSUME IInv, SmoothOK, ControlStep, ~ ChangeFails, Settled'
    PROVE  \/ /\ Settled /\ trigger' = trigger /\ live' = live
              /\ versions' = versions /\ running' = running
              /\ sets' = sets \/ live[Nft] = Untouched
           \/ trigger'
           \/ running' = 0
<1> DEFINE Busy == {"apply", "record", "audit", "notify"}
           Still == /\ Settled /\ trigger' = trigger /\ live' = live
                    /\ versions' = versions /\ running' = running
<1>a. TypeOK /\ SupOK /\ LockOK /\ supMode \notin {"restore", "failed"}
  BY DEF IInv, Control, SmoothOK
<1>b. daemon' = "serving" /\ \A d \in Clients : stage'[d] \notin Busy
  BY DEF Settled
<1>1. ASSUME NEW c \in Clients,
             \/ Call(c) \/ Cancel(c) \/ Lock(c)
             \/ SetCandidateStore(c) \/ SetCandidateAudit(c)
             \/ ValidateRead(c) \/ ValidateAnswer(c)
             \/ CommitRead(c) \/ RollbackRead(c) \/ ApplyFail(c)
      PROVE  Still
  <2>1. /\ trigger' = trigger /\ live' = live /\ daemon' = daemon
        /\ versions' = versions /\ running' = running
    BY <1>1
       DEF Call, Cancel, Lock, SetCandidateStore, SetCandidateAudit,
           ValidateRead, ValidateAnswer, CommitRead, RollbackRead, ApplyFail,
           PutCandidate, AppendAudit, RestUnchanged, storeVars, supVars
  <2>2. \A d \in Clients : stage[d] \in Busy => stage'[d] \in Busy
    BY <1>1, <1>a
       DEF Call, Cancel, Lock, SetCandidateStore, SetCandidateAudit,
           ValidateRead, ValidateAnswer, CommitRead, RollbackRead, ApplyFail,
           Reply, Proceed, Goto, TypeOK
  <2> QED
    BY <1>b, <2>1, <2>2 DEF Settled
<1>2. ASSUME NEW c \in Clients, ApplyCheck(c) PROVE Still
  <2>1. Proceed(c, "fail") /\ live' = live /\ stage[c] = "check"
    BY <1>2, <1>a, <1>b DEF ApplyCheck, Proceed, Goto, TypeOK
  <2>2. \A d \in Clients : stage[d] \in Busy => stage'[d] \in Busy
    BY <1>a, <2>1 DEF Proceed, Goto, TypeOK
  <2> QED
    BY <1>2, <1>b, <2>1, <2>2 DEF ApplyCheck, RestUnchanged, storeVars, Settled
<1>3. ASSUME NEW c \in Clients,
             \/ ApplyEngine(c) \/ ApplyResult(c) \/ ApplyRecord(c) \/ ApplyAudit(c)
      PROVE  FALSE
  <2>1. CASE ApplyEngine(c)
    BY <2>1, <1>b DEF ApplyEngine
  <2>2. CASE ApplyResult(c)
    <3>1. Proceed(c, "record")
      BY <2>2, <1>a DEF ApplyResult
    <3> QED
      BY <3>1, <1>a, <1>b, <2>2 DEF ApplyResult, Proceed, Goto, TypeOK
  <2>3. CASE ApplyRecord(c)
    <3>1. stage[c] = "record" /\ stage'[c] \in {"audit", "fail"}
      BY <2>3, <1>a DEF ApplyRecord, Proceed, Goto, TypeOK
    <3> QED
      BY <3>1, <1>b DEF ChangeFails
  <2>4. CASE ApplyAudit(c)
    <3>1. stage[c] = "audit" /\ stage'[c] \in {"notify", "idle"}
      BY <2>4, <1>a DEF ApplyAudit, Proceed, Reply, Goto, TypeOK
    <3> QED
      BY <3>1, <1>b DEF ChangeFails
  <2> QED
    BY <1>3, <2>1, <2>2, <2>3, <2>4
<1>4. ASSUME NEW c \in Clients, ApplyNotify(c) PROVE trigger'
  BY <1>4 DEF ApplyNotify
<1>5. ASSUME Daemon PROVE trigger' \/ running' = 0
  BY <1>5, <1>a, <1>b DEF Daemon, Start, StartApply, StartResult, storeVars
<1>6. ASSUME Crash \/ Reboot \/ Shutdown PROVE FALSE
  BY <1>6, <1>b DEF Crash, Reboot, Shutdown, Die
<1>7. Still \/ trigger' \/ running' = 0
  <2>1. \/ \E c \in Clients : Call(c) \/ Cancel(c) \/ Handler(c)
        \/ Daemon \/ Crash \/ Reboot \/ Shutdown
    BY DEF ControlStep
  <2> QED
    BY <1>1, <1>2, <1>3, <1>4, <1>5, <1>6, <2>1 DEF Handler
<1>8. ASSUME Still PROVE sets' = sets \/ live[Nft] = Untouched
  <2>1. supMode = "idle"
    BY <1>8, <1>a DEF Settled, SupOK
  <2>2. ~ Loading
    BY <2>1 DEF Loading
  <2>3. ~ RulesetLoaded /\ ~ NftKilled
    BY <2>2 DEF RulesetLoaded, NftKilled
  <2> QED
    BY <1>8, <2>3 DEF ControlStep
<1> QED
  BY <1>7, <1>8

(* A table with sets that are not as they should be belongs to a policy    *)
(* that enables a feed: Refresh does not return early.                     *)
LEMMA SomethingToLoad ==
    ASSUME IInv, SmoothOK, RefreshOK, Settled, Declared, sets # Enabled
    PROVE  Enabled # {}
<1>a. running \in Nat
  BY DEF IInv, Control, TypeOK, StoreTypeOK
<1>1. running > 0
  BY <1>a, EnabledType DEF RefreshOK
<1>2. live[Nft] = GetRunning
  BY <1>1 DEF SmoothOK, Settled
<1> QED
  BY <1>2 DEF Declared, Enabled

(* A step of the policy server or the daemon.                              *)
LEMMA RefreshControl ==
    ASSUME IInv, IntelTypeOK, SmoothOK, RefreshOK, ControlStep, ~ ChangeFails
    PROVE  RefreshOK'
<1> DEFINE Rest == [r \in Refreshers |-> "idle"]
<1>a. /\ Loop \in Refreshers /\ struck' = struck /\ StoreTypeOK
      /\ Callers \subseteq Refreshers
      /\ step \in [Refreshers -> {"idle", "read", "fetch", "program"}]
  BY DEF Refreshers, ControlStep, IntelTypeOK, IInv, Control, TypeOK
<1>b. sets' \in {{}, sets}
  BY ControlSets
<1>c. \/ step' = Rest
      \/ UNCHANGED <<step, wanted, fetched, result>> /\ daemon' # "down"
  BY DEF ControlStep
<1>d. running' = 0 => running = 0
  <2>1. [Next]_vars
    BY IntelStepIsStep DEF IntelNext
  <2>2. running' = running \/ running' = Len(versions) + 1
    BY <2>1, StoreStep DEF storeVars, PutCandidate, CommitVersion, AppendAudit
  <2>3. Len(versions) \in Nat
    BY <1>a DEF StoreTypeOK
  <2> QED
    BY <2>2, <2>3
<1>1. running' = 0 =>
         sets' = {} /\ \A r \in Refreshers : step'[r] \notin {"fetch", "program"}
  BY <1>a, <1>b, <1>c, <1>d DEF RefreshOK
<1>2. ~ struck' =>
         \A r \in Refreshers : step'[r] = "program" => fetched'[r] = wanted'[r]
  BY <1>a, <1>c DEF RefreshOK
<1>3. ASSUME Settled'
      PROVE  \/ trigger' \/ step'[Loop] \in {"idle", "read"}
             \/ wanted'[Loop] = Enabled'
  <2>1. UNCHANGED <<step, wanted, fetched, result>>
    BY <1>3 DEF ControlStep, Settled
  <2>2. CASE Settled /\ trigger' = trigger /\ versions' = versions /\ running' = running
    <3>1. Enabled' = Enabled
      BY <2>2 DEF Enabled, GetRunning
    <3> QED
      BY <2>1, <2>2, <3>1 DEF RefreshOK
  <2>3. CASE running' = 0
    BY <1>1, <1>a, <2>1, <2>3 DEF IntelTypeOK
  <2> QED
    BY <1>3, <2>2, <2>3, ControlSettles
<1>4. ASSUME ~ struck', Settled', Declared', sets' # Enabled', ~ Overtaken'
      PROVE  trigger' \/ step'[Loop] # "idle"
  <2>1. UNCHANGED <<step, wanted, fetched, result>>
    BY <1>4 DEF ControlStep, Settled
  <2>2. CASE /\ Settled /\ trigger' = trigger /\ live' = live
             /\ versions' = versions /\ running' = running
             /\ sets' = sets \/ live[Nft] = Untouched
    <3>1. Enabled' = Enabled
      BY <2>2 DEF Enabled, GetRunning
    <3>2. Declared /\ sets' = sets
      BY <1>4, <2>2, SupervisorAssumption DEF Declared
    <3>3. ~ Overtaken
      BY <1>4, <2>1, <3>1 DEF Overtaken
    <3> QED
      BY <1>4, <1>a, <2>1, <2>2, <3>1, <3>2, <3>3 DEF RefreshOK
  <2>3. CASE running' = 0
    <3>1. Enabled' = {}
      BY <2>3, IntelAssumption DEF Enabled, GetRunning
    <3> QED
      BY <1>1, <1>4, <2>3, <3>1
  <2> QED
    BY <1>4, <2>2, <2>3, ControlSettles
<1> QED
  BY <1>1, <1>2, <1>3, <1>4 DEF RefreshOK

(* A refresh begins, for the loop or a caller.                             *)
LEMMA RefreshBegin ==
    ASSUME IInv, IntelTypeOK, RefreshOK, NEW r \in Refreshers, Begin(r),
           UNCHANGED vars \/ (r = Loop /\ TakeTrigger)
    PROVE  RefreshOK'
<1>1. /\ Enabled' = Enabled /\ running' = running /\ (Settled' <=> Settled)
      /\ (Declared' <=> Declared) /\ sets' = sets /\ struck' = struck
      /\ r # Loop => trigger' = trigger
  BY DEF Begin, TakeTrigger, vars, serverVars, supVars, storeVars, Enabled,
         GetRunning, Settled, Declared
<1>2. /\ step'[r] = "read" /\ fetched' = fetched
      /\ \A x \in Refreshers : x # r => step'[x] = step[x] /\ wanted'[x] = wanted[x]
  BY DEF Begin, IntelTypeOK
<1>3. r # Loop => r \in Callers /\ Overtaken'
  BY <1>2 DEF Refreshers, Overtaken
<1>4. Loop \in Refreshers
  BY DEF Refreshers
<1> QED
  BY <1>1, <1>2, <1>3, <1>4 DEF RefreshOK

(* A refresh goes on. *)
LEMMA RefreshWorks ==
    ASSUME IInv, IntelTypeOK, SmoothOK, RefreshOK, NEW r \in Refreshers, Refresh(r)
    PROVE  RefreshOK'
<1>1. /\ Enabled' = Enabled /\ running' = running /\ (Settled' <=> Settled)
      /\ (Declared' <=> Declared) /\ (trigger' <=> trigger)
  BY DEF Refresh, ReadPolicy, FetchAll, ApplySets, vars, serverVars, supVars,
         storeVars, Enabled, GetRunning, Settled, Declared
<1>2. \A x \in Refreshers : x # r =>
         step'[x] = step[x] /\ wanted'[x] = wanted[x] /\ fetched'[x] = fetched[x]
  BY DEF Refresh, ReadPolicy, FetchAll, ApplySets, Return, IntelTypeOK
<1>3. Loop \in Refreshers /\ (r # Loop => r \in Callers)
  BY DEF Refreshers
<1>4. ASSUME r \in Callers, step'[r] # "idle" PROVE Overtaken'
  BY <1>4 DEF Overtaken
<1>5. CASE ReadPolicy(r)
  <2>1. sets' = sets /\ struck' = struck /\ step[r] = "read"
    BY <1>5 DEF ReadPolicy
  <2>2. CASE Enabled = {}
    <3>1. step'[r] = "idle"
      BY <1>5, <2>2 DEF ReadPolicy, Return, IntelTypeOK
    <3>2. ~ (Settled /\ Declared /\ sets # Enabled)
      BY <2>2, SomethingToLoad
    <3> QED
      BY <1>1, <1>2, <1>3, <2>1, <3>1, <3>2 DEF RefreshOK
  <2>3. CASE Enabled # {}
    <3>1. step'[r] = "fetch" /\ wanted'[r] = Enabled
      BY <1>5, <2>3 DEF ReadPolicy, IntelTypeOK
    <3>2. running # 0
      BY <2>3, EnabledType
    <3> QED
      BY <1>1, <1>2, <1>3, <1>4, <2>1, <3>1, <3>2 DEF RefreshOK
  <2> QED BY <2>2, <2>3
<1>6. CASE FetchAll(r)
  <2>1. /\ sets' = sets /\ wanted' = wanted /\ step[r] = "fetch"
        /\ step'[r] = "program"
    BY <1>6 DEF FetchAll, IntelTypeOK
  <2>2. ~ struck' => ~ struck /\ fetched'[r] = wanted'[r]
    BY <1>6 DEF FetchAll, Strikes, Sound, IntelTypeOK
  <2> QED
    BY <1>1, <1>2, <1>3, <1>4, <2>1, <2>2 DEF RefreshOK
<1>7. CASE ApplySets(r)
  <2>1. /\ step[r] = "program" /\ step'[r] = "idle"
        /\ ~ struck' => ~ struck
    BY <1>7 DEF ApplySets, Strikes, Sound, Return, IntelTypeOK
  <2>2. running # 0
    BY <2>1 DEF RefreshOK
  <2>3. ASSUME ~ struck', Settled, Declared, sets' # Enabled, ~ Overtaken'
        PROVE  trigger
    <3>1. /\ sets' = fetched[r] /\ fetched[r] = wanted[r]
          /\ Return(r, "ok")
      BY <1>7, <2>1, <2>3 DEF ApplySets, Strikes, RefreshOK
    <3>2. CASE r = Loop
      BY <2>1, <2>3, <3>1, <3>2 DEF RefreshOK
    <3>3. CASE r # Loop
      <4>1. result'[r] = "ok" /\ wanted' = wanted
        BY <1>3, <3>1, <3>3 DEF Return, IntelTypeOK
      <4>2. wanted[r] = Enabled
        BY <1>1, <1>3, <2>3, <3>3, <4>1 DEF Overtaken
      <4> QED
        BY <2>3, <3>1, <4>2
    <3> QED BY <3>2, <3>3
  <2> QED
    BY <1>1, <1>2, <1>3, <2>1, <2>2, <2>3 DEF RefreshOK
<1> QED
  BY <1>5, <1>6, <1>7 DEF Refresh

(* Every step keeps the sets in the hands of somebody who will fill them.  *)
LEMMA RefreshNext ==
    ASSUME IInv, IntelTypeOK, SmoothOK, RefreshOK, [IntelNext]_allVars,
           ControlStep => ~ ChangeFails
    PROVE  RefreshOK'
<1>1. CASE ControlStep
  BY <1>1, RefreshControl
<1>2. CASE Tick \/ Triggered
  BY <1>2, RefreshBegin DEF Tick, Triggered, Refreshers
<1>3. CASE \E r \in Callers : RefreshFeeds(r)
  BY <1>3, RefreshBegin DEF RefreshFeeds, Refreshers
<1>4. CASE \E r \in Refreshers : Refresh(r)
  BY <1>4, RefreshWorks
<1>5. CASE UNCHANGED allVars
  BY <1>5 DEF allVars, vars, intelVars, storeVars, supVars, serverVars,
     RefreshOK, Settled, Declared, Enabled, Overtaken, GetRunning
<1> QED
  BY <1>1, <1>2, <1>3, <1>4, <1>5 DEF IntelNext

(* A failed change is remembered. *)
LEMMA FailureKept ==
    ASSUME IntelTypeOK, [IntelNext]_allVars, ~ failed'
    PROVE  ~ failed /\ (ControlStep => ~ ChangeFails)
<1>1. ControlStep => ~ failed /\ ~ ChangeFails
  <2> SUFFICES ASSUME ControlStep PROVE ~ failed /\ ~ ChangeFails
    OBVIOUS
  <2>1. CASE failed' = (failed \/ ChangeFails)
    BY <2>1
  <2>2. CASE (Crash \/ Reboot) /\ UNCHANGED failed
    BY <2>2 DEF Crash, Reboot, Die, ChangeFails
  <2> QED
    BY <2>1, <2>2 DEF ControlStep
<1> QED
  BY <1>1 DEF IntelNext, Tick, Triggered, Begin, RefreshFeeds, Refresh,
     ReadPolicy, FetchAll, ApplySets, allVars, intelVars

(* Away from the policy server no change fails. *)
LEMMA ChangesFailThere == UNCHANGED vars \/ TakeTrigger => ~ ChangeFails
BY DEF ChangeFails, TakeTrigger, vars, serverVars, supVars

(* The inductive invariant of the updater beside the commit path, under    *)
(* every fault: as long as no change that reached an engine has failed,    *)
(* table, token and refreshes are in the relation that RefreshPending      *)
(* rests on, through crashes, reboots, refused policies, cancelled calls,  *)
(* dead feeds and refused set scripts.                                     *)
THEOREM IntelInvCorrect == IntelSpec => []IntelInv
<1>1. IntelInit => SmoothOK /\ RefreshOK
  BY IntelAssumption
     DEF IntelInit, Init, Open, SupInit, Resting, SmoothOK, RefreshOK,
         Refreshers, Declared, Enabled, GetRunning, Settled, Overtaken
<1>2. ASSUME IInv, IntelInv, [IntelNext]_allVars, ~ failed'
      PROVE  SmoothOK' /\ RefreshOK'
  <2>1. ~ failed /\ (ControlStep => ~ ChangeFails)
    BY <1>2, FailureKept DEF IntelInv
  <2>2. ~ ChangeFails
    BY <1>2, <2>1, ChangesFailThere
       DEF IntelNext, Tick, Triggered, RefreshFeeds, Refresh, ReadPolicy,
           FetchAll, ApplySets, allVars
  <2>3. SmoothOK'
    BY <1>2, <2>1, <2>2, IntelStepIsStep, SmoothNext DEF IntelInv
  <2>4. RefreshOK'
    BY <1>2, <2>1, RefreshNext DEF IntelInv
  <2> QED BY <2>3, <2>4
<1>3. IInv /\ IntelTypeOK' /\ IntelInv /\ [IntelNext]_allVars => IntelInv'
  BY <1>2 DEF IntelInv
<1>4. IntelInit => IntelTypeOK
  BY IntelTypeInit
<1>5. IntelInit => IntelInv
  BY <1>1, <1>4 DEF IntelInv
<1> QED
  BY <1>3, <1>5, ServerBeside, IntelTypeCorrect, PTL DEF IntelSpec

(* The sets are repopulated after every commit (Updater in updater.go,     *)
(* OnCommit in policy.go): when no change has failed, the server is quiet  *)
(* and the sets are not what the running policy enables, a token or the    *)
(* updater is on its way with this policy.  No token is lost to the full   *)
(* channel, and no refresh that read the policy before the commit is the   *)
(* last word.                                                              *)
THEOREM RefreshCorrect == IntelSpec => []RefreshPending
<1>1. IInv /\ IntelInv => RefreshPending
  <2> SUFFICES ASSUME IInv, IntelInv, ~ struck, ~ failed, Quiet, Declared,
                      sets # Enabled, ~ Overtaken
               PROVE  \/ trigger
                      \/ step[Loop] = "read"
                      \/ step[Loop] \in {"fetch", "program"} /\ wanted[Loop] = Enabled
    BY DEF RefreshPending
  <2>1. Settled
    BY ServerAssumption DEF Quiet, Settled, IInv, Control, LockOK, Locked
  <2>2. step[Loop] \in {"idle", "read", "fetch", "program"}
    BY DEF IntelInv, IntelTypeOK, Refreshers
  <2> QED
    BY <2>1, <2>2 DEF IntelInv, RefreshOK
<1> QED
  BY <1>1, ServerBeside, IntelInvCorrect, PTL
=============================================================================
