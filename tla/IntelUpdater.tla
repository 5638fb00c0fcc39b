---------------------------- MODULE IntelUpdater ----------------------------
(***************************************************************************)
(* The threat-intel updater (internal/intel/updater.go) beside the commit  *)
(* path: who refreshes the blocklist sets of the nftables table, and when. *)
(*                                                                         *)
(* Every successful load of the ruleset replaces the table and so empties  *)
(* its sets.  One goroutine, Run, refreshes them on a tick or when it      *)
(* finds a token in the trigger channel; RefreshFeeds RPCs                 *)
(* (internal/apiserver/intel.go) run the same Refresh beside it.  Refresh  *)
(* takes no lock: it reads the running policy, fetches the feeds, then     *)
(* loads the sets, and commits, other refreshes or a crash may come        *)
(* between these steps.                                                    *)
(*                                                                         *)
(* The policy server is module PolicyServer; here its TakeTrigger is the   *)
(* updater's receive.  A set's content is the set of feeds whose entries   *)
(* are in it; the v4 and v6 sets are loaded by one atomic script and are   *)
(* one here.                                                               *)
(***************************************************************************)
EXTENDS PolicyServer

CONSTANTS
    Nft,            \* the engine that is nftables
    Feeds,          \* feeds a policy may enable
    FeedsOf,        \* EnabledFeeds of each acceptable policy
    Loop,           \* the goroutine of Run
    Callers,        \* clients of RefreshFeeds
    IntelFaults,    \* failures of a refresh a run includes: "feed", "program"
    MaxFaults       \* bound: failed refreshes, failed changes, crashes
                    \* and reboots, together

ASSUME IntelAssumption ==
    /\ Nft \in Engines
    /\ FeedsOf \in [Policies -> SUBSET Feeds]
    /\ FeedsOf[EmptyPolicy] = {}
    /\ Loop \notin Callers
    /\ IntelFaults \subseteq {"feed", "program"}
    /\ MaxFaults \in Nat

VARIABLES
    sets,           \* content of intel4 and intel6
    step,           \* where each Refresh is
    wanted,         \* feeds of the policy it read
    fetched,        \* feeds it got
    result,         \* what each caller got as its last answer
    struck,         \* history variable: a refresh has failed
    failed,         \* history variable: a change that had reached an engine
                    \* has failed, so that it sent no token
    faults          \* how many faults there were, for the bound

intelVars == <<sets, step, wanted, fetched, result, struck, failed, faults>>
allVars == <<vars, intelVars>>

Refreshers == Callers \cup {Loop}

IntelTypeOK ==
    /\ sets \in SUBSET Feeds
    /\ step \in [Refreshers -> {"idle", "read", "fetch", "program"}]
    /\ wanted \in [Refreshers -> SUBSET Feeds]
    /\ fetched \in [Refreshers -> SUBSET Feeds]
    /\ result \in [Callers -> {"none", "ok", "error"}]
    /\ struck \in BOOLEAN /\ failed \in BOOLEAN /\ faults \in Nat

Resting ==
    /\ step = [r \in Refreshers |-> "idle"]
    /\ wanted = [r \in Refreshers |-> {}]
    /\ fetched = [r \in Refreshers |-> {}]
    /\ result = [r \in Callers |-> "none"]

IntelInit ==
    /\ Init
    /\ sets = {}
    /\ Resting
    /\ struck = FALSE /\ failed = FALSE /\ faults = 0

(* The ruleset declares the sets only if the policy enables a feed. *)
Declared == live[Nft] \in Policies /\ FeedsOf[live[Nft]] # {}

(* The feeds the running policy asks to enforce. *)
Enabled == FeedsOf[GetRunning]

-----------------------------------------------------------------------------
(* Variant: the loop does not come back to its select. *)
ReturnDone(r, res) ==
    /\ step' = [step EXCEPT ![r] = "done"]
    /\ UNCHANGED <<wanted, fetched, result>>

(* Refresh returns: the loop logs the result and forgets it, a caller gets *)
(* it as an answer; what the caller's refresh had read is kept until its   *)
(* next call, for Overtaken.                                               *)
Return(r, res) ==
    /\ step' = [step EXCEPT ![r] = "idle"]
    /\ fetched' = [fetched EXCEPT ![r] = {}]
    /\ IF r = Loop
       THEN wanted' = [wanted EXCEPT ![r] = {}] /\ UNCHANGED result
       ELSE result' = [result EXCEPT ![r] = res] /\ UNCHANGED wanted

Begin(r) ==
    /\ daemon # "down"
    /\ step[r] = "idle"
    /\ step' = [step EXCEPT ![r] = "read"]
    /\ result' = [c \in Callers |-> IF c = r THEN "none" ELSE result[c]]
    /\ wanted' = [wanted EXCEPT ![r] = {}]
    /\ UNCHANGED <<sets, fetched, struck, failed, faults>>

(* Variant: without the ticker. *)
TickTriggered == trigger /\ Begin(Loop) /\ UNCHANGED vars

(* Run: the select takes whichever is ready, the ticker or the trigger. *)
Tick == Begin(Loop) /\ UNCHANGED vars

Triggered == Begin(Loop) /\ TakeTrigger

(* RefreshFeeds, an RPC: only while serving. *)
RefreshFeeds(r) ==
    /\ daemon = "serving"
    /\ Begin(r)
    /\ UNCHANGED vars

(* RunningPolicy and EnabledFeeds; nothing to do without feeds. *)
ReadPolicy(r) ==
    /\ step[r] = "read"
    /\ UNCHANGED <<vars, sets, struck, failed, faults>>
    /\ IF Enabled = {}
       THEN Return(r, "ok")
       ELSE /\ wanted' = [wanted EXCEPT ![r] = Enabled]
            /\ step' = [step EXCEPT ![r] = "fetch"]
            /\ UNCHANGED <<fetched, result>>

FaultStrikes == faults < MaxFaults /\ faults' = faults + 1

(* The refresh fails, or goes on without it. *)
Strikes(fault) == fault \in IntelFaults /\ struck' = TRUE /\ FaultStrikes

Sound == UNCHANGED <<struck, faults>>

(* Fetch every feed; the ones that fail are skipped. *)
FetchAll(r) ==
    /\ step[r] = "fetch"
    /\ \E got \in SUBSET wanted[r] :
          /\ fetched' = [fetched EXCEPT ![r] = got]
          /\ IF got = wanted[r] THEN Sound ELSE Strikes("feed")
    /\ step' = [step EXCEPT ![r] = "program"]
    /\ UNCHANGED <<vars, sets, wanted, result, failed>>

(* Variant: the token is drained after the work instead of before it. *)
ApplySetsDrains(r) ==
    /\ step[r] = "program"
    /\ trigger' = FALSE
    /\ UNCHANGED <<storeVars, supVars, daemon, mu, stage, request, job,
                   cancelled, answer, alarm>>
    /\ Declared
    /\ sets' = fetched[r]
    /\ Return(r, "ok")
    /\ Sound /\ UNCHANGED failed

(* applySets: one atomic script flushes and refills both sets of whatever  *)
(* table is loaded now; it fails if that table has no such sets.           *)
ApplySets(r) ==
    /\ step[r] = "program"
    /\ UNCHANGED <<vars, failed>>
    /\ \/ Declared /\ sets' = fetched[r] /\ Return(r, "ok") /\ Sound
       \/ /\ IF Declared THEN Strikes("program") ELSE Sound
          /\ UNCHANGED sets
          /\ Return(r, "error")

Refresh(r) == ReadPolicy(r) \/ FetchAll(r) \/ ApplySets(r)

-----------------------------------------------------------------------------
(* The supervisor is in a call of the nftables engine. *)
Loading == supPos = Nft /\ supMode \in {"apply", "restore"}

(* This step loads a ruleset: the call succeeds, on the way forward or     *)
(* back, or it reports a failure after the kernel took the ruleset.        *)
RulesetLoaded ==
    Loading /\ (SupApplyOk(FALSE) \/ SupRestoreOk(FALSE) \/ live'[Nft] # live[Nft])

(* This step ends the call by killing nft: the ruleset may be loaded or    *)
(* not, even where the two are the same policy's.                          *)
NftKilled ==
    Loading /\ (daemon' = "down" \/ (supPos' # supPos /\ cancelled # {}))

(* This step fails a change that has reached an engine: an engine refuses  *)
(* it, the version cannot be recorded, or it is live but cannot be         *)
(* audited.  The handler returns before OnCommit.                          *)
ChangeFails ==
    \/ supMode = "apply" /\ supMode' \in {"restore", "failed"}
    \/ \E c \in Clients :
          \/ stage[c] = "record" /\ stage'[c] = "fail"
          \/ stage[c] = "audit" /\ stage'[c] = "idle" /\ daemon' = "serving"

(* Left out, because they change nothing that the updater sees: Validate   *)
(* RPCs, and failed writes of other audit entries than a version's.        *)
Matters(c) ==
    /\ request'[c].op # "validate"
    /\ stage[c] \in {"putAudit", "fail"} => audit' # audit

(* Every step of the policy server and the daemon, with what it does to    *)
(* the sets and, when the process dies, to the refreshes under way.        *)
ControlStep ==
    /\ \/ /\ \/ \E c \in Clients : (Call(c) \/ Handler(c)) /\ Matters(c)
             \/ \E c \in Clients : Cancel(c)
             \/ Daemon
             \/ Shutdown /\ \A r \in Callers : step[r] = "idle"
          /\ failed' = (failed \/ ChangeFails)
          /\ IF ChangeFails THEN FaultStrikes ELSE UNCHANGED faults
       \/ (Crash \/ Reboot) /\ FaultStrikes /\ UNCHANGED failed
    /\ UNCHANGED struck
    /\ sets' \in IF RulesetLoaded \/ live'[Nft] = Untouched THEN {{}}
                 ELSE IF NftKilled THEN {{}, sets}
                 ELSE {sets}
    /\ IF daemon' = "down"
       THEN /\ step' = [r \in Refreshers |-> "idle"]
            /\ wanted' = [r \in Refreshers |-> {}]
            /\ fetched' = [r \in Refreshers |-> {}]
            /\ result' = [r \in Callers |-> "none"]
       ELSE UNCHANGED <<step, wanted, fetched, result>>

IntelNext ==
    \/ ControlStep
    \/ Tick \/ Triggered
    \/ \E r \in Callers : RefreshFeeds(r)
    \/ \E r \in Refreshers : Refresh(r)

IntelSpec == IntelInit /\ [][IntelNext]_allVars

(* The ticker fires for ever; goroutines that can run do. *)
IntelFairSpec ==
    /\ IntelSpec
    /\ \A c \in Clients : WF_allVars(Handler(c) /\ ControlStep)
    /\ WF_allVars(Daemon /\ ControlStep)
    /\ WF_allVars(Tick \/ Triggered)
    /\ \A r \in Refreshers : WF_allVars(Refresh(r))

-----------------------------------------------------------------------------
(* Properties *)

(* A RefreshFeeds call is under way or has loaded the feeds of an older    *)
(* policy: it may have overwritten what the updater loaded.                *)
Overtaken ==
    \E r \in Callers :
        step[r] # "idle" \/ (result[r] = "ok" /\ wanted[r] # Enabled)

(* The sets are repopulated after every commit (Updater in updater.go,     *)
(* OnCommit in policy.go): when the server is quiet and the sets differ    *)
(* from what the running policy enables, a token is in the channel or the  *)
(* updater is at work and has read this policy, or is still to read it.  A *)
(* token dropped because the channel was full, or a refresh that read the  *)
(* policy before the commit, must not be the last word.  A refresh that    *)
(* fails is one, until the tick, and a change that fails sends no token:   *)
(* both are left to SetsRecover.                                           *)
RefreshPending ==
    ~ struck /\ ~ failed /\ Quiet /\ Declared /\ sets # Enabled /\ ~ Overtaken =>
        \/ trigger
        \/ step[Loop] = "read"
        \/ step[Loop] \in {"fetch", "program"} /\ wanted[Loop] = Enabled

(* Whatever emptied the sets or filled them from an old policy (a commit   *)
(* that failed and put the old table back, one that is live but could not  *)
(* be audited and sent no token, a refresh that failed, a feed that was    *)
(* dead, an RPC refresh that overtook a commit), the tick repairs it in    *)
(* the end, unless the table itself is not the running policy's: nft       *)
(* could not put it back, or the store could not record the new one.       *)
SetsRecover ==
    []<>(daemon = "down" \/ live[Nft] # GetRunning \/ sets = Enabled)

-----------------------------------------------------------------------------
(* The inductive invariant of the updater beside the commit path, beyond   *)
(* the one of the policy server (IInv).                                    *)

(* While no change has failed nothing was ever put back, and the table is  *)
(* the running policy's except from the first engine call of a change to   *)
(* its record.                                                             *)
SmoothOK ==
    /\ supMode \notin {"restore", "failed"}
    /\ \A c \in Clients : stage[c] = "record" => live[Nft] = job[c]
    /\ /\ daemon = "serving" /\ running > 0
       /\ \A c \in Clients : stage[c] \notin {"apply", "record"}
       => live[Nft] = GetRunning

(* The daemon serves, and no handler is on its way from its first engine   *)
(* call to OnCommit.                                                       *)
Settled ==
    /\ daemon = "serving"
    /\ \A c \in Clients : stage[c] \notin {"apply", "record", "audit", "notify"}

(* A refresh without a fault got what it wanted.  In between changes the   *)
(* loop has read the policy that is running, or a token waits for it; and  *)
(* whoever left the sets as they should not be, the loop is not done.      *)
RefreshOK ==
    /\ running = 0 =>
          sets = {} /\ \A r \in Refreshers : step[r] \notin {"fetch", "program"}
    /\ ~ struck => \A r \in Refreshers : step[r] = "program" => fetched[r] = wanted[r]
    /\ Settled => \/ trigger \/ step[Loop] \in {"idle", "read"}
                  \/ wanted[Loop] = Enabled
    /\ ~ struck /\ Settled /\ Declared /\ sets # Enabled /\ ~ Overtaken =>
          trigger \/ step[Loop] # "idle"

(* From a failed change on the sets are left to the tick. *)
IntelInv == IntelTypeOK /\ (~ failed => SmoothOK /\ RefreshOK)
=============================================================================
