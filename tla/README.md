# Verification of controld

TLA+ models of the OpenNGFW control daemon, with TLC model checking and TLAPS
proofs. `controld` keeps a versioned firewall policy, compiles it, renders one
artifact per data-plane engine (nftables, strongSwan, Suricata, Vector, FRR,
WireGuard, routes, netdev) and switches the engines to it as a transaction.
What is hard about it is exactly this: one change, many engines, each of which
can fail half way, concurrent clients, a daemon that may die at any point, and
background jobs that look at the same state.

Sources are named relative to `src/`. A version, an engine, a policy or a host
is a model value; texts and byte formats appear only as what they do.

## 1. The system

| part | source | state | operations | talks to |
|---|---|---|---|---|
| configuration store | `internal/store/store.go` | candidate, versions, running pointer, audit log (bbolt) | one transaction each: SetCandidate, CommitVersion, AppendAudit; reads | called by the policy service, the updater and start-up |
| policy service | `internal/apiserver/policy.go` | the mutex `s.mu` | SetCandidate, Validate, Commit, Rollback, reads | store, compiler, supervisor, OnCommit callback |
| engine supervisor | `internal/engines/engine.go` | the list of engines | Validate; Apply with restore in reverse order | every engine |
| engines | `internal/engines/*.go` | files, kernel tables, services, child processes | Name, Validate, Apply | external commands, children |
| child processes | `internal/engines/process.go` | current command, generation, mutex | restart, stop, one waiter per child | Suricata and Vector engines, shutdown |
| compiler, validators, renderers | `internal/compiler`, `internal/policy`, `internal/renderers` | none | pure functions policy -> IR -> artifact | called by Validate, Commit, Rollback and start-up |
| threat-intel updater | `internal/intel` | statistics; the sets in the kernel | Run (ticker and trigger channel), Refresh | store (reads), nft; triggered by OnCommit |
| daemon | `cmd/controld/main.go` | - | start-up re-apply, serving, shutdown | all of the above |
| authorization | `internal/authz` | token table, read once at start | per-method role check | before every RPC |
| REST gateway | `cmd/controld/main.go`, `api/gen` | - | one route per method | a client of the gRPC endpoint |
| read-only services | `internal/apiserver/{alerts,flows,system}.go`, `internal/telemetry` | - | reads of the tail of eve.json | Suricata's log file |
| command line, web UI | `internal/cli`, `cmd/ngfwctl`, `internal/webui` | - | one RPC per command | the API |

Interactions that matter:

* SetCandidate, Commit and Rollback hold `s.mu` from their first read of the
  store to their last write; Validate reads the candidate without it. Commit
  therefore validates again what it read.
* Supervisor.Apply runs inside Commit with the RPC's context, so a client that
  goes away makes command engines fail, the restore included.
* Version and audit entry are two bbolt transactions; OnCommit comes last.
* Loading the ruleset replaces the whole nftables table, and so empties the
  blocklist sets which the updater filled. OnCommit puts a token into a channel
  of capacity one. Refresh takes no lock.
* At start-up the running version, if there is one, is applied with no
  previous policy to restore.
* The engines routes, wireguard and netdev, in this order, change the same
  kernel links: a route needs its link, and goes with it, and so does an MTU.
* Renderers and the parsers of the engines were written apart; what two engines
  must agree on (the queue, the capture size, the declared sets) goes through
  both.
* procManager.restart gives up its lock while it sleeps to see whether the new
  child survives; waiters of earlier children and shutdown run meanwhile.

What makes each part correct:

* store and policy service - versions are numbered without gaps and never
  change; a version is what was staged or an older version; what was answered
  with a version number is recorded and audited; nothing invalid is recorded
  or applied; every RPC is answered;
* supervisor - a failed change leaves the previous policy, or names what it
  left otherwise;
* engines - after a successful Apply the kernel or the service is what the
  artifact says, whatever an earlier Apply left half done; what is not ours is
  left alone;
* child processes - at most one child, none after shutdown, an exit nobody
  ordered is reported and one that was ordered is not;
* updater - no commit's refresh is lost; the sets end up at what the running
  policy enables;
* engines together - after a commit the kernel is what the running policy says,
  and a refused commit changes nothing; a restart succeeds;
* compiler and renderers - the verdict for a packet is what the policy says it
  is, a commit cuts no established connection, every engine reads back what the
  policy asked of it, and the engines agree with each other;
* API - nothing changes but for who may change it, whichever way in is used;
  the audit log names who did; listings leave no event out.

The hazards behind these, each at its line, are listed in `PROJECT.json`.

## 2. Modules

```
PolicyDomain  <- Store  ----+
              <- Supervisor +- PolicyServer <- PolicyServerInv <- PolicyServerProofs
                                 |  refines VersionHistory, AtomicCommit              |
                                 +- IntelUpdater <-------------------- IntelProofs ---+
PolicyModel <- PolicySections <- CompiledSections <- Ruleset <- Artifacts <- Datapath <- Pipeline
                                                                                          ^- DatapathProofs
RoutesEngine <- NodeEngines <- NodeProofs     FrrEngine <- ServiceEngines <- ServiceProofs
ProcManager <- ProcEngines <- ProcProofs      WireguardEngine <- WireguardProofs
EveReader <- ApiServer <- ApiProofs
```

`MCx` gives the constants of module `x` small values.

| module | models | state and actions against the code |
|---|---|---|
| PolicyDomain | what Validate and RenderAll accept | sets of invalid and unrenderable policies |
| Store | `store.go` | `versions`, `running`, `candidate`, `audit`; one operator per bbolt transaction. `running` is `Len(versions)` or 0, as the bucket sequence makes it |
| Supervisor | `engine.go` | `live[e]`: the policy whose artifact engine e took last, `Untouched` or `Torn`; one step per engine Apply on the way forward and back. `live[e] = p` means "Apply of p succeeded"; what that is worth inside an engine is the subject of the engine's own module |
| PolicyServer | `policy.go`, start-up and shutdown of `main.go` | `stage[c]` is the line a handler has reached; one action per transaction, lock operation or engine call; `mu`, the trigger token, client cancellation, crash, reboot |
| PolicyServerInv | - | the inductive invariants of PolicyServer, in named parts |
| VersionHistory | the promise of the store | abstract: stage, record what is staged, record an old version |
| AtomicCommit | the promise of the supervisor | abstract: a change of all engines at once or of none |
| IntelUpdater | `updater.go`, `apiserver/intel.go` | composed with PolicyServer: `step[r]` for the loop and for RefreshFeeds callers, `sets`, what each refresh read and got |
| ProcManager | `process.go` | `cmd`, `gen`, one waiter per child, an engine's restart and main's stop as two goroutines, processes with the kernel's states |
| ProcEngines | `suricata.go`, `vector.go` | Apply above ProcManager: mode of the artifact, configuration file, arguments of the child |
| RoutesEngine | `routes.go`, `renderers/iproute` | kernel table keyed by destination and metric, links, state file; the lines of the `ip -batch` still to execute are `adds` and `dels`, positions in the new and in the recorded artifact, and the lowest position is next; a batch may end after any line |
| NodeEngines | routes, `wireguard.go` as one step, `netdev.go` setting by setting, under `Supervisor.Apply`, with the start-up of `main.go` | `mode` and `pos` are the supervisor's loops, `at` the setting netdev has reached; `kernel`, `links`, `mtu` what the node holds, `Missing` names of links it does not have; crash, reboot, flapping links |
| FrrEngine | `frr.go` | daemons file, frr.conf, marker, what the service runs; one step per file or command |
| ServiceEngines | FRR and `strongswan.go` under the supervisor | drop-in, what charon loaded; services that restart by themselves |
| WireguardEngine | `wireguard.go` | links with addresses and peers, state file, one step per command |
| PolicyModel | zones, addresses, services, rules, NAT of `validate.go`, and what `policy.proto` says they mean | each check a conjunct; `Means`, `DestinationMeans`, `SourceMeans` are the reference reading and share nothing with the compiler |
| PolicySections | the other checks of `policy/validate*.go`, the feed registry | each check a conjunct; well-formed strings are a constant |
| CompiledSections | `compile_routing.go`, `compile_network.go`, IDS and telemetry of `compile.go` | the IR of those sections; uint16 conversions are `%` |
| Ruleset | `compile.go`, `renderers/nftables/render.go` | names resolved; lines of the forward and NAT chains with what they match and their verdicts |
| Artifacts | the other renderers, and the parsers of the engines | artifacts as sequences of lines of words, YAML as records; `Parse*` read them as the engines do, `Blocks` is the loop over the lines that all of them have: a line opens a block or goes to the last one |
| Datapath | the nftables table in use | `version` and `artifacts`, what its commit rendered (`Committed`); commits, blocklist loads, first packets, packets of tracked connections, strays, expiry. nf_tables, conntrack and Suricata are external |
| Pipeline | properties of all artifacts of a commit | what the messages of the policy ask of each engine, and what engines must agree on |
| EveReader | `telemetry/eve.go` | stat, seek and scan as steps beside Suricata's appends, renames and truncations; a line is its type, where it begins, its length, and whether it is whole; `Hits` is the scan's loop, `Scan` reverses what it found and cuts it to the limit |
| ApiServer | `authz.go`, the generated gRPC and gateway bindings, `internal/cli`, registration in `main.go` | token table, users file, daemon up or down; a request by gRPC, REST or ngfwctl to the handler it reaches |

Definitions whose comment begins with *Variant* are defective forms of the
definition that follows. They belong to no specification. Replacing a
definition by its variant must make one property fail, and so shows that the
property depends on that code; `PROJECT.json` pairs them.

## 3. What is checked

All runs are exhaustive for their constants. Deadlock is checked except in
ProcEngines, where the daemon exits and every process may have ended.

| run | what it shows | instance |
|---|---|---|
| PolicyServer_faults | types, the inductive invariant `CoverInv`, `NoSilentDivergence`: an engine that differs from the running version was named in an error that somebody got; the history implements VersionHistory | 1 client, 2 policies, 3 engines (atomic; child process; service), 2 versions, every failure except a failed audit write |
| PolicyServer_clients | `OnlyAccepted`, and that the server implements AtomicCommit when a failed Apply leaves its engine as it was | 2 clients, 4 policies of which one is invalid and one does not render, 3 engines, engine refusals |
| PolicyServer_live | `AckedIsAudited`; under fairness every RPC is answered (`Answered`), and a daemon that went down because its start-up failed or it crashed serves again unless it is interrupted for ever (`ServesAgain`) | 2 clients, engines that fail in commits and at start-up, crashes, cancellation, failed audit writes |
| IntelUpdater | the inductive invariant `IntelInv`; `RefreshPending`: no notification is lost and no stale refresh of the loop is the last word; `SetsRecover`: the tick repairs the sets, also after a commit that failed and put the old table back or that is live and not audited | 1 client, 1 RefreshFeeds caller, 3 policies with 0, 1, 2 feeds, 2 engines, 2 versions, one fault: an engine refuses, an audit write fails, a crash, a fetch or a load of the sets fails |
| NodeEngines | the inductive invariant `NodeInv`; `AskedInForce`: a commit or start that succeeded left every route, tunnel and MTU in the kernel, under every fault; `NodeFollowsRunning`: between commits the table and the tunnels are exactly the running policy's, refused commits included; `DeletesWork`: a batch finds the routes it deletes but in three cases; `RestartRecovers`: a start fails by itself in four cases only | 2 destinations, a NIC and a tunnel, 2 metrics, 12 policies, among them ones that name a NIC which is not there, a route twice, and the MTU of a tunnel not asked for |
| ServiceEngines | the inductive invariant `ServiceInv`; `RoutingInForce`, `LeftAlone`, `PeeringTornDown` for FRR; `TunnelsInForce`, `NoTunnelsNoTrace` for strongSwan | 5 policies, failing writes (a part of the daemons file is left) and reloads, kills, services that restart |
| WireguardEngine | the inductive invariant `WireguardInv`; `KernelMatches`: what was asked for is there, and beside it only links that no state file names | 2 names of which one is a foreign link, 2 addresses, 2 peers |
| ProcEngines | the inductive invariant `EnginesInv`; `AppliedRuns`: an Apply that succeeded runs its artifact and nothing else; no orphan after a graceful end, no false alarm, never two unsignalled children, deaths are noticed | 3 processes, 3 modes, children that hang, exit or do not start, shutdown through either path |
| Datapath | `FollowsPolicy`, `TranslatedAsAsked`, `Stateful`; `SectionsAsAsked`, `EnginesAgree` | 80 policies: each of 6 rules, every ordered pair of them, NAT with blocklists, inspection modes, each section, and refused ones; 11 flows, 6 hosts of both families, 1 tracked connection |
| ApiServer | `ChangesAuthorized`: no change without an operator of the table the daemon started with, by every way in; `NewestListed`: a listing is the newest events without a gap, whatever happens to the file meanwhile | 3 tokens of which one is too short, 6 users files or none, 12 methods; 4 lines of 2 sizes |

Two runs are counterexamples, where a comment says more than the code does:

* **Datapath_prevent** - `render.go:54-55`: in prevent mode every forwarded
  packet visits Suricata "before policy evaluation". The `queue` statement ends
  the chain, and Suricata in `nfq: mode: accept` accepts for good, so there is
  no evaluation after the visit, nor when the queue is bypassed.
* **WireguardEngine_peers** - `wireguard.go:116`: "Apply reconciles kernel
  interfaces with the artifact". `wg set` adds peers and removes none.

### Bounds, and why they are enough

* Two versions are the least in which a commit has a previous version to
  restore, a rollback has something to go back to, and a stale `previous` can
  occur. `MaxAudit` lets both be committed. Reaching a bound only disables new
  calls.
* Three engines give every position of a failing engine: first, middle, last;
  engines before it to restore and engines after it untouched. One each of the
  kinds that lose their content differently (with the process, with the
  machine, not at all).
* Two clients are all the lock tells apart: its holder and another. The faults
  run has one client and the richer failures; the clients run the reverse.
* The intel instance has two engines: nftables, whose loads touch the sets, and
  one behind it that may refuse, so that the table is put back. `MaxFaults` is
  one: one refresh, one change or the daemon fails in a run, at any point of it;
  the repair by the tick starts from what that fault left. Validate RPCs, and
  failed audit writes of other entries than a version's, are left out there
  (`Matters`): they change nothing that the updater sees.
* Three processes are a first child, a replacement that its waiter can mistake
  for it, and one that is started while both still run.
* The kernel tables of the engines have two keys, so that "this one, not the
  other" can go wrong, and artifacts of up to two lines. One NIC and one tunnel
  are a link that stays and one that an engine creates and deletes.
* The policies of NodeEngines are those in which engines meet: a route over a
  tunnel of the same policy, over one that the policy does not ask for, an MTU
  on either link, of a tunnel that only an earlier policy asks for, and on a
  link that is not there, at the first setting or after one that succeeded; and
  artifacts that name a destination twice, with one metric and with two.
* The rules of the packet model differ in everything a line can match on:
  zones (one, several, any, empty), addresses of one family and of both, single
  ports, ranges, protocol without ports, ICMP, disabled; pairs exercise first
  match. Each packet property is about one packet or one connection, so one
  tracked connection is enough. Ports go up to 3 and `MaxPort` stands for 65535,
  so that a queue of 4 is refused; MTUs are those of the code.
* Sections are in policies of their own, since the compiler treats them apart;
  those that share something are together: inspection with MTUs and offloads,
  BGP with OSPF, two tunnels, two WireGuard interfaces of which one has peers.
  `SectionsAsAsked` and `EnginesAgree` look at one commit at a time.
* ApiServer is bounded by `OneHalf` in its configuration: the file varies for
  one caller of a daemon without users, the users while nothing is written. The
  two halves share no variable: who may ask does not depend on the file, and
  what is read does not depend on who asks. In the file's half a tail of four
  units and lines of one and three make the read start at a line, in a line, and
  at the beginning, and a line may be longer than the scanner's two.

### Fairness

* `WF(Handler(c))`, `SF(Lock(c))`: Go runs ready goroutines, and `sync.Mutex`
  hands over to a waiter that starved. No fairness of clients, of failures or of
  their absence.
* `WF(Daemon)`: the start-up sequence runs on, and systemd starts the unit again
  after a failed start-up or a crash (`deploy/systemd/controld.service`,
  `Restart=on-failure`; `RestartSec=2` keeps below systemd's default limit of
  five starts in ten seconds). Who stopped it with SIGTERM is taken to start it
  again. Engines may refuse the running policy at every start, and the daemon
  may crash or be stopped again and again: `ServesAgain` says that it serves
  again and again unless one of these goes on for ever (`Interrupted`).
* The updater's loop: the ticker fires for ever. `SetsRecover` has no fairness
  of commits.
* ProcEngines: restart, stop and waiters run and get the lock, and a child that
  was signalled ends. No fairness of calls.

### Conditions in properties

Some properties hold under a condition that is itself a fact about the code:
`NodeFollowsRunning` needs `clean` (no fault, no metrics and no destination
twice, no route lost with its link, no batch that failed half way), `DeletesWork`
names three cases, since the routes engine last went through (a fault cut it
short; routes were lost, with a link or in a reboot; the recorded artifact has a
key twice), `RestartRecovers` names its four cases (a route over
a tunnel of the running policy; an Apply of the routes engine that was cut short,
or routes lost while the state file named others, and no complete Apply since; a
recorded artifact with a key twice; the MTU of a tunnel that the running policy
does not ask for),
`AskedInForce` excepts a policy that routes over a tunnel it does not ask for,
`RoutingInForce` is about daemons that have a line in the daemons file,
`PeeringTornDown` needs `~ unmarked` (no Apply that reached the service and not
the marker), `KernelMatches` excepts `lost` links, `NoOrphan` is about the
graceful path, `RefreshPending` excepts refreshes by RPC that overtake a commit, and ends
with the first refresh or change that fails, from where `SetsRecover` goes on,
`NewestListed` excepts a file that is truncated under the reader, packet
properties except prevent mode, where the counterexample applies, and rules over
zones without interfaces (section 5). The conditions are history variables or
state predicates of the modules; section 5 names what happens without them.

## 4. What is proved

TLAPS, for all values of the constants that satisfy the named assumptions of the
modules that declare them (`SupervisorAssumption`, `ServerAssumption`,
`RoutesAssumption`, ...): any number of clients, engines, processes, policies,
versions, destinations, links, tokens, and any set of failures. The assumptions
say what is of which type, that model values differ from each other, and:
destinations' metrics are finitely many (uint32), a WireGuard artifact names no
interface twice (`validate_routing.go:91` refuses that), the empty routing artifact is the
only one without daemons, the policy of a fresh node is empty and enables no
feeds. For the forwarding path (`ModelAssumption`, `DatapathAssumption`): hosts
and interfaces are finitely many, a policy is of the types of its messages
(`IsFirewall`, `IsSections`: repeated fields are sequences or finite sets, enums
have one of their values), and an offered packet has two addresses of one family;
which policies are valid, compile or render is not assumed but computed. For the
reader of events (`EveAssumption`): lines have a length, the scanner's buffer is
shorter than the tail.

| theorem | module | statement |
|---|---|---|
| TypeCorrect | PolicyServerProofs | `Spec => []TypeOK` |
| ControlCorrect | PolicyServerProofs | the lock is held exactly by the handler that is past `Lock`, and stages fit their requests |
| InvCorrect | PolicyServerProofs | `Spec => []IInv`: the supervisor works for the lock's holder or for start-up, and what a handler read is still in the store when it records it |
| HistoryCorrect | PolicyServerProofs | `Spec => HistorySpec`: refinement of VersionHistory |
| AckCorrect | PolicyServerProofs | `Spec => []AckedIsAudited` |
| AcceptCorrect | PolicyServerProofs | `Spec => []OnlyAccepted` |
| CoverCorrect, DivergenceCorrect | PolicyServerProofs | `OneWitness` implies `Spec => []CoverInv` and `Spec => []NoSilentDivergence` |
| AtomicCorrect | PolicyServerProofs | `CleanFailures` implies `Spec => AtomicSpec`: refinement of AtomicCommit |
| IntelTypeCorrect | IntelProofs | `IntelSpec => []IntelTypeOK` |
| IntelInvCorrect, RefreshCorrect | IntelProofs | `IntelSpec => []IntelInv`, `IntelSpec => []RefreshPending`, under every fault |
| EnginesInvCorrect, EngineTypeCorrect | ProcProofs | `EngineSpec => []EnginesInv`, and its types |
| OneUnkilledCorrect, NoFalseAlarmCorrect, NoOrphanCorrect, AppliedRunsCorrect | ProcProofs | the four safety properties of the supervised child |
| ServiceInvCorrect, ServiceTypeCorrect | ServiceProofs | `Spec => []ServiceInv`, and its types |
| RoutingCorrect, LeftAloneCorrect, TornDownCorrect | ServiceProofs | the three properties of the FRR engine |
| TunnelsCorrect, NoTraceCorrect | ServiceProofs | the two of the strongSwan engine |
| WireguardInvCorrect, KernelCorrect | WireguardProofs | `Spec => []WireguardInv`, `Spec => []KernelMatches` |
| NodeInvCorrect | NodeProofs | `Spec => []NodeInv` |
| ForceCorrect, FollowsCorrect, DeletesCorrect, RestartCorrect | NodeProofs | `AskedInForce`, `NodeFollowsRunning`, `DeletesWork`, `RestartRecovers` |
| AuthorizedCorrect | ApiProofs | `Spec => ChangesAuthorized` |
| NewestAlwaysListed, ApiTyped | ApiProofs | `Spec => []NewestListed`, and the types |
| ForceInvariant, Typed | DatapathProofs | `Spec => []ForceInv`, and its types |
| StatefulAlways | DatapathProofs | `Spec => []Stateful` |
| FollowsPolicyAlways, TranslatedAlways | DatapathProofs | `Spec => []FollowsPolicy`, `Spec => []TranslatedAsAsked`: filter and NAT |
| EnginesAlwaysAgree, SectionsAlwaysAsked | DatapathProofs | `Spec => []EnginesAgree`, `Spec => []SectionsAsAsked`: the artifacts of the other engines |

### The commit path

`TypeOK` is not inductive: that a handler at `record` has a policy to record
needs to know how it got there. `Control` adds what the stages mean (`StageOK`)
and that the lock's holder is the only handler at a locked stage (`LockOK`); it
is inductive. `IInv` adds `SupOK` (the supervisor's arguments are the job of the
holder, or the running policy at start-up) and `ReadOK` (the candidate or
version which the holder read has not changed), which need mutual exclusion.
`HistoryCorrect` then maps each step to one of VersionHistory or a stutter: the
only one that records is `ApplyRecord`, and `ReadOK` says it records what is
staged. `SafeInv` adds that everything on its way to an engine is acceptable.

For divergence, `CoverOK` says at every stage of an apply which engines may
differ and are already named, which are in front of or behind the position of
the restore loop, and what start-up will put right. `DivergenceCorrect` assumes
`OneWitness`: not both of "the caller may be gone" and "the audit write may
fail". This is needed, not convenient: see the fourth item of section 5.

For atomicity, `AtomOK` says which engines have the new policy and which the
running one at each stage: to the left and right of the supervisor's position on
the way forward, the reverse on the way back, all on one side at `record` and
`fail`. From it `AtomicStep` maps `ApplyCheck` to Begin, `ApplyEngine` to Switch,
`ApplyRecord` to Commit, `ApplyFail` to Abort and all other steps, the daemon's
included, to a stutter. `CleanFailures` allows refused validations, failed
engines and failed audit writes: an engine that refuses an artifact keeps what
it had, and the way back works. With any other failure the supervisor does not
keep this promise (first item of section 5), and `NoSilentDivergence` says what
it keeps instead. TLC finds `AtomOK` an invariant of the instance of the run
PolicyServer_clients; the run itself checks the refinement.

### The updater

Every step of IntelUpdater is a step of PolicyServer or leaves it alone, so
`IInv` carries over (`ServerBeside`). Two things are to be known beside it: while
no change that reached an engine has failed (`~ failed`), the table of nftables
is the running policy's except from the first engine call of a change to its
record (`SmoothOK`); and between changes the loop has read the policy that is
running, or a token waits (`RefreshOK`). The hard step is a commit that ends: its
token is either put into the channel or dropped because one is there. A failed
engine, a vanished caller, a failed store or audit write each empty the sets and
send no token (item 5); `failed` records it and stays (`FailureKept`), and the
repair is left to the tick, which is `SetsRecover`. The updater's own steps fail
no change (`ChangesFailThere`).

### The supervised child

Apply runs in one goroutine, shutdown in another, and every child has a waiter.
`MutexOK` says who is inside the lock; `BirthOK` bounds the generations by the
processes born, so that two restarts never have one generation; `SignalOK` says
that a child whose stop is under way is nobody's current child - this is why
the waiter, who compares generations and then `cmd`, raises no false alarm; and
`GracefulOK` what a graceful stop leaves. `CallOK` follows Apply through
restart's unlocked sleep: what it started is the current child or was seen to
die. Each part is preserved by each action of the process manager, whoever takes
it; that an engine's step is one of those is a lemma.

### The service engines, WireGuard

FRR's Apply has several steps with an early return after each, so its invariant
says at each step which files are up to date with the artifact (`FilesOK`), the
daemons file as far as it has lines for the daemons asked for (`lines`), when
the marker is there (`PathOK`), and that without the marker nothing of ours is in
file or service (`MarkerOK`); a restart of the service between any two steps
loads what the files say. `DropinOK` does the same for charon. For WireGuard,
blocks before the current one are served and stay so, since a command that
configures a link only adds (`Grows`), and the links that are deleted at the end
are not in the artifact (`LinksOK`); the sequence of blocks names no interface
twice, else a later block could not be told from an earlier one.

### The engines that share links

`NodeInv` is about routes, WireGuard and netdev under the supervisor, with
crashes, reboots and links that flap between any two lines of a batch.
`ControlOK` says where the three engines are and which state files are up to
date there. Each of the other parts is the strengthening of one property:

* `ForceOK`: a line of the batch that was executed has its effect until the end,
  if no later line has the same key; netdev's settings likewise. That deletes
  spare what was just added is because they are of destinations that the new
  artifact does not name (`DelSpares`).
* `CleanOK`: without a fault, files and kernel are of one policy or of the step
  from one to the other, on the way forward and on the way back.
* `RecoverOK`: a start can fail only in four cases. What has to be excluded is a
  batch whose delete finds no route. While the batch runs, the deletes still due
  for a destination are no more than the routes present for it; a delete takes
  one of each. The counting is by `Cardinality`; it starts from the recorded
  artifact's keys being distinct and present, which every complete Apply
  restores. `DeletesWork` is the same count for every batch, of commits and
  restores too (`DueIsThere`); there the routes that a link or a reboot took
  along are a case of their own (`dropped`), since a commit may delete them.

The lowest line of a batch goes first. That a non-empty set of line numbers has a
lowest element is the induction over numbers: `LeastOf`, from the library's
`WFMin` and the well-foundedness of `<` on Nat.

### Authorization

`AuthOK`: the table of a running daemon is the `Table` of a file that loaded, and
a daemon that was given a users file has one. Every way in, gateway and ngfwctl
included, is `Grpc` or changes nothing; `Grpc` admits for a changing method only
whom the table ranks as operator; `Loads` guarantees that roles exist, so there
is nobody below or beside the ranks.

### The reader of events

The offsets of lines grow along a file, and so do their ids (`FilesOrdered`);
while a read is under way the open file is what it was at stat with lines added
and its last line completed (`Sought`, `Extends`), also after a rename, short of
a truncation. So the lines behind the offset are the newest ones. What the scan
finds is the loop `Hits` over them; `HitsAre` says by induction over the lines
that it is all whole lines of the wanted type, in the order of the file, so that
the first of the reversed list are the newest. Induction over numbers is done
with a set of counterexamples and its least element (`LeastNumber` here,
`LeastOf` and `StepByStep` in DatapathProofs), since the library's theorem takes
an operator.

### The forwarding path

`ForceInv` says little: what is in force is what `RenderAll` made of the version
of the last commit. The work is about operators, from the inside out:

* names that passed `CheckNames` resolve to their objects, and so do zones,
  addresses and services (`ZonesResolve`, `AddressesResolve`,
  `ServicesResolve`): the list in the IR restricts a packet exactly as the
  reference reading of the message does, wildcards and families included;
* `RuleHit`: one of the lines written for a rule is hit exactly by a packet to
  which the rule applies. A rule becomes up to one line per family; that no
  packet is lost between them is where `Families` matters;
* `CompiledRules`: the compiler's loop keeps the rules that are not disabled, in
  their order; `ChainIs` where they are in the forward chain, behind queue, state
  and blocklist statements;
* `FirstHitIs`, `ChainVerdict`: the first statement of the chain that is hit is
  the statement of the first rule that applies. NAT likewise (`DnattedIs`,
  `SnattedIs`), with `HostIs`: a translated address is a single host.

`EmptyZones` and prevent mode are excepted in the property and so in the theorem.

### The artifacts of the other engines

`AgreedIs` goes through `MaxMtuIs` (the capture size is of the largest MTU),
`NetdevIs`, `SuricataIs`, `SetsDeclared`. `SectionsAre` has one lemma for each
engine: `WireguardIs`, `RoutingIs`, `TunnelsAre`, `LinksAsAsked`, `RoutesAre`.
They need two facts about texts. A renderer joins the lines of its items; the
result, `FlattenSeq`, has exactly their lines (`FlattenLines`). A parser is a
loop over lines, and a text that is made of blocks is read as those blocks
(`BlocksMore` for one, `BlocksAll` for all): a peer's endpoint cannot move to
another peer, nor a neighbor to the other router, because no line of a block but
its first has the word that opens a block. Defaults that renderers leave out, the
16 bits of ports and keepalives, and what Validate must have checked for that,
are in the lemmas about single items (`PeerIs`, `InterfaceKept`, `Uint16Is`).

### What stays with TLC

Liveness, which is out of this prover's reach: `Answered`, `ServesAgain`,
`SetsRecover`, `DeathNoticed`. Every other property of a passing run is stated by
a theorem of the table. The two counterexamples are TLC's alone.

## 5. Where the code does less than its documents say

Besides the two runs above, met while modelling. They shape the conditions
and exceptions named in section 3; each is at a line:

1. `engine.go:62` - the failing engine itself is not restored. An engine of
   several commands keeps the part it took, while `policy_service.proto:36-38`
   says that on any failure the previous configuration is restored. The model
   calls such an engine `Torn` and requires that it is named.
2. `policy.go:196` - a crash between version and audit entry leaves a version
   that the log lacks (`docs/build-plan.md:256`: every change is in the audit
   log). `AckedIsAudited` is about answered commits for this reason.
3. `main.go:119` - a node without a version is not re-applied at start, so a
   crash in the first commit leaves engines configured. `NoSilentDivergence`
   starts at version 1.
4. `policy.go:159` - `fail()` drops the error of its audit write; with a caller
   that has gone nobody learns of the failure ("nothing in this path fails
   silently", lines 155-156). Hence `OneWitness`.
5. `policy.go:199` - a live commit whose audit entry fails returns before
   OnCommit, so the emptied sets wait for the tick (`updater.go:28-30`: after
   every commit).
6. `updater.go:78` - a dead feed is skipped and Refresh returns nil (lines
   75-76: "the error return").
7. `routes.go:72` - the state file is compared by destination, the kernel keys
   routes by destination and metric: a changed metric leaves the old route.
   A link that goes takes its routes along while the file still names them, and
   a tunnel that a commit deletes and its restore creates again comes back
   without them.
8. `routes.go:86` - a batch cut short after a delete is retried with that
   delete, which fails (`iproute/render.go`: re-applying is idempotent).
9. `frr.go:114` - a reload that reports failure after the service took the
   files leaves no marker, so the clean-up will not happen.
   `frr.go:95` - the clean-up does not restore the daemons file
   (`docs/testing-plan.md:214`).
   `frr.go:142` - a daemon that has no line in the daemons file, because it
   never had one or a write cut short took it away, is not given one: Apply
   succeeds and FRR runs without it (line 90: "enables the needed daemons").
   `RoutingInForce` says what is in force then.
10. `wireguard.go:150` - a foreign interface of the wanted name is taken over
    (lines 17-18); `wireguard.go:145` - an Apply that fails after `ip link add`
    forgets the link (lines 16-17).
11. `process.go:84` - a child that ignores SIGINT is killed and not waited for,
    so the successor may start beside it (line 22). `OneUnkilled` is therefore
    about children without a SIGKILL.
12. `compile.go:127` - a zone without interfaces resolves to the empty list,
    which downstream is "any interface", so a rule over it decides about traffic
    of all zones (`policy.proto:36`: "Rules match on zone pairs"). The packet
    properties except such policies (`EmptyZones`).
13. `main.go:89` - the routes engine comes before wireguard. A policy with a
    route over a new tunnel is refused in one commit, and after a reboot a
    running policy with one does not start ("re-apply the running policy at
    startup", line 115). This is the first case of `RestartRecovers`; the last
    is a policy that sets the MTU of a tunnel which only an Apply of the
    WireGuard engine that was cut short had left on the node: the commit works,
    and after a reboot the tunnel is not there.
14. `netdev.go:79` - the settings of a commit that is refused later stay; that
    settings dropped from a policy stay is documented (lines 15-17).
15. `main.go:113` - the updater runs every hour, whatever
    `refresh_interval_minutes` says (`intel.proto:20`), though Validate checks it.
16. `eve.go:81` - one line of more than 1 MiB in the tail makes ListAlerts and
    ListFlows fail until it is out of the tail.
17. `main.go:143` - users are loaded once: a token taken out of the file is good
    until the daemon restarts. `ChangesAuthorized` is about the table as it was
    at start.
18. `authz.go:117` - Validate, which changes nothing, needs an operator (line 4:
    "viewer: read-only RPCs"); RefreshFeeds changes the sets and is not audited.
19. `renderers/frr/render.go:53` - prefixes of either family are announced under
    `address-family ipv4 unicast`; `validate.go:260` - two static routes may have
    one destination, and the last line wins. When such an artifact leaves the
    policy, `routes.go:64` appends one delete for each of its lines, the second
    finds nothing, and the commit is refused although the table is right.

## 6. Not modelled

* The dry-run engine: it logs and returns nil, an engine that never fails.
* `fetch.go`: a download becomes prefixes line by line; their result is
  abstracted to the feed. So overlaps of prefixes in one nft interval set, which
  nft may refuse, do not appear, nor do addresses as bits: a prefix is a set of
  hosts.
* The input chain, the MSS clamp's rule, counters, logging: they decide no
  forwarded packet. Fixed text of the other artifacts: ciphers, log formats,
  worker settings.
* Generated message types (`api/gen/**/*.pb.go`): structures and getters without
  behaviour of their own; the models use their fields. Of the gRPC and gateway
  bindings the methods, routes and dispatch are modelled.
* The deadline that ngfwctl gives an RPC and the listing's page limits; what a
  command prints. A deadline is `Cancel` in PolicyServer.
* Of the EVE reader, an open that fails for another reason than that there is no
  file, and a failed seek (`eve.go:62-70`): each answers with its error and
  leaves nothing behind.
* OIDC: a stub that refuses. Web UI and version: static.
* bbolt's and nft's atomicity are assumed, as the code does.

## 7. Plan

Done: inventory; commit path; updater; all engines, those that share state
composed under the supervisor; validators, compiler and renderers of every
section; packet semantics; API, authorization and EVE reader. Proved: every
invariant and every action property that a passing run checks, and both
refinements.

Left are models. The nftables table and Suricata in one composition with
ProcEngines, so that what happens to queued packets while Suricata restarts is
related to the policy; strongSwan's secrets files, which Validate only checks to
be paths; prefixes as ranges of addresses, so that overlaps within one set
appear.
