---------------------------- MODULE ProcManager ----------------------------
(***************************************************************************)
(* The supervisor of one child process (procManager, internal/engines/     *)
(* process.go), as the suricata and vector engines use it: the commit path *)
(* calls restart or stop, main calls stop at shutdown, and a waiter        *)
(* goroutine per child waits for its exit.                                 *)
(*                                                                         *)
(* restart gives the lock up while it sleeps, so that the waiter of a      *)
(* child that dies at once can record the exit; the main goroutine may     *)
(* come in there too.  p.gen tells a waiter whether its child was stopped  *)
(* on purpose.  Processes are numbered in the order they are started.      *)
(* The next-state relation is in ProcEngines, with what calls restart.     *)
(***************************************************************************)
EXTENDS Integers

CONSTANTS
    MaxProcs,   \* bound: no restart is called beyond it
    Nil,        \* p.cmd = nil
    Free,       \* the lock when nobody holds it
    Engine,     \* the goroutine that runs the engine's Apply
    Main,       \* the goroutine of main.run
    Faults      \* "hang": a child may ignore SIGINT for 5 s; "exit": a
                \* child may exit by itself; "start": exec may fail;
                \* "serve": main may return on the error of a server

ASSUME ProcAssumption ==
    /\ MaxProcs \in Nat
    /\ Nil \notin 1..MaxProcs
    /\ Engine # Main /\ Free \notin {Engine, Main} \cup (1..MaxProcs)
    /\ Engine \notin 1..MaxProcs /\ Main \notin 1..MaxProcs
    /\ Faults \subseteq {"hang", "exit", "start", "serve"}

VARIABLES
    mu,         \* p.mu: its holder, a goroutine or the waiter of a process
    cmd,        \* p.cmd: the current child, or Nil
    gen,        \* p.gen
    procs,      \* what each process is doing
    genOf,      \* the generation that a process's waiter captured
    waiter,     \* where the waiter of each process is
    pc,         \* where Engine and Main are
    goal,       \* what Engine was called for: "restart" or "stop"
    mine,       \* the process that Engine's restart started
    result,     \* what Engine's last call returned
    logged,     \* processes reported as "exited unexpectedly"
    graceful    \* GracefulStop has waited for the handlers, or is still to

vars == <<mu, cmd, gen, procs, genOf, waiter, pc, goal, mine, result, logged,
          graceful>>

Procs == 1..MaxProcs

ProcStates == {"unborn", "up", "interrupted", "killed", "stopped", "gone"}

TypeOK ==
    /\ mu \in Procs \cup {Free, Engine, Main}
    /\ cmd \in Procs \cup {Nil}
    /\ gen \in 0..(2 * MaxProcs + 2)
    /\ procs \in [Procs -> ProcStates]
    /\ genOf \in [Procs -> 0..(2 * MaxProcs + 2)]
    /\ waiter \in [Procs -> {"none", "waiting", "done"}]
    /\ pc \in [{Engine, Main} ->
                 {"idle", "stop", "reap", "start", "sleep", "exiting", "exited"}]
    /\ goal \in {"none", "restart", "stop"}
    /\ mine \in Procs \cup {Nil}
    /\ result \in {"none", "ok", "error"}
    /\ logged \in SUBSET Procs
    /\ graceful \in BOOLEAN

Init ==
    /\ mu = Free
    /\ cmd = Nil
    /\ gen = 0
    /\ procs = [p \in Procs |-> "unborn"]
    /\ genOf = [p \in Procs |-> 0]
    /\ waiter = [p \in Procs |-> "none"]
    /\ pc = [g \in {Engine, Main} |-> "idle"]
    /\ goal = "none"
    /\ mine = Nil
    /\ result = "none"
    /\ logged = {}
    /\ graceful = TRUE

Alive == {p \in Procs : procs[p] \in {"up", "interrupted", "killed"}}

Goto(g, s) == pc' = [pc EXCEPT ![g] = s]

Running == pc[Main] # "exited"

-----------------------------------------------------------------------------
(* Callers: Apply of the engine, one at a time; main once. *)

CallEngine ==
    /\ pc[Engine] = "idle"
    /\ pc[Main] = "idle" \/ ~ graceful
    /\ Running
    /\ mu = Free
    /\ mu' = Engine
    /\ goal' \in {"restart", "stop"}
    /\ goal' = "restart" => procs[MaxProcs] = "unborn"
    /\ result' = "none"
    /\ mine' = Nil
    /\ Goto(Engine, "stop")
    /\ UNCHANGED <<cmd, gen, procs, genOf, waiter, logged, graceful>>

(* Deferred suricata.Stop() when run returns: after GracefulStop no        *)
(* handler is left; on the error path one may still be at work.            *)
CallMain ==
    /\ pc[Main] = "idle"
    /\ \/ pc[Engine] = "idle" /\ UNCHANGED graceful
       \/ "serve" \in Faults /\ graceful' = FALSE
    /\ mu = Free
    /\ mu' = Main
    /\ Goto(Main, "stop")
    /\ UNCHANGED <<cmd, gen, procs, genOf, waiter, goal, mine, result, logged>>

(* run has returned, after the deferred calls that follow this one: the    *)
(* process exits, with all its goroutines.                                 *)
ExitMain ==
    /\ pc[Main] = "exiting"
    /\ pc' = [pc EXCEPT ![Main] = "exited", ![Engine] = "idle"]
    /\ UNCHANGED <<mu, cmd, gen, procs, genOf, waiter, goal, mine, result, logged, graceful>>

(* After stopLocked: stop returns, restart goes on to start. *)
Stopped(g) ==
    IF g = Engine /\ goal = "restart"
    THEN Goto(Engine, "start") /\ UNCHANGED <<mu, result>>
    ELSE /\ mu' = Free
         /\ IF g = Main THEN Goto(Main, "exiting") /\ UNCHANGED result
            ELSE Goto(Engine, "idle") /\ result' = "ok"

(* Variant: the child is forgotten without a signal. *)
StopLockedForgets(g) ==
    /\ pc[g] = "stop"
    /\ Running
    /\ cmd' = Nil
    /\ gen' = IF cmd = Nil THEN gen ELSE gen + 1
    /\ Stopped(g)
    /\ UNCHANGED <<procs, genOf, waiter, goal, mine, logged, graceful>>

(* Variant: the child is not forgotten. *)
StopLockedKeeps(g) ==
    /\ pc[g] = "stop"
    /\ Running
    /\ IF cmd = Nil
       THEN Stopped(g) /\ UNCHANGED <<gen, procs>>
       ELSE /\ gen' = gen + 1
            /\ procs' = [procs EXCEPT ![cmd] =
                           IF procs[cmd] = "up" THEN "interrupted" ELSE procs[cmd]]
            /\ Goto(g, "reap")
            /\ UNCHANGED <<mu, result>>
    /\ UNCHANGED <<cmd, genOf, waiter, goal, mine, logged, graceful>>

(* stopLocked: forget the child, then SIGINT. *)
StopLocked(g) ==
    /\ pc[g] = "stop"
    /\ Running
    /\ IF cmd = Nil
       THEN Stopped(g) /\ UNCHANGED <<cmd, gen, procs>>
       ELSE /\ gen' = gen + 1
            /\ cmd' = Nil
            /\ procs' = [procs EXCEPT ![cmd] =
                           IF procs[cmd] = "up" THEN "interrupted" ELSE procs[cmd]]
            /\ Goto(g, "reap")
            /\ UNCHANGED <<mu, result>>
    /\ UNCHANGED <<genOf, waiter, goal, mine, logged, graceful>>

(* Variant: after 5 s nothing is killed. *)
ReapNoKill(g) ==
    /\ pc[g] = "reap"
    /\ Running
    /\ "hang" \in Faults \/ \A p \in Procs : procs[p] # "interrupted"
    /\ Stopped(g)
    /\ UNCHANGED <<cmd, gen, procs, genOf, waiter, goal, mine, logged, graceful>>

(* ... and wait for its exit; after 5 s SIGKILL, and wait no longer. *)
Reap(g) ==
    /\ pc[g] = "reap"
    /\ Running
    /\ \/ /\ \A p \in Procs : procs[p] # "interrupted"
          /\ UNCHANGED procs
       \/ /\ "hang" \in Faults
          /\ \E p \in Procs :
                /\ procs[p] = "interrupted"
                /\ procs' = [procs EXCEPT ![p] = "killed"]
    /\ Stopped(g)
    /\ UNCHANGED <<cmd, gen, genOf, waiter, goal, mine, logged, graceful>>

(* Variant: the waiter captures the generation before it is advanced. *)
StartStaleGen ==
    /\ pc[Engine] = "start"
    /\ Running
    /\ \E p \in Procs :
          /\ procs[p] = "unborn"
          /\ \A q \in 1..(p - 1) : procs[q] # "unborn"
          /\ procs' = [procs EXCEPT ![p] = "up"]
          /\ cmd' = p
          /\ mine' = p
          /\ genOf' = [genOf EXCEPT ![p] = gen]
          /\ waiter' = [waiter EXCEPT ![p] = "waiting"]
    /\ gen' = gen + 1
    /\ mu' = Free
    /\ Goto(Engine, "sleep")
    /\ UNCHANGED <<result, goal, logged, graceful>>

(* cmd.Start(), and the waiter. *)
Start ==
    /\ pc[Engine] = "start"
    /\ Running
    /\ \/ /\ \E p \in Procs :
                /\ procs[p] = "unborn"
                /\ \A q \in 1..(p - 1) : procs[q] # "unborn"
                /\ procs' = [procs EXCEPT ![p] = "up"]
                /\ cmd' = p
                /\ mine' = p
                /\ genOf' = [genOf EXCEPT ![p] = gen + 1]
                /\ waiter' = [waiter EXCEPT ![p] = "waiting"]
          /\ gen' = gen + 1
          /\ mu' = Free
          /\ Goto(Engine, "sleep")
          /\ UNCHANGED result
       \/ /\ "start" \in Faults
          /\ mu' = Free
          /\ Goto(Engine, "idle")
          /\ result' = "error"
          /\ UNCHANGED <<cmd, gen, procs, genOf, waiter, mine>>
    /\ UNCHANGED <<goal, logged, graceful>>

(* After 500 ms: lock again and look whether the child is still there. *)
Check ==
    /\ pc[Engine] = "sleep"
    /\ Running
    /\ mu = Free
    /\ result' = IF gen # genOf[mine] \/ cmd = Nil THEN "error" ELSE "ok"
    /\ Goto(Engine, "idle")
    /\ UNCHANGED <<mu, cmd, gen, procs, genOf, waiter, goal, mine, logged, graceful>>

-----------------------------------------------------------------------------
(* A process ends: on a signal, or by itself. *)
Exit(p) ==
    /\ \/ /\ procs[p] \in {"interrupted", "killed"}
          /\ procs' = [procs EXCEPT ![p] = "stopped"]
       \/ /\ procs[p] = "up"
          /\ "exit" \in Faults
          /\ procs' = [procs EXCEPT ![p] = "gone"]
    /\ UNCHANGED <<mu, cmd, gen, genOf, waiter, pc, goal, mine, result, logged, graceful>>

(* Variant: the waiter does not ask whose exit it saw. *)
WaiterLockAny(p) ==
    /\ waiter[p] = "waiting"
    /\ Running
    /\ procs[p] \in {"gone", "stopped"}
    /\ mu = Free
    /\ waiter' = [waiter EXCEPT ![p] = "done"]
    /\ IF cmd # Nil
       THEN cmd' = Nil /\ logged' = logged \cup {p}
       ELSE UNCHANGED <<cmd, logged>>
    /\ UNCHANGED <<mu, gen, procs, genOf, pc, goal, mine, result, graceful>>

(* The waiter: cmd.Wait returned; take the lock; was it planned? *)
WaiterLock(p) ==
    /\ waiter[p] = "waiting"
    /\ Running
    /\ procs[p] \in {"gone", "stopped"}
    /\ mu = Free
    /\ waiter' = [waiter EXCEPT ![p] = "done"]
    /\ IF gen = genOf[p] /\ cmd = p
       THEN cmd' = Nil /\ logged' = logged \cup {p}
       ELSE UNCHANGED <<cmd, logged>>
    /\ UNCHANGED <<mu, gen, procs, genOf, pc, goal, mine, result, graceful>>

-----------------------------------------------------------------------------
(* Properties *)

(* One external engine binary runs as a supervised child: whatever is      *)
(* alive is the current child, or was sent a signal that it dies of, and   *)
(* no two were left without SIGKILL.                                       *)
OneUnkilled ==
    /\ \A p, q \in Procs :
          {procs[p], procs[q]} \subseteq {"up", "interrupted"} => p = q
    /\ \A p \in Procs : procs[p] = "up" /\ Running => cmd = p

(* The waiter can tell planned stops from crashes: a process that was told *)
(* to stop is never reported as having exited unexpectedly.                *)
NoFalseAlarm == \A p \in logged : procs[p] = "gone"

(* When the daemon has exited after a graceful stop no engine process is   *)
(* left to run.                                                            *)
NoOrphan ==
    pc[Main] = "exited" /\ graceful => \A p \in Procs : procs[p] # "up"

(* A child that died does not stay the current child: the waiter is not    *)
(* fooled by generations and gets the lock.                                *)
DeathNoticed == \A p \in Procs : cmd = p /\ procs[p] = "gone" ~> cmd # p \/ ~ Running

-----------------------------------------------------------------------------
(* The inductive invariant of the process manager. *)

(* p.mu is held exactly by the goroutine that is inside it, and when main  *)
(* has returned no goroutine is left.                                      *)
MutexOK ==
    /\ mu \in {Free, Engine, Main}
    /\ pc[Main] \in {"idle", "stop", "reap", "exiting", "exited"}
    /\ ~ Running => pc[Engine] = "idle"
    /\ Running => \A g \in {Engine, Main} :
                      mu = g <=> pc[g] \in {"stop", "reap", "start"}

(* Processes are born in order, the current child is the youngest, and     *)
(* each was started and stopped once: that bounds the generations.         *)
BirthOK ==
    /\ \A p, q \in Procs : q < p /\ procs[p] # "unborn" => procs[q] # "unborn"
    /\ \A p \in Procs : procs[p] = "unborn" => gen <= 2 * (p - 1)
    /\ gen <= 2 * MaxProcs
    /\ \A p \in Procs : cmd = p =>
          /\ gen <= 2 * p - 1
          /\ \A q \in Procs : q > p => procs[q] = "unborn"

(* A signal is on its way only while somebody waits for the exit, and a    *)
(* child whose stop is under way is nobody's current child: cmd is Nil     *)
(* until the next start, and a current child was never signalled.          *)
SignalOK ==
    /\ Running => \A p \in Procs :
          procs[p] = "interrupted" => \E g \in {Engine, Main} : pc[g] = "reap"
    /\ \A g \in {Engine, Main} : pc[g] \in {"reap", "start"} => cmd = Nil
    /\ \A p \in Procs : cmd = p => procs[p] \in {"up", "gone"}

(* After a graceful stop no Apply is under way, and after it has stopped   *)
(* the child there is none.                                                *)
GracefulOK ==
    graceful /\ pc[Main] # "idle" =>
        /\ pc[Engine] = "idle"
        /\ pc[Main] # "stop" => \A p \in Procs : procs[p] # "up"
        /\ pc[Main] # "stop" => cmd = Nil

ProcInv ==
    TypeOK /\ MutexOK /\ BirthOK /\ SignalOK /\ GracefulOK
    /\ OneUnkilled /\ NoFalseAlarm
=============================================================================
