------------------------------ MODULE ProcProofs ------------------------------
(***************************************************************************)
(* Proofs about the supervised child process and the engines above it, for *)
(* any number of processes and artifacts and any set of failures.  ProcInv *)
(* is preserved part by part by every step of the process manager; with it *)
(* EnginesInv is inductive.                                                *)
(***************************************************************************)
EXTENDS ProcEngines, TLAPS

(* The steps of the process manager, whoever takes them. *)
ProcStep ==
    \/ CallEngine \/ CallMain \/ ExitMain \/ Start \/ Check
    \/ \E g \in {Engine, Main} : StopLocked(g) \/ Reap(g)
    \/ \E p \in Procs : Exit(p) \/ WaiterLock(p)
    \/ UNCHANGED vars

(* The goroutines are different, and neither is a process or Nil. *)
LEMMA ProcConstants ==
    /\ MaxProcs \in Nat /\ Nil \notin Procs /\ Engine # Main
    /\ Free \notin {Engine, Main} /\ Engine \notin Procs /\ Main \notin Procs
    /\ Free \notin Procs
BY ProcAssumption DEF Procs

(* Every step of the engines is a step of the process manager. *)
LEMMA EngineStepIsProcStep == [EngineNext]_engineAll => ProcStep
BY DEF EngineNext, engineAll, EngineApply, WriteConfig, Call, Returned,
       StartChild, MainCalls, ProcStep

-----------------------------------------------------------------------------
(* The types, given that the generations stay within their bound. *)
LEMMA ProcTypeNext == ASSUME ProcInv, ProcStep, BirthOK' PROVE TypeOK'
<1>a. TypeOK /\ MaxProcs \in Nat /\ gen \in Nat
  BY ProcConstants DEF ProcInv, TypeOK
<1>b. gen' \in Nat => gen' \in 0..(2 * MaxProcs + 2)
  BY <1>a DEF BirthOK
<1> USE DEF TypeOK, ProcStates
<1>1. ASSUME CallEngine PROVE TypeOK'
  BY <1>1, <1>a DEF CallEngine, Goto
<1>2. ASSUME CallMain PROVE TypeOK'
  BY <1>2, <1>a DEF CallMain, Goto
<1>3. ASSUME ExitMain PROVE TypeOK'
  BY <1>3, <1>a DEF ExitMain
<1>4. ASSUME Start PROVE TypeOK'
  <2>1. CASE UNCHANGED gen
    BY <1>4, <2>1, <1>a DEF Start, Goto
  <2>2. CASE gen' = gen + 1
    <3>1. gen' \in 0..(2 * MaxProcs + 2)
      BY <2>2, <1>a, <1>b
    <3> QED
      BY <1>4, <2>2, <3>1, <1>a DEF Start, Goto
  <2> QED
    BY <1>4, <2>1, <2>2 DEF Start
<1>5. ASSUME Check PROVE TypeOK'
  BY <1>5, <1>a DEF Check, Goto
<1>6. ASSUME NEW g \in {Engine, Main}, StopLocked(g) PROVE TypeOK'
  <2>1. gen' \in {gen, gen + 1}
    BY <1>6 DEF StopLocked
  <2>2. gen' \in 0..(2 * MaxProcs + 2)
    BY <2>1, <1>a, <1>b
  <2> QED
    BY <1>6, <2>2, <1>a DEF StopLocked, Stopped, Goto
<1>7. ASSUME NEW g \in {Engine, Main}, Reap(g) PROVE TypeOK'
  BY <1>7, <1>a DEF Reap, Stopped, Goto
<1>8. ASSUME NEW p \in Procs, Exit(p) PROVE TypeOK'
  BY <1>8, <1>a DEF Exit
<1>9. ASSUME NEW p \in Procs, WaiterLock(p) PROVE TypeOK'
  BY <1>9, <1>a DEF WaiterLock
<1>10. ASSUME UNCHANGED vars PROVE TypeOK'
  BY <1>10, <1>a DEF vars
<1> QED
  BY <1>1, <1>2, <1>3, <1>4, <1>5, <1>6, <1>7, <1>8, <1>9, <1>10 DEF ProcStep

(* The lock. *)
LEMMA MutexNext == ASSUME ProcInv, ProcStep PROVE MutexOK'
<1>a. TypeOK /\ MutexOK /\ GracefulOK
  BY DEF ProcInv
<1> USE <1>a, ProcConstants DEF TypeOK, MutexOK, Running, Goto
<1>1. ASSUME CallEngine PROVE MutexOK'
  BY <1>1 DEF CallEngine
<1>2. ASSUME CallMain PROVE MutexOK'
  BY <1>2 DEF CallMain
<1>3. ASSUME ExitMain PROVE MutexOK'
  BY <1>3 DEF ExitMain
<1>4. ASSUME Start PROVE MutexOK'
  BY <1>4 DEF Start
<1>5. ASSUME Check PROVE MutexOK'
  BY <1>5 DEF Check
<1>6. ASSUME NEW g \in {Engine, Main}, StopLocked(g) PROVE MutexOK'
  BY <1>6 DEF StopLocked, Stopped
<1>7. ASSUME NEW g \in {Engine, Main}, Reap(g) PROVE MutexOK'
  BY <1>7 DEF Reap, Stopped
<1>8. ASSUME NEW p \in Procs, Exit(p) \/ WaiterLock(p) PROVE MutexOK'
  BY <1>8 DEF Exit, WaiterLock
<1>9. ASSUME UNCHANGED vars PROVE MutexOK'
  BY <1>9 DEF vars
<1> QED
  BY <1>1, <1>2, <1>3, <1>4, <1>5, <1>6, <1>7, <1>8, <1>9 DEF ProcStep

(* Births, stops and generations. *)
LEMMA BirthNext == ASSUME ProcInv, ProcStep PROVE BirthOK'
<1>a. /\ TypeOK /\ BirthOK /\ SignalOK /\ gen \in Nat /\ MaxProcs \in Nat
      /\ procs \in [Procs -> ProcStates] /\ Nil \notin Procs
  BY ProcConstants DEF ProcInv, TypeOK
<1>1. ASSUME Start PROVE BirthOK'
  <2>1. CASE UNCHANGED <<cmd, gen, procs>>
    BY <1>a, <2>1 DEF BirthOK
  <2>2. CASE \E p \in Procs :
                /\ procs[p] = "unborn" /\ \A q \in 1..(p - 1) : procs[q] # "unborn"
                /\ procs' = [procs EXCEPT ![p] = "up"] /\ cmd' = p
                /\ gen' = gen + 1
    <3>1. PICK p \in Procs :
                /\ procs[p] = "unborn" /\ \A q \in 1..(p - 1) : procs[q] # "unborn"
                /\ procs' = [procs EXCEPT ![p] = "up"] /\ cmd' = p
                /\ gen' = gen + 1
      BY <2>2
    <3>2. gen <= 2 * (p - 1) /\ p <= MaxProcs /\ p \in Nat
      BY <1>a, <3>1 DEF BirthOK, Procs
    <3>3. \A q \in Procs : /\ q < p => procs'[q] # "unborn"
                           /\ q > p => procs'[q] = "unborn"
      BY <1>a, <3>1 DEF BirthOK, Procs, ProcStates
    <3>4. procs'[p] = "up"
      BY <1>a, <3>1
    <3> QED
      BY <3>1, <3>2, <3>3, <3>4, <1>a DEF BirthOK, Procs
  <2> QED
    BY <1>1, <2>1, <2>2 DEF Start
<1>2. ASSUME NEW g \in {Engine, Main}, StopLocked(g) PROVE BirthOK'
  <2>1. CASE cmd = Nil
    BY <1>2, <2>1, <1>a DEF StopLocked, BirthOK
  <2>2. CASE cmd # Nil
    <3>1. /\ cmd \in Procs /\ gen' = gen + 1 /\ cmd' = Nil
          /\ \A q \in Procs : procs'[q] = "unborn" <=> procs[q] = "unborn"
      BY <1>2, <2>2, <1>a DEF StopLocked, TypeOK
    <3>2. /\ gen <= 2 * cmd - 1 /\ cmd <= MaxProcs /\ cmd \in Nat
          /\ \A q \in Procs : procs[q] = "unborn" => q > cmd
      <4>1. procs[cmd] # "unborn"
        BY <1>a, <3>1 DEF SignalOK
      <4>2. ASSUME NEW q \in Procs, procs[q] = "unborn" PROVE q > cmd
        BY <4>1, <4>2, <3>1, <1>a DEF BirthOK, Procs
      <4> QED
        BY <4>2, <3>1, <1>a DEF BirthOK, Procs
    <3>3. \A q \in Procs : procs'[q] = "unborn" => gen' <= 2 * (q - 1)
      BY <3>1, <3>2, <1>a DEF Procs
    <3>4. \A q \in Procs : cmd' # q
      BY <3>1, <1>a
    <3> QED
      BY <3>1, <3>2, <3>3, <3>4, <1>a DEF BirthOK, Procs
  <2> QED
    BY <2>1, <2>2
<1>3. ASSUME NEW p \in Procs, Exit(p) PROVE BirthOK'
  <2>1. /\ \A q \in Procs : procs'[q] = "unborn" <=> procs[q] = "unborn"
        /\ UNCHANGED <<cmd, gen>>
    BY <1>3, <1>a DEF Exit
  <2> QED
    BY <2>1, <1>a DEF BirthOK
<1>4. ASSUME NEW p \in Procs, WaiterLock(p) PROVE BirthOK'
  BY <1>4, <1>a DEF WaiterLock, BirthOK
<1>5. ASSUME NEW g \in {Engine, Main}, Reap(g) PROVE BirthOK'
  <2>1. /\ \A q \in Procs : procs'[q] = "unborn" <=> procs[q] = "unborn"
        /\ UNCHANGED <<cmd, gen>>
    BY <1>5, <1>a DEF Reap
  <2> QED
    BY <2>1, <1>a DEF BirthOK
<1>6. ASSUME CallEngine \/ CallMain \/ ExitMain \/ Check \/ UNCHANGED vars
      PROVE  BirthOK'
  BY <1>6, <1>a DEF CallEngine, CallMain, ExitMain, Check, vars, BirthOK
<1> QED
  BY <1>1, <1>2, <1>3, <1>4, <1>5, <1>6 DEF ProcStep

(* In a running daemon the goroutine that may go on to stop, reap or start *)
(* a child is alone with it: the other is in none of these.                *)
LEMMA Alone ==
    ASSUME ProcInv, Running, NEW g \in {Engine, Main},
           pc[g] \in {"stop", "reap", "start"} \/ mu = Free,
           NEW h \in {Engine, Main}, h # g \/ mu = Free
    PROVE  pc[h] \notin {"stop", "reap", "start"}
BY ProcConstants DEF ProcInv, MutexOK

(* Signals and the current child. *)
LEMMA SignalNext == ASSUME ProcInv, ProcStep PROVE SignalOK'
<1>a. /\ TypeOK /\ MutexOK /\ SignalOK /\ OneUnkilled /\ Nil \notin Procs
      /\ procs \in [Procs -> ProcStates] /\ Engine # Main
      /\ DOMAIN pc = {Engine, Main}
  BY ProcConstants DEF ProcInv, TypeOK
<1>1. ASSUME CallEngine PROVE SignalOK'
  <2>1. /\ mu = Free /\ Running /\ pc'[Engine] = "stop" /\ pc'[Main] = pc[Main]
        /\ UNCHANGED <<procs, cmd>>
    BY <1>1, <1>a DEF CallEngine, Goto
  <2>2. \A p \in Procs : procs[p] # "interrupted"
    BY <2>1, <1>a, ProcConstants DEF SignalOK, MutexOK
  <2> QED
    BY <2>1, <2>2, <1>a DEF SignalOK
<1>2. ASSUME CallMain PROVE SignalOK'
  <2>1. /\ mu = Free /\ Running /\ pc'[Main] = "stop" /\ pc'[Engine] = pc[Engine]
        /\ UNCHANGED <<procs, cmd>>
    BY <1>2, <1>a DEF CallMain, Goto, Running
  <2>2. \A p \in Procs : procs[p] # "interrupted"
    BY <2>1, <1>a, ProcConstants DEF SignalOK, MutexOK
  <2> QED
    BY <2>1, <2>2, <1>a DEF SignalOK
<1>3. ASSUME ExitMain PROVE SignalOK'
  BY <1>3, <1>a DEF ExitMain, SignalOK, Running
<1>4. ASSUME Start PROVE SignalOK'
  <2>1. /\ Running /\ pc[Engine] = "start" /\ pc[Main] # "reap"
        /\ cmd = Nil /\ \A p \in Procs : procs[p] # "interrupted"
    BY <1>4, <1>a DEF Start, SignalOK, MutexOK
  <2>2. /\ pc'[Engine] \in {"idle", "sleep"} /\ pc'[Main] = pc[Main]
        /\ pc[Main] # "start"
    BY <1>4, <1>a DEF Start, Goto, MutexOK
  <2>3. CASE UNCHANGED <<cmd, procs>>
    BY <2>1, <2>2, <2>3, <1>a DEF SignalOK
  <2>4. CASE \E p \in Procs : procs' = [procs EXCEPT ![p] = "up"] /\ cmd' = p
    BY <2>1, <2>2, <2>4, <1>a DEF SignalOK
  <2> QED
    BY <1>4, <2>3, <2>4 DEF Start
<1>5. ASSUME Check PROVE SignalOK'
  <2>1. /\ pc[Engine] = "sleep" /\ pc' = [pc EXCEPT ![Engine] = "idle"]
        /\ Running /\ UNCHANGED <<procs, cmd>>
    BY <1>5 DEF Check, Goto
  <2> QED
    BY <2>1, <1>a DEF SignalOK
<1>6. ASSUME NEW g \in {Engine, Main}, StopLocked(g) PROVE SignalOK'
  <2>1. /\ Running /\ pc[g] = "stop"
        /\ \A h \in {Engine, Main} : pc[h] \notin {"reap", "start"}
        /\ \A p \in Procs : procs[p] # "interrupted"
    BY <1>6, <1>a, Alone DEF StopLocked, SignalOK, MutexOK
  <2>2. CASE cmd = Nil
    <3>1. UNCHANGED <<cmd, procs>>
      BY <1>6, <2>2 DEF StopLocked
    <3> QED
      BY <2>1, <2>2, <3>1, <1>a DEF SignalOK
  <2>3. CASE cmd # Nil
    <3>1. /\ cmd' = Nil /\ pc' = [pc EXCEPT ![g] = "reap"]
      BY <1>6, <2>3 DEF StopLocked, Goto
    <3> QED
      BY <2>1, <2>3, <3>1, <1>a DEF SignalOK
  <2> QED
    BY <2>2, <2>3
<1>7. ASSUME NEW g \in {Engine, Main}, Reap(g) PROVE SignalOK'
  <2>1. /\ Running /\ pc[g] = "reap" /\ cmd = Nil /\ cmd' = cmd
    BY <1>7, <1>a DEF Reap, SignalOK
  <2>2. \A p \in Procs : procs'[p] # "interrupted"
    BY <1>7, <1>a DEF Reap, OneUnkilled
  <2> QED
    BY <2>1, <2>2, <1>a DEF SignalOK
<1>8. ASSUME NEW p \in Procs, Exit(p) PROVE SignalOK'
  BY <1>8, <1>a DEF Exit, SignalOK, Running
<1>9. ASSUME NEW p \in Procs, WaiterLock(p) PROVE SignalOK'
  BY <1>9, <1>a DEF WaiterLock, SignalOK, Running
<1>10. ASSUME UNCHANGED vars PROVE SignalOK'
  BY <1>10, <1>a DEF vars, SignalOK, Running
<1> QED
  BY <1>1, <1>2, <1>3, <1>4, <1>5, <1>6, <1>7, <1>8, <1>9, <1>10 DEF ProcStep

(* One child without SIGKILL, and it is the current one. *)
LEMMA OneNext == ASSUME ProcInv, ProcStep PROVE OneUnkilled'
<1>a. /\ TypeOK /\ MutexOK /\ SignalOK /\ OneUnkilled /\ Nil \notin Procs
      /\ procs \in [Procs -> ProcStates] /\ Engine # Main
      /\ DOMAIN pc = {Engine, Main}
  BY ProcConstants DEF ProcInv, TypeOK
<1>1. ASSUME Start PROVE OneUnkilled'
  <2>1. /\ Running /\ pc[Engine] = "start" /\ pc[Main] # "reap" /\ cmd = Nil
        /\ \A p \in Procs : procs[p] \notin {"up", "interrupted"}
    BY <1>1, <1>a DEF Start, SignalOK, MutexOK, OneUnkilled
  <2>2. CASE UNCHANGED procs
    BY <2>1, <2>2 DEF OneUnkilled
  <2>3. CASE \E p \in Procs : procs' = [procs EXCEPT ![p] = "up"] /\ cmd' = p
    BY <2>1, <2>3, <1>a DEF OneUnkilled
  <2> QED
    BY <1>1, <2>2, <2>3 DEF Start
<1>2. ASSUME NEW g \in {Engine, Main}, StopLocked(g) PROVE OneUnkilled'
  <2>1. Running /\ pc[g] = "stop" /\ \A p \in Procs : procs[p] # "interrupted"
    BY <1>2, <1>a, Alone DEF StopLocked, SignalOK, MutexOK
  <2>2. CASE cmd = Nil
    <3>1. UNCHANGED <<cmd, procs>>
      BY <1>2, <2>2 DEF StopLocked
    <3> QED
      BY <2>1, <3>1, <1>a DEF OneUnkilled
  <2>3. CASE cmd # Nil
    <3>1. /\ \A p \in Procs : p # cmd => procs'[p] = procs[p]
          /\ cmd \in Procs /\ procs'[cmd] # "up"
      BY <1>2, <2>3, <1>a DEF StopLocked, TypeOK
    <3>2. \A p \in Procs : procs'[p] \in {"up", "interrupted"} => p = cmd
      BY <2>1, <3>1, <1>a DEF OneUnkilled
    <3> QED
      BY <3>1, <3>2 DEF OneUnkilled
  <2> QED
    BY <2>2, <2>3
<1>3. ASSUME NEW g \in {Engine, Main}, Reap(g) PROVE OneUnkilled'
  <2>1. /\ \A p \in Procs : procs'[p] \in {"up", "interrupted"} => procs'[p] = procs[p]
        /\ cmd' = cmd /\ Running
    BY <1>3, <1>a DEF Reap
  <2> QED
    BY <2>1, <1>a DEF OneUnkilled
<1>4. ASSUME NEW p \in Procs, Exit(p) PROVE OneUnkilled'
  <2>1. /\ \A q \in Procs : procs'[q] \in {"up", "interrupted"} => procs'[q] = procs[q]
        /\ UNCHANGED <<cmd, pc>>
    BY <1>4, <1>a DEF Exit
  <2> QED
    BY <2>1, <1>a DEF OneUnkilled, Running
<1>5. ASSUME NEW p \in Procs, WaiterLock(p) PROVE OneUnkilled'
  BY <1>5, <1>a DEF WaiterLock, OneUnkilled, Running
<1>6. ASSUME CallEngine \/ CallMain \/ Check \/ UNCHANGED vars PROVE OneUnkilled'
  <2>1. UNCHANGED <<procs, cmd>> /\ (Running' => Running)
    BY <1>6, <1>a DEF CallEngine, CallMain, Check, vars, Goto, Running
  <2> QED
    BY <2>1, <1>a DEF OneUnkilled
<1>7. ASSUME ExitMain PROVE OneUnkilled'
  BY <1>7, <1>a DEF ExitMain, OneUnkilled, Running
<1> QED
  BY <1>1, <1>2, <1>3, <1>4, <1>5, <1>6, <1>7 DEF ProcStep

(* What is logged exited by itself: the process that the waiter finds      *)
(* current was never signalled, and the dead stay dead.                    *)
LEMMA AlarmNext == ASSUME ProcInv, ProcStep PROVE NoFalseAlarm'
<1>a. /\ TypeOK /\ SignalOK /\ NoFalseAlarm /\ procs \in [Procs -> ProcStates]
      /\ logged \subseteq Procs /\ Nil \notin Procs
  BY ProcConstants DEF ProcInv, TypeOK
<1>1. \A p \in Procs : procs[p] = "gone" => procs'[p] = "gone"
  BY <1>a
     DEF ProcStep, CallEngine, CallMain, ExitMain, Start, Check, StopLocked,
         Reap, Exit, WaiterLock, vars
<1>2. \A p \in logged' : p \in logged \/ procs[p] = "gone"
  BY <1>a
     DEF ProcStep, CallEngine, CallMain, ExitMain, Start, Check, StopLocked,
         Reap, Exit, WaiterLock, vars, SignalOK
<1>3. logged' \subseteq Procs
  BY <1>a
     DEF ProcStep, CallEngine, CallMain, ExitMain, Start, Check, StopLocked,
         Reap, Exit, WaiterLock, vars
<1> QED
  BY <1>a, <1>1, <1>2, <1>3 DEF NoFalseAlarm

(* A graceful stop finds no Apply and leaves no child. *)
LEMMA GracefulNext == ASSUME ProcInv, ProcStep PROVE GracefulOK'
<1>a. /\ TypeOK /\ GracefulOK /\ OneUnkilled /\ Nil \notin Procs
      /\ procs \in [Procs -> ProcStates] /\ Engine # Main
      /\ DOMAIN pc = {Engine, Main}
  BY ProcConstants DEF ProcInv, TypeOK
<1>1. ASSUME CallEngine PROVE GracefulOK'
  BY <1>1, <1>a DEF CallEngine, Goto, GracefulOK
<1>2. ASSUME CallMain PROVE GracefulOK'
  BY <1>2, <1>a DEF CallMain, Goto, GracefulOK
<1>3. ASSUME ExitMain PROVE GracefulOK'
  BY <1>3, <1>a DEF ExitMain, GracefulOK
<1>4. ASSUME Start \/ Check PROVE GracefulOK'
  <2>1. /\ pc[Engine] \in {"start", "sleep"} /\ graceful' = graceful
        /\ pc'[Main] = pc[Main]
    BY <1>4, <1>a DEF Start, Check, Goto
  <2> QED
    BY <2>1, <1>a DEF GracefulOK
<1>5. ASSUME StopLocked(Engine) \/ Reap(Engine) PROVE GracefulOK'
  <2>1. /\ pc[Engine] \in {"stop", "reap"} /\ graceful' = graceful
        /\ pc'[Main] = pc[Main]
    BY <1>5, <1>a DEF StopLocked, Reap, Stopped, Goto
  <2> QED
    BY <2>1, <1>a DEF GracefulOK
<1>6. ASSUME StopLocked(Main) PROVE GracefulOK'
  <2>1. /\ Running /\ pc[Main] = "stop" /\ pc'[Engine] = pc[Engine]
        /\ graceful' = graceful /\ cmd' = Nil
    BY <1>6, <1>a DEF StopLocked, Stopped, Goto
  <2>2. CASE cmd = Nil
    <3>1. procs' = procs
      BY <1>6, <2>2 DEF StopLocked
    <3> QED
      BY <2>1, <2>2, <3>1, <1>a DEF GracefulOK, OneUnkilled
  <2>3. CASE cmd # Nil
    <3>1. /\ \A p \in Procs : p # cmd => procs'[p] = procs[p]
          /\ cmd \in Procs /\ procs'[cmd] # "up"
      BY <1>6, <2>3, <1>a DEF StopLocked, TypeOK
    <3> QED
      BY <2>1, <3>1, <1>a DEF GracefulOK, OneUnkilled
  <2> QED
    BY <2>2, <2>3
<1>7. ASSUME Reap(Main) PROVE GracefulOK'
  <2>1. /\ pc[Main] = "reap" /\ pc'[Engine] = pc[Engine]
        /\ graceful' = graceful /\ cmd' = cmd
    BY <1>7, <1>a DEF Reap, Stopped, Goto
  <2>2. \A p \in Procs : procs'[p] = "up" => procs[p] = "up"
    BY <1>7, <1>a DEF Reap
  <2> QED
    BY <2>1, <2>2, <1>a DEF GracefulOK
<1>8. ASSUME NEW p \in Procs, Exit(p) PROVE GracefulOK'
  <2>1. \A q \in Procs : procs'[q] = "up" => procs[q] = "up"
    BY <1>8, <1>a DEF Exit
  <2> QED
    BY <1>8, <2>1, <1>a DEF Exit, GracefulOK
<1>9. ASSUME NEW p \in Procs, WaiterLock(p) PROVE GracefulOK'
  BY <1>9, <1>a DEF WaiterLock, GracefulOK
<1>10. ASSUME UNCHANGED vars PROVE GracefulOK'
  BY <1>10, <1>a DEF vars, GracefulOK
<1> QED
  BY <1>1, <1>2, <1>3, <1>4, <1>5, <1>6, <1>7, <1>8, <1>9, <1>10 DEF ProcStep

(* ProcInv is preserved by every step of the process manager. *)
LEMMA ProcNext == ASSUME ProcInv, ProcStep PROVE ProcInv'
<1>1. BirthOK'
  BY BirthNext
<1>2. TypeOK'
  BY ProcTypeNext, <1>1
<1>3. MutexOK' /\ SignalOK' /\ GracefulOK' /\ OneUnkilled' /\ NoFalseAlarm'
  BY MutexNext, SignalNext, GracefulNext, OneNext, AlarmNext
<1> QED
  BY <1>1, <1>2, <1>3 DEF ProcInv

(* ... and holds at first. *)
LEMMA ProcStart == Init => ProcInv
<1> SUFFICES ASSUME Init PROVE ProcInv
  OBVIOUS
<1>1. TypeOK
  BY ProcConstants DEF Init, TypeOK, ProcStates
<1>2. MutexOK /\ GracefulOK
  BY ProcConstants DEF Init, MutexOK, GracefulOK, Running
<1>3. BirthOK
  BY ProcConstants DEF Init, BirthOK, Procs
<1>4. SignalOK /\ OneUnkilled /\ NoFalseAlarm
  BY ProcConstants DEF Init, SignalOK, OneUnkilled, NoFalseAlarm
<1> QED
  BY <1>1, <1>2, <1>3, <1>4 DEF ProcInv

-----------------------------------------------------------------------------
(* The engines: types, and that Apply is under way while its call is. *)
LEMMA EngineTypeNext ==
    ASSUME EnginesInv, [EngineNext]_engineAll, TypeOK' PROVE EngineTypeOK'
<1>a. /\ EngineTypeOK /\ TypeOK /\ Engine # Main /\ DOMAIN pc = {Engine, Main}
      /\ CallOK
  BY ProcConstants DEF EnginesInv, EngineTypeOK, TypeOK, ProcInv
<1> USE DEF EngineTypeOK
<1>1. ASSUME NEW a \in Artifacts, EngineApply(a) PROVE EngineTypeOK'
  BY <1>1, <1>a DEF EngineApply, vars
<1>2. ASSUME WriteConfig PROVE EngineTypeOK'
  BY <1>2, <1>a DEF WriteConfig, vars
<1>3. ASSUME Call PROVE EngineTypeOK'
  BY <1>3, <1>a DEF Call
<1>4. ASSUME Returned PROVE EngineTypeOK'
  <2>1. /\ at' = "idle" /\ outcome' = result /\ pc' = pc /\ pc[Engine] = "idle"
        /\ UNCHANGED <<file, artifact, ranOn>>
    BY <1>4 DEF Returned, vars
  <2>2. outcome' \in {"none", "ok", "error"}
    BY <2>1, <1>a DEF TypeOK
  <2> QED
    BY <2>1, <2>2, <1>a
<1>5. ASSUME StartChild PROVE EngineTypeOK'
  <2>1. /\ pc[Engine] = "start" /\ Running /\ at' = "proc"
        /\ UNCHANGED <<file, artifact, outcome>>
    BY <1>5, <1>a DEF StartChild, Start
  <2> QED
    <3>1. CASE procs' = procs
      BY <3>1, <2>1, <1>5, <1>a DEF StartChild
    <3>2. CASE procs' # procs
      <4>1. ranOn' = <<artifact.mode, file>>
        BY <3>2, <1>5 DEF StartChild
      <4>2. artifact.mode \in Modes \ {"disabled"} /\ file \in Artifacts
        BY <2>1, <1>a, ProcEnginesAssumption DEF CallOK
      <4> QED
        BY <4>1, <4>2, <2>1, <1>a
    <3> QED
      BY <3>1, <3>2
<1>6. ASSUME MainCalls PROVE EngineTypeOK'
  BY <1>6, <1>a DEF MainCalls, CallMain, Goto, engineVars
<1>7. ASSUME UNCHANGED engineVars, pc'[Engine] # "idle" => pc[Engine] # "idle"
      PROVE  EngineTypeOK'
  BY <1>7, <1>a DEF engineVars
<1>8. ASSUME ExitMain \/ Check \/ (\E g \in {Engine, Main} : StopLocked(g) \/ Reap(g))
             \/ (\E p \in Procs : Exit(p) \/ WaiterLock(p)) \/ UNCHANGED vars
      PROVE  pc'[Engine] # "idle" => pc[Engine] # "idle"
  BY <1>8, <1>a
     DEF ExitMain, Check, StopLocked, Reap, Stopped, Goto, Exit, WaiterLock, vars
<1> QED
  BY <1>1, <1>2, <1>3, <1>4, <1>5, <1>6, <1>7, <1>8 DEF EngineNext, engineAll

(* What Apply knows on its way. *)
LEMMA CallNext == ASSUME EnginesInv, [EngineNext]_engineAll PROVE CallOK'
<1>a. /\ EngineTypeOK /\ TypeOK /\ SignalOK /\ CallOK
      /\ Engine # Main /\ DOMAIN pc = {Engine, Main} /\ Nil \notin Procs
      /\ pc[Engine] # "idle" => at = "proc"
  BY ProcConstants DEF EnginesInv, EngineTypeOK, TypeOK, ProcInv
<1>1. ASSUME NEW a \in Artifacts, EngineApply(a) PROVE CallOK'
  BY <1>1, <1>a DEF EngineApply, vars, CallOK
<1>2. ASSUME WriteConfig PROVE CallOK'
  BY <1>2, <1>a DEF WriteConfig, vars, CallOK
<1>3. ASSUME Call PROVE CallOK'
  <2>1. /\ at = "call" /\ at' = "proc" /\ pc'[Engine] = "stop"
        /\ goal' = IF artifact.mode = "disabled" THEN "stop" ELSE "restart"
        /\ UNCHANGED <<file, artifact>>
    BY <1>3, <1>a DEF Call, CallEngine, Goto
  <2> QED
    BY <2>1, <1>a DEF CallOK
<1>4. ASSUME Returned PROVE CallOK'
  BY <1>4, <1>a DEF Returned, vars, CallOK, MineRuns
<1>5. ASSUME StartChild PROVE CallOK'
  <2>1. /\ pc[Engine] = "start" /\ at = "proc" /\ goal = "restart"
        /\ artifact.mode # "disabled" /\ file = artifact
        /\ UNCHANGED <<file, artifact, at, goal>>
    BY <1>5, <1>a DEF StartChild, Start, CallOK
  <2>2. CASE /\ pc'[Engine] = "idle" /\ result' = "error"
    BY <2>1, <2>2 DEF CallOK
  <2>3. CASE \E p \in Procs :
                /\ procs[p] = "unborn" /\ procs' = [procs EXCEPT ![p] = "up"]
                /\ cmd' = p /\ mine' = p /\ pc'[Engine] = "sleep"
    <3>1. PICK p \in Procs :
                /\ procs[p] = "unborn" /\ procs' = [procs EXCEPT ![p] = "up"]
                /\ cmd' = p /\ mine' = p /\ pc'[Engine] = "sleep"
      BY <2>3
    <3>2. procs' # procs
      BY <3>1, <1>a DEF TypeOK
    <3>3. MineRuns'
      BY <1>5, <2>1, <3>1, <3>2 DEF StartChild, MineRuns
    <3> QED
      BY <2>1, <3>1, <3>3 DEF CallOK
  <2> QED
    BY <1>5, <1>a, <2>2, <2>3 DEF StartChild, Start, Goto
<1>6. ASSUME MainCalls PROVE CallOK'
  <2>1. /\ pc'[Main] = "stop" /\ pc'[Engine] = pc[Engine]
        /\ UNCHANGED <<file, artifact, at, goal>>
    BY <1>6, <1>a DEF MainCalls, CallMain, Goto, engineVars
  <2> QED
    BY <2>1, <1>a DEF CallOK
<1>7. ASSUME UNCHANGED engineVars, ExitMain PROVE CallOK'
  BY <1>7, <1>a DEF engineVars, ExitMain, CallOK
<1>8. ASSUME UNCHANGED engineVars, Check PROVE CallOK'
  <2>1. /\ pc[Engine] = "sleep" /\ at = "proc" /\ goal = "restart"
        /\ artifact.mode # "disabled" /\ pc'[Engine] = "idle"
        /\ pc'[Main] = pc[Main]
        /\ UNCHANGED <<file, artifact, at, goal, cmd, mine, logged, ranOn>>
    BY <1>8, <1>a DEF engineVars, Check, Goto, CallOK
  <2>2. MineRuns => MineRuns'
    BY <2>1 DEF MineRuns
  <2> QED
    BY <2>1, <2>2, <1>a DEF CallOK
<1>9. ASSUME UNCHANGED engineVars, StopLocked(Engine) \/ Reap(Engine) PROVE CallOK'
  <2>1. /\ pc[Engine] \in {"stop", "reap"} /\ at = "proc" /\ cmd' = Nil
        /\ \/ pc'[Engine] = "start" /\ goal = "restart"
           \/ pc'[Engine] = "idle" /\ goal # "restart"
           \/ pc'[Engine] = "reap"
        /\ UNCHANGED <<file, artifact, at, goal>>
    BY <1>9, <1>a DEF engineVars, StopLocked, Reap, Stopped, Goto, SignalOK
  <2> QED
    BY <2>1, <1>a DEF CallOK
<1>10. ASSUME UNCHANGED engineVars, StopLocked(Main) \/ Reap(Main) PROVE CallOK'
  <2>1. /\ pc'[Main] # "idle" /\ pc'[Engine] = pc[Engine]
        /\ UNCHANGED <<file, artifact, at, goal>>
    BY <1>10, <1>a DEF engineVars, StopLocked, Reap, Stopped, Goto
  <2> QED
    BY <2>1, <1>a DEF CallOK
<1>11. ASSUME UNCHANGED engineVars,
              UNCHANGED vars \/ \E p \in Procs : Exit(p) \/ WaiterLock(p)
       PROVE  CallOK'
  <2>1. UNCHANGED <<file, artifact, at, goal, outcome, result, pc, mine, ranOn>>
    BY <1>11 DEF engineVars, vars, Exit, WaiterLock
  <2>2. /\ MineRuns => MineRuns'
        /\ cmd = Nil => cmd' = Nil
    BY <1>11, <2>1, <1>a DEF MineRuns, vars, Exit, WaiterLock
  <2> QED
    BY <2>1, <2>2, <1>a DEF CallOK
<1> QED
  BY <1>1, <1>2, <1>3, <1>4, <1>5, <1>6, <1>7, <1>8, <1>9, <1>10, <1>11
     DEF EngineNext, engineAll

-----------------------------------------------------------------------------
(* The invariant of suricata.go, vector.go and process.go: who holds the   *)
(* lock, how generations are bounded, which signal is waited for, and what *)
(* the Apply under way has done so far.                                    *)
THEOREM EnginesInvCorrect == EngineSpec => []EnginesInv
<1>1. EngineInit => EnginesInv
  <2> SUFFICES ASSUME EngineInit PROVE EnginesInv
    OBVIOUS
  <2>1. ProcInv /\ TypeOK
    BY ProcStart DEF EngineInit, ProcInv
  <2>2. EngineTypeOK
    BY <2>1, ProcConstants DEF EngineInit, Init, EngineTypeOK
  <2>3. CallOK
    BY ProcConstants DEF EngineInit, Init, CallOK
  <2> QED
    BY <2>1, <2>2, <2>3 DEF EnginesInv
<1>2. EnginesInv /\ [EngineNext]_engineAll => EnginesInv'
  <2> SUFFICES ASSUME EnginesInv, [EngineNext]_engineAll PROVE EnginesInv'
    OBVIOUS
  <2>1. ProcInv' /\ TypeOK'
    BY EngineStepIsProcStep, ProcNext DEF EnginesInv, ProcInv
  <2> QED
    BY <2>1, EngineTypeNext, CallNext DEF EnginesInv
<1> QED
  BY <1>1, <1>2, PTL DEF EngineSpec

(* Types: generations do not outgrow two per process, and the goroutine of *)
(* the engine is in the process manager only within an Apply.              *)
THEOREM EngineTypeCorrect == EngineSpec => []EngineTypeOK
<1>1. EnginesInv => EngineTypeOK
  BY DEF EnginesInv
<1> QED
  BY <1>1, EnginesInvCorrect, PTL

(* At most one child is alive that was not sent SIGKILL, and an            *)
(* unsignalled one is the current child.                                   *)
THEOREM OneUnkilledCorrect == EngineSpec => []OneUnkilled
<1>1. EnginesInv => OneUnkilled
  BY DEF EnginesInv, ProcInv
<1> QED
  BY <1>1, EnginesInvCorrect, PTL

(* A child that was told to stop is never reported as having exited        *)
(* unexpectedly.                                                           *)
THEOREM NoFalseAlarmCorrect == EngineSpec => []NoFalseAlarm
<1>1. EnginesInv => NoFalseAlarm
  BY DEF EnginesInv, ProcInv
<1> QED
  BY <1>1, EnginesInvCorrect, PTL

(* After a graceful stop of the daemon no child is left to run.            *)
THEOREM NoOrphanCorrect == EngineSpec => []NoOrphan
<1>1. EnginesInv => NoOrphan
  BY DEF EnginesInv, ProcInv, GracefulOK, NoOrphan
<1> QED
  BY <1>1, EnginesInvCorrect, PTL

(* After an Apply that succeeded only a child of its own, in its mode and  *)
(* on its configuration, runs unsignalled, or its death was reported.      *)
THEOREM AppliedRunsCorrect == EngineSpec => []AppliedRuns
<1>1. EnginesInv => AppliedRuns
  BY ProcConstants
     DEF EnginesInv, ProcInv, CallOK, OneUnkilled, Running, MineRuns, AppliedRuns
<1> QED
  BY <1>1, EnginesInvCorrect, PTL
=============================================================================
