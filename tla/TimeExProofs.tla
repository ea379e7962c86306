---------------------------- MODULE TimeExProofs ----------------------------
(***************************************************************************)
(* For any number of warm-ups, runs and signals: executions never overlap, *)
(* time_ex keeps the promise of module Series, counts the good runs, and   *)
(* ends as it should.                                                      *)
(***************************************************************************)
EXTENDS TimeEx, FiniteSetTheorems, TLAPS

PC == {"loop", "flush", "fork", "vfork", "assign", "wait", "waitpid", "check", "exit"}

\* do_exec is under way.
Running == pc \in {"vfork", "assign", "wait", "waitpid", "check"}

\* The forks are those of the completed iterations, and of the present one.
Base == IF phase = "warmup" THEN 0 ELSE Warmups
Progress ==
    /\ pc # "exit" => i <= Limit /\ forks = Base + i + (IF Running THEN 1 ELSE 0)
    /\ pc \notin {"loop", "exit"} => i < Limit
    /\ pc = "exit" <=> exit_status # "none"

\* Only the last child may be unreaped: while do_exec waits for it, or after it
\* was interrupted, and then the flag, which ends the series, is up.
Children ==
    /\ \A c \in Child : c > forks => child[c].st = "unborn"
    /\ \A c \in Child : c < forks => child[c].st = "reaped"
    /\ pc \in {"loop", "flush", "fork"} => \A c \in Child : c <= forks => child[c].st = "reaped"
    /\ pc = "check" /\ ~ _should_exit => child[forks].st = "reaped"
    /\ \A c \in Child : child[c].st \in {"vforked", "stored"} => c = forks /\ pc = "vfork"
    /\ pc \in {"wait", "waitpid"} => _pid = forks

IInv == TypeOK /\ Progress /\ Children

-----------------------------------------------------------------------------
\* A signal to a process changes no state of a process.
LEMMA KillKeepsStates ==
    ASSUME NEW ch \in [Child -> Process], NEW p
    PROVE  Kill(ch, p) \in [Child -> Process] /\ \A c \in Child : Kill(ch, p)[c].st = ch[c].st
<1>1. CASE p \in Child /\ ch[p].st = "execed"
  <2>1. Kill(ch, p) = [ch EXCEPT ![p].sig = TRUE]
    BY <1>1 DEF Kill
  <2>2. [ch[p] EXCEPT !.sig = TRUE] \in Process /\ [ch[p] EXCEPT !.sig = TRUE].st = ch[p].st
    BY <1>1 DEF Process
  <2> QED BY <1>1, <2>1, <2>2
<1>2. CASE ~ (p \in Child /\ ch[p].st = "execed")
  BY <1>2 DEF Kill
<1> QED BY <1>1, <1>2

LEMMA InitIInv == Init => IInv
<1> SUFFICES ASSUME Init PROVE IInv
  OBVIOUS
<1> USE TimeExAssumption DEF Init
<1>1. TypeOK
  <2>1. [st |-> "unborn", code |-> "none", sig |-> FALSE] \in Process
    BY DEF Process, ChildState
  <2>2. child \in [Child -> Process]
    BY <2>1
  <2>3. forks \in 0 .. (Warmups + Runs) /\ signals \in 0 .. MaxSignals /\ i \in Nat
        /\ actual_runs \in Nat /\ total_umsec \in Nat /\ ru_children \in Nat
        /\ ret \in {-1, 0, 1} /\ _pid \in Child \union {-1, 0}
    OBVIOUS
  <2> QED BY <2>2, <2>3 DEF TypeOK
<1>2. Progress
  BY DEF Progress, Limit, Base, Running
<1>3. Children
  BY DEF Children, Child
<1> QED BY <1>1, <1>2, <1>3 DEF IInv

\* Steps of the main thread that leave globals and processes as they are.
LEMMA LocalStep ==
    ASSUME IInv, UNCHANGED <<globals, kernel>>, pc' \in PC, pc' # "vfork", pc # "vfork",
           phase' \in {"warmup", "runs"}, i' \in Nat, ret' \in {-1, 0, 1},
           actual_runs' \in Nat, total_umsec' \in Nat,
           exit_status' \in {"none", "success", "failure"},
           pc' \in {"loop", "flush", "fork"} => \A c \in Child : c <= forks => child[c].st = "reaped",
           pc' \in {"wait", "waitpid"} => _pid = forks,
           pc' = "check" => FALSE,
           Progress'
    PROVE  IInv'
<1>1. TypeOK'
  BY DEF IInv, TypeOK, globals, kernel, PC
<1>2. Children'
  BY DEF IInv, Children, globals, kernel
<1> QED BY <1>1, <1>2 DEF IInv

\* Every child of a completed do_exec whose flag is down has been reaped.
LEMMA AllReaped ==
    ASSUME IInv, pc = "check", ~ _should_exit
    PROVE  \A c \in Child : c <= forks => child[c].st = "reaped"
<1> SUFFICES ASSUME NEW c \in Child, c <= forks PROVE child[c].st = "reaped"
  OBVIOUS
<1>1. c < forks \/ c = forks
  BY TimeExAssumption DEF IInv, TypeOK, Child
<1> QED BY <1>1 DEF IInv, Children

LEMMA MainStep == IInv /\ Main => IInv'
<1> SUFFICES ASSUME IInv, Main PROVE IInv'
  OBVIOUS
<1>0. TypeOK /\ Progress /\ Children
  BY DEF IInv
<1> USE TimeExAssumption
<1>1. CASE NextRun
  <2>1. Progress'
    BY <1>0, <1>1 DEF NextRun, Progress, Limit, Base, Running, globals, kernel, TypeOK
  <2> QED BY <1>0, <1>1, <2>1, LocalStep DEF NextRun, PC, TypeOK, Children
<1>2. CASE EndWarmup
  <2>1. Progress'
    BY <1>0, <1>2 DEF EndWarmup, Progress, Limit, Base, Running, globals, kernel, TypeOK
  <2> QED BY <1>0, <1>2, <2>1, LocalStep DEF EndWarmup, PC, TypeOK, Children
<1>3. CASE EndRuns
  <2>1. Progress'
    BY <1>0, <1>3 DEF EndRuns, Exit, Progress, Limit, Base, Running, globals, kernel, TypeOK
  <2> QED BY <1>0, <1>3, <2>1, LocalStep DEF EndRuns, Exit, PC, TypeOK, Children
<1>4. CASE FlushDiskCache
  <2>1. Progress'
    BY <1>0, <1>4 DEF FlushDiskCache, Exit, Progress, Limit, Base, Running, globals, kernel, TypeOK
  <2> QED BY <1>0, <1>4, <2>1, LocalStep DEF FlushDiskCache, Exit, PC, TypeOK, Children
<1>5. CASE Vfork
  <2>1. /\ forks' = forks + 1 /\ forks' \in Child /\ forks' \in 0 .. (Warmups + Runs)
        /\ \A c \in Child : c < forks' => c <= forks
        /\ \A c \in Child : c > forks' => c > forks
    <3>1. forks' = forks + 1 /\ forks \in Nat /\ Warmups \in Nat /\ Runs \in Nat /\ i \in Nat
      BY <1>0, <1>5 DEF Vfork, TypeOK
    <3>2. forks < Warmups + Runs
      <4>1. i < Limit /\ forks = Base + i
        <5>1. Base \in Nat
          BY <3>1 DEF Base
        <5> QED BY <1>0, <1>5, <3>1, <5>1 DEF Vfork, Progress, Running
      <4>2. CASE phase = "warmup"
        BY <3>1, <4>1, <4>2 DEF Limit, Base
      <4>3. CASE phase # "warmup"
        BY <3>1, <4>1, <4>3 DEF Limit, Base
      <4> QED BY <4>2, <4>3
    <3> QED BY <3>1, <3>2 DEF Child
  <2>2. [child[forks'] EXCEPT !.st = "vforked"] \in Process
    BY <1>0, <2>1 DEF TypeOK, Process, ChildState
  <2>3. child' = [child EXCEPT ![forks'] = [child[forks'] EXCEPT !.st = "vforked"]]
    BY <1>5 DEF Vfork
  <2>4. TypeOK'
    BY <1>0, <1>5, <2>1, <2>2, <2>3 DEF Vfork, TypeOK, globals
  <2>5. Progress'
    BY <1>0, <1>5 DEF Vfork, Progress, Limit, Base, Running, TypeOK
  <2>6. \A c \in Child : child'[c].st = IF c = forks' THEN "vforked" ELSE child[c].st
    BY <1>0, <2>1, <2>3 DEF TypeOK, Process
  <2>7. pc = "fork" /\ pc' = "vfork"
    BY <1>5 DEF Vfork
  <2>8. Children'
    BY <1>0, <2>1, <2>6, <2>7 DEF Children, Child, TypeOK
  <2> QED BY <2>4, <2>5, <2>8 DEF IInv
<1>6. CASE VforkFails
  <2>1. TypeOK'
    <3>1. _pid' \in Child \union {-1, 0}
      BY <1>6 DEF VforkFails
    <3> QED BY <1>0, <1>6, <3>1 DEF VforkFails, Exit, TypeOK, kernel
  <2>2. Progress'
    BY <1>0, <1>6 DEF VforkFails, Exit, Progress, Limit, Base, Running, kernel
  <2>3. Children'
    BY <1>0, <1>6 DEF VforkFails, Exit, Children, kernel
  <2> QED BY <2>1, <2>2, <2>3 DEF IInv
<1>7. CASE StorePid
  <2>1. forks \in Child
    BY <1>0, <1>7 DEF StorePid, Progress, Limit, Base, Running, Child, TypeOK
  <2>2. TypeOK'
    BY <1>0, <1>7, <2>1 DEF StorePid, TypeOK, kernel
  <2>3. Progress'
    BY <1>0, <1>7 DEF StorePid, Progress, Limit, Base, Running, kernel
  <2>4. Children'
    BY <1>0, <1>7 DEF StorePid, Children, kernel
  <2> QED BY <2>2, <2>3, <2>4 DEF IInv
<1>8. CASE EnterWaitpid
  <2>1. Progress'
    BY <1>0, <1>8 DEF EnterWaitpid, Progress, Limit, Base, Running, globals, kernel
  <2> QED BY <1>0, <1>8, <2>1, LocalStep DEF EnterWaitpid, PC, TypeOK, Children
<1>9. CASE Reap
  <2>1. _pid = forks /\ forks \in Child
    BY <1>0, <1>9 DEF Reap, Children, Progress, Limit, Base, Running, Child, TypeOK
  <2>2. [child[forks] EXCEPT !.st = "reaped"] \in Process
    BY <1>0, <2>1 DEF TypeOK, Process, ChildState
  <2>3. child' = [child EXCEPT ![forks] = [child[forks] EXCEPT !.st = "reaped"]]
    BY <1>9, <2>1 DEF Reap
  <2>4. ru_children' \in Nat /\ ret' \in {-1, 0, 1}
    BY <1>0, <1>9 DEF Reap, TypeOK
  <2>5. TypeOK'
    BY <1>0, <1>9, <2>2, <2>3, <2>4 DEF Reap, TypeOK, globals
  <2>6. Progress'
    BY <1>0, <1>9 DEF Reap, Progress, Limit, Base, Running
  <2>7. \A c \in Child : child'[c].st = IF c = forks THEN "reaped" ELSE child[c].st
    BY <1>0, <2>1, <2>3 DEF TypeOK, Process
  <2>8. pc = "waitpid" /\ pc' = "check" /\ forks' = forks
    BY <1>9 DEF Reap
  <2>9. Children'
    BY <1>0, <2>1, <2>7, <2>8 DEF Children
  <2> QED BY <2>5, <2>6, <2>9 DEF IInv
<1>10. CASE AfterWarmup
  <2>1. Progress'
    BY <1>0, <1>10 DEF AfterWarmup, Exit, Progress, Limit, Base, Running, globals, kernel, TypeOK
  <2>2. CASE _should_exit
    BY <1>0, <1>10, <2>1, <2>2, LocalStep DEF AfterWarmup, Exit, PC, TypeOK
  <2>3. CASE ~ _should_exit
    <3>1. i' \in Nat /\ pc' = "loop"
      BY <1>0, <1>10, <2>3 DEF AfterWarmup, TypeOK
    <3> QED BY <1>0, <1>10, <2>1, <2>3, <3>1, AllReaped, LocalStep DEF AfterWarmup, PC, TypeOK
  <2> QED BY <2>2, <2>3
<1>11. CASE AfterRun
  <2>1. Progress'
    BY <1>0, <1>11 DEF AfterRun, Exit, Progress, Limit, Base, Running, globals, kernel, TypeOK
  <2>2. actual_runs' \in Nat /\ total_umsec' \in Nat
    BY <1>0, <1>11 DEF AfterRun, RecordRun, TypeOK
  <2>3. CASE _should_exit
    BY <1>0, <1>11, <2>1, <2>2, <2>3, LocalStep DEF AfterRun, Exit, PC, TypeOK
  <2>4. CASE ~ _should_exit
    <3>1. i' \in Nat /\ pc' = "loop"
      BY <1>0, <1>11, <2>4 DEF AfterRun, TypeOK
    <3> QED BY <1>0, <1>11, <2>1, <2>2, <2>4, <3>1, AllReaped, LocalStep DEF AfterRun, PC, TypeOK
  <2> QED BY <2>3, <2>4
<1> QED BY <1>1, <1>2, <1>3, <1>4, <1>5, <1>6, <1>7, <1>8, <1>9, <1>10, <1>11 DEF Main

LEMMA CommandStep == IInv /\ Command => IInv'
<1> SUFFICES ASSUME IInv, Command PROVE IInv'
  OBVIOUS
<1>0. TypeOK /\ Progress /\ Children
  BY DEF IInv
<1> USE TimeExAssumption
<1>1. CASE ChildStore
  <2>1. PICK c \in Child : child[c].st = "vforked" /\ child' = [child EXCEPT ![c].st = "stored"]
    BY <1>1 DEF ChildStore
  <2>2. c = forks /\ pc = "vfork" /\ pc' = pc /\ forks' = forks
    BY <1>0, <1>1, <2>1 DEF ChildStore, Children, main
  <2>3. child' \in [Child -> Process]
    BY <1>0, <2>1 DEF TypeOK, Process, ChildState
  <2>4. TypeOK'
    BY <1>0, <1>1, <2>3 DEF ChildStore, TypeOK, main
  <2>5. Progress'
    BY <1>0, <1>1 DEF ChildStore, Progress, Limit, Base, Running, main
  <2>6. \A d \in Child : child'[d].st = IF d = c THEN "stored" ELSE child[d].st
    BY <1>0, <2>1 DEF TypeOK, Process
  <2>7. Children'
    BY <1>0, <2>2, <2>6 DEF Children, Child, TypeOK
  <2> QED BY <2>4, <2>5, <2>7 DEF IInv
<1>2. CASE Execve
  <2>1. PICK c \in Child :
          /\ child[c].st = "stored"
          /\ \/ child' = [child EXCEPT ![c].st = "execed"]
             \/ child' = [child EXCEPT ![c].st = "zombie", ![c].code = "nonzero"]
    BY <1>2 DEF Execve
  <2>2. c = forks /\ pc = "vfork" /\ pc' = "assign" /\ forks' = forks
    BY <1>0, <1>2, <2>1 DEF Execve, Children
  <2>3. child' \in [Child -> Process]
    BY <1>0, <2>1 DEF TypeOK, Process, ChildState
  <2>4. TypeOK'
    BY <1>0, <1>2, <2>3 DEF Execve, TypeOK, globals
  <2>5. Progress'
    BY <1>0, <1>2, <2>2 DEF Execve, Progress, Limit, Base, Running
  <2>6. \A d \in Child : /\ d # c => child'[d].st = child[d].st
                        /\ child'[c].st \in {"execed", "zombie"}
    BY <1>0, <2>1 DEF TypeOK, Process
  <2>7. Children'
    BY <1>0, <2>2, <2>6 DEF Children, Child, TypeOK
  <2> QED BY <2>4, <2>5, <2>7 DEF IInv
<1>3. CASE ChildExit
  <2>1. PICK c \in Child, code \in {"zero", "nonzero", "signaled"} :
          /\ child[c].st = "execed"
          /\ child' = [child EXCEPT ![c].st = "zombie", ![c].code = code]
    BY <1>3 DEF ChildExit
  <2>2. child' \in [Child -> Process]
    BY <1>0, <2>1 DEF TypeOK, Process, ChildState
  <2>3. UNCHANGED <<pc, phase, i, ret, actual_runs, total_umsec, exit_status, _pid, _should_exit,
                    forks, ru_children, pending, signals>>
    BY <1>3 DEF ChildExit, main, globals
  <2>4. TypeOK'
    BY <1>0, <2>2, <2>3 DEF TypeOK
  <2>5. Progress'
    BY <1>0, <2>3 DEF Progress, Limit, Base, Running
  <2>6. \A d \in Child : child'[d].st = IF d = c THEN "zombie" ELSE child[d].st
    BY <1>0, <2>1 DEF TypeOK, Process
  <2>7. \A d \in Child : child[d].st \in {"unborn", "reaped"} => child'[d].st = child[d].st
    BY <2>1, <2>6
  <2>8. pc = "check" /\ ~ _should_exit => child'[forks].st = "reaped"
    <3> SUFFICES ASSUME pc = "check", ~ _should_exit PROVE child'[forks].st = "reaped"
      OBVIOUS
    <3>1. forks \in Child
      BY <1>0 DEF Progress, Limit, Base, Running, Child, TypeOK
    <3> QED BY <1>0, <2>7, <3>1 DEF Children
  <2>9. Children'
    BY <1>0, <2>3, <2>6, <2>7, <2>8 DEF Children
  <2> QED BY <2>4, <2>5, <2>9 DEF IInv
<1> QED BY <1>1, <1>2, <1>3 DEF Command

\* SIGINT raises the flag, leaves traces in processes, and ends a wait.
LEMMA SignalStep ==
    ASSUME IInv, UNCHANGED <<phase, i, actual_runs, total_umsec, exit_status, _pid, forks, ru_children>>,
           child' \in [Child -> Process], \A c \in Child : child'[c].st = child[c].st,
           pc # "exit",
           \/ UNCHANGED <<pc, ret>>
           \/ pc = "waitpid" /\ pc' = "check" /\ ret' = -1 /\ _should_exit',
           _should_exit' \in BOOLEAN, _should_exit => _should_exit',
           pending' \in BOOLEAN, signals' \in 0 .. MaxSignals
    PROVE  IInv'
<1>0. TypeOK /\ Progress /\ Children
  BY DEF IInv
<1>1. TypeOK'
  BY <1>0 DEF TypeOK
<1>2. Progress'
  BY <1>0 DEF Progress, Limit, Base, Running
<1>3. pc' = "check" /\ ~ _should_exit' => child'[forks].st = "reaped"
  <2> SUFFICES ASSUME pc' = "check", ~ _should_exit' PROVE child'[forks].st = "reaped"
    OBVIOUS
  <2>1. pc = "check" /\ ~ _should_exit
    OBVIOUS
  <2>2. forks \in Child
    BY <1>0, <2>1, TimeExAssumption DEF Progress, Limit, Base, Running, Child, TypeOK
  <2> QED BY <1>0, <2>1, <2>2 DEF Children
<1>4. Children'
  BY <1>0, <1>3 DEF Children
<1> QED BY <1>1, <1>2, <1>4 DEF IInv

LEMMA NextIInv == IInv /\ [Next]_vars => IInv'
<1> SUFFICES ASSUME IInv, [Next]_vars PROVE IInv'
  OBVIOUS
<1>0. TypeOK
  BY DEF IInv
<1>1. CASE Main
  BY <1>1, MainStep
<1>2. CASE Command
  BY <1>2, CommandStep
<1>3. CASE SignalProcess
  <2>1. signals' \in 0 .. MaxSignals
    BY <1>0, <1>3, TimeExAssumption DEF SignalProcess, TypeOK
  <2> QED BY <1>0, <1>3, <2>1, SignalStep DEF SignalProcess, TypeOK, main, globals
<1>4. CASE SignalGroup
  <2>1. signals' \in 0 .. MaxSignals
    BY <1>0, <1>4, TimeExAssumption DEF SignalGroup, TypeOK
  <2>2. \A c \in Child : Kill(child, c)[c] \in Process /\ Kill(child, c)[c].st = child[c].st
    BY <1>0, KillKeepsStates DEF TypeOK
  <2>3. child' \in [Child -> Process] /\ \A c \in Child : child'[c].st = child[c].st
    BY <1>4, <2>2 DEF SignalGroup
  <2>4. _should_exit' \in BOOLEAN /\ (_should_exit => _should_exit')
    BY <1>4 DEF SignalGroup
  <2> QED BY <1>4, <2>1, <2>3, <2>4, SignalStep DEF SignalGroup, main
<1>5. CASE Handler
  <2>1. child' \in [Child -> Process] /\ \A c \in Child : child'[c].st = child[c].st
    BY <1>0, <1>5, KillKeepsStates DEF Handler, TypeOK
  <2> QED BY <1>0, <1>5, <2>1, SignalStep DEF Handler, TypeOK
<1>6. CASE Terminated \/ UNCHANGED vars
  BY <1>6 DEF Terminated, vars, main, globals, kernel, IInv, TypeOK, Progress, Children,
              Limit, Base, Running
<1> QED BY <1>1, <1>2, <1>3, <1>4, <1>5, <1>6 DEF Next

LEMMA Invariance == Spec => []IInv
<1> QED BY InitIInv, NextIInv, PTL DEF Spec

-----------------------------------------------------------------------------
\* Every variable keeps its type; pids handed out are pids of children.
THEOREM TypeCorrect == Spec => []TypeOK
<1>1. IInv => TypeOK
  BY DEF IInv
<1> QED BY <1>1, Invariance, PTL

\* No two executions of the measured command overlap, however SIGINT meets
\* vfork, waitpid and the end of the child (do_exec, sigint_handler, main).
THEOREM NoOverlap == Spec => []OneChild
<1>1. IInv => OneChild
  <2> SUFFICES ASSUME IInv, NEW c \in Unreaped PROVE c = forks
    BY DEF OneChild
  <2>1. c \in Child /\ child[c].st \notin {"unborn", "reaped"}
    BY DEF Unreaped, Forked
  <2>2. c \in Int /\ forks \in Int /\ ~ (c < forks) /\ ~ (c > forks)
    BY <2>1, TimeExAssumption DEF IInv, Children, Child, TypeOK
  <2> QED BY <2>2
<1> QED BY <1>1, Invariance, PTL

-----------------------------------------------------------------------------
(* time_ex implements Series. *)

\* What Series sees of a state; a step that changes none of it stutters there.
Seen == <<forks, Running, actual_runs, _should_exit, exit_status>>

LEMMA SeenIsAll == UNCHANGED Seen => UNCHANGED Promise!vars
BY DEF Seen, Running, Promise!vars

LEMMA InitImplements == Init => Promise!Init
BY DEF Init, Promise!Init

LEMMA MainImplements == IInv /\ Main => [Promise!Next]_(Promise!vars)
<1> SUFFICES ASSUME IInv, Main PROVE [Promise!Next]_(Promise!vars)
  OBVIOUS
<1>0. TypeOK /\ Progress /\ Children
  BY DEF IInv
<1>a. forks \in Nat /\ i \in Nat /\ Warmups \in Nat /\ Runs \in Nat /\ Base \in Nat
  BY <1>0, TimeExAssumption DEF TypeOK, Base
<1> USE DEF globals, kernel
<1>1. CASE NextRun \/ EndWarmup \/ StorePid \/ EnterWaitpid \/ Reap
  <2>1. UNCHANGED Seen
    BY <1>1 DEF Seen, Running, NextRun, EndWarmup, StorePid, EnterWaitpid, Reap
  <2> QED BY <2>1, SeenIsAll
<1>2. CASE EndRuns
  <2>1. forks = Warmups + Runs
    <3>1. pc = "loop" /\ phase = "runs" /\ i = Runs
      BY <1>0, <1>2, TimeExAssumption DEF EndRuns, Progress, Limit, TypeOK
    <3> QED BY <1>0, <1>a, <3>1 DEF Progress, Base, Running
  <2>2. Promise!EndSeries
    BY <1>0, <1>2, <2>1 DEF EndRuns, Exit, Progress, Promise!EndSeries
  <2> QED BY <2>2 DEF Promise!Next
<1>3. ASSUME pc \in {"flush", "fork"} PROVE forks < Warmups + Runs
  <2>1. i < Limit /\ forks = Base + i
    BY <1>0, <1>3, <1>a DEF Progress, Running
  <2>2. CASE phase = "warmup"
    BY <1>a, <2>1, <2>2 DEF Limit, Base
  <2>3. CASE phase # "warmup"
    BY <1>a, <2>1, <2>3 DEF Limit, Base
  <2> QED BY <2>2, <2>3
<1>4. CASE FlushDiskCache
  <2>1. CASE pc' = "fork"
    <3>1. UNCHANGED Seen
      BY <1>4, <2>1 DEF FlushDiskCache, Exit, Seen, Running
    <3> QED BY <3>1, SeenIsAll
  <2>2. CASE pc' # "fork"
    <3>1. Promise!Fail
      BY <1>0, <1>3, <1>4, <2>2 DEF FlushDiskCache, Exit, Progress, Promise!Fail
    <3> QED BY <3>1 DEF Promise!Next
  <2> QED BY <2>1, <2>2
<1>5. CASE Vfork
  <2>1. Promise!StartRun
    BY <1>0, <1>3, <1>5 DEF Vfork, Progress, Promise!StartRun
  <2> QED BY <2>1 DEF Promise!Next
<1>6. CASE VforkFails
  <2>1. Promise!Fail
    BY <1>0, <1>3, <1>6 DEF VforkFails, Exit, Progress, Promise!Fail
  <2> QED BY <2>1 DEF Promise!Next
<1>7. ASSUME pc = "check" PROVE i < Limit /\ forks = Base + i + 1 /\ exit_status = "none"
  BY <1>0, <1>7 DEF Progress, Running
<1>8. CASE AfterWarmup
  <2>1. ~ (forks > Warmups)
    BY <1>7, <1>8, <1>a DEF AfterWarmup, Base, Limit
  <2>2. Promise!CompleteRun
    BY <1>7, <1>8, <2>1 DEF AfterWarmup, Exit, Promise!CompleteRun
  <2> QED BY <2>2 DEF Promise!Next
<1>9. CASE AfterRun
  <2>1. forks > Warmups
    BY <1>7, <1>9, <1>a DEF AfterRun, Base, Limit
  <2>2. actual_runs' \in {actual_runs, actual_runs + 1}
    BY <1>9 DEF AfterRun, RecordRun
  <2>3. Promise!CompleteRun
    BY <1>7, <1>9, <2>1, <2>2 DEF AfterRun, Exit, Promise!CompleteRun
  <2> QED BY <2>3 DEF Promise!Next
<1> QED BY <1>1, <1>2, <1>4, <1>5, <1>6, <1>8, <1>9 DEF Main

LEMMA NextImplements == IInv /\ [Next]_vars => [Promise!Next]_(Promise!vars)
<1> SUFFICES ASSUME IInv, [Next]_vars PROVE [Promise!Next]_(Promise!vars)
  OBVIOUS
<1>0. TypeOK /\ Progress /\ Children
  BY DEF IInv
<1>1. CASE Main
  BY <1>1, MainImplements
<1>2. CASE Command
  <2>1. CASE Execve
    <3>1. pc = "vfork" /\ pc' = "assign"
      BY <1>0, <2>1 DEF Execve, Children
    <3>2. UNCHANGED Seen
      BY <2>1, <3>1 DEF Execve, Seen, Running, globals
    <3> QED BY <3>2, SeenIsAll
  <2>2. CASE ChildStore \/ ChildExit
    <3>1. UNCHANGED Seen
      BY <2>2 DEF ChildStore, ChildExit, Seen, Running, main, globals
    <3> QED BY <3>1, SeenIsAll
  <2> QED BY <1>2, <2>1, <2>2 DEF Command
<1>3. CASE SignalProcess \/ Terminated \/ UNCHANGED vars
  <2>1. UNCHANGED Seen
    BY <1>3 DEF SignalProcess, Terminated, Seen, Running, vars, main, globals, kernel
  <2> QED BY <2>1, SeenIsAll
<1>4. ASSUME pc # "exit", UNCHANGED <<forks, Running, actual_runs, exit_status>>,
             _should_exit' \/ UNCHANGED _should_exit, _should_exit' \in BOOLEAN
      PROVE  [Promise!Next]_(Promise!vars)
  <2>1. CASE UNCHANGED _should_exit
    BY <1>4, <2>1, SeenIsAll DEF Seen
  <2>2. CASE _should_exit'
    <3>1. Promise!Interrupt
      BY <1>0, <1>4, <2>2 DEF Progress, Running, Promise!Interrupt
    <3> QED BY <3>1 DEF Promise!Next
  <2> QED BY <1>4, <2>1, <2>2
<1>5. CASE SignalGroup
  <2>1. _should_exit \in BOOLEAN
    BY <1>0 DEF TypeOK
  <2>2. (_should_exit' \/ UNCHANGED _should_exit) /\ _should_exit' \in BOOLEAN
    BY <1>5, <2>1 DEF SignalGroup
  <2> QED BY <1>4, <1>5, <2>2 DEF SignalGroup, Running, main
<1>6. CASE Handler
  <2>1. UNCHANGED Running
    BY <1>6 DEF Handler, Running
  <2> QED BY <1>4, <1>6, <2>1 DEF Handler
<1> QED BY <1>1, <1>2, <1>3, <1>5, <1>6 DEF Next

\* Each behaviour of time_ex is one of Series: no warm-up is counted, one run
\* is under way at a time, and the run during which, or after which, SIGINT is
\* noted is the last one.
THEOREM ImplementsSeries == Spec => SeriesSpec
<1> QED BY InitImplements, NextImplements, Invariance, PTL DEF Spec, SeriesSpec, Promise!Spec

-----------------------------------------------------------------------------
(* What is counted, and how it ends: the invariant is strengthened. *)

\* The runs that are to be counted.
Good == {c \in Child : c > Warmups /\ child[c].st = "reaped" /\ child[c].code = "zero"}

\* Until waitpid has returned, the last child is not reaped, hence not counted.
Waiting == pc \in {"vfork", "assign", "wait", "waitpid"} => child[forks].st # "reaped"

\* Between waitpid and RecordRun the last child may be good and not yet counted.
Recorded ==
    /\ pc # "check" => actual_runs = Cardinality(Good)
    /\ pc = "check" => /\ actual_runs = Cardinality(Good \ {forks})
                       /\ forks \in Good <=> phase = "runs" /\ ret = 0

\* Statistics are printed after all runs, or out of the timed loop.
Ended ==
    exit_status = "success" =>
        /\ ~ _should_exit => forks = Warmups + Runs /\ \A c \in Child : child[c].st = "reaped"
        /\ forks > Warmups \/ \A c \in Child : c <= forks => child[c].st = "reaped"

StatsInv == Waiting /\ Recorded /\ Ended

-----------------------------------------------------------------------------
LEMMA GoodFinite == IsFiniteSet(Good)
<1>1. Warmups + Runs \in Int
  BY TimeExAssumption
<1>2. IsFiniteSet(Child)
  BY <1>1, FS_Interval DEF Child
<1> QED BY <1>2, FS_Subset DEF Good

\* The child that is forked, run or waited for is one of the series.
LEMMA LastIsChild == IInv /\ Running => forks \in Child
BY TimeExAssumption DEF IInv, Progress, Limit, Base, Running, Child, TypeOK

LEMMA InitStats == Init => StatsInv
<1> SUFFICES ASSUME Init PROVE StatsInv
  OBVIOUS
<1>1. Good = {}
  BY DEF Init, Good
<1> QED BY <1>1, FS_EmptySet DEF Init, StatsInv, Waiting, Recorded, Ended

\* A step that neither reaps nor records.
LEMMA Uncounted ==
    ASSUME IInv, StatsInv, UNCHANGED <<forks, actual_runs>>,
           pc = "check" => UNCHANGED <<phase, ret>>,
           \A c \in Child : /\ child'[c].st = "reaped" <=> child[c].st = "reaped"
                            /\ child[c].st = "reaped" => child'[c].code = child[c].code,
           pc' = "check" <=> pc = "check",
           pc' \in {"vfork", "assign", "wait", "waitpid"}
               => pc \in {"vfork", "assign", "wait", "waitpid"}
    PROVE  Waiting' /\ Recorded'
<1>1. Good' = Good
  BY DEF Good
<1>2. Recorded'
  BY <1>1 DEF StatsInv, Recorded
<1>3. Waiting'
  BY LastIsChild DEF StatsInv, Waiting, Running
<1> QED BY <1>2, <1>3

LEMMA MainStats == IInv /\ IInv' /\ StatsInv /\ Main => Waiting' /\ Recorded'
<1> SUFFICES ASSUME IInv, IInv', StatsInv, Main PROVE Waiting' /\ Recorded'
  OBVIOUS
<1>0. TypeOK /\ Progress /\ Children /\ Waiting /\ Recorded
  BY DEF IInv, StatsInv
<1> USE DEF globals, kernel
<1>1. CASE \/ NextRun \/ EndWarmup \/ EndRuns \/ FlushDiskCache \/ VforkFails
           \/ StorePid \/ EnterWaitpid
  BY <1>1, Uncounted DEF NextRun, EndWarmup, EndRuns, FlushDiskCache, VforkFails, StorePid,
                         EnterWaitpid, Exit
<1>2. CASE Vfork
  <2>1. forks' = forks + 1 /\ forks \in Nat /\ pc = "fork" /\ pc' = "vfork"
    BY <1>0, <1>2 DEF Vfork, TypeOK
  <2>2. forks' \in Child
    BY <2>1, LastIsChild DEF IInv, Progress, Limit, Base, Running, TypeOK, Child
  <2>3. child[forks'].st = "unborn"
    BY <1>0, <2>1, <2>2 DEF Children
  <2>4. child' = [child EXCEPT ![forks'].st = "vforked"]
    BY <1>2 DEF Vfork
  <2>5. child'[forks'].st = "vforked" /\ \A c \in Child : c # forks' => child'[c] = child[c]
    BY <1>0, <2>2, <2>4 DEF TypeOK, Process
  <2>6. Good' = Good
    BY <2>3, <2>5 DEF Good
  <2> QED BY <1>0, <1>2, <2>1, <2>5, <2>6 DEF Vfork, Waiting, Recorded
<1>3. CASE Reap
  <2>1. forks \in Child /\ _pid = forks /\ forks' = forks /\ pc = "waitpid" /\ pc' = "check"
    BY <1>0, <1>3, LastIsChild DEF Reap, Children, Running
  <2>2. child' = [child EXCEPT ![forks].st = "reaped"]
    BY <1>3, <2>1 DEF Reap
  <2>3. /\ child'[forks].st = "reaped" /\ child'[forks].code = child[forks].code
        /\ \A c \in Child : c # forks => child'[c] = child[c]
    BY <1>0, <2>1, <2>2 DEF TypeOK, Process
  <2>4. forks \notin Good
    BY <1>0, <2>1 DEF Waiting, Good
  <2>5. Good' \ {forks'} = Good
    BY <2>1, <2>3, <2>4 DEF Good
  <2>6. ret' = 0 <=> child[forks].code = "zero"
    BY <1>3, <2>1 DEF Reap
  <2>7. forks > Warmups <=> phase = "runs"
    BY <1>0, <2>1, TimeExAssumption DEF Progress, Limit, Base, Running, TypeOK
  <2>8. forks' \in Good' <=> phase' = "runs" /\ ret' = 0
    BY <1>3, <2>1, <2>3, <2>6, <2>7 DEF Reap, Good
  <2> QED BY <1>0, <1>3, <2>1, <2>5, <2>8 DEF Reap, Waiting, Recorded
<1>4. CASE AfterWarmup
  <2>1. Good' = Good /\ pc = "check" /\ pc' \in {"loop", "exit"} /\ actual_runs' = actual_runs
    BY <1>4 DEF AfterWarmup, Exit, Good
  <2>2. forks \notin Good
    BY <1>0, <1>4 DEF AfterWarmup, Recorded
  <2>3. Good \ {forks} = Good
    BY <2>2
  <2> QED BY <1>0, <2>1, <2>3 DEF Waiting, Recorded
<1>5. CASE AfterRun
  <2>1. Good' = Good /\ pc = "check" /\ phase = "runs" /\ pc' \in {"loop", "exit"}
    BY <1>5 DEF AfterRun, Exit, Good
  <2>2. actual_runs = Cardinality(Good \ {forks}) /\ (forks \in Good <=> ret = 0)
    BY <1>0, <2>1 DEF Recorded
  <2>3. CASE ret = 0
    <3>1. Cardinality(Good \ {forks}) = Cardinality(Good) - 1
      BY <2>2, <2>3, GoodFinite, FS_RemoveElement
    <3>2. Cardinality(Good) \in Nat
      BY GoodFinite, FS_CardinalityType
    <3>3. actual_runs' = Cardinality(Good)
      BY <1>5, <2>2, <2>3, <3>1, <3>2 DEF AfterRun, RecordRun
    <3> QED BY <2>1, <3>3 DEF Waiting, Recorded
  <2>4. CASE ret # 0
    <3>1. Good \ {forks} = Good
      BY <2>2, <2>4
    <3>2. actual_runs' = actual_runs
      BY <1>5, <2>4 DEF AfterRun, RecordRun
    <3> QED BY <2>1, <2>2, <3>1, <3>2 DEF Waiting, Recorded
  <2> QED BY <2>3, <2>4
<1> QED BY <1>1, <1>2, <1>3, <1>4, <1>5 DEF Main

LEMMA CommandStats == IInv /\ StatsInv /\ Command => Waiting' /\ Recorded'
<1> SUFFICES ASSUME IInv, StatsInv, Command PROVE Waiting' /\ Recorded'
  OBVIOUS
<1>0. TypeOK /\ Children
  BY DEF IInv
<1>1. CASE ChildStore
  BY <1>0, <1>1, Uncounted DEF ChildStore, TypeOK, Process, main
<1>2. CASE Execve
  <2>1. pc = "vfork"
    BY <1>0, <1>2 DEF Execve, Children
  <2>2. PICK c \in Child :
          /\ child[c].st = "stored"
          /\ \/ child' = [child EXCEPT ![c].st = "execed"]
             \/ child' = [child EXCEPT ![c].st = "zombie", ![c].code = "nonzero"]
    BY <1>2 DEF Execve
  <2>3. \A d \in Child : /\ child'[d].st = "reaped" <=> child[d].st = "reaped"
                         /\ child[d].st = "reaped" => child'[d].code = child[d].code
    BY <1>0, <2>2 DEF TypeOK, Process
  <2> QED BY <1>2, <2>1, <2>3, Uncounted DEF Execve
<1>3. CASE ChildExit
  <2>1. PICK c \in Child, code \in {"zero", "nonzero", "signaled"} :
          /\ child[c].st = "execed"
          /\ child' = [child EXCEPT ![c].st = "zombie", ![c].code = code]
    BY <1>3 DEF ChildExit
  <2>2. \A d \in Child : /\ child'[d].st = "reaped" <=> child[d].st = "reaped"
                         /\ child[d].st = "reaped" => child'[d].code = child[d].code
    BY <1>0, <2>1 DEF TypeOK, Process
  <2> QED BY <1>3, <2>2, Uncounted DEF ChildExit, main
<1> QED BY <1>1, <1>2, <1>3 DEF Command

\* A signal leaves states and codes of children alone.
LEMMA KillKeepsCodes ==
    ASSUME NEW ch \in [Child -> Process], NEW p, NEW c \in Child
    PROVE  Kill(ch, p)[c].st = ch[c].st /\ Kill(ch, p)[c].code = ch[c].code
BY DEF Kill, Process

LEMMA SignalStats ==
    IInv /\ StatsInv /\ (SignalProcess \/ SignalGroup \/ Handler) => Waiting' /\ Recorded'
<1> SUFFICES ASSUME IInv, StatsInv, SignalProcess \/ SignalGroup \/ Handler
             PROVE  Waiting' /\ Recorded'
  OBVIOUS
<1>0. TypeOK /\ Waiting /\ Recorded
  BY DEF IInv, StatsInv
<1>1. \A c \in Child : child'[c].st = child[c].st /\ child'[c].code = child[c].code
  BY <1>0, KillKeepsCodes DEF SignalProcess, SignalGroup, Handler, TypeOK
<1>2. CASE SignalProcess \/ SignalGroup \/ (Handler /\ pc # "waitpid")
  BY <1>1, <1>2, Uncounted DEF SignalProcess, SignalGroup, Handler, main
<1>3. CASE Handler /\ pc = "waitpid"
  <2>1. /\ pc' = "check" /\ ret' = -1
        /\ UNCHANGED <<forks, actual_runs, phase>>
    BY <1>3 DEF Handler
  <2>2. Good' = Good
    BY <1>1 DEF Good
  <2>3. forks \notin Good
    BY <1>0, <1>3 DEF Waiting, Good
  <2>4. Good \ {forks} = Good
    BY <2>3
  <2> QED BY <1>0, <1>3, <2>1, <2>2, <2>3, <2>4 DEF Waiting, Recorded
<1> QED BY <1>2, <1>3

LEMMA EndStats == IInv /\ IInv' /\ StatsInv /\ Next => Ended'
<1> SUFFICES ASSUME IInv, IInv', StatsInv, Next, exit_status' = "success" PROVE Ended'
  BY DEF Ended
<1>0. TypeOK /\ Progress /\ Children /\ Ended
  BY DEF IInv, StatsInv
<1>a. forks \in Nat /\ Warmups \in Nat /\ Runs \in Nat /\ i \in Nat
      /\ \A c \in Child : c \in Nat /\ c <= Warmups + Runs
  BY <1>0, TimeExAssumption DEF TypeOK, Child
<1> USE DEF globals, kernel
<1>1. pc' = "exit"
  BY DEF IInv, Progress
<1>2. CASE pc = "exit"
  <2>1. exit_status = "success" /\ forks' = forks /\ _should_exit' = _should_exit
        /\ (ChildExit \/ child' = child)
    BY <1>0, <1>2 DEF Next, Main, NextRun, EndWarmup, EndRuns, FlushDiskCache, Vfork, VforkFails,
       StorePid, EnterWaitpid, Reap, AfterWarmup, AfterRun, Command, ChildStore, Execve, ChildExit,
       SignalProcess, SignalGroup, Handler, Terminated, vars, main, Children
  <2>2. \A c \in Child : child[c].st = "reaped" => child'[c].st = "reaped"
    BY <1>0, <2>1 DEF ChildExit, TypeOK, Process
  <2> QED BY <1>0, <2>1, <2>2 DEF Ended
<1>3. CASE pc # "exit"
  <2>1. exit_status = "none" /\ pc # pc' /\ exit_status # exit_status'
    BY <1>0, <1>1, <1>3 DEF Progress
  <2>2. EndRuns \/ AfterRun
    BY <2>1 DEF Next, Main, NextRun, EndWarmup, FlushDiskCache, Vfork, VforkFails,
       StorePid, EnterWaitpid, Reap, AfterWarmup, Exit, Command, ChildStore, Execve, ChildExit,
       SignalProcess, SignalGroup, Handler, Terminated, vars, main
  <2>3. CASE EndRuns
    <3>1. pc = "loop" /\ phase = "runs" /\ i = Runs
      BY <1>0, <1>a, <2>3 DEF EndRuns, Progress, Limit
    <3>2. forks = Warmups + Runs
      BY <1>0, <1>a, <3>1 DEF Progress, Base, Running
    <3>3. \A c \in Child : child[c].st = "reaped"
      BY <1>0, <1>a, <3>1, <3>2 DEF Children
    <3> QED BY <2>3, <3>2, <3>3 DEF EndRuns, Ended
  <2>4. CASE AfterRun
    <3>1. _should_exit /\ pc = "check" /\ phase = "runs"
      BY <1>1, <2>4 DEF AfterRun
    <3>2. forks > Warmups
      BY <1>0, <1>a, <3>1 DEF Progress, Base, Running
    <3> QED BY <2>4, <3>1, <3>2 DEF AfterRun, Ended
  <2> QED BY <2>2, <2>3, <2>4
<1> QED BY <1>2, <1>3

LEMMA NextStats == IInv /\ IInv' /\ StatsInv /\ [Next]_vars => StatsInv'
<1> SUFFICES ASSUME IInv, IInv', StatsInv, [Next]_vars PROVE StatsInv'
  OBVIOUS
<1>1. CASE Next
  <2>1. Ended'
    BY <1>1, EndStats
  <2>2. CASE Terminated
    BY <2>1, <2>2, Uncounted DEF Terminated, vars, main, kernel, StatsInv
  <2> QED BY <1>1, <2>1, <2>2, MainStats, CommandStats, SignalStats DEF Next, StatsInv
<1>2. CASE UNCHANGED vars
  BY <1>2 DEF vars, main, globals, kernel, StatsInv, Waiting, Recorded, Ended, Good
<1> QED BY <1>1, <1>2

LEMMA StatsInvariance == Spec => [](IInv /\ StatsInv)
<1>1. Init => IInv /\ StatsInv
  BY InitIInv, InitStats
<1>2. IInv /\ StatsInv /\ [Next]_vars => IInv' /\ StatsInv'
  BY NextIInv, NextStats
<1> QED BY <1>1, <1>2, PTL DEF Spec

-----------------------------------------------------------------------------
\* actual_runs, by which the times printed are divided, is the number of timed
\* runs that waitpid has returned with exit code zero.
THEOREM CountsGoodRuns == Spec => []CountedRuns
<1>1. IInv /\ StatsInv => CountedRuns
  <2>1. Good = {c \in Forked : /\ c > Warmups
                               /\ child[c].st = "reaped"
                               /\ child[c].code = "zero"}
    BY DEF Good, Forked
  <2> QED BY <2>1 DEF StatsInv, Recorded, CountedRuns
<1> QED BY <1>1, StatsInvariance, PTL

\* Statistics are printed for a complete series that left no child behind, or
\* after SIGINT, when at most the last timed child is alive.
THEOREM EndsClean == Spec => []CleanEnd
<1>1. IInv /\ StatsInv => CleanEnd
  <2> SUFFICES ASSUME IInv, StatsInv, exit_status = "success"
               PROVE  /\ ~ _should_exit => forks = Warmups + Runs /\ Unreaped = {}
                      /\ \A c \in Unreaped : c = forks /\ c > Warmups
    BY DEF CleanEnd
  <2>1. ~ _should_exit => forks = Warmups + Runs /\ Unreaped = {}
    BY DEF StatsInv, Ended, Unreaped, Forked
  <2>2. ASSUME NEW c \in Unreaped PROVE c = forks /\ c > Warmups
    <3>1. c \in Child /\ child[c].st \notin {"unborn", "reaped"}
      BY DEF Unreaped, Forked
    <3>2. c \in Int /\ forks \in Int /\ ~ (c < forks) /\ ~ (c > forks)
      BY <3>1, TimeExAssumption DEF IInv, Children, Child, TypeOK
    <3>3. c = forks /\ c <= forks
      BY <3>2
    <3> QED BY <3>1, <3>3 DEF StatsInv, Ended
  <2> QED BY <2>1, <2>2
<1> QED BY <1>1, StatsInvariance, PTL
=============================================================================
