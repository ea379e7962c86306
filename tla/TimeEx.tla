------------------------------- MODULE TimeEx -------------------------------
(***************************************************************************)
(* time_utility/time_ex.cpp: run a command Warmups + Runs times, one child *)
(* at a time, average what the good runs cost, and let SIGINT end the      *)
(* series early.  Three kinds of actors interleave: the main thread, the   *)
(* child it has forked last, and whoever sends SIGINT.                     *)
(*                                                                         *)
(* vfork() suspends the parent and shares its memory with the child until  *)
(* the child execs: the child's `_pid = 0' is seen by the parent, and so   *)
(* is a flag raised by the handler when the signal hits the child first.   *)
(***************************************************************************)
EXTENDS Integers, FiniteSets

CONSTANTS
    Warmups,      \* -w, num_warmaps
    Runs,         \* -r, num_runs
    Flush,        \* -f, flush
    Cost,         \* CPU time one execution of the command takes
    MaxSignals    \* bound: how many SIGINTs the environment sends

ASSUME TimeExAssumption ==
    /\ Warmups \in Nat
    /\ Runs \in Nat
    /\ Flush \in BOOLEAN
    /\ Cost \in Nat
    /\ MaxSignals \in Nat

Child == 1 .. (Warmups + Runs)    \* pids, in the order of the forks

VARIABLES
    pc,            \* where the main thread is
    phase,         \* which of the two loops it executes
    i,             \* the loop's counter
    ret,           \* what do_exec returned last: 0, or anything else
    _pid,          \* the global the handler reads; 0 when it names no child
    _should_exit,  \* the global the handler writes
    actual_runs,
    total_umsec,   \* user and system time are summed alike; one stands for both
    exit_status,
    child,         \* the processes forked so far and to come
    forks,         \* how many have been forked; the last pid the kernel gave
    ru_children,   \* CPU time of every child reaped so far, RUSAGE_CHILDREN
    pending,       \* a SIGINT is pending for the main thread
    signals        \* how many SIGINTs have been sent

main == <<pc, phase, i, ret, actual_runs, total_umsec, exit_status>>
globals == <<_pid, _should_exit>>
kernel == <<child, forks, ru_children, pending, signals>>
vars == <<main, globals, kernel>>

-----------------------------------------------------------------------------
(* The kernel's view of a child: "vforked" before its own store to _pid,    *)
(* "stored" after it, "execed" once it has left the shared memory.          *)
ChildState == {"unborn", "vforked", "stored", "execed", "zombie", "reaped"}
Process == [st : ChildState, code : {"none", "zero", "nonzero", "signaled"}, sig : BOOLEAN]

Forked == {c \in Child : child[c].st # "unborn"}
Unreaped == {c \in Forked : child[c].st # "reaped"}
Alive == {c \in Forked : child[c].st \in {"vforked", "stored", "execed"}}

\* kill(p, SIGINT): what it does to a child that runs the command.
Kill(ch, p) == IF p \in Child /\ ch[p].st = "execed" THEN [ch EXCEPT ![p].sig = TRUE] ELSE ch

\* Mutant: the loops go on to their limit inclusive.
LimitInclusive == IF phase = "warmup" THEN Warmups ELSE Runs + 1

Limit == IF phase = "warmup" THEN Warmups ELSE Runs

Init ==
    /\ pc = "loop" /\ phase = "warmup" /\ i = 0 /\ ret = 0
    /\ _pid = 0 /\ _should_exit = FALSE
    /\ actual_runs = 0 /\ total_umsec = 0 /\ exit_status = "none"
    /\ child = [c \in Child |-> [st |-> "unborn", code |-> "none", sig |-> FALSE]]
    /\ forks = 0 /\ ru_children = 0
    /\ pending = FALSE /\ signals = 0

-----------------------------------------------------------------------------
(* The main thread *)

\* The head of either loop; flushing is asked for in the timed one only.
NextRun ==
    /\ pc = "loop" /\ i < Limit
    /\ pc' = IF phase = "runs" /\ Flush THEN "flush" ELSE "fork"
    /\ UNCHANGED <<phase, i, ret, actual_runs, total_umsec, exit_status, globals, kernel>>

\* Mutant: both loops share a counter, which is not reset between them.
EndWarmupKeepsCounter ==
    /\ pc = "loop" /\ i >= Limit /\ phase = "warmup"
    /\ phase' = "runs"
    /\ UNCHANGED <<pc, i, ret, actual_runs, total_umsec, exit_status, globals, kernel>>

EndWarmup ==
    /\ pc = "loop" /\ i >= Limit /\ phase = "warmup"
    /\ phase' = "runs" /\ i' = 0
    /\ UNCHANGED <<pc, ret, actual_runs, total_umsec, exit_status, globals, kernel>>

Exit(status) == pc' = "exit" /\ exit_status' = status

EndRuns ==
    /\ pc = "loop" /\ i >= Limit /\ phase = "runs"
    /\ Exit("success")
    /\ UNCHANGED <<phase, i, ret, actual_runs, total_umsec, globals, kernel>>

\* Mutant: a flush that failed is tried again.
FlushDiskCacheRetried ==
    /\ pc = "flush" /\ pc' \in {"fork", "loop"}
    /\ UNCHANGED <<phase, i, ret, actual_runs, total_umsec, exit_status, globals, kernel>>

FlushDiskCache ==
    /\ pc = "flush"
    /\ \/ pc' = "fork" /\ UNCHANGED exit_status
       \/ Exit("failure")        \* /proc/sys/vm/drop_caches needs root
    /\ UNCHANGED <<phase, i, ret, actual_runs, total_umsec, globals, kernel>>

Vfork ==
    /\ pc = "fork"
    /\ pc' = "vfork"
    /\ forks' = forks + 1
    /\ child' = [child EXCEPT ![forks'].st = "vforked"]
    /\ UNCHANGED <<phase, i, ret, actual_runs, total_umsec, exit_status, globals, ru_children,
                   pending, signals>>

VforkFails ==
    /\ pc = "fork"
    /\ _pid' = -1 /\ Exit("failure")
    /\ UNCHANGED <<phase, i, ret, actual_runs, total_umsec, _should_exit, kernel>>

\* vfork has returned in the parent; only this step makes the child known.
StorePid ==
    /\ pc = "assign"
    /\ pc' = "wait" /\ _pid' = forks
    /\ UNCHANGED <<phase, i, ret, actual_runs, total_umsec, exit_status, _should_exit, kernel>>

\* The call of waitpid: from here on a signal interrupts it.
EnterWaitpid ==
    /\ pc = "wait"
    /\ pc' = "waitpid"
    /\ UNCHANGED <<phase, i, ret, actual_runs, total_umsec, exit_status, globals, kernel>>

Reap ==
    /\ pc = "waitpid" /\ child[_pid].st = "zombie"
    /\ pc' = "check"
    /\ ret' = CASE child[_pid].code = "zero" -> 0
                [] child[_pid].code = "nonzero" -> 1
                [] OTHER -> -1
    /\ child' = [child EXCEPT ![_pid].st = "reaped"]
    /\ ru_children' = ru_children + Cost
    /\ UNCHANGED <<phase, i, actual_runs, total_umsec, exit_status, globals, forks, pending, signals>>

\* Mutant: interrupted warm-ups leave by way of the statistics.
AfterWarmupReports ==
    /\ pc = "check" /\ phase = "warmup"
    /\ IF _should_exit THEN Exit("success") /\ UNCHANGED i
                       ELSE pc' = "loop" /\ i' = i + 1 /\ UNCHANGED exit_status
    /\ UNCHANGED <<phase, ret, actual_runs, total_umsec, globals, kernel>>

AfterWarmup ==
    /\ pc = "check" /\ phase = "warmup"
    /\ IF _should_exit THEN Exit("failure") /\ UNCHANGED i
                       ELSE pc' = "loop" /\ i' = i + 1 /\ UNCHANGED exit_status
    /\ UNCHANGED <<phase, ret, actual_runs, total_umsec, globals, kernel>>

\* Mutant: every run that was not interrupted is recorded.
RecordRunThatEnded ==
    IF ret # -1 THEN /\ actual_runs' = actual_runs + 1
                     /\ total_umsec' = total_umsec + ru_children
                ELSE UNCHANGED <<actual_runs, total_umsec>>

\* getrusage is read, and its figures added, for a run that ended with zero.
RecordRun ==
    IF ret = 0 THEN /\ actual_runs' = actual_runs + 1
                    /\ total_umsec' = total_umsec + ru_children
               ELSE UNCHANGED <<actual_runs, total_umsec>>

\* Mutant: the flag is not looked at in the timed loop.
AfterRunGoesOn ==
    /\ pc = "check" /\ phase = "runs"
    /\ RecordRun
    /\ pc' = "loop" /\ i' = i + 1
    /\ UNCHANGED <<phase, ret, exit_status, globals, kernel>>

AfterRun ==
    /\ pc = "check" /\ phase = "runs"
    /\ RecordRun
    /\ IF _should_exit THEN Exit("success") /\ UNCHANGED i
                       ELSE pc' = "loop" /\ i' = i + 1 /\ UNCHANGED exit_status
    /\ UNCHANGED <<phase, ret, globals, kernel>>

-----------------------------------------------------------------------------
(* The child *)

ChildStore ==
    /\ \E c \in Child : /\ child[c].st = "vforked"
                        /\ child' = [child EXCEPT ![c].st = "stored"]
    /\ _pid' = 0
    /\ UNCHANGED <<main, _should_exit, forks, ru_children, pending, signals>>

\* execve (or exit, when it or freopen failed) lets the parent go on.
Execve ==
    /\ \E c \in Child :
          /\ child[c].st = "stored"
          /\ \/ child' = [child EXCEPT ![c].st = "execed"]
             \/ child' = [child EXCEPT ![c].st = "zombie", ![c].code = "nonzero"]
    /\ pc' = "assign"
    /\ UNCHANGED <<phase, i, ret, actual_runs, total_umsec, exit_status, globals, forks, ru_children, pending, signals>>

\* The command ends; one that got SIGINT may die of it, handle it or ignore it.
ChildExit ==
    /\ \E c \in Child, code \in {"zero", "nonzero", "signaled"} :
          /\ child[c].st = "execed"
          /\ code = "signaled" => child[c].sig
          /\ child' = [child EXCEPT ![c].st = "zombie", ![c].code = code]
    /\ UNCHANGED <<main, globals, forks, ru_children, pending, signals>>

-----------------------------------------------------------------------------
(* SIGINT *)

\* From kill: time_ex alone gets the signal.
SignalProcess ==
    /\ signals < MaxSignals /\ pc # "exit"
    /\ signals' = signals + 1 /\ pending' = TRUE
    /\ UNCHANGED <<main, globals, child, forks, ru_children>>

\* From the terminal: the whole foreground group gets it.  A child that has
\* not exec'ed yet still has time_ex's handler, and its memory.
SignalGroup ==
    /\ signals < MaxSignals /\ pc # "exit"
    /\ signals' = signals + 1 /\ pending' = TRUE
    /\ _should_exit' = (_should_exit \/ \E c \in Child : child[c].st \in {"vforked", "stored"})
    /\ child' = [c \in Child |-> Kill(child, c)[c]]
    /\ UNCHANGED <<main, _pid, forks, ru_children>>

\* sigint_handler in the main thread, between any two of its steps, but not
\* while vfork suspends it.  SA_RESTART is not set: waitpid returns EINTR and
\* do_exec -1.
Handler ==
    /\ pending /\ pc \notin {"vfork", "exit"}
    /\ pending' = FALSE
    /\ _should_exit' = TRUE
    /\ child' = Kill(child, _pid)
    /\ IF pc = "waitpid" THEN pc' = "check" /\ ret' = -1 ELSE UNCHANGED <<pc, ret>>
    /\ UNCHANGED <<phase, i, actual_runs, total_umsec, exit_status, _pid, forks, ru_children, signals>>

-----------------------------------------------------------------------------
Terminated == pc = "exit" /\ Alive = {} /\ UNCHANGED vars

Main == \/ NextRun \/ EndWarmup \/ EndRuns \/ FlushDiskCache \/ Vfork \/ VforkFails
        \/ StorePid \/ EnterWaitpid \/ Reap \/ AfterWarmup \/ AfterRun
Command == ChildStore \/ Execve \/ ChildExit
Next == Main \/ Command \/ SignalProcess \/ SignalGroup \/ Handler \/ Terminated

\* The scheduler runs every process; a pending signal is delivered; the
\* measured command ends by itself.
Fairness == WF_vars(Main) /\ WF_vars(Command) /\ WF_vars(Handler)
Spec == Init /\ [][Next]_vars /\ Fairness

-----------------------------------------------------------------------------
(* Properties *)

\* Every variable keeps its type; the kernel never gives out an unknown pid.
TypeOK ==
    /\ pc \in {"loop", "flush", "fork", "vfork", "assign", "wait", "waitpid", "check", "exit"}
    /\ phase \in {"warmup", "runs"}
    /\ i \in Nat /\ ret \in {-1, 0, 1} /\ actual_runs \in Nat /\ total_umsec \in Nat
    /\ exit_status \in {"none", "success", "failure"}
    /\ _pid \in Child \union {-1, 0} /\ _should_exit \in BOOLEAN
    /\ child \in [Child -> Process]
    /\ forks \in 0 .. (Warmups + Runs) /\ ru_children \in Nat
    /\ pending \in BOOLEAN /\ signals \in 0 .. MaxSignals

\* Two executions of the measured command never overlap: whatever waitpid
\* returned for the last child, the next one is forked only when no earlier
\* child is left running or unreaped (do_exec 90-94 against the loop's exits).
OneChild == \A c, d \in Unreaped : c = d

\* actual_runs is the number of timed runs, no warm-up among them, that were
\* reaped with exit code zero; an interrupted or failed run is never counted.
CountedRuns ==
    pc # "check" =>
        actual_runs = Cardinality({c \in Forked : /\ c > Warmups
                                                  /\ child[c].st = "reaped"
                                                  /\ child[c].code = "zero"})

\* Statistics are printed either for the whole series, with nothing left
\* behind, or after a SIGINT, with at most the last, timed, child still alive.
CleanEnd ==
    exit_status = "success" =>
        /\ ~ _should_exit => forks = Warmups + Runs /\ Unreaped = {}
        /\ \A c \in Unreaped : c = forks /\ c > Warmups

\* What time_ex promises of its series of runs, whatever the signals, vfork and
\* waitpid do in between: see module Series.
Promise == INSTANCE Series
    WITH started <- forks,
         running <- pc \in {"vfork", "assign", "wait", "waitpid", "check"},
         counted <- actual_runs,
         interrupted <- _should_exit,
         ended <- exit_status
SeriesSpec == Promise!Spec

\* If the command always ends, time_ex ends: no order of SIGINT, vfork,
\* waitpid and the child's exit leaves it waiting.
SeriesEnds == <>(pc = "exit")

\* time_ex.cpp:112 says the handler raises the flag and passes the signal to
\* a running child.
PassedToRunningChild ==
    [][Handler => \A c \in Alive : child'[c].sig]_vars

\* time_ex.cpp:208 says that a run that ended with zero is the one recorded:
\* the mean printed should be what such a run costs.
MeanOfRecordedRuns == exit_status = "success" => total_umsec = Cost * actual_runs
=============================================================================
