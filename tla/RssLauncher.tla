----------------------------- MODULE RssLauncher -----------------------------
(***************************************************************************)
(* bin/rss_launcher.py: a thread starts a JVM and drains its output; the   *)
(* main thread spins until there is a pid, then samples /proc/<pid>/status *)
(* until the file is gone, joins the thread and prints the samples.        *)
(*                                                                         *)
(* A pid outlives nobody: the kernel may give it to another process as     *)
(* soon as the JVM is reaped.  `life' counts who has had it; 0 is the JVM. *)
(***************************************************************************)
EXTENDS Integers

CONSTANTS
    Java,        \* what args[0] may name: "good", "unusable" (Popen raises), "missing"
    Output,      \* blocks the JVM writes to each of its pipes
    Capacity,    \* blocks a pipe holds
    MaxReuse,    \* bound: how often the pid is given to somebody else
    MaxSignals   \* bound: how many SIGINTs are sent

Pipe == {"stdout", "stderr"}

ASSUME RssLauncherAssumption ==
    /\ Java \subseteq {"good", "unusable", "missing"}
    /\ Output \in [Pipe -> Nat]
    /\ Capacity \in Nat \ {0}
    /\ MaxReuse \in Nat /\ MaxSignals \in Nat

VARIABLES
    java,
    pc, opened,     \* the main thread, and whose status file it has open
    results,        \* the kinds of its samples: "jvm", "other", or "none", without RssAnon
    outcome,
    thread, p,      \* the thread, and whether it has set self.p
    life, st,       \* who has the pid, and in what state
    left, pipe,     \* blocks to be written, and those in the pipes
    signals

main == <<pc, opened, results, outcome>>
run == <<thread, p>>
proc == <<life, st, left, pipe>>
vars == <<java, main, run, proc, signals>>

JvmRuns == life = 0 /\ st = "running"
JvmReaped == life > 0 \/ st = "free"

Init ==
    /\ java \in Java
    /\ pc = "start" /\ opened = 0 /\ results = {} /\ outcome = "none"
    /\ thread = "new" /\ p = FALSE
    /\ life = 0 /\ st = "unborn" /\ left = Output /\ pipe = [s \in Pipe |-> 0]
    /\ signals = 0

-----------------------------------------------------------------------------
(* The main thread *)

\* main's handler prints the exception; all samples are lost.
Raise == pc' = "shutdown" /\ outcome' = "failed"

Start ==
    /\ pc = "start"
    /\ IF java = "missing" THEN Raise /\ UNCHANGED thread     \* os.path.isfile
                           ELSE pc' = "spin" /\ thread' = "popen" /\ UNCHANGED outcome
    /\ UNCHANGED <<java, opened, results, p, proc, signals>>

\* wait_for_pid: the loop burns its time until the other thread has stored p.
Spin == pc = "spin" /\ ~ p /\ UNCHANGED vars

WaitForPid ==
    /\ pc = "spin" /\ p
    /\ pc' = "open"
    /\ UNCHANGED <<java, opened, results, outcome, run, proc, signals>>

\* Only a status that is not there ends the loop.
OpenStatus ==
    /\ pc = "open"
    /\ IF st = "free" THEN pc' = "join" /\ UNCHANGED opened
                      ELSE pc' = "read" /\ opened' = life
    /\ UNCHANGED <<java, results, outcome, run, proc, signals>>

\* A zombie and a kernel thread have a status without the line RssAnon.
Sample == IF st # "running" THEN {"none"} ELSE IF life = 0 THEN {"jvm"} ELSE {"other", "none"}

\* Mutant: a status without RssAnon is taken for the end.
ReadStatusUntilNone ==
    /\ pc = "read"
    /\ IF st = "free" \/ life # opened
       THEN Raise /\ UNCHANGED results
       ELSE \E s \in Sample : /\ results' = results \union ({s} \ {"none"})
                              /\ pc' = IF s = "none" THEN "join" ELSE "sleep"
                              /\ UNCHANGED outcome
    /\ UNCHANGED <<java, opened, run, proc, signals>>

\* The file stays tied to the process it was opened for: once that has been
\* reaped read gives ESRCH, which is no FileNotFoundError.
ReadStatus ==
    /\ pc = "read"
    /\ IF st = "free" \/ life # opened
       THEN Raise /\ UNCHANGED results
       ELSE \E s \in Sample : /\ results' = results \union {s}
                              /\ pc' = "sleep" /\ UNCHANGED outcome
    /\ UNCHANGED <<java, opened, run, proc, signals>>

Sleep ==
    /\ pc = "sleep"
    /\ pc' = "open"
    /\ UNCHANGED <<java, opened, results, outcome, run, proc, signals>>

\* Mutant: the thread is not joined.
JoinForgotten ==
    /\ pc = "join"
    /\ pc' = "report"
    /\ UNCHANGED <<java, opened, results, outcome, run, proc, signals>>

Join ==
    /\ pc = "join" /\ thread \in {"done", "dead"}
    /\ pc' = "report"
    /\ UNCHANGED <<java, opened, results, outcome, run, proc, signals>>

\* `No results taken', or int(None) half-way through the table.
Report ==
    /\ pc = "report"
    /\ IF results = {} \/ "none" \in results
       THEN Raise
       ELSE pc' = "shutdown" /\ outcome' = "ok"
    /\ UNCHANGED <<java, opened, results, run, proc, signals>>

\* Mutant: the thread is a daemon.
ShutdownAtOnce ==
    /\ pc = "shutdown"
    /\ pc' = "exited"
    /\ UNCHANGED <<java, opened, results, outcome, run, proc, signals>>

\* The interpreter waits for a thread that was started, whatever ended main.
Shutdown ==
    /\ pc = "shutdown" /\ thread \in {"new", "done", "dead"}
    /\ pc' = "exited"
    /\ UNCHANGED <<java, opened, results, outcome, run, proc, signals>>

\* signal_handler: sys.exit, from wherever main is.  Ctrl-C hits the JVM, too.
Interrupt ==
    /\ signals < MaxSignals /\ pc \notin {"shutdown", "exited"}
    /\ signals' = signals + 1
    /\ pc' = "shutdown" /\ outcome' = "interrupted"
    /\ \/ UNCHANGED <<st, left>>
       \/ JvmRuns /\ st' = "zombie" /\ left' = [s \in Pipe |-> 0]
    /\ UNCHANGED <<java, opened, results, run, life, pipe>>

-----------------------------------------------------------------------------
(* The thread: RunJava.run *)

Popen ==
    /\ thread = "popen"
    /\ IF java = "good" THEN thread' = "store" /\ st' = "running"
                        ELSE thread' = "dead" /\ UNCHANGED st
    /\ UNCHANGED <<java, main, p, life, left, pipe, signals>>

StoreP ==
    /\ thread = "store"
    /\ thread' = "communicate" /\ p' = TRUE
    /\ UNCHANGED <<java, main, proc, signals>>

\* Mutant: wait() comes before the pipes are read.
DrainAfterWait(s) ==
    /\ thread = "communicate" /\ pipe[s] > 0 /\ ~ JvmRuns
    /\ pipe' = [pipe EXCEPT ![s] = @ - 1]
    /\ UNCHANGED <<java, main, run, life, st, left, signals>>

\* Mutant: a pipe is read without looking whether it has something.
DrainUnready(s) ==
    /\ thread = "communicate"
    /\ pipe' = [pipe EXCEPT ![s] = @ - 1]
    /\ UNCHANGED <<java, main, run, life, st, left, signals>>

\* communicate reads whichever pipe has something ...
Drain(s) ==
    /\ thread = "communicate" /\ pipe[s] > 0
    /\ pipe' = [pipe EXCEPT ![s] = @ - 1]
    /\ UNCHANGED <<java, main, run, life, st, left, signals>>

\* ... and waits for the child when both are at their end.
Reap ==
    /\ thread = "communicate" /\ st = "zombie" /\ \A s \in Pipe : pipe[s] = 0
    /\ st' = "free" /\ thread' = "reaped"
    /\ UNCHANGED <<java, main, p, life, left, pipe, signals>>

RunReturns ==
    /\ thread = "reaped"
    /\ thread' = "done"
    /\ UNCHANGED <<java, main, p, proc, signals>>

-----------------------------------------------------------------------------
(* The JVM and the kernel *)

Write(s) ==
    /\ JvmRuns /\ left[s] > 0 /\ pipe[s] < Capacity
    /\ left' = [left EXCEPT ![s] = @ - 1] /\ pipe' = [pipe EXCEPT ![s] = @ + 1]
    /\ UNCHANGED <<java, main, run, life, st, signals>>

JvmEnds ==
    /\ JvmRuns /\ \A s \in Pipe : left[s] = 0
    /\ st' = "zombie"
    /\ UNCHANGED <<java, main, run, life, left, pipe, signals>>

ReusePid ==
    /\ st = "free" /\ life < MaxReuse
    /\ life' = life + 1 /\ st' = "running"
    /\ UNCHANGED <<java, main, run, left, pipe, signals>>

OtherEnds ==
    /\ life > 0
    /\ \/ st = "running" /\ st' = "zombie"
       \/ st = "zombie" /\ st' = "free"
    /\ UNCHANGED <<java, main, run, life, left, pipe, signals>>

-----------------------------------------------------------------------------
Main == Start \/ WaitForPid \/ OpenStatus \/ ReadStatus \/ Sleep \/ Join \/ Report \/ Shutdown
Thread == Popen \/ StoreP \/ (\E s \in Pipe : Drain(s)) \/ Reap \/ RunReturns
Jvm == (\E s \in Pipe : Write(s)) \/ JvmEnds
Terminated == pc = "exited" /\ UNCHANGED vars
Next == Main \/ Spin \/ Interrupt \/ Thread \/ Jvm \/ ReusePid \/ OtherEnds \/ Terminated

\* Both threads are scheduled; the benchmark ends once its output is taken, and
\* so does whoever has the pid after it.
Fairness == WF_vars(Main) /\ WF_vars(Thread) /\ WF_vars(Jvm) /\ WF_vars(OtherEnds)
Spec == Init /\ [][Next]_vars
FairSpec == Spec /\ Fairness

-----------------------------------------------------------------------------
(* Properties *)

\* Every variable keeps its type.
TypeOK ==
    /\ java \in Java
    /\ pc \in {"start", "spin", "open", "read", "sleep", "join", "report", "shutdown", "exited"}
    /\ opened \in 0 .. MaxReuse /\ results \subseteq {"jvm", "other", "none"}
    /\ outcome \in {"none", "ok", "failed", "interrupted"}
    /\ thread \in {"new", "popen", "store", "communicate", "reaped", "done", "dead"}
    /\ p \in BOOLEAN
    /\ life \in 0 .. MaxReuse /\ st \in {"unborn", "running", "zombie", "free"}
    /\ left \in [Pipe -> Nat] /\ pipe \in [Pipe -> 0 .. Capacity]
    /\ signals \in 0 .. MaxSignals

\* Sampling covers the JVM's whole life: unless it is interrupted, collect_status
\* returns (82) or raises no earlier than the thread has reaped the JVM (64).
SampledToTheEnd ==
    pc \in {"join", "report"} \/ outcome \in {"ok", "failed"} => st = "unborn" \/ JvmReaped

\* A table is printed in full (144) only when the thread has collected all that
\* the JVM wrote, and its figures are those of the JVM if the pid was not reused.
ReportIsOfTheJvm ==
    outcome = "ok" =>
        /\ thread = "done" /\ \A s \in Pipe : left[s] + pipe[s] = 0
        /\ results # {} /\ (life = 0 => results = {"jvm"})

\* The launcher never exits before its JVM: neither an error, nor a missing
\* sample, nor Ctrl-C leaves a JVM behind that nobody reads or waits for.
NothingLeftBehind == pc = "exited" => st = "unborn" \/ JvmReaped

\* Full pipes, reaping, sampling and a reused pid in any order let the launcher
\* end, but for a Popen that raised: then main spins on p (67).
Ends == <>(pc = "exited" \/ (pc = "spin" /\ thread = "dead"))
=============================================================================
