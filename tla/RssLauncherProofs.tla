-------------------------- MODULE RssLauncherProofs --------------------------
(***************************************************************************)
(* For any output, any capacity of the pipes and any number of signals and *)
(* of later owners of the pid: the launcher samples its JVM to the end,    *)
(* prints a table of nothing else, and leaves no JVM behind.               *)
(***************************************************************************)
EXTENDS RssLauncher, TLAPS

Over == pc \in {"shutdown", "exited"}
Sampling == pc \in {"open", "read", "sleep", "join", "report"}

\* Each state of the thread allows some states of the JVM.
Lives ==
    /\ thread \in {"new", "popen", "dead"} => life = 0 /\ st = "unborn"
    /\ thread \in {"store", "communicate"} => life = 0 /\ st \in {"running", "zombie"}
    /\ thread \in {"reaped", "done"} => JvmReaped /\ st # "unborn"

\* A JVM that has ended wrote all it had; one that is reaped has been read.
Drained ==
    /\ life = 0 /\ st = "zombie" => \A s \in Pipe : left[s] = 0
    /\ JvmReaped => \A s \in Pipe : left[s] = 0 /\ pipe[s] = 0

\* What main knows of the thread where it stands.
Where ==
    /\ pc = "start" => thread = "new"
    /\ pc \in {"spin"} \/ Sampling => thread # "new"
    /\ p => thread \in {"communicate", "reaped", "done"}
    /\ Sampling => p
    /\ pc = "report" => thread = "done"
    /\ pc = "exited" => thread \in {"new", "done", "dead"}
    /\ outcome # "none" => Over

\* Sampling stopped for a JVM that was reaped, or was never to be started.
Stopped ==
    /\ pc \in {"join", "report"} => JvmReaped
    /\ outcome \in {"ok", "failed"} => JvmReaped \/ (thread = "new" /\ Over)

\* The samples are of who had the pid.
Samples ==
    /\ opened <= life
    /\ life = 0 => "other" \notin results
    /\ outcome = "ok" => thread = "done" /\ results # {} /\ "none" \notin results

IInv == TypeOK /\ Lives /\ Drained /\ Where /\ Stopped /\ Samples

-----------------------------------------------------------------------------
LEMMA InitIInv == Init => IInv
<1> SUFFICES ASSUME Init PROVE IInv
  OBVIOUS
<1>1. TypeOK
  <2>1. MaxReuse \in Nat /\ MaxSignals \in Nat /\ Capacity \in Nat /\ left \in [Pipe -> Nat]
    BY RssLauncherAssumption DEF Init
  <2>2. 0 \in 0 .. Capacity
    BY <2>1
  <2>3. pipe \in [Pipe -> 0 .. Capacity]
    BY <2>2 DEF Init
  <2>4. opened \in 0 .. MaxReuse /\ life \in 0 .. MaxReuse /\ signals \in 0 .. MaxSignals
    BY <2>1 DEF Init
  <2> QED BY <2>1, <2>3, <2>4 DEF Init, TypeOK
<1>2. Lives /\ Drained /\ Where /\ Stopped /\ Samples
  BY DEF Init, Lives, Drained, Where, Stopped, Samples, Over, Sampling, JvmReaped
<1> QED BY <1>1, <1>2 DEF IInv

LEMMA MainStep == IInv /\ Main => IInv'
<1> SUFFICES ASSUME IInv, Main PROVE IInv'
  OBVIOUS
<1>0. TypeOK /\ Lives /\ Drained /\ Where /\ Stopped /\ Samples
  BY DEF IInv
<1> USE DEF run, proc, JvmReaped
<1>1. life' = life /\ st' = st /\ left' = left /\ pipe' = pipe /\ java' = java
      /\ p' = p /\ signals' = signals
  BY DEF Main, Start, WaitForPid, OpenStatus, ReadStatus, Sleep, Join, Report, Shutdown
<1>2. TypeOK'
  BY <1>0, <1>1 DEF Main, Start, WaitForPid, OpenStatus, ReadStatus, Sleep, Join, Report, Shutdown,
                    Raise, Sample, TypeOK
<1>3. Drained'
  BY <1>0, <1>1 DEF Drained
<1>4. CASE Start
  BY <1>0, <1>1, <1>2, <1>3, <1>4
     DEF Start, Raise, IInv, Lives, Where, Stopped, Samples, Over, Sampling
<1>5. CASE WaitForPid
  BY <1>0, <1>1, <1>2, <1>3, <1>5
     DEF WaitForPid, IInv, Lives, Where, Stopped, Samples, Over, Sampling
<1>6. CASE OpenStatus
  BY <1>0, <1>1, <1>2, <1>3, <1>6
     DEF OpenStatus, IInv, TypeOK, Lives, Where, Stopped, Samples, Over, Sampling
<1>7. CASE ReadStatus
  <2>1. CASE st = "free" \/ life # opened
    <3>1. JvmReaped
      BY <1>0, <2>1, RssLauncherAssumption DEF TypeOK, Samples
    <3> QED BY <1>0, <1>1, <1>2, <1>3, <1>7, <2>1, <3>1
               DEF ReadStatus, Raise, IInv, Lives, Where, Stopped, Samples, Over, Sampling
  <2>2. CASE ~ (st = "free" \/ life # opened)
    BY <1>0, <1>1, <1>2, <1>3, <1>7, <2>2
       DEF ReadStatus, Sample, IInv, Lives, Where, Stopped, Samples, Over, Sampling
  <2> QED BY <2>1, <2>2
<1>8. CASE Sleep
  BY <1>0, <1>1, <1>2, <1>3, <1>8
     DEF Sleep, IInv, Lives, Where, Stopped, Samples, Over, Sampling
<1>9. CASE Join
  BY <1>0, <1>1, <1>2, <1>3, <1>9
     DEF Join, IInv, Lives, Where, Stopped, Samples, Over, Sampling
<1>10. CASE Report
  BY <1>0, <1>1, <1>2, <1>3, <1>10
     DEF Report, Raise, IInv, Lives, Where, Stopped, Samples, Over, Sampling
<1>11. CASE Shutdown
  BY <1>0, <1>1, <1>2, <1>3, <1>11
     DEF Shutdown, IInv, Lives, Where, Stopped, Samples, Over, Sampling
<1> QED BY <1>4, <1>5, <1>6, <1>7, <1>8, <1>9, <1>10, <1>11 DEF Main

LEMMA InterruptStep == IInv /\ Interrupt => IInv'
<1> SUFFICES ASSUME IInv, Interrupt PROVE IInv'
  OBVIOUS
<1>0. TypeOK /\ Lives /\ Drained /\ Where /\ Stopped /\ Samples
  BY DEF IInv
<1> USE DEF run, JvmReaped, JvmRuns
<1>1. TypeOK'
  BY <1>0, RssLauncherAssumption DEF Interrupt, TypeOK, Pipe
<1>2. Lives' /\ Drained'
  BY <1>0 DEF Interrupt, Lives, Drained, TypeOK
<1>3. Where' /\ Stopped' /\ Samples'
  BY <1>0 DEF Interrupt, Where, Stopped, Samples, Over, Sampling
<1> QED BY <1>1, <1>2, <1>3 DEF IInv

LEMMA ThreadStep == IInv /\ Thread => IInv'
<1> SUFFICES ASSUME IInv, Thread PROVE IInv'
  OBVIOUS
<1>0. TypeOK /\ Lives /\ Drained /\ Where /\ Stopped /\ Samples
  BY DEF IInv
<1> USE DEF main, run, proc, JvmReaped
<1>1. CASE Popen
  BY <1>0, <1>1 DEF Popen, IInv, TypeOK, Lives, Drained, Where, Stopped, Samples, Over, Sampling
<1>2. CASE StoreP
  BY <1>0, <1>2 DEF StoreP, IInv, TypeOK, Lives, Drained, Where, Stopped, Samples, Over, Sampling
<1>3. ASSUME NEW s \in Pipe, Drain(s) PROVE IInv'
  <2>1. pipe' \in [Pipe -> 0 .. Capacity]
    BY <1>0, <1>3, RssLauncherAssumption DEF Drain, TypeOK
  <2>2. Drained'
    BY <1>0, <1>3 DEF Drain, Drained, TypeOK
  <2> QED BY <1>0, <1>3, <2>1, <2>2
             DEF Drain, IInv, TypeOK, Lives, Where, Stopped, Samples, Over, Sampling
<1>4. CASE Reap
  BY <1>0, <1>4 DEF Reap, IInv, TypeOK, Lives, Drained, Where, Stopped, Samples, Over, Sampling
<1>5. CASE RunReturns
  BY <1>0, <1>5 DEF RunReturns, IInv, TypeOK, Lives, Drained, Where, Stopped, Samples, Over, Sampling
<1> QED BY <1>1, <1>2, <1>3, <1>4, <1>5 DEF Thread

LEMMA SystemStep == IInv /\ (Jvm \/ ReusePid \/ OtherEnds) => IInv'
<1> SUFFICES ASSUME IInv, Jvm \/ ReusePid \/ OtherEnds PROVE IInv'
  OBVIOUS
<1>0. TypeOK /\ Lives /\ Drained /\ Where /\ Stopped /\ Samples
  BY DEF IInv
<1> USE RssLauncherAssumption DEF main, run, JvmReaped, JvmRuns
<1>1. ASSUME NEW s \in Pipe, Write(s) PROVE IInv'
  <2>1. left' \in [Pipe -> Nat] /\ pipe' \in [Pipe -> 0 .. Capacity]
    BY <1>0, <1>1 DEF Write, TypeOK
  <2> QED BY <1>0, <1>1, <2>1
             DEF Write, IInv, TypeOK, Lives, Drained, Where, Stopped, Samples, Over, Sampling
<1>2. CASE JvmEnds
  BY <1>0, <1>2 DEF JvmEnds, IInv, TypeOK, Lives, Drained, Where, Stopped, Samples, Over, Sampling
<1>3. CASE ReusePid
  <2>1. life' > 0 /\ life' \in 0 .. MaxReuse /\ opened <= life' /\ JvmReaped
    BY <1>0, <1>3 DEF ReusePid, TypeOK, Samples
  <2> QED BY <1>0, <1>3, <2>1
             DEF ReusePid, IInv, TypeOK, Lives, Drained, Where, Stopped, Samples, Over, Sampling
<1>4. CASE OtherEnds
  BY <1>0, <1>4 DEF OtherEnds, IInv, TypeOK, Lives, Drained, Where, Stopped, Samples, Over, Sampling
<1> QED BY <1>1, <1>2, <1>3, <1>4 DEF Jvm

LEMMA StutterStep == IInv /\ UNCHANGED vars => IInv'
BY DEF IInv, TypeOK, Lives, Drained, Where, Stopped, Samples, Over, Sampling, JvmReaped,
       vars, main, run, proc

LEMMA Inductive == Spec => []IInv
<1>1. Init => IInv
  BY InitIInv
<1>2. IInv /\ [Next]_vars => IInv'
  BY MainStep, InterruptStep, ThreadStep, SystemStep, StutterStep DEF Next, Spin, Terminated
<1> QED BY <1>1, <1>2, PTL DEF Spec

-----------------------------------------------------------------------------
\* Every variable keeps its type; no more is read from a pipe than was written.
THEOREM TypeCorrect == Spec => []TypeOK
<1>1. IInv => TypeOK
  BY DEF IInv
<1> QED BY <1>1, Inductive, PTL

\* Unless it is interrupted, collect_status (70) stops no earlier than the
\* thread has reaped the JVM (64).
THEOREM SamplesToTheEnd == Spec => []SampledToTheEnd
<1>1. IInv => SampledToTheEnd
  BY DEF IInv, Lives, Where, Stopped, SampledToTheEnd
<1> QED BY <1>1, Inductive, PTL

\* A table that is printed (144) is about a JVM whose output has been collected
\* and, as long as its pid was not given away, about that JVM only.
THEOREM ReportsTheJvm == Spec => []ReportIsOfTheJvm
<1>1. IInv => ReportIsOfTheJvm
  <2> SUFFICES ASSUME IInv, outcome = "ok"
               PROVE  /\ thread = "done" /\ \A s \in Pipe : left[s] + pipe[s] = 0
                      /\ results # {} /\ (life = 0 => results = {"jvm"})
    BY DEF ReportIsOfTheJvm
  <2>1. thread = "done" /\ results # {} /\ (life = 0 => results = {"jvm"})
    BY DEF IInv, TypeOK, Samples
  <2>2. \A s \in Pipe : left[s] = 0 /\ pipe[s] = 0
    BY <2>1 DEF IInv, Lives, Drained
  <2> QED BY <2>1, <2>2
<1> QED BY <1>1, Inductive, PTL

\* When the launcher exits, its JVM was never started or has been waited for.
THEOREM LeavesNoJvm == Spec => []NothingLeftBehind
<1>1. IInv => NothingLeftBehind
  BY DEF IInv, Lives, Where, NothingLeftBehind
<1> QED BY <1>1, Inductive, PTL
=============================================================================
