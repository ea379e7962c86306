------------------------------- MODULE Dacapo -------------------------------
(***************************************************************************)
(* From a DaCapo run to a table: the harness calls PerfCallback.java       *)
(* around each iteration, that opens and reads counters of the kernel      *)
(* through perf_callback.c and prints to the run's log; dacapo_parser.py   *)
(* makes one row of each log in the directory, of whatever day.  A run may *)
(* be killed: its log ends early.                                          *)
(***************************************************************************)
EXTENDS Integers, SequencesExt

CONSTANTS
    Jvms,               \* the runs whose logs are in the directory, one after the other:
                        \* their benchmarks by alphabetical order, their lists of perf.event
    Iterations,         \* -n, theIterations
    Windows,            \* values of -window
    FdLimit             \* descriptors that a JVM may have open for counters

ASSUME DacapoAssumption ==
    /\ Jvms \in Seq([benchmark : Nat, events : Seq(Nat)]) /\ Jvms # <<>>
    /\ Iterations \in Nat \ {0} /\ Windows \subseteq Nat /\ FdLimit \in Nat

VARIABLES
    theWindow,
    pc, jvm,            \* the harness, and which JVM it is
    currentIteration, valid,
    perfFDs,            \* of the events of this iteration; -1 if perf_event_open failed
    refused,            \* history: the events for which it failed in this iteration
    kernel,             \* open counters: whether they count, and for how many iterations they have
    log,
    unread,             \* the logs that the parser has not read yet
    file, line, results,    \* the log it reads, how many lines it has read, and what it made of them
    data,               \* a result for each log that has one; they are sorted by benchmark
    sheet               \* the table it writes: the events of its header, and the counters of its rows

callback == <<currentIteration, valid, perfFDs, refused, kernel>>
parser == <<unread, file, line, results, data, sheet>>
vars == <<theWindow, pc, jvm, callback, log, parser>>

Events == Jvms[jvm].events
Event == DOMAIN Events

Init ==
    /\ \E w \in Windows : theWindow = Min({w, Iterations})
    /\ pc = "again" /\ jvm = 1
    /\ currentIteration = 0 /\ valid = TRUE
    /\ perfFDs = [i \in Event |-> -1] /\ refused = {} /\ kernel = <<>>
    /\ log = [b \in DOMAIN Jvms |-> <<>>]
    /\ unread = DOMAIN log /\ file = 1 /\ line = 0 /\ results = <<>>
    /\ data = [b \in {} |-> 0] /\ sheet = [header |-> <<>>, rows |-> data]

-----------------------------------------------------------------------------
(* The callback *)

iterIndex == currentIteration - 1
isWarmup == iterIndex < Iterations - theWindow
runAgain == currentIteration < Iterations

\* perf_event_open fails for any event and any reason: a right, an event or a
\* descriptor is missing.  A new counter is opened for each of the others.
Opens(opened) ==
    LET n == Cardinality(opened) IN
    /\ opened \subseteq Event /\ n <= FdLimit - Len(kernel)
    /\ refused' = Event \ opened
    /\ kernel' = kernel \o [i \in 1 .. n |-> [on |-> TRUE, count |-> 0]]

Fd(opened, i) == Len(kernel) + Cardinality({j \in opened : j <= i})

\* Mutant: an event that is refused keeps its last descriptor.
StartEventsKept ==
    \E opened \in SUBSET Event :
        /\ Opens(opened)
        /\ perfFDs' = [i \in Event |-> IF i \in opened THEN Fd(opened, i) ELSE perfFDs[i]]

\* The -1 of a failure is stored like a descriptor; nothing closes the old ones.
StartEvents ==
    \E opened \in SUBSET Event :
        /\ Opens(opened)
        /\ perfFDs' = [i \in Event |-> IF i \in opened THEN Fd(opened, i) ELSE -1]

Start ==
    /\ pc = "again" /\ runAgain
    /\ pc' = "run"
    /\ currentIteration' = currentIteration + 1
    /\ StartEvents
    /\ UNCHANGED <<theWindow, jvm, valid, log, parser>>

\* The benchmark: what counts, counts.
Iterate ==
    /\ pc = "run"
    /\ pc' = "complete" /\ valid' \in BOOLEAN
    /\ kernel' = [k \in DOMAIN kernel |->
                     [kernel[k] EXCEPT !.count = IF kernel[k].on THEN @ + 1 ELSE @]]
    /\ UNCHANGED <<theWindow, jvm, currentIteration, perfFDs, refused, log, parser>>

\* read fails on -1, and leaves 0.
Count(i) == IF perfFDs[i] = -1 THEN 0 ELSE kernel[perfFDs[i]].count

\* A line of the log, with what it does not tell: how the event was opened.
Ln(kind, event, value, open) ==
    [kind |-> kind, iter |-> currentIteration, event |-> event, value |-> value, open |-> open]

Passed == <<Ln("passed", 0, 0, "none")>>
Average == <<Ln("average", 0, 0, "none")>>
Opening(i) == IF i \in refused THEN "refused" ELSE "opened"
Counters == [i \in Event |-> Ln("counter", Events[i], Count(i), Opening(i))]

\* Mutant: the line that the parser looks for comes last.
StatFirst == IF isWarmup THEN Passed ELSE Average \o Counters \o Passed

\* The order of complete: PASSED, then the mean, then the counters.
Stat == IF isWarmup THEN Passed ELSE Passed \o Average \o Counters

Stop(k) == IF k \in Range(perfFDs) THEN [kernel[k] EXCEPT !.on = FALSE] ELSE kernel[k]

\* The counters of a warm-up, or of a failed iteration, are neither read nor stopped.
Complete ==
    /\ pc = "complete"
    /\ pc' = "again"
    /\ log' = IF valid THEN [log EXCEPT ![jvm] = @ \o Stat] ELSE log
    /\ kernel' = IF valid /\ ~ isWarmup THEN [k \in DOMAIN kernel |-> Stop(k)] ELSE kernel
    /\ UNCHANGED <<theWindow, jvm, currentIteration, valid, perfFDs, refused, parser>>

\* run_dacapo.sh: the next benchmark, or the next day's run, gets a JVM and a log
\* of its own.
NextJvm ==
    /\ IF jvm < Len(Jvms) THEN jvm' = jvm + 1 /\ pc' = "again"
                          ELSE pc' = "parse" /\ UNCHANGED jvm
    /\ currentIteration' = 0 /\ valid' = TRUE
    /\ perfFDs' = [i \in Event' |-> -1] /\ refused' = {} /\ kernel' = <<>>
    /\ UNCHANGED <<theWindow, parser>>

End == pc = "again" /\ ~ runAgain /\ NextJvm /\ UNCHANGED log

\* The JVM dies or is killed: any beginning of its output is in the log.
Killed ==
    /\ pc \in {"again", "run", "complete"}
    /\ \E n \in 0 .. Len(log[jvm]) : log' = [log EXCEPT ![jvm] = SubSeq(@, 1, n)]
    /\ NextJvm

-----------------------------------------------------------------------------
(* The parser *)

\* An entry of a dict: an old key keeps its place.
Set(counters, ln) ==
    LET new == [event |-> ln.event, iter |-> ln.iter]
        same(c) == c.event = ln.event
    IN IF \E c \in Range(counters) : same(c)
       THEN [k \in DOMAIN counters |-> IF same(counters[k]) THEN new ELSE counters[k]]
       ELSE Append(counters, new)

Iteration(ln) == [time_raw |-> ln.iter, time_avg |-> 0, counters |-> <<>>]

ExtractLine(ln) ==
    CASE ln.kind = "passed"  -> Append(results, Iteration(ln))
      [] ln.kind = "average" -> [results EXCEPT ![Len(results)].time_avg = ln.iter]
      [] ln.kind = "counter" -> [results EXCEPT ![Len(results)].counters = Set(@, ln)]

\* os.listdir: in any order.
OpenLog ==
    /\ pc = "parse"
    /\ file' \in unread /\ unread' = unread \ {file'}
    /\ pc' = "read" /\ line' = 0 /\ results' = <<>>
    /\ UNCHANGED <<theWindow, jvm, callback, log, data, sheet>>

\* results[-1] of an empty list raises, and ends it all.
ReadLine ==
    /\ pc = "read" /\ line < Len(log[file])
    /\ LET ln == log[file][line + 1]
       IN IF ln.kind # "passed" /\ results = <<>>
          THEN pc' = "raised" /\ UNCHANGED <<line, results>>
          ELSE line' = line + 1 /\ results' = ExtractLine(ln) /\ UNCHANGED pc
    /\ UNCHANGED <<theWindow, jvm, callback, log, unread, file, data, sheet>>

\* A log that has results gives its last one.
CloseLog ==
    /\ pc = "read" /\ line = Len(log[file])
    /\ pc' = "parse"
    /\ data' = IF results = <<>> THEN data
               ELSE [b \in DOMAIN data \union {file} |-> IF b = file THEN Last(results) ELSE data[b]]
    /\ UNCHANGED <<theWindow, jvm, callback, log, unread, file, line, results, sheet>>

Parsed ==
    /\ pc = "parse" /\ unread = {}
    /\ pc' = IF DOMAIN data = {} THEN "end" ELSE "write"
    /\ UNCHANGED <<theWindow, jvm, callback, log, parser>>

\* write_to_excel: the header is that of the first row, which is any log of the first
\* benchmark, the values are in each row's order.
WriteToExcel ==
    /\ pc = "write"
    /\ pc' = "end"
    /\ \E first \in DOMAIN data :
          /\ \A b \in DOMAIN data : Jvms[first].benchmark <= Jvms[b].benchmark
          /\ sheet' = [header |-> [i \in DOMAIN data[first].counters |-> data[first].counters[i].event],
                       rows |-> [b \in DOMAIN data |-> data[b].counters]]
    /\ UNCHANGED <<theWindow, jvm, callback, log, unread, file, line, results, data>>

-----------------------------------------------------------------------------
Terminated == pc \in {"end", "raised"} /\ UNCHANGED vars
Next == Start \/ Iterate \/ Complete \/ End \/ Killed
        \/ OpenLog \/ ReadLine \/ CloseLog \/ Parsed \/ WriteToExcel \/ Terminated
Spec == Init /\ [][Next]_vars

-----------------------------------------------------------------------------
(* Properties *)

\* Every variable keeps its type; no log makes the parser raise.
TypeOK ==
    /\ theWindow \in 0 .. Iterations /\ pc \in {"again", "run", "complete", "parse", "read", "write", "end"}
    /\ jvm \in DOMAIN Jvms /\ currentIteration \in 0 .. Iterations /\ valid \in BOOLEAN
    /\ perfFDs \in [Event -> {-1} \union DOMAIN kernel] /\ Len(kernel) <= FdLimit
    /\ refused \subseteq Event
    /\ \A k \in DOMAIN kernel : kernel[k].on \in BOOLEAN /\ kernel[k].count \in Nat
    /\ unread \subseteq DOMAIN log /\ DOMAIN data \subseteq DOMAIN log \ unread
    /\ file \in DOMAIN log /\ line \in 0 .. Len(log[file])

\* A count in the log is of the one iteration it is printed for, though counters
\* of warm-ups and of failed iterations are never stopped (PerfCallback 185) and none
\* is ever closed; it is 0 if and only if the kernel refused the event in that very
\* iteration, for want of a right or of descriptors, of which the log says nothing.
CountsOneIteration ==
    \A b \in DOMAIN log : \A ln \in Range(log[b]) : ln.kind = "counter" =>
        ln.value = (IF ln.open = "refused" THEN 0 ELSE 1)

\* A row's time, mean and counters are of one and the same iteration, the last
\* that passed (parser 64), wherever the log was cut and whatever failed.
RowIsOneIteration ==
    \A b \in DOMAIN data :
        LET r == data[b]
            l == log[b]
        IN /\ r.time_raw = Max({ln.iter : ln \in {m \in Range(l) : m.kind = "passed"}})
           /\ r.time_avg \in {0, r.time_raw}
           /\ \A c \in Range(r.counters) : c.iter = r.time_raw

\* Every log in which an iteration passed has its row in the end, whichever logs were
\* cut off wherever, or are empty, and no other log has (parser 64, 73).
NoLogLost ==
    pc \in {"end", "raised"} =>
        DOMAIN sheet.rows = {b \in DOMAIN log : \E ln \in Range(log[b]) : ln.kind = "passed"}

\* "Write headers", "Write data rows" (parser 83, 89): a value is below the name of its
\* event.
ColumnsAlign ==
    \A b \in DOMAIN sheet.rows : \A i \in DOMAIN sheet.rows[b] \intersect DOMAIN sheet.header :
        sheet.rows[b][i].event = sheet.header[i]
=============================================================================
