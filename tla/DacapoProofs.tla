---------------------------- MODULE DacapoProofs ----------------------------
(***************************************************************************)
(* For any JVMs, events, iterations and limit of descriptors, wherever a   *)
(* JVM dies and whatever the kernel refuses: what the callback prints is   *)
(* about one iteration, and so is each row that the parser makes of it.    *)
(***************************************************************************)
EXTENDS Dacapo, SequenceTheorems, FiniteSetTheorems, TLAPS

Kind == {"passed", "average", "counter"}
Line == [kind : Kind, iter : 1 .. Iterations, event : Nat, value : Nat, open : {"none", "opened", "refused"}]
Descriptor == [on : BOOLEAN, count : Nat]
Counter == [event : Nat, iter : 1 .. Iterations]
Result == [time_raw : 1 .. Iterations, time_avg : 0 .. Iterations, counters : Seq(Counter)]

CountOK(ln) == ln.value = (IF ln.open = "refused" THEN 0 ELSE 1)

\* Which line comes after which, in any beginning of a log.
LineOK(l, k) ==
    \/ l[k].kind = "passed" /\ \A j \in 1 .. k - 1 : l[j].iter < l[k].iter
    \/ l[k].kind = "average" /\ k > 1 /\ l[k].iter = l[k - 1].iter
    \/ l[k].kind = "counter" /\ k > 1 /\ l[k].iter = l[k - 1].iter /\ CountOK(l[k])
Written(l) == l \in Seq(Line) /\ \A k \in 1 .. Len(l) : LineOK(l, k)

Harness == pc \in {"again", "run", "complete"}

\* The logs: of this JVM and of those before it.
Logs ==
    /\ log \in [DOMAIN Jvms -> Seq(Line)]
    /\ \A b \in DOMAIN Jvms : Written(log[b])
    /\ Harness => \A b \in DOMAIN Jvms : b > jvm => log[b] = <<>>
    /\ Harness => \A k \in 1 .. Len(log[jvm]) : log[jvm][k].iter <= currentIteration
    /\ pc \in {"run", "complete"} =>
          /\ currentIteration > 0
          /\ \A k \in 1 .. Len(log[jvm]) : log[jvm][k].iter < currentIteration

\* The counters: those of this iteration have counted nothing else, and there is one
\* for each event that was not refused.
Counting ==
    /\ kernel \in Seq(Descriptor)
    /\ \A i \in Event :
          /\ perfFDs[i] # -1 /\ pc = "run" =>
                kernel[perfFDs[i]].on /\ kernel[perfFDs[i]].count = 0
          /\ perfFDs[i] # -1 /\ pc = "complete" => kernel[perfFDs[i]].count = 1
          /\ pc \in {"run", "complete"} => (perfFDs[i] = -1 <=> i \in refused)

\* What r says of the first n lines of l, the last of its iteration.
RowOf(r, l, n) ==
    /\ r \in Result
    /\ r.time_raw = l[n].iter /\ r.time_avg \in {0, r.time_raw}
    /\ \E j \in 1 .. n : l[j].kind = "passed" /\ l[j].iter = r.time_raw
    /\ \A j \in 1 .. n : l[j].iter <= r.time_raw
    /\ \A i \in DOMAIN r.counters : r.counters[i].iter = r.time_raw

Reading ==
    /\ Harness => line = 0
    /\ pc = "read" =>
        /\ file \notin DOMAIN data \union unread
        /\ results \in Seq(Result)
        /\ line = 0 <=> results = <<>>
        /\ line > 0 => RowOf(Last(results), log[file], line)

Rows ==
    /\ Harness => DOMAIN data = {} /\ unread = DOMAIN log
    /\ pc \in {"write", "end"} => unread = {}
    /\ \A b \in DOMAIN log \ unread : log[b] # <<>> => b \in DOMAIN data \/ (pc = "read" /\ b = file)
    /\ \A b \in DOMAIN data : log[b] # <<>> /\ RowOf(data[b], log[b], Len(log[b]))

\* The sheet has the rows that the data have, as soon as it is written.
Sheet == DOMAIN sheet.rows = IF pc = "end" THEN DOMAIN data ELSE {}

IInv == TypeOK /\ Logs /\ Counting /\ Reading /\ Rows /\ Sheet
-----------------------------------------------------------------------------
(* Constants and operators *)

LEMMA Constants ==
    /\ Len(Jvms) \in Nat \ {0} /\ DOMAIN Jvms = 1 .. Len(Jvms)
    /\ \A j \in DOMAIN Jvms : Jvms[j].events \in Seq(Nat)
    /\ Iterations \in Nat \ {0} /\ FdLimit \in Nat
<1>1. \A j \in DOMAIN Jvms : Jvms[j] \in [benchmark : Nat, events : Seq(Nat)]
  <2>1. \A S : Jvms \in Seq(S) => \A j \in DOMAIN Jvms : Jvms[j] \in S
    OBVIOUS
  <2> QED
    BY <2>1, DacapoAssumption, Zenon
<1>2. \A j \in DOMAIN Jvms : Jvms[j].events \in Seq(Nat)
  BY <1>1
<1>3. \A S : Jvms \in Seq(S) /\ Jvms # <<>> => Len(Jvms) \in Nat \ {0} /\ DOMAIN Jvms = 1 .. Len(Jvms)
  OBVIOUS
<1>4. Len(Jvms) \in Nat \ {0} /\ DOMAIN Jvms = 1 .. Len(Jvms)
  BY <1>3, DacapoAssumption, Zenon
<1> QED
  BY <1>2, <1>4, DacapoAssumption

\* The events of a JVM.
LEMMA EventsAre ==
    ASSUME jvm \in DOMAIN Jvms
    PROVE  /\ Events \in Seq(Nat) /\ Len(Events) \in Nat /\ Event = 1 .. Len(Events)
           /\ \A i \in Event : Events[i] \in Nat
<1>1. Events \in Seq(Nat)
  BY Constants DEF Events
<1> QED
  BY <1>1 DEF Event

LEMMA SameEvents == jvm' = jvm => Events' = Events /\ Event' = Event
BY DEF Events, Event

\* The smaller one of two numbers.
LEMMA MinOfTwo ==
    ASSUME NEW m \in Int, NEW n \in Int
    PROVE  Min({m, n}) \in {m, n} /\ Min({m, n}) <= m /\ Min({m, n}) <= n
<1>1. \E x \in {m, n} : \A y \in {m, n} : x <= y
  <2>1. CASE m <= n
    BY <2>1
  <2>2. CASE ~ (m <= n)
    BY <2>2
  <2> QED
    BY <2>1, <2>2
<1> QED
  BY <1>1 DEF Min

\* What is in a set, and not less than any of it, is its maximum.
LEMMA MaxIs ==
    ASSUME NEW S \in SUBSET Int, NEW x \in S, \A y \in S : y <= x
    PROVE  Max(S) = x
<1>1. \A z \in S : (\A y \in S : z >= y) => z = x
  OBVIOUS
<1>2. \A y \in S : x >= y
  OBVIOUS
<1> QED
  BY <1>1, <1>2 DEF Max

-----------------------------------------------------------------------------
(* Logs *)

LEMMA LineIs ==
    ASSUME NEW l \in Seq(Line), NEW k \in 1 .. Len(l)
    PROVE  /\ l[k] \in Line /\ l[k].kind \in Kind
           /\ l[k].iter \in 1 .. Iterations /\ l[k].iter \in Nat
<1>1. l[k] \in Line
  OBVIOUS
<1> QED
  BY <1>1, Constants DEF Line

\* Whether a line is in order depends on those before it only.
LEMMA SameBefore ==
    ASSUME NEW l, NEW m, NEW k \in Nat \ {0}, LineOK(l, k), \A j \in 1 .. k : m[j] = l[j]
    PROVE  LineOK(m, k)
<1>1. m[k] = l[k]
  OBVIOUS
<1>2. k > 1 => m[k - 1] = l[k - 1]
  OBVIOUS
<1>3. \A j \in 1 .. k - 1 : m[j] = l[j]
  OBVIOUS
<1>4. CASE l[k].kind = "passed" /\ \A j \in 1 .. k - 1 : l[j].iter < l[k].iter
  BY <1>1, <1>3, <1>4 DEF LineOK
<1>5. CASE l[k].kind = "average" /\ k > 1 /\ l[k].iter = l[k - 1].iter
  BY <1>1, <1>2, <1>5 DEF LineOK
<1>6. CASE l[k].kind = "counter" /\ k > 1 /\ l[k].iter = l[k - 1].iter /\ CountOK(l[k])
  BY <1>1, <1>2, <1>6 DEF LineOK
<1> QED
  BY <1>4, <1>5, <1>6 DEF LineOK

\* The beginning of a log is a log.
LEMMA CutIsWritten ==
    ASSUME NEW l, Written(l), NEW n \in 0 .. Len(l)
    PROVE  Written(SubSeq(l, 1, n)) /\ Len(SubSeq(l, 1, n)) = n
           /\ \A k \in 1 .. n : SubSeq(l, 1, n)[k] = l[k]
<1> DEFINE m == SubSeq(l, 1, n)
<1>1. l \in Seq(Line)
  BY DEF Written
<1>2. m \in Seq(Line) /\ Len(m) = n /\ \A k \in 1 .. n : m[k] = l[k]
  BY <1>1
<1> HIDE DEF m
<1>3. ASSUME NEW k \in 1 .. Len(m)
      PROVE  LineOK(m, k)
  <2>1. LineOK(l, k) /\ k \in Nat \ {0} /\ \A j \in 1 .. k : m[j] = l[j]
    BY <1>1, <1>2, <1>3 DEF Written
  <2> QED
    BY <2>1, SameBefore
<1>4. Written(m)
  BY <1>2, <1>3 DEF Written
<1> QED
  BY <1>2, <1>4 DEF m

\* Two elements before a sequence.
LEMMA TwoBefore ==
    ASSUME NEW S, NEW p \in S, NEW a \in S, NEW c \in Seq(S)
    PROVE  /\ <<p>> \in Seq(S) /\ Len(<<p>>) = 1 /\ <<p>>[1] = p
           /\ <<p>> \o <<a>> \o c \in Seq(S) /\ Len(<<p>> \o <<a>> \o c) = Len(c) + 2
           /\ (<<p>> \o <<a>> \o c)[1] = p /\ (<<p>> \o <<a>> \o c)[2] = a
           /\ \A i \in 1 .. Len(c) : (<<p>> \o <<a>> \o c)[i + 2] = c[i]
<1>1. <<p>> \in Seq(S) /\ Len(<<p>>) = 1 /\ <<p>>[1] = p
  OBVIOUS
<1>2. <<a>> \in Seq(S) /\ Len(<<a>>) = 1 /\ <<a>>[1] = a
  OBVIOUS
<1> DEFINE q == <<p>> \o <<a>>
<1>3. q \in Seq(S) /\ Len(q) = 2 /\ q[1] = p /\ q[2] = a
  BY <1>1, <1>2
<1> HIDE DEF q
<1>4. /\ q \o c \in Seq(S) /\ Len(q \o c) = Len(c) + 2
      /\ (q \o c)[1] = p /\ (q \o c)[2] = a
      /\ \A i \in 1 .. Len(c) : (q \o c)[i + 2] = c[i]
  <2>0. q \in Seq(S) /\ Len(q) = 2 /\ Len(c) \in Nat
    BY <1>3
  <2>4. /\ q \o c \in Seq(S) /\ Len(q \o c) = Len(q) + Len(c)
        /\ \A k \in 1 .. Len(q) + Len(c) :
              (q \o c)[k] = IF k <= Len(q) THEN q[k] ELSE c[k - Len(q)]
    BY <2>0, ConcatProperties, Zenon
  <2>1. q \o c \in Seq(S) /\ Len(q \o c) = Len(c) + 2 /\ Len(c) \in Nat
    BY <2>0, <2>4
  <2>2. \A k \in 1 .. Len(c) + 2 : (q \o c)[k] = IF k <= 2 THEN q[k] ELSE c[k - 2]
    BY <2>0, <2>4
  <2>3. ASSUME NEW i \in 1 .. Len(c)
        PROVE  (q \o c)[i + 2] = c[i]
    <3>1. i + 2 \in 1 .. Len(c) + 2 /\ ~ (i + 2 <= 2) /\ (i + 2) - 2 = i
      BY <2>1
    <3> QED
      BY <3>1, <2>2
  <2> QED
    BY <1>3, <2>1, <2>2, <2>3
<1> QED
  BY <1>1, <1>4 DEF q

\* What an iteration prints: PASSED, and if it is measured the mean and the counters.
LEMMA StatLines ==
    ASSUME TypeOK, Logs, Counting, pc = "complete"
    PROVE  /\ Stat \in Seq(Line) /\ Len(Stat) > 0 /\ Stat[1] = Ln("passed", 0, 0, "none")
           /\ Len(Stat) > 1 =>
                 /\ Len(Stat) = Len(Events) + 2 /\ Stat[2] = Ln("average", 0, 0, "none")
                 /\ \A i \in Event : Stat[i + 2] = Ln("counter", Events[i], Count(i), Opening(i))
           /\ \A i \in Event : Count(i) = IF i \in refused THEN 0 ELSE 1
<1>1. currentIteration \in 1 .. Iterations
  BY Constants DEF TypeOK, Logs
<1>2. ASSUME NEW i \in Event
      PROVE  Count(i) = IF i \in refused THEN 0 ELSE 1
  BY DEF Counting, Count
<1>0. Events \in Seq(Nat) /\ Len(Events) \in Nat /\ Event = 1 .. Len(Events) /\ \A i \in Event : Events[i] \in Nat
  BY EventsAre DEF TypeOK
<1>3. /\ Ln("passed", 0, 0, "none") \in Line /\ Ln("average", 0, 0, "none") \in Line
      /\ \A i \in Event : Ln("counter", Events[i], Count(i), Opening(i)) \in Line
  BY <1>0, <1>1, <1>2 DEF Ln, Line, Kind, Opening
<1>4. /\ Counters \in Seq(Line) /\ Len(Counters) = Len(Events)
      /\ \A i \in Event : Counters[i] = Ln("counter", Events[i], Count(i), Opening(i))
  BY <1>0, <1>3 DEF Counters
<1> DEFINE p == Ln("passed", 0, 0, "none")
           v == Ln("average", 0, 0, "none")
           c == Counters
<1>5. Passed = <<p>> /\ Average = <<v>> /\ p \in Line /\ v \in Line /\ c \in Seq(Line)
      /\ Len(c) = Len(Events)
  BY <1>3, <1>4 DEF Passed, Average
<1>6. \A i \in Event : c[i] = Ln("counter", Events[i], Count(i), Opening(i))
  BY <1>4
<1> HIDE DEF p, v, c
<1>7. /\ <<p>> \in Seq(Line) /\ Len(<<p>>) = 1 /\ <<p>>[1] = p
      /\ <<p>> \o <<v>> \o c \in Seq(Line) /\ Len(<<p>> \o <<v>> \o c) = Len(Events) + 2
      /\ (<<p>> \o <<v>> \o c)[1] = p /\ (<<p>> \o <<v>> \o c)[2] = v
      /\ \A i \in Event : (<<p>> \o <<v>> \o c)[i + 2] = c[i]
  BY <1>0, <1>5, TwoBefore
<1>8. Stat = IF isWarmup THEN <<p>> ELSE <<p>> \o <<v>> \o c
  BY <1>5 DEF Stat, c
<1>9. /\ Stat \in Seq(Line) /\ Len(Stat) > 0 /\ Stat[1] = p
      /\ Len(Stat) > 1 => /\ Len(Stat) = Len(Events) + 2 /\ Stat[2] = v
                          /\ \A i \in Event : Stat[i + 2] = c[i]
  BY <1>0, <1>7, <1>8
<1> QED
  BY <1>2, <1>6, <1>9 DEF p, v

\* A log in order, of earlier iterations, is in order with what this one prints.
LEMMA StatIsWritten ==
    ASSUME TypeOK, Logs, Counting, pc = "complete",
           NEW l, Written(l), \A k \in 1 .. Len(l) : l[k].iter < currentIteration
    PROVE  /\ Written(l \o Stat)
           /\ \A k \in 1 .. Len(l \o Stat) : (l \o Stat)[k].iter <= currentIteration
<1> DEFINE n == Len(l)
           m == l \o Stat
<1>1. l \in Seq(Line) /\ n \in Nat
  BY DEF Written
<1>2. /\ Stat \in Seq(Line) /\ Len(Stat) \in Nat \ {0} /\ Stat[1] = Ln("passed", 0, 0, "none")
      /\ Len(Stat) > 1 =>
            /\ Len(Stat) = Len(Events) + 2 /\ Stat[2] = Ln("average", 0, 0, "none")
            /\ \A i \in Event : Stat[i + 2] = Ln("counter", Events[i], Count(i), Opening(i))
      /\ \A i \in Event : Count(i) = IF i \in refused THEN 0 ELSE 1
  BY StatLines
<1>0. Len(Events) \in Nat /\ Event = 1 .. Len(Events)
  BY EventsAre DEF TypeOK
<1>3. /\ m \in Seq(Line) /\ Len(m) = n + Len(Stat)
      /\ \A k \in 1 .. n : m[k] = l[k]
      /\ \A k \in 1 .. Len(Stat) : m[n + k] = Stat[k]
  BY <1>1, <1>2
<1> HIDE DEF m
<1>4. \A k \in 1 .. n : LineOK(m, k)
  BY <1>1, <1>3, SameBefore DEF Written
<1>5. m[n + 1] = Ln("passed", 0, 0, "none") /\ LineOK(m, n + 1)
  <2>1. m[n + 1] = Ln("passed", 0, 0, "none")
    BY <1>1, <1>2, <1>3
  <2> QED
    BY <2>1, <1>1, <1>3 DEF LineOK, Ln
<1>6. Len(Stat) > 1 => m[n + 2] = Ln("average", 0, 0, "none") /\ LineOK(m, n + 2)
  <2> SUFFICES ASSUME Len(Stat) > 1
               PROVE  m[n + 2] = Ln("average", 0, 0, "none") /\ LineOK(m, n + 2)
    OBVIOUS
  <2>1. m[n + 2] = Ln("average", 0, 0, "none")
    BY <1>1, <1>2, <1>3
  <2>2. m[n + 2 - 1] = Ln("passed", 0, 0, "none") /\ n + 2 > 1
    BY <1>1, <1>5
  <2> QED
    BY <2>1, <2>2 DEF LineOK, Ln
<1>7. ASSUME Len(Stat) > 1, NEW i \in Event
      PROVE  m[n + i + 2] = Ln("counter", Events[i], Count(i), Opening(i)) /\ LineOK(m, n + i + 2)
  <2> DEFINE k == n + i + 2
  <2>0. /\ i \in Nat /\ i >= 1 /\ i <= Len(Events) /\ n \in Nat
        /\ Len(Stat) = Len(Events) + 2 /\ Len(Events) \in Nat
    BY <1>0, <1>1, <1>2, <1>7
  <2>9. /\ k - 1 = n + (i + 1) /\ k = n + (i + 2) /\ k > 1
        /\ i + 1 \in 1 .. Len(Stat) /\ i + 2 \in 1 .. Len(Stat)
    <3> HIDE DEF m
    <3> QED
      BY <2>0
  <2>1. m[k] = Ln("counter", Events[i], Count(i), Opening(i))
    BY <2>9, <1>2, <1>3, <1>7
  <2>2. m[k - 1].iter = currentIteration
    <3>1. m[k - 1] = Stat[i + 1]
      BY <2>9, <1>3
    <3>2. CASE i = 1
      <4>1. Stat[2] = Ln("average", 0, 0, "none") /\ i + 1 = 2
        BY <3>2, <1>2, <1>7
      <4> QED
        BY <3>1, <4>1 DEF Ln
    <3>3. CASE i > 1
      <4>1. PICK j \in Event : i + 1 = j + 2
        <5>1. i - 1 \in 1 .. Len(Events) /\ i + 1 = (i - 1) + 2
          BY <3>3, <2>0
        <5> QED
          BY <5>1, <1>0
      <4>2. Stat[j + 2] = Ln("counter", Events[j], Count(j), Opening(j))
        BY <1>2, <1>7
      <4> QED
        BY <3>1, <4>1, <4>2 DEF Ln
    <3> QED
      BY <3>2, <3>3, <2>0
  <2>3. /\ m[k].kind = "counter" /\ m[k].iter = currentIteration
        /\ m[k].value = Count(i) /\ m[k].open = Opening(i)
    BY <2>1 DEF Ln
  <2> QED
    BY <2>9, <2>1, <2>2, <2>3, <1>2 DEF LineOK, CountOK, Opening
<1>8. ASSUME NEW k \in 1 .. Len(m)
      PROVE  LineOK(m, k) /\ m[k].iter <= currentIteration
  <2>0. currentIteration \in Nat /\ k \in Nat
    BY <1>1, <1>3 DEF TypeOK
  <2>1. CASE k <= n
    <3>1. m[k] = l[k] /\ l[k] \in Line
      BY <2>1, <1>1, <1>3
    <3>2. l[k].iter < currentIteration /\ l[k].iter \in Nat
      BY <2>1, <3>1, <1>1 DEF Line
    <3> QED
      BY <2>0, <2>1, <3>1, <3>2, <1>4
  <2>2. CASE k = n + 1
    BY <2>0, <2>2, <1>5 DEF Ln
  <2>3. CASE k = n + 2
    <3>1. Len(Stat) > 1
      BY <2>3, <1>1, <1>2, <1>3
    <3> QED
      BY <2>0, <2>3, <3>1, <1>6 DEF Ln
  <2>4. CASE k > n + 2
    <3>1. Len(Stat) > 1 /\ k - n - 2 \in Event /\ k = n + (k - n - 2) + 2
      BY <2>0, <2>4, <1>0, <1>1, <1>2, <1>3, <1>8
    <3> DEFINE i == k - n - 2
    <3>2. i \in Event /\ k = n + i + 2
      BY <3>1
    <3> HIDE DEF i
    <3>3. m[k] = Ln("counter", Events[i], Count(i), Opening(i)) /\ LineOK(m, k)
      BY <3>1, <3>2, <1>7
    <3>4. m[k].iter = currentIteration
      BY <3>3 DEF Ln
    <3> QED
      BY <2>0, <3>3, <3>4
  <2> QED
    BY <2>0, <2>1, <2>2, <2>3, <2>4, <1>1
<1> QED
  BY <1>3, <1>8 DEF Written, m

-----------------------------------------------------------------------------
(* Steps of the harness *)

LEMMA DescriptorIs ==
    ASSUME NEW s \in Seq(Descriptor), NEW k \in DOMAIN s
    PROVE  s[k] \in Descriptor /\ s[k].on \in BOOLEAN /\ s[k].count \in Nat
<1>1. s[k] \in Descriptor
  OBVIOUS
<1> QED
  BY <1>1 DEF Descriptor

\* As long as benchmarks run, the parser has nothing to say.
LEMMA ParserWaits ==
    ASSUME IInv, Harness, pc' \in {"again", "run", "complete", "parse"}, UNCHANGED parser,
           DOMAIN log' = DOMAIN log
    PROVE  /\ Reading' /\ Rows' /\ Sheet'
           /\ DOMAIN data = {} /\ line' = 0
<1>0. DOMAIN log' = DOMAIN log
  OBVIOUS
<1>1. UNCHANGED <<unread, file, line, results, data, sheet>>
  BY DEF parser
<1>2. DOMAIN data = {} /\ line = 0 /\ unread = DOMAIN log
  BY DEF IInv, Rows, Reading
<1>3. Reading'
  BY <1>1, <1>2 DEF Reading
<1>4. Rows'
  BY <1>0, <1>1, <1>2 DEF Rows
<1>5. Sheet'
  BY <1>1 DEF IInv, Sheet, Harness
<1> QED
  BY <1>1, <1>2, <1>3, <1>4, <1>5

\* The descriptors that an iteration opens.
LEMMA FdIs ==
    ASSUME jvm \in DOMAIN Jvms, NEW opened \in SUBSET Event, Len(kernel) \in Nat
    PROVE  /\ Cardinality(opened) \in Nat
           /\ \A i \in opened : Fd(opened, i) \in Len(kernel) + 1 .. Len(kernel) + Cardinality(opened)
<1>1. Len(Events) \in Nat /\ Event = 1 .. Len(Events)
  BY EventsAre
<1>2. IsFiniteSet(opened) /\ Cardinality(opened) \in Nat
  <2>1. IsFiniteSet(Event)
    BY <1>1, FS_Interval
  <2> QED
    BY <2>1, FS_Subset, FS_CardinalityType
<1>3. ASSUME NEW i \in opened
      PROVE  Fd(opened, i) \in Len(kernel) + 1 .. Len(kernel) + Cardinality(opened)
  <2> DEFINE S == {j \in opened : j <= i}
  <2>1. i \in S /\ S \subseteq opened
    BY <1>1
  <2>2. IsFiniteSet(S) /\ Cardinality(S) <= Cardinality(opened) /\ Cardinality(S) \in Nat
    BY <1>2, <2>1, FS_Subset, FS_CardinalityType
  <2>3. Cardinality(S) # 0
    BY <2>1, <2>2, FS_EmptySet
  <2> QED
    BY <1>2, <2>2, <2>3 DEF Fd
<1> QED
  BY <1>2, <1>3

LEMMA StartKeeps ==
    ASSUME IInv, Start
    PROVE  IInv'
<1> DEFINE L == Len(kernel)
<1>1. /\ pc = "again" /\ pc' = "run" /\ currentIteration' = currentIteration + 1
      /\ UNCHANGED <<theWindow, jvm, valid, log, parser>>
      /\ currentIteration < Iterations
  BY DEF Start, runAgain
<1>2. UNCHANGED <<unread, file, line, results, data, sheet>>
  BY <1>1 DEF parser
<1>3. Reading' /\ Rows' /\ Sheet'
  BY <1>1, ParserWaits DEF Harness
<1>4. /\ L \in Nat /\ L <= FdLimit /\ FdLimit \in Nat
      /\ currentIteration \in Nat /\ jvm \in DOMAIN Jvms
      /\ kernel \in Seq(Descriptor) /\ DOMAIN kernel = 1 .. L
      /\ Event' = Event
  BY <1>1, Constants, SameEvents DEF IInv, TypeOK, Counting
<1>5. PICK opened \in SUBSET Event :
        /\ Opens(opened)
        /\ perfFDs' = [i \in Event |-> IF i \in opened THEN Fd(opened, i) ELSE -1]
  BY DEF Start, StartEvents
<1> DEFINE n == Cardinality(opened)
           fresh == [i \in 1 .. n |-> [on |-> TRUE, count |-> 0]]
<1>6. n \in Nat /\ \A i \in opened : Fd(opened, i) \in L + 1 .. L + n
  BY <1>4, FdIs
<1>7. n <= FdLimit - L /\ refused' = Event \ opened /\ kernel' = kernel \o fresh
  BY <1>5 DEF Opens
<1> HIDE DEF n
<1>8. /\ fresh \in Seq(Descriptor) /\ Len(fresh) = n
      /\ \A i \in 1 .. n : fresh[i].on /\ fresh[i].count = 0
  BY <1>6 DEF Descriptor
<1> HIDE DEF fresh
<1>9. /\ kernel' \in Seq(Descriptor) /\ Len(kernel') = L + n
      /\ DOMAIN kernel' = 1 .. L + n
      /\ \A k \in L + 1 .. L + n : kernel'[k].on /\ kernel'[k].count = 0
  <2>1. /\ kernel' \in Seq(Descriptor) /\ Len(kernel') = Len(kernel) + Len(fresh)
        /\ \A k \in 1 .. Len(kernel) + Len(fresh) :
              kernel'[k] = IF k <= Len(kernel) THEN kernel[k] ELSE fresh[k - Len(kernel)]
    BY <1>4, <1>7, <1>8, ConcatProperties, Zenon
  <2>2. ASSUME NEW k \in L + 1 .. L + n
        PROVE  kernel'[k].on /\ kernel'[k].count = 0
    <3>1. k \in 1 .. L + n /\ ~ (k <= L) /\ k - L \in 1 .. n
      BY <1>4, <1>6
    <3>2. kernel'[k] = fresh[k - L]
      BY <3>1, <2>1, <1>8
    <3> QED
      BY <3>1, <3>2, <1>8
  <2> QED
    BY <2>1, <2>2, <1>4, <1>6, <1>8
<1>10. ASSUME NEW i \in Event
       PROVE  /\ perfFDs'[i] \in {-1} \union DOMAIN kernel'
              /\ perfFDs'[i] # -1 => kernel'[perfFDs'[i]].on /\ kernel'[perfFDs'[i]].count = 0
              /\ perfFDs'[i] = -1 <=> i \in refused'
  <2>1. CASE i \in opened
    <3>1. perfFDs'[i] \in L + 1 .. L + n
      BY <2>1, <1>5, <1>6
    <3>2. perfFDs'[i] # -1 /\ perfFDs'[i] \in DOMAIN kernel'
      BY <3>1, <1>4, <1>6, <1>9
    <3> QED
      BY <2>1, <3>1, <3>2, <1>7, <1>9
  <2>2. CASE i \notin opened
    BY <2>2, <1>5, <1>7
  <2> QED
    BY <2>1, <2>2
<1>11. TypeOK'
  <2>1. perfFDs' \in [Event -> {-1} \union DOMAIN kernel'] /\ refused' \subseteq Event
    BY <1>5, <1>7, <1>10
  <2>2. \A k \in DOMAIN kernel' : kernel'[k].on \in BOOLEAN /\ kernel'[k].count \in Nat
    BY <1>9, DescriptorIs
  <2>3. Len(kernel') <= FdLimit
    BY <1>4, <1>6, <1>7, <1>9
  <2>4. currentIteration' \in 0 .. Iterations
    BY <1>1, <1>4, Constants
  <2> QED
    BY <1>1, <1>2, <1>4, <2>1, <2>2, <2>3, <2>4 DEF IInv, TypeOK
<1>12. Logs'
  <2>1. \A k \in 1 .. Len(log[jvm]) : log[jvm][k].iter < currentIteration'
    <3>1. ASSUME NEW k \in 1 .. Len(log[jvm])
          PROVE  log[jvm][k].iter < currentIteration'
      <4>1. log[jvm][k].iter <= currentIteration /\ log[jvm] \in Seq(Line)
        BY <1>1 DEF IInv, Logs, Harness, TypeOK
      <4>2. log[jvm][k].iter \in Nat
        BY <4>1, LineIs
      <4> QED
        BY <4>1, <4>2, <1>1, <1>4
    <3> QED
      BY <3>1
  <2>2. currentIteration' > 0 /\ \A k \in 1 .. Len(log[jvm]) : log[jvm][k].iter <= currentIteration'
    <3>1. ASSUME NEW k \in 1 .. Len(log[jvm])
          PROVE  log[jvm][k].iter <= currentIteration'
      <4>1. log[jvm] \in Seq(Line)
        BY DEF IInv, Logs, TypeOK
      <4>2. log[jvm][k].iter \in Nat
        BY <4>1, LineIs
      <4> QED
        BY <4>2, <2>1, <1>1, <1>4
    <3> QED
      BY <3>1, <1>1, <1>4
  <2>3. log' = log /\ jvm' = jvm
    BY <1>1
  <2> QED
    BY <1>1, <2>1, <2>2, <2>3 DEF IInv, Logs, Harness
<1>13. Counting'
  BY <1>1, <1>4, <1>9, <1>10 DEF Counting
<1> QED
  BY <1>3, <1>11, <1>12, <1>13 DEF IInv

LEMMA IterateKeeps ==
    ASSUME IInv, Iterate
    PROVE  IInv'
<1>1. /\ pc = "run" /\ pc' = "complete" /\ valid' \in BOOLEAN
      /\ kernel' = [k \in DOMAIN kernel |->
                      [kernel[k] EXCEPT !.count = IF kernel[k].on THEN @ + 1 ELSE @]]
      /\ UNCHANGED <<theWindow, jvm, currentIteration, perfFDs, refused, log, parser>>
  BY DEF Iterate
<1>0. Event' = Event
  BY <1>1, SameEvents
<1>2. UNCHANGED <<unread, file, line, results, data, sheet>>
  BY <1>1 DEF parser
<1>3. Reading' /\ Rows' /\ Sheet'
  BY <1>1, ParserWaits DEF Harness
<1>4. kernel \in Seq(Descriptor)
  BY DEF IInv, Counting
<1>5. ASSUME NEW k \in DOMAIN kernel
      PROVE  /\ kernel[k] \in Descriptor
             /\ kernel'[k] \in Descriptor
             /\ kernel[k].on => kernel'[k].count = kernel[k].count + 1
  <2>1. kernel[k] \in Descriptor
    BY <1>4, DescriptorIs
  <2> DEFINE c == IF kernel[k].on THEN kernel[k].count + 1 ELSE kernel[k].count
  <2>2. kernel'[k] = [kernel[k] EXCEPT !.count = c]
    BY <1>1
  <2>3. c \in Nat
    BY <2>1 DEF Descriptor
  <2> HIDE DEF c
  <2>4. kernel'[k] \in Descriptor /\ kernel'[k].count = c
    BY <2>1, <2>2, <2>3 DEF Descriptor
  <2> QED
    BY <2>1, <2>4 DEF c
<1>6. /\ kernel' \in Seq(Descriptor) /\ Len(kernel') = Len(kernel)
      /\ DOMAIN kernel' = DOMAIN kernel
  <2>1. Len(kernel) \in Nat /\ DOMAIN kernel = 1 .. Len(kernel) /\ DOMAIN kernel' = DOMAIN kernel
    BY <1>1, <1>4
  <2>2. kernel' \in [1 .. Len(kernel) -> Descriptor]
    BY <2>1, <1>1, <1>5
  <2>3. \A T : kernel' \in [1 .. Len(kernel) -> T] => kernel' \in Seq(T) /\ Len(kernel') = Len(kernel)
    BY <2>1
  <2> QED
    BY <2>1, <2>2, <2>3
<1>7. TypeOK'
  <2>1. \A k \in DOMAIN kernel' : kernel'[k].on \in BOOLEAN /\ kernel'[k].count \in Nat
    BY <1>6, DescriptorIs
  <2> QED
    BY <1>0, <1>1, <1>2, <1>6, <2>1 DEF IInv, TypeOK
<1>8. Logs'
  BY <1>1 DEF IInv, Logs, Harness
<1>9. Counting'
  <2>1. ASSUME NEW i \in Event, perfFDs[i] # -1
        PROVE  kernel'[perfFDs[i]].count = 1
    <3>1. perfFDs[i] \in DOMAIN kernel
      BY <2>1 DEF IInv, TypeOK
    <3>2. kernel[perfFDs[i]].on /\ kernel[perfFDs[i]].count = 0
      BY <2>1, <1>1 DEF IInv, Counting
    <3> QED
      BY <3>1, <3>2, <1>5
  <2> QED
    BY <2>1, <1>0, <1>1, <1>6 DEF IInv, Counting
<1> QED
  BY <1>3, <1>7, <1>8, <1>9 DEF IInv

LEMMA CompleteKeeps ==
    ASSUME IInv, Complete
    PROVE  IInv'
<1>1. /\ pc = "complete" /\ pc' = "again"
      /\ log' = IF valid THEN [log EXCEPT ![jvm] = @ \o Stat] ELSE log
      /\ kernel' = IF valid /\ ~ isWarmup THEN [k \in DOMAIN kernel |-> Stop(k)] ELSE kernel
      /\ UNCHANGED <<theWindow, jvm, currentIteration, valid, perfFDs, refused, parser>>
  BY DEF Complete
<1>0. Event' = Event
  BY <1>1, SameEvents
<1>2. UNCHANGED <<unread, file, line, results, data, sheet>>
  BY <1>1 DEF parser
<1>3. Reading' /\ Rows' /\ Sheet' /\ DOMAIN data = {} /\ line' = 0
  BY <1>1, ParserWaits DEF Harness
<1>4. /\ kernel \in Seq(Descriptor) /\ log \in [DOMAIN Jvms -> Seq(Line)]
      /\ jvm \in DOMAIN Jvms
      /\ \A b \in DOMAIN Jvms : Written(log[b])
  BY DEF IInv, Counting, Logs, TypeOK
<1>5. /\ kernel' \in Seq(Descriptor) /\ Len(kernel') = Len(kernel)
      /\ DOMAIN kernel' = DOMAIN kernel
  <2>1. ASSUME NEW k \in DOMAIN kernel
        PROVE  Stop(k) \in Descriptor
    <3>1. kernel[k] \in Descriptor
      BY <1>4, DescriptorIs
    <3>2. [kernel[k] EXCEPT !.on = FALSE] \in Descriptor
      BY <3>1 DEF Descriptor
    <3> QED
      BY <3>1, <3>2 DEF Stop
  <2> DEFINE stopped == [k \in DOMAIN kernel |-> Stop(k)]
  <2>2. Len(kernel) \in Nat /\ DOMAIN kernel = 1 .. Len(kernel) /\ DOMAIN stopped = DOMAIN kernel
    BY <1>4
  <2>3. stopped \in [1 .. Len(kernel) -> Descriptor]
    BY <2>1, <2>2
  <2>4. \A T : stopped \in [1 .. Len(kernel) -> T] => stopped \in Seq(T) /\ Len(stopped) = Len(kernel)
    BY <2>2
  <2>5. kernel' \in {stopped, kernel}
    BY <1>1
  <2> HIDE DEF stopped
  <2> QED
    BY <1>4, <2>2, <2>3, <2>4, <2>5
<1>6. /\ Written(log[jvm] \o Stat)
      /\ \A k \in 1 .. Len(log[jvm] \o Stat) : (log[jvm] \o Stat)[k].iter <= currentIteration
  <2>1. \A k \in 1 .. Len(log[jvm]) : log[jvm][k].iter < currentIteration
    BY <1>1 DEF IInv, Logs
  <2> QED
    BY <2>1, <1>1, <1>4, StatIsWritten DEF IInv
<1>7. /\ log' \in [DOMAIN Jvms -> Seq(Line)]
      /\ log'[jvm] \in {log[jvm], log[jvm] \o Stat}
      /\ \A b \in DOMAIN Jvms : b # jvm => log'[b] = log[b]
  <2>1. log[jvm] \o Stat \in Seq(Line)
    BY <1>6 DEF Written
  <2> QED
    BY <2>1, <1>1, <1>4
<1>8. TypeOK'
  <2>1. \A k \in DOMAIN kernel' : kernel'[k].on \in BOOLEAN /\ kernel'[k].count \in Nat
    BY <1>5, DescriptorIs
  <2>2. DOMAIN log' = DOMAIN log /\ Len(log'[file']) \in Nat
    BY <1>2, <1>4, <1>7 DEF IInv, TypeOK
  <2>3. line' \in 0 .. Len(log'[file'])
    BY <1>3, <2>2
  <2> QED
    BY <1>0, <1>1, <1>2, <1>5, <2>1, <2>2, <2>3 DEF IInv, TypeOK
<1>9. Logs'
  <2>1. \A b \in DOMAIN Jvms : Written(log'[b])
    BY <1>4, <1>6, <1>7
  <2>2. \A b \in DOMAIN Jvms : b > jvm' => log'[b] = <<>>
    <3>1. ASSUME NEW b \in DOMAIN Jvms, b > jvm
          PROVE  log'[b] = <<>>
      <4>1. b # jvm
        BY <3>1, <1>4, Constants
      <4> QED
        BY <3>1, <4>1, <1>1, <1>7 DEF IInv, Logs, Harness
    <3> QED
      BY <3>1, <1>1
  <2>3. \A k \in 1 .. Len(log'[jvm]) : log'[jvm][k].iter <= currentIteration
    BY <1>1, <1>6, <1>7 DEF IInv, Logs, Harness
  <2>4. pc' \notin {"run", "complete"} /\ jvm' = jvm /\ currentIteration' = currentIteration
    BY <1>1
  <2> QED
    BY <1>7, <2>1, <2>2, <2>3, <2>4 DEF Logs
<1>10. Counting'
  BY <1>0, <1>1, <1>5 DEF IInv, Counting
<1> QED
  BY <1>3, <1>8, <1>9, <1>10 DEF IInv

\* The next JVM finds the logs of those before it, whatever is left of them.
LEMMA NextJvmKeeps ==
    ASSUME IInv, NextJvm, Harness, log' \in [DOMAIN Jvms -> Seq(Line)],
           \A b \in DOMAIN Jvms : Written(log'[b]) /\ (b # jvm => log'[b] = log[b])
    PROVE  IInv'
<1>1. /\ \/ jvm < Len(Jvms) /\ jvm' = jvm + 1 /\ pc' = "again"
         \/ ~ (jvm < Len(Jvms)) /\ pc' = "parse" /\ jvm' = jvm
      /\ currentIteration' = 0 /\ valid' = TRUE
      /\ perfFDs' = [i \in Event' |-> -1] /\ refused' = {} /\ kernel' = <<>>
      /\ UNCHANGED <<theWindow, parser>>
  BY DEF NextJvm
<1>2. UNCHANGED <<unread, file, line, results, data, sheet>>
  BY <1>1 DEF parser
<1>3. pc' \in {"again", "parse"}
  BY <1>1
<1>4. Reading' /\ Rows' /\ Sheet' /\ DOMAIN data = {} /\ line' = 0
  <2>1. DOMAIN log' = DOMAIN log
    BY DEF IInv, Logs
  <2> QED
    BY <1>1, <1>3, <2>1, ParserWaits
<1>5. jvm \in 1 .. Len(Jvms) /\ jvm' \in DOMAIN Jvms
  BY <1>1, Constants DEF IInv, TypeOK
<1>6. TypeOK'
  <2>1. kernel' = <<>> /\ Len(kernel') = 0 /\ DOMAIN kernel' = {} /\ FdLimit \in Nat
    BY <1>1, Constants
  <2>2. perfFDs' \in [Event' -> {-1} \union DOMAIN kernel'] /\ refused' \subseteq Event'
    BY <1>1
  <2>3. DOMAIN log' = DOMAIN log /\ DOMAIN log = DOMAIN Jvms
    BY DEF IInv, Logs
  <2>4. Len(log'[file']) \in Nat
    BY <1>2, <2>3 DEF IInv, TypeOK
  <2>5. line' \in 0 .. Len(log'[file'])
    BY <1>4, <2>4
  <2>6. currentIteration' \in 0 .. Iterations
    BY <1>1, Constants
  <2> QED
    BY <1>1, <1>2, <1>3, <1>5, <2>1, <2>2, <2>3, <2>5, <2>6 DEF IInv, TypeOK
<1>7. Logs'
  <2>1. pc' = "again" => jvm' = jvm + 1 /\ jvm + 1 \in DOMAIN Jvms
    BY <1>1, <1>5
  <2>2. ASSUME pc' = "again", NEW b \in DOMAIN Jvms, b > jvm
        PROVE  log'[b] = <<>>
    <3>1. b # jvm
      BY <2>2, <1>5, Constants
    <3> QED
      BY <2>2, <3>1 DEF IInv, Logs
  <2>3. pc' = "again" => \A b \in DOMAIN Jvms : b > jvm' => log'[b] = <<>>
    BY <2>1, <2>2, <1>5, Constants
  <2>4. pc' = "again" => Len(log'[jvm']) = 0
    <3>1. pc' = "again" => jvm + 1 > jvm
      BY <1>5
    <3> QED
      BY <2>1, <2>2, <3>1
  <2>5. pc' = "again" => \A k \in 1 .. Len(log'[jvm']) : log'[jvm'][k].iter <= currentIteration'
    BY <2>4
  <2> QED
    BY <1>3, <2>3, <2>5 DEF Logs, Harness
<1>8. Counting'
  <2>1. kernel' \in Seq(Descriptor)
    BY <1>1
  <2> QED
    BY <1>3, <2>1 DEF Counting
<1> QED
  BY <1>4, <1>6, <1>7, <1>8 DEF IInv

LEMMA EndKeeps ==
    ASSUME IInv, End
    PROVE  IInv'
<1>1. Harness /\ log' = log /\ NextJvm
  BY DEF End, Harness
<1>2. log \in [DOMAIN Jvms -> Seq(Line)] /\ \A b \in DOMAIN Jvms : Written(log[b])
  BY DEF IInv, Logs
<1> QED
  BY <1>1, <1>2, NextJvmKeeps

LEMMA KilledKeeps ==
    ASSUME IInv, Killed
    PROVE  IInv'
<1>1. PICK n \in 0 .. Len(log[jvm]) : log' = [log EXCEPT ![jvm] = SubSeq(@, 1, n)]
  BY DEF Killed
<1>2. /\ log \in [DOMAIN Jvms -> Seq(Line)] /\ \A b \in DOMAIN Jvms : Written(log[b])
      /\ jvm \in DOMAIN Jvms
  BY DEF IInv, Logs, TypeOK
<1>3. Written(SubSeq(log[jvm], 1, n))
  BY <1>2, CutIsWritten
<1>4. SubSeq(log[jvm], 1, n) \in Seq(Line)
  BY <1>3 DEF Written
<1>5. /\ log' \in [DOMAIN Jvms -> Seq(Line)]
      /\ \A b \in DOMAIN Jvms : Written(log'[b]) /\ (b # jvm => log'[b] = log[b])
  BY <1>1, <1>2, <1>3, <1>4
<1>6. NextJvm /\ Harness
  BY DEF Killed, Harness
<1> QED
  BY <1>5, <1>6, NextJvmKeeps

-----------------------------------------------------------------------------
(* Steps of the parser *)

\* The logs are no longer written to.
LEMMA HarnessIsOver ==
    ASSUME IInv, pc \in {"parse", "read", "write"},
           pc' \in {"parse", "read", "write", "end"}, UNCHANGED <<theWindow, jvm, callback, log>>
    PROVE  /\ Logs' /\ Counting' /\ ~ Harness /\ ~ Harness'
           /\ log \in [DOMAIN Jvms -> Seq(Line)] /\ DOMAIN log = 1 .. Len(Jvms)
           /\ \A b \in DOMAIN log : Written(log[b]) /\ Len(log[b]) \in Nat
           /\ UNCHANGED <<theWindow, jvm, currentIteration, valid, perfFDs, refused, kernel, log>>
           /\ Event' = Event /\ DOMAIN Jvms = 1 .. Len(Jvms)
<1>1. UNCHANGED <<theWindow, jvm, currentIteration, valid, perfFDs, refused, kernel, log>>
  BY DEF callback
<1>2. ~ Harness /\ ~ Harness'
  BY DEF Harness
<1>0. Event' = Event
  BY <1>1, SameEvents
<1>3. Logs' /\ Counting'
  BY <1>0, <1>1, <1>2 DEF IInv, Logs, Counting, Harness
<1>4. /\ log \in [DOMAIN Jvms -> Seq(Line)] /\ DOMAIN log = 1 .. Len(Jvms)
      /\ \A b \in DOMAIN log : Written(log[b]) /\ Len(log[b]) \in Nat
  BY Constants DEF IInv, Logs
<1> QED
  BY <1>0, <1>1, <1>2, <1>3, <1>4, Constants

\* Counters of one iteration, when another one comes.
LEMMA SetKeeps ==
    ASSUME NEW counters \in Seq(Counter), NEW n \in 1 .. Iterations,
           \A i \in DOMAIN counters : counters[i].iter = n,
           NEW ln \in Line, ln.iter = n
    PROVE  /\ Set(counters, ln) \in Seq(Counter)
           /\ \A i \in DOMAIN Set(counters, ln) : Set(counters, ln)[i].iter = n
<1> DEFINE new == [event |-> ln.event, iter |-> ln.iter]
<1>1. new \in Counter /\ new.iter = n
  BY DEF Counter, Line
<1> HIDE DEF new
<1>2. /\ Append(counters, new) \in Seq(Counter)
      /\ \A i \in DOMAIN Append(counters, new) : Append(counters, new)[i].iter = n
  <2>1. /\ DOMAIN Append(counters, new) = 1 .. Len(counters) + 1 /\ DOMAIN counters = 1 .. Len(counters)
        /\ \A i \in 1 .. Len(counters) : Append(counters, new)[i] = counters[i]
        /\ Append(counters, new)[Len(counters) + 1] = new /\ Len(counters) \in Nat
    OBVIOUS
  <2> QED
    BY <1>1, <2>1
<1> DEFINE q == [k \in DOMAIN counters |-> IF counters[k].event = ln.event THEN new ELSE counters[k]]
<1>3. q \in Seq(Counter) /\ \A i \in DOMAIN q : q[i].iter = n
  <2>1. DOMAIN counters = 1 .. Len(counters) /\ Len(counters) \in Nat /\ DOMAIN q = DOMAIN counters
    OBVIOUS
  <2>2. q \in [1 .. Len(counters) -> Counter]
    BY <1>1, <2>1
  <2>3. \A T : q \in [1 .. Len(counters) -> T] => q \in Seq(T)
    BY <2>1
  <2> QED
    BY <1>1, <2>2, <2>3
<1> HIDE DEF q
<1>4. Set(counters, ln) \in {q, Append(counters, new)}
  BY DEF Set, q, new
<1> QED
  BY <1>2, <1>3, <1>4

\* The last element of a list, when it changes.
LEMMA LastChanges ==
    ASSUME NEW S, NEW rs \in Seq(S), rs # <<>>, NEW x \in S
    PROVE  /\ Len(rs) \in DOMAIN rs /\ Last(rs) = rs[Len(rs)] /\ Last(rs) \in S
           /\ [rs EXCEPT ![Len(rs)] = x] \in Seq(S) /\ [rs EXCEPT ![Len(rs)] = x] # <<>>
           /\ Last([rs EXCEPT ![Len(rs)] = x]) = x
<1>1. Len(rs) \in Nat \ {0} /\ DOMAIN rs = 1 .. Len(rs) /\ Len(rs) \in DOMAIN rs
  OBVIOUS
<1> DEFINE q == [rs EXCEPT ![Len(rs)] = x]
<1>2. q \in Seq(S) /\ Len(q) = Len(rs) /\ q[Len(rs)] = x
  BY <1>1
<1>3. q # <<>>
  BY <1>1, <1>2
<1> QED
  BY <1>1, <1>2, <1>3 DEF Last

\* The lines of a log up to one that follows a line of the same iteration.
LEMMA SameIteration ==
    ASSUME NEW l, Written(l), NEW n \in 1 .. Len(l), n > 1, l[n].iter = l[n - 1].iter,
           NEW r, RowOf(r, l, n - 1)
    PROVE  /\ r.time_raw = l[n].iter
           /\ \E j \in 1 .. n : l[j].kind = "passed" /\ l[j].iter = r.time_raw
           /\ \A j \in 1 .. n : l[j].iter <= r.time_raw
<1>1. /\ l \in Seq(Line) /\ n \in Nat /\ n - 1 \in 1 .. Len(l)
      /\ l[n].iter \in Nat
  BY LineIs DEF Written
<1>2. r.time_raw = l[n].iter
  BY DEF RowOf
<1>3. PICK j \in 1 .. n - 1 : l[j].kind = "passed" /\ l[j].iter = r.time_raw
  BY DEF RowOf
<1>4. j \in 1 .. n
  BY <1>1
<1>5. ASSUME NEW i \in 1 .. n
      PROVE  l[i].iter <= r.time_raw
  <2>1. CASE i = n
    BY <2>1, <1>1, <1>2
  <2>2. CASE i # n
    <3>1. i \in 1 .. n - 1
      BY <2>2, <1>1
    <3> QED
      BY <3>1 DEF RowOf
  <2> QED
    BY <2>1, <2>2
<1> QED
  BY <1>2, <1>3, <1>4, <1>5

LEMMA ReadsPassed ==
    ASSUME NEW l, Written(l), NEW n \in 1 .. Len(l), l[n].kind = "passed"
    PROVE  Iteration(l[n]) \in Result /\ RowOf(Iteration(l[n]), l, n)
<1> DEFINE r == Iteration(l[n])
<1>1. l \in Seq(Line) /\ n \in Nat /\ l[n].iter \in 1 .. Iterations /\ l[n].iter \in Nat /\ Len(l) \in Nat
  BY LineIs DEF Written
<1>2. r.time_raw = l[n].iter /\ r.time_avg = 0 /\ r.counters = <<>>
  BY DEF Iteration
<1>3. r \in Result
  <2>1. 0 \in 0 .. Iterations /\ <<>> \in Seq(Counter)
    BY Constants
  <2> QED
    BY <1>1, <2>1 DEF Iteration, Result
<1>4. \A j \in 1 .. n - 1 : l[j].iter < l[n].iter
  BY DEF Written, LineOK
<1>5. ASSUME NEW j \in 1 .. n
      PROVE  l[j].iter <= l[n].iter
  <2>1. CASE j = n
    BY <2>1, <1>1
  <2>2. CASE j # n
    <3>1. j \in 1 .. n - 1 /\ j \in 1 .. Len(l)
      BY <2>2, <1>1
    <3>2. l[j].iter \in Nat /\ l[j].iter < l[n].iter
      BY <3>1, <1>1, <1>4, LineIs
    <3> QED
      BY <3>2, <1>1
  <2> QED
    BY <2>1, <2>2
<1>6. \A i \in DOMAIN r.counters : r.counters[i].iter = r.time_raw
  BY <1>2
<1>7. n \in 1 .. n
  BY <1>1
<1> HIDE DEF r
<1>8. RowOf(r, l, n)
  BY <1>2, <1>3, <1>5, <1>6, <1>7 DEF RowOf
<1> QED
  BY <1>3, <1>8 DEF r

LEMMA ReadsAverage ==
    ASSUME NEW l, Written(l), NEW n \in 1 .. Len(l), n > 1, l[n].kind = "average",
           NEW r, RowOf(r, l, n - 1)
    PROVE  /\ [r EXCEPT !.time_avg = l[n].iter] \in Result
           /\ RowOf([r EXCEPT !.time_avg = l[n].iter], l, n)
<1> DEFINE q == [r EXCEPT !.time_avg = l[n].iter]
<1>1. /\ l \in Seq(Line) /\ n \in Nat /\ l[n].iter \in 1 .. Iterations /\ l[n].iter \in Nat
      /\ l[n].iter = l[n - 1].iter
  BY LineIs DEF Written, LineOK
<1>2. r \in Result
  BY DEF RowOf
<1>3. l[n].iter \in 0 .. Iterations
  BY <1>1, Constants
<1>4. /\ q \in Result /\ q.time_raw = r.time_raw /\ q.time_avg = l[n].iter
      /\ q.counters = r.counters
  BY <1>2, <1>3 DEF Result
<1>5. /\ r.time_raw = l[n].iter
      /\ \E j \in 1 .. n : l[j].kind = "passed" /\ l[j].iter = r.time_raw
      /\ \A j \in 1 .. n : l[j].iter <= r.time_raw
  BY <1>1, SameIteration
<1>6. \A i \in DOMAIN r.counters : r.counters[i].iter = r.time_raw
  BY DEF RowOf
<1> HIDE DEF q
<1>7. RowOf(q, l, n)
  BY <1>4, <1>5, <1>6 DEF RowOf
<1> QED
  BY <1>4, <1>7 DEF q

LEMMA ReadsCounter ==
    ASSUME NEW l, Written(l), NEW n \in 1 .. Len(l), n > 1, l[n].kind = "counter",
           NEW r, RowOf(r, l, n - 1)
    PROVE  /\ [r EXCEPT !.counters = Set(@, l[n])] \in Result
           /\ RowOf([r EXCEPT !.counters = Set(@, l[n])], l, n)
<1> DEFINE q == [r EXCEPT !.counters = Set(@, l[n])]
<1>1. /\ l \in Seq(Line) /\ n \in Nat /\ l[n].iter \in 1 .. Iterations /\ l[n].iter \in Nat
      /\ l[n].iter = l[n - 1].iter /\ LineOK(l, n)
  BY LineIs DEF Written, LineOK
<1>2. l[n] \in Line
  BY LineIs DEF Written
<1>3. r \in Result /\ r.time_avg \in {0, r.time_raw}
  BY DEF RowOf
<1>4. /\ r.time_raw = l[n].iter
      /\ \E j \in 1 .. n : l[j].kind = "passed" /\ l[j].iter = r.time_raw
      /\ \A j \in 1 .. n : l[j].iter <= r.time_raw
  BY <1>1, SameIteration
<1>5. r.counters \in Seq(Counter) /\ \A i \in DOMAIN r.counters : r.counters[i].iter = r.time_raw
  BY <1>3 DEF RowOf, Result
<1>6. /\ Set(r.counters, l[n]) \in Seq(Counter)
      /\ \A i \in DOMAIN Set(r.counters, l[n]) : Set(r.counters, l[n])[i].iter = r.time_raw
  BY <1>1, <1>2, <1>4, <1>5, SetKeeps
<1> DEFINE new == Set(r.counters, l[n])
<1>7. q = [r EXCEPT !.counters = new]
  OBVIOUS
<1>8. new \in Seq(Counter) /\ \A i \in DOMAIN new : new[i].iter = r.time_raw
  BY <1>6
<1> HIDE DEF new
<1>9. /\ q \in Result /\ q.time_raw = r.time_raw /\ q.time_avg = r.time_avg
       /\ q.counters = new
  BY <1>3, <1>7, <1>8 DEF Result
<1> HIDE DEF q
<1>10. RowOf(q, l, n)
  BY <1>3, <1>4, <1>8, <1>9 DEF RowOf
<1> QED
  BY <1>9, <1>10 DEF q

LEMMA OpenLogKeeps ==
    ASSUME IInv, OpenLog
    PROVE  IInv'
<1>1. /\ pc = "parse" /\ pc' = "read" /\ file' \in unread /\ unread' = unread \ {file'}
      /\ line' = 0 /\ results' = <<>> /\ data' = data /\ sheet' = sheet
      /\ UNCHANGED <<theWindow, jvm, callback, log>>
  BY DEF OpenLog
<1>2. /\ Logs' /\ Counting' /\ ~ Harness' /\ DOMAIN log = 1 .. Len(Jvms)
      /\ \A b \in DOMAIN log : Len(log[b]) \in Nat
      /\ UNCHANGED <<theWindow, jvm, currentIteration, valid, perfFDs, refused, kernel, log>>
      /\ Event' = Event
  BY <1>1, HarnessIsOver
<1>3. unread \subseteq DOMAIN log /\ DOMAIN data \subseteq DOMAIN log \ unread
  BY DEF IInv, TypeOK
<1>4. TypeOK'
  <2>1. file' \in DOMAIN log' /\ line' \in 0 .. Len(log'[file'])
    BY <1>1, <1>2, <1>3
  <2>2. unread' \subseteq DOMAIN log' /\ DOMAIN data' \subseteq DOMAIN log' \ unread'
    BY <1>1, <1>2, <1>3
  <2> QED
    BY <1>1, <1>2, <2>1, <2>2 DEF IInv, TypeOK
<1>5. Reading'
  BY <1>1, <1>2, <1>3 DEF Reading
<1>6. Rows'
  <2>1. \A b \in DOMAIN log' \ unread' : log'[b] # <<>> => b \in DOMAIN data' \/ b = file'
    BY <1>1, <1>2 DEF IInv, Rows
  <2> QED
    BY <2>1, <1>1, <1>2 DEF IInv, Rows
<1>7. Sheet'
  BY <1>1 DEF IInv, Sheet
<1> QED
  BY <1>2, <1>4, <1>5, <1>6, <1>7 DEF IInv

\* A line is never a mean or a counter of nothing; what is read is of one iteration.
LEMMA LineIsRead ==
    ASSUME IInv, ReadLine
    PROVE  /\ line' = line + 1 /\ pc' = pc
           /\ results' \in Seq(Result) /\ results' # <<>>
           /\ RowOf(Last(results'), log[file], line + 1)
<1> DEFINE l == log[file]
           n == line + 1
           ln == log[file][line + 1]
<1>1. /\ pc = "read" /\ line < Len(l)
      /\ IF ln.kind # "passed" /\ results = <<>>
         THEN pc' = "raised" /\ UNCHANGED <<line, results>>
         ELSE line' = line + 1 /\ results' = ExtractLine(ln) /\ UNCHANGED pc
  BY DEF ReadLine
<1>2. /\ Written(l) /\ line \in Nat /\ Len(l) \in Nat /\ n \in 1 .. Len(l) /\ n - 1 = line
      /\ l[n] = ln
  BY <1>1 DEF IInv, TypeOK, Logs
<1>3. /\ results \in Seq(Result) /\ (line = 0 <=> results = <<>>)
      /\ line > 0 => RowOf(Last(results), l, n - 1)
  BY <1>1, <1>2 DEF IInv, Reading
<1>4. LineOK(l, n)
  BY <1>2 DEF Written
<1> DEFINE r == Last(results)
<1>5. CASE ln.kind = "passed"
  <2>1. line' = line + 1 /\ pc' = pc /\ results' = Append(results, Iteration(ln))
    BY <1>1, <1>5 DEF ExtractLine
  <2>2. Iteration(ln) \in Result /\ RowOf(Iteration(ln), l, n)
    BY <1>2, <1>5, ReadsPassed
  <2>3. \A x \in Result : /\ Append(results, x) \in Seq(Result) /\ Append(results, x) # <<>>
                          /\ Last(Append(results, x)) = x
    BY <1>3 DEF Last
  <2> QED
    BY <2>1, <2>2, <2>3
<1>6. CASE ln.kind = "average"
  <2>1. n > 1
    BY <1>2, <1>4, <1>6 DEF LineOK
  <2>2. line > 0 /\ results # <<>>
    BY <2>1, <1>2, <1>3
  <2>3. line' = line + 1 /\ pc' = pc /\ results' = [results EXCEPT ![Len(results)].time_avg = ln.iter]
    BY <1>1, <1>6, <2>2 DEF ExtractLine
  <2> DEFINE q == [r EXCEPT !.time_avg = ln.iter]
  <2>4. q \in Result /\ RowOf(q, l, n)
    BY <1>2, <1>3, <1>6, <2>1, <2>2, ReadsAverage
  <2>5. results' = [results EXCEPT ![Len(results)] = q]
    BY <2>3 DEF Last
  <2> HIDE DEF q
  <2>6. /\ [results EXCEPT ![Len(results)] = q] \in Seq(Result)
        /\ [results EXCEPT ![Len(results)] = q] # <<>>
        /\ Last([results EXCEPT ![Len(results)] = q]) = q
    BY <2>2, <2>4, <1>3, LastChanges, Zenon
  <2> QED
    BY <2>3, <2>4, <2>5, <2>6
<1>7. CASE ln.kind = "counter"
  <2>1. n > 1
    BY <1>2, <1>4, <1>7 DEF LineOK
  <2>2. line > 0 /\ results # <<>>
    BY <2>1, <1>2, <1>3
  <2>3. /\ line' = line + 1 /\ pc' = pc
        /\ results' = [results EXCEPT ![Len(results)].counters = Set(@, ln)]
    BY <1>1, <1>7, <2>2 DEF ExtractLine
  <2> DEFINE q == [r EXCEPT !.counters = Set(@, ln)]
  <2>4. q \in Result /\ RowOf(q, l, n)
    BY <1>2, <1>3, <1>7, <2>1, <2>2, ReadsCounter
  <2>5. results' = [results EXCEPT ![Len(results)] = q]
    BY <2>3 DEF Last
  <2> HIDE DEF q
  <2>6. /\ [results EXCEPT ![Len(results)] = q] \in Seq(Result)
        /\ [results EXCEPT ![Len(results)] = q] # <<>>
        /\ Last([results EXCEPT ![Len(results)] = q]) = q
    BY <2>2, <2>4, <1>3, LastChanges, Zenon
  <2> QED
    BY <2>3, <2>4, <2>5, <2>6
<1> QED
  BY <1>4, <1>5, <1>6, <1>7 DEF LineOK

LEMMA ReadLineKeeps ==
    ASSUME IInv, ReadLine
    PROVE  IInv'
<1>1. /\ pc = "read" /\ line < Len(log[file])
      /\ UNCHANGED <<theWindow, jvm, callback, log, unread, file, data, sheet>>
  BY DEF ReadLine
<1>2. /\ line' = line + 1 /\ pc' = pc
      /\ results' \in Seq(Result) /\ results' # <<>>
      /\ RowOf(Last(results'), log[file], line + 1)
  BY LineIsRead
<1>3. /\ Logs' /\ Counting' /\ ~ Harness' /\ DOMAIN log = 1 .. Len(Jvms)
      /\ \A b \in DOMAIN log : Len(log[b]) \in Nat
      /\ UNCHANGED <<theWindow, jvm, currentIteration, valid, perfFDs, refused, kernel, log>>
      /\ Event' = Event
  BY <1>1, <1>2, HarnessIsOver
<1>4. file \in DOMAIN log /\ line \in Nat /\ line' \in 0 .. Len(log[file]) /\ line' > 0
  BY <1>1, <1>2, <1>3 DEF IInv, TypeOK
<1>5. TypeOK'
  BY <1>1, <1>2, <1>3, <1>4 DEF IInv, TypeOK
<1>6. Reading'
  <2>1. file' \notin DOMAIN data' \union unread'
    BY <1>1 DEF IInv, Reading
  <2>2. RowOf(Last(results'), log'[file'], line')
    BY <1>1, <1>2
  <2>3. line' # 0
    BY <1>4
  <2> QED
    BY <1>2, <1>3, <2>1, <2>2, <2>3 DEF Reading
<1>7. Rows'
  BY <1>1, <1>2, <1>3 DEF IInv, Rows
<1>8. Sheet'
  BY <1>1, <1>2 DEF IInv, Sheet
<1> QED
  BY <1>3, <1>5, <1>6, <1>7, <1>8 DEF IInv

LEMMA CloseLogKeeps ==
    ASSUME IInv, CloseLog
    PROVE  IInv'
<1>1. /\ pc = "read" /\ pc' = "parse" /\ line = Len(log[file])
      /\ data' = IF results = <<>> THEN data
                 ELSE [b \in DOMAIN data \union {file} |-> IF b = file THEN Last(results) ELSE data[b]]
      /\ UNCHANGED <<theWindow, jvm, callback, log, unread, file, line, results, sheet>>
  BY DEF CloseLog
<1>2. /\ Logs' /\ Counting' /\ ~ Harness' /\ DOMAIN log = 1 .. Len(Jvms)
      /\ \A b \in DOMAIN log : Written(log[b]) /\ Len(log[b]) \in Nat
      /\ UNCHANGED <<theWindow, jvm, currentIteration, valid, perfFDs, refused, kernel, log>>
      /\ Event' = Event
  BY <1>1, HarnessIsOver
<1>3. /\ file \in DOMAIN log /\ file \notin DOMAIN data \union unread
      /\ results = <<>> => log[file] = <<>>
      /\ results # <<>> => log[file] # <<>> /\ RowOf(Last(results), log[file], Len(log[file]))
  <2>1. file \in DOMAIN log /\ file \notin DOMAIN data \union unread
    BY <1>1 DEF IInv, TypeOK, Reading
  <2>2. results # <<>> => line # 0 /\ line \in Nat
    BY <1>1, <1>2, <2>1 DEF IInv, Reading
  <2>3. results # <<>> => log[file] # <<>>
    BY <1>1, <2>2
  <2>4. results = <<>> => log[file] = <<>>
    <3>1. log[file] \in Seq(Line)
      BY <1>2, <2>1 DEF Written
    <3>2. results = <<>> => Len(log[file]) = 0
      BY <1>1 DEF IInv, Reading
    <3> QED
      BY <3>1, <3>2
  <2> QED
    BY <1>1, <2>1, <2>2, <2>3, <2>4 DEF IInv, Reading
<1>4. DOMAIN data' \subseteq DOMAIN data \union {file}
  BY <1>1
<1>5. TypeOK'
  <2>1. DOMAIN data' \subseteq DOMAIN log' \ unread'
    BY <1>1, <1>2, <1>3, <1>4 DEF IInv, TypeOK
  <2> QED
    BY <1>1, <1>2, <2>1 DEF IInv, TypeOK
<1>6. Reading'
  BY <1>1, <1>2 DEF Reading
<1>7. Rows'
  <2>1. ASSUME NEW b \in DOMAIN data'
        PROVE  log[b] # <<>> /\ RowOf(data'[b], log[b], Len(log[b]))
    <3>1. CASE b \in DOMAIN data
      <4>1. data'[b] = data[b]
        BY <3>1, <1>1, <1>3
      <4> QED
        BY <3>1, <4>1 DEF IInv, Rows
    <3>2. CASE b \notin DOMAIN data
      <4>1. b = file /\ results # <<>> /\ data'[b] = Last(results)
        BY <3>2, <2>1, <1>1
      <4> QED
        BY <4>1, <1>3
    <3> QED
      BY <3>1, <3>2
  <2>2. \A b \in DOMAIN log' \ unread' : log'[b] # <<>> => b \in DOMAIN data'
    <3>1. ASSUME NEW b \in DOMAIN log \ unread, log[b] # <<>>
          PROVE  b \in DOMAIN data'
      <4>1. b \in DOMAIN data \/ b = file
        BY <3>1 DEF IInv, Rows
      <4>2. DOMAIN data \subseteq DOMAIN data'
        BY <1>1
      <4>3. results # <<>> => file \in DOMAIN data'
        BY <1>1
      <4> QED
        BY <3>1, <4>1, <4>2, <4>3, <1>3
    <3> QED
      BY <3>1, <1>1, <1>2
  <2> QED
    BY <2>1, <2>2, <1>1, <1>2 DEF Rows
<1>8. Sheet'
  BY <1>1 DEF IInv, Sheet
<1> QED
  BY <1>2, <1>5, <1>6, <1>7, <1>8 DEF IInv

LEMMA ParsedKeeps ==
    ASSUME IInv, Parsed
    PROVE  IInv'
<1>1. /\ pc = "parse" /\ pc' \in {"end", "write"} /\ unread = {}
      /\ pc' = "end" => DOMAIN data = {}
      /\ UNCHANGED <<theWindow, jvm, callback, log>>
      /\ UNCHANGED <<unread, file, line, results, data, sheet>>
  BY DEF Parsed, parser
<1>2. /\ Logs' /\ Counting' /\ ~ Harness'
      /\ UNCHANGED <<theWindow, jvm, currentIteration, valid, perfFDs, refused, kernel, log>>
      /\ Event' = Event
  BY <1>1, HarnessIsOver
<1>3. TypeOK'
  BY <1>1, <1>2 DEF IInv, TypeOK
<1>4. Reading'
  BY <1>1, <1>2 DEF Reading
<1>5. Rows'
  <2>1. \A b \in DOMAIN log' \ unread' : log'[b] # <<>> => b \in DOMAIN data'
    BY <1>1, <1>2 DEF IInv, Rows
  <2> QED
    BY <2>1, <1>1, <1>2 DEF IInv, Rows
<1>6. Sheet'
  BY <1>1 DEF IInv, Sheet
<1> QED
  BY <1>2, <1>3, <1>4, <1>5, <1>6 DEF IInv

LEMMA WriteKeeps ==
    ASSUME IInv, WriteToExcel
    PROVE  IInv'
<1>1. /\ pc = "write" /\ pc' = "end" /\ DOMAIN sheet'.rows = DOMAIN data
      /\ UNCHANGED <<theWindow, jvm, callback, log, unread, file, line, results, data>>
  <2>1. PICK first \in DOMAIN data :
          sheet' = [header |-> [i \in DOMAIN data[first].counters |-> data[first].counters[i].event],
                    rows |-> [b \in DOMAIN data |-> data[b].counters]]
    BY DEF WriteToExcel
  <2> QED
    BY <2>1 DEF WriteToExcel
<1>2. /\ Logs' /\ Counting' /\ ~ Harness'
      /\ UNCHANGED <<theWindow, jvm, currentIteration, valid, perfFDs, refused, kernel, log>>
      /\ Event' = Event
  BY <1>1, HarnessIsOver
<1>3. TypeOK'
  BY <1>1, <1>2 DEF IInv, TypeOK
<1>4. Reading'
  BY <1>1, <1>2 DEF Reading
<1>5. Rows'
  <2>1. \A b \in DOMAIN log' \ unread' : log'[b] # <<>> => b \in DOMAIN data'
    BY <1>1, <1>2 DEF IInv, Rows
  <2> QED
    BY <2>1, <1>1, <1>2 DEF IInv, Rows
<1>6. Sheet'
  BY <1>1 DEF Sheet
<1> QED
  BY <1>2, <1>3, <1>4, <1>5, <1>6 DEF IInv

-----------------------------------------------------------------------------
(* Theorems *)

LEMMA InitEstablishes == Init => IInv
<1> SUFFICES ASSUME Init
             PROVE  IInv
  OBVIOUS
<1>1. /\ pc = "again" /\ jvm = 1 /\ currentIteration = 0 /\ valid = TRUE
      /\ perfFDs = [i \in Event |-> -1] /\ refused = {} /\ kernel = <<>>
      /\ log = [b \in DOMAIN Jvms |-> <<>>] /\ unread = DOMAIN log
      /\ file = 1 /\ line = 0 /\ data = [b \in {} |-> 0]
      /\ sheet = [header |-> <<>>, rows |-> data]
  BY DEF Init
<1>2. jvm \in DOMAIN Jvms /\ file \in DOMAIN log /\ DOMAIN log = DOMAIN Jvms
  BY <1>1, Constants
<1>3. theWindow \in 0 .. Iterations
  <2>1. PICK w \in Windows : theWindow = Min({w, Iterations})
    BY DEF Init
  <2>2. w \in Nat /\ Iterations \in Nat
    BY Constants, DacapoAssumption
  <2> QED
    BY <2>1, <2>2, MinOfTwo
<1>4. \A b \in DOMAIN log : log[b] = <<>> /\ Len(log[b]) = 0
  BY <1>1
<1>5. kernel \in Seq(Descriptor) /\ Len(kernel) = 0 /\ DOMAIN kernel = {}
  BY <1>1
<1>6. TypeOK
  <2>1. perfFDs \in [Event -> {-1} \union DOMAIN kernel]
    BY <1>1
  <2>2. line \in 0 .. Len(log[file])
    BY <1>1, <1>2, <1>4
  <2> QED
    BY <1>1, <1>2, <1>3, <1>5, <2>1, <2>2, Constants DEF TypeOK
<1>7. Logs
  <2>1. \A b \in DOMAIN Jvms : Written(log[b])
    <3>1. <<>> \in Seq(Line) /\ Len(<<>>) = 0
      OBVIOUS
    <3>2. Written(<<>>)
      BY <3>1 DEF Written
    <3> QED
      BY <3>2, <1>2, <1>4
  <2> QED
    BY <1>1, <1>2, <1>4, <2>1 DEF Logs
<1>8. Counting
  <2> QED
    BY <1>1, <1>5 DEF Counting
<1>9. Reading /\ Rows
  BY <1>1 DEF Reading, Rows
<1>10. Sheet
  BY <1>1 DEF Sheet
<1> QED
  BY <1>6, <1>7, <1>8, <1>9, <1>10 DEF IInv

LEMMA StutterKeeps ==
    ASSUME IInv, UNCHANGED vars
    PROVE  IInv'
<1>1. /\ UNCHANGED <<theWindow, pc, jvm, currentIteration, valid, perfFDs, refused, kernel, log>>
      /\ UNCHANGED <<unread, file, line, results, data, sheet>>
  BY DEF vars, callback, parser
<1>0. Event' = Event
  BY <1>1, SameEvents
<1>2. TypeOK' /\ Logs' /\ Counting'
  BY <1>0, <1>1 DEF IInv, TypeOK, Logs, Counting, Harness
<1>3. Reading' /\ Rows' /\ Sheet'
  BY <1>1 DEF IInv, Reading, Rows, Sheet, Harness
<1> QED
  BY <1>2, <1>3 DEF IInv

LEMMA Invariance == Spec => []IInv
<1>1. ASSUME IInv, [Next]_vars
      PROVE  IInv'
  BY <1>1, StartKeeps, IterateKeeps, CompleteKeeps, EndKeeps, KilledKeeps, OpenLogKeeps,
     ReadLineKeeps, CloseLogKeeps, ParsedKeeps, WriteKeeps, StutterKeeps DEF Next, Terminated
<1> QED
  BY <1>1, InitEstablishes, PTL DEF Spec

\* Whatever fails and whoever is killed, every log is one that the parser can
\* read: it never raises, and every variable keeps its type.
THEOREM TypeCorrect == Spec => []TypeOK
<1>1. IInv => TypeOK
  BY DEF IInv
<1> QED
  BY <1>1, Invariance, PTL

\* A count in a log is of the iteration it is printed for, or 0 if the kernel refused
\* the event in that iteration, for whatever reason.
THEOREM CountsAreOfOneIteration == Spec => []CountsOneIteration
<1>1. ASSUME IInv
      PROVE  CountsOneIteration
  <2>1. ASSUME NEW b \in DOMAIN log, NEW ln \in Range(log[b]), ln.kind = "counter"
        PROVE  ln.value = (IF ln.open = "refused" THEN 0 ELSE 1)
    <3>1. Written(log[b]) /\ log[b] \in Seq(Line)
      BY <1>1 DEF IInv, Logs
    <3>2. PICK k \in 1 .. Len(log[b]) : ln = log[b][k]
      BY <3>1 DEF Range
    <3>3. LineOK(log[b], k) /\ log[b][k].kind = "counter"
      BY <2>1, <3>1, <3>2 DEF Written
    <3> QED
      BY <3>2, <3>3 DEF LineOK, CountOK
  <2> QED
    BY <2>1 DEF CountsOneIteration
<1> QED
  BY <1>1, Invariance, PTL

\* A row's time, mean and counters are of one iteration, the last that passed.
THEOREM RowsAreOfOneIteration == Spec => []RowIsOneIteration
<1>1. ASSUME IInv
      PROVE  RowIsOneIteration
  <2> SUFFICES ASSUME NEW b \in DOMAIN data
               PROVE  LET r == data[b]
                          l == log[b]
                      IN /\ r.time_raw = Max({ln.iter : ln \in {m \in Range(l) : m.kind = "passed"}})
                         /\ r.time_avg \in {0, r.time_raw}
                         /\ \A c \in Range(r.counters) : c.iter = r.time_raw
    BY DEF RowIsOneIteration
  <2> DEFINE r == data[b]
             l == log[b]
             S == {ln.iter : ln \in {m \in Range(l) : m.kind = "passed"}}
  <2>1. RowOf(r, l, Len(l))
    BY <1>1 DEF IInv, Rows
  <2>2. l \in Seq(Line) /\ DOMAIN l = 1 .. Len(l)
    BY <1>1 DEF IInv, TypeOK, Logs
  <2> HIDE DEF r, l
  <2>3. r.time_raw \in S
    <3>1. PICK j \in 1 .. Len(l) : l[j].kind = "passed" /\ l[j].iter = r.time_raw
      BY <2>1 DEF RowOf
    <3>2. l[j] \in Range(l)
      BY <2>2 DEF Range
    <3> QED
      BY <3>1, <3>2
  <2>4. ASSUME NEW y \in S
        PROVE  y \in Int /\ y <= r.time_raw
    <3>1. PICK j \in 1 .. Len(l) : y = l[j].iter
      BY <2>2 DEF Range
    <3>2. l[j].iter \in Nat
      BY <2>2, LineIs
    <3> QED
      BY <2>1, <3>1, <3>2 DEF RowOf
  <2>5. S \in SUBSET Int
    BY <2>4
  <2>6. r.time_raw = Max(S)
    <3> HIDE DEF S
    <3> QED
      BY <2>3, <2>4, <2>5, MaxIs
  <2>7. ASSUME NEW c \in Range(r.counters)
        PROVE  c.iter = r.time_raw
    BY <2>1 DEF RowOf, Range
  <2>8. r.time_avg \in {0, r.time_raw}
    BY <2>1 DEF RowOf
  <2> QED
    BY <2>6, <2>7, <2>8 DEF r, l
<1> QED
  BY <1>1, Invariance, PTL

\* Every log with an iteration that passed has its row in the end, wherever it and
\* the others were cut off, and no other log has.
THEOREM NothingIsLost == Spec => []NoLogLost
<1>1. ASSUME IInv, pc \in {"end", "raised"}
      PROVE  DOMAIN sheet.rows = {b \in DOMAIN log : \E ln \in Range(log[b]) : ln.kind = "passed"}
  <2>1. /\ pc = "end" /\ DOMAIN sheet.rows = DOMAIN data /\ unread = {}
        /\ DOMAIN data \subseteq DOMAIN log
    BY <1>1 DEF IInv, TypeOK, Sheet, Rows
  <2>2. \A b \in DOMAIN log : b \in DOMAIN data <=> log[b] # <<>>
    <3>1. DOMAIN log \ unread = DOMAIN log /\ pc # "read"
      BY <2>1
    <3> QED
      BY <1>1, <2>1, <3>1 DEF IInv, Rows
  <2>3. ASSUME NEW b \in DOMAIN log
        PROVE  log[b] # <<>> <=> \E ln \in Range(log[b]) : ln.kind = "passed"
    <3>1. Written(log[b]) /\ log[b] \in Seq(Line) /\ DOMAIN log[b] = 1 .. Len(log[b])
      BY <1>1 DEF IInv, Logs, Written
    <3>2. log[b] # <<>> => 1 \in 1 .. Len(log[b])
      BY <3>1
    <3>3. log[b] # <<>> => log[b][1].kind = "passed"
      BY <3>1, <3>2 DEF Written, LineOK
    <3>4. log[b] = <<>> => Range(log[b]) = {}
      BY DEF Range
    <3>5. log[b] # <<>> => log[b][1] \in Range(log[b])
      BY <3>1, <3>2 DEF Range
    <3> QED
      BY <3>3, <3>4, <3>5
  <2> QED
    BY <2>1, <2>2, <2>3
<1>2. IInv => NoLogLost
  BY <1>1 DEF NoLogLost
<1> QED
  BY <1>2, Invariance, PTL
=============================================================================
