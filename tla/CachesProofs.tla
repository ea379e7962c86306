---------------------------- MODULE CachesProofs ----------------------------
(***************************************************************************)
(* For any bugs, any number of runs at once, any changes on the servers    *)
(* and any faults: what lsbug and people print is an answer of the server, *)
(* a cache is spoiled by faults only, and -r repairs it.                   *)
(***************************************************************************)
EXTENDS Caches, TLAPS

\* No file is ahead of its server.
Past == \A i \in Item : Good(file[i]) => file[i] <= current[i]

\* What a run q knows of the file it uses: the answer it is going to store, and
\* that nobody else has changed the file, as long as it counts as undisturbed.
Holds(q) ==
    /\ todo[q] \subseteq batch[q]
    /\ pc[q] = "idle" => batch[q] = {}
    /\ pc[q] \notin {"idle", "next"} => item[q] \in batch[q]
    /\ pc[q] = "ask" => since[q] = 0
    /\ pc[q] \in {"open", "write"} =>
          /\ since[q] \in {0, answer[q]}
          /\ \/ answer[q] \in 1 .. current[item[q]]
             \/ answer[q] = NoneText /\ failed[q] /\ ~ clean[q] /\ item[q] \in Jira
    /\ pc[q] = "read" => since[q] \in {0, file[item[q]]}
    /\ pc[q] = "write" /\ clean[q] => file[item[q]] = Torn

\* A run with -r has made good what it is done with.
Repaired(q) ==
    _retrive[q] = "Always" /\ clean[q] =>
        \A i \in batch[q] \ todo[q] :
            Good(file[i]) \/ (i = item[q] /\ pc[q] \in {"ask", "open", "write"})

\* Two who write one file have been noted, and so has one who finds something in
\* the file it has truncated.
Overlaps ==
    /\ \A p, q \in Proc : p # q /\ pc[p] = "write" /\ Writing(q, item[p]) => "overlap" \in cause[item[p]]
    /\ \A q \in Proc : pc[q] = "write" /\ file[item[q]] # Torn => "overlap" \in cause[item[q]]

IInv == /\ TypeOK /\ Past /\ ShowsAnAnswer /\ SpoiledByFaultsOnly /\ Overlaps
        /\ \A q \in Proc : Holds(q) /\ Repaired(q)

-----------------------------------------------------------------------------
(* Constants and operators *)

LEMMA Items ==
    /\ People \in Item /\ People \notin Jira /\ People \notin Unknown
    /\ Jira \subseteq Item /\ Bugs \subseteq Item
BY CachesAssumption DEF Item, Bugs

\* The texts of a file are integers, and only a version is good.
LEMMA Texts ==
    /\ 1 \in Version /\ Version \subseteq Nat \ {0} /\ Version \subseteq Text
    /\ {Missing, Torn, NoneText} \subseteq Text
    /\ ~ Good(Missing) /\ ~ Good(Torn) /\ ~ Good(NoneText)
    /\ Torn # Missing /\ Missing = 0 /\ NoneText # Missing /\ Torn # NoneText
    /\ \A t \in Text : t \in Int /\ (Good(t) \/ t \in {Missing, Torn, NoneText})
BY CachesAssumption DEF Version, Text, Missing, Torn, NoneText, Good

\* The larger one of two numbers.
LEMMA MaxOfTwo == \A n \in Nat : Max({1, n}) \in {1, n} /\ Max({1, n}) >= 1 /\ Max({1, n}) >= n
<1> SUFFICES ASSUME NEW n \in Nat
             PROVE  Max({1, n}) \in {1, n} /\ Max({1, n}) >= 1 /\ Max({1, n}) >= n
  OBVIOUS
<1>1. \E x \in {1, n} : \A y \in {1, n} : x >= y
  OBVIOUS
<1> QED BY <1>1 DEF Max

\* What a run shows may be older than its question only if it did not ask.
LEMMA Bounds ==
    ASSUME NEW s \in Nat, NEW t \in Int, NEW c \in Int
    PROVE  t \in Max({1, s}) .. c <=> t >= 1 /\ t >= s /\ t <= c
BY MaxOfTwo

-----------------------------------------------------------------------------
(* The type *)

LEMMA InitIInv == Init => IInv
<1> SUFFICES ASSUME Init PROVE IInv
  OBVIOUS
<1>1. TypeOK
  <2>1. Nothing \in [item : Item, text : Text, since : Nat]
    BY Items, Texts DEF Nothing
  <2>2. 0 \in 0 .. MaxFaults
    BY CachesAssumption
  <2> QED BY <2>1, <2>2, Items, Texts DEF Init, TypeOK
<1>2. Past /\ ShowsAnAnswer
  BY Texts DEF Init, Past, ShowsAnAnswer, Nothing
<1>3. SpoiledByFaultsOnly /\ Overlaps
  BY Texts DEF Init, SpoiledByFaultsOnly, Overlaps
<1>4. \A q \in Proc : Holds(q) /\ Repaired(q)
  BY DEF Init, Holds, Repaired
<1> QED BY <1>1, <1>2, <1>3, <1>4 DEF IInv

LEMMA TypeStep == TypeOK /\ Next => TypeOK'
<1> SUFFICES ASSUME TypeOK, Next PROVE TypeOK'
  OBVIOUS
<1> USE DEF TypeOK, Goto
<1>1. Nothing \in [item : Item, text : Text, since : Nat]
  BY Items, Texts DEF Nothing
<1>2. \A i \in Item : Answer(i) \in Version /\ Answer(i) \in Nat
  BY Texts DEF Answer
<1>3. ASSUME NEW q \in Proc, Disturb(q) PROVE since' \in [Proc -> Nat] /\ clean' \in [Proc -> BOOLEAN]
  BY <1>3 DEF Disturb
<1>4. ASSUME NEW q \in Proc, Fault(q) PROVE faults' \in 0 .. MaxFaults /\ clean' \in [Proc -> BOOLEAN]
  BY <1>4, CachesAssumption DEF Fault
<1>5. ASSUME NEW q \in Proc, Start(q) PROVE TypeOK'
  <2>1. PICK items \in {Bugs} \union {{i} : i \in Item}, m \in {"Never", "OnDemand", "Always"} :
          /\ todo' = [todo EXCEPT ![q] = items] /\ batch' = [batch EXCEPT ![q] = items]
          /\ _retrive' = [_retrive EXCEPT ![q] = m]
    BY <1>5 DEF Start
  <2>2. items \subseteq Item
    BY Items
  <2>3. clean' \in [Proc -> BOOLEAN]
    BY <1>5 DEF Start
  <2> QED BY <1>5, <2>1, <2>2, <2>3 DEF Start
<1>6. ASSUME NEW q \in Proc, Process(q) PROVE TypeOK'
  BY <1>1, <1>6, Texts DEF Process
<1>7. ASSUME NEW q \in Proc, Ask(q) PROVE TypeOK'
  BY <1>2, <1>7, Texts DEF Ask
<1>8. ASSUME NEW q \in Proc, AskGetsNone(q) \/ AskRaises(q) PROVE TypeOK'
  <2>1. faults' \in 0 .. MaxFaults /\ clean' \in [Proc -> BOOLEAN]
    BY <1>4, <1>8 DEF AskGetsNone, AskRaises
  <2>2. answer' \in [Proc -> Text]
    BY <1>8, Texts DEF AskGetsNone, AskRaises
  <2>3. pc' \in [Proc -> {"idle", "next", "ask", "open", "write", "read"}]
    BY <1>8 DEF AskGetsNone, AskRaises
  <2> QED BY <1>8, <2>1, <2>2, <2>3 DEF AskGetsNone, AskRaises
<1>9. ASSUME NEW q \in Proc, Open(q) PROVE TypeOK'
  BY <1>3, <1>9, Texts DEF Open
<1>10. ASSUME NEW q \in Proc, NEW t \in Text, Show(q, t)
       PROVE  shown' \in [Proc -> [item : Item, text : Text, since : Nat]]
  BY <1>10 DEF Show
<1>11. ASSUME NEW q \in Proc, Write(q) PROVE TypeOK'
  <2>1. file' \in [Item -> Text]
    BY <1>11, Texts DEF Write
  <2>2. shown' \in [Proc -> [item : Item, text : Text, since : Nat]]
    BY <1>10, <1>11 DEF Write
  <2>3. pc' \in [Proc -> {"idle", "next", "ask", "open", "write", "read"}]
    <3>1. CASE item[q] = People
      BY <1>11, <3>1 DEF Write
    <3>2. CASE item[q] # People
      BY <1>11, <3>2 DEF Write
    <3> QED BY <3>1, <3>2
  <2> QED BY <1>3, <1>11, <2>1, <2>2, <2>3 DEF Write
<1>12. ASSUME NEW q \in Proc, Read(q) PROVE TypeOK'
  <2>1. shown' \in [Proc -> [item : Item, text : Text, since : Nat]]
    BY <1>10, <1>12 DEF Read
  <2> QED BY <1>12, <2>1 DEF Read
<1>13. ASSUME NEW q \in Proc, Done(q) \/ Break(q) PROVE TypeOK'
  <2>1. faults' \in 0 .. MaxFaults
    BY <1>13, CachesAssumption DEF Done, Break
  <2>2. End(q) /\ clean' = [clean EXCEPT ![q] = TRUE] /\ UNCHANGED <<current, file>>
    BY <1>13 DEF Done, Break
  <2>3. shown' \in [Proc -> [item : Item, text : Text, since : Nat]]
    BY <1>1, <2>2 DEF End
  <2>4. /\ item' \in [Proc -> Item] /\ answer' \in [Proc -> Text]
        /\ todo' \in [Proc -> SUBSET Item] /\ batch' \in [Proc -> SUBSET Item]
    BY <2>2, Items, Texts DEF End
  <2>5. /\ pc' \in [Proc -> {"idle", "next", "ask", "open", "write", "read"}]
        /\ _retrive' \in [Proc -> {"Never", "OnDemand", "Always"}] /\ since' \in [Proc -> Nat]
        /\ clean' \in [Proc -> BOOLEAN]
    BY <2>2 DEF End
  <2>6. failed' \in [Proc -> BOOLEAN]
    BY <2>2 DEF End
  <2>7. cause' \in [Item -> SUBSET {"request", "break", "overlap"}]
    BY <1>13 DEF Done, Break
  <2> QED BY <2>1, <2>2, <2>3, <2>4, <2>5, <2>6, <2>7
<1>14. ASSUME NEW i \in Item, Publish(i) PROVE TypeOK'
  <2>1. current' \in [Item -> Version]
    BY <1>14, CachesAssumption DEF Publish, Version
  <2> QED BY <1>14, <2>1 DEF Publish, local
<1> QED BY <1>5, <1>6, <1>7, <1>8, <1>9, <1>11, <1>12, <1>13, <1>14 DEF Next, Run

-----------------------------------------------------------------------------
(* Other runs *)

\* What a run knows survives the steps of others: the servers only go on, and
\* who changes the run's file takes its claim to be undisturbed from it.
LEMMA OthersKept ==
    ASSUME IInv, TypeOK', NEW r \in Proc,
           pc'[r] = pc[r], _retrive'[r] = _retrive[r], todo'[r] = todo[r], item'[r] = item[r],
           answer'[r] = answer[r], batch'[r] = batch[r],
           failed'[r] = failed[r], \A i \in Item : current'[i] >= current[i],
           \/ file' = file /\ since'[r] = since[r] /\ clean'[r] = clean[r]
           \/ \E q \in Proc \ {r}, t \in Text :
                 file' = [file EXCEPT ![item[q]] = t] /\ Disturb(q) /\ pc[q] \in {"open", "write"}
    PROVE  Holds(r)' /\ Repaired(r)'
<1> USE DEF IInv
<1>1. /\ item[r] \in Item
      /\ \A i \in Item : current[i] \in Nat /\ current'[i] \in Nat
  <2>1. current \in [Item -> Nat] /\ current' \in [Item -> Nat]
    BY Texts DEF TypeOK
  <2> QED BY <2>1 DEF TypeOK
<1>2. \A a : a \in 1 .. current[item[r]] => a \in 1 .. current'[item[r]]
  BY <1>1
<1>3. CASE file' = file /\ since'[r] = since[r] /\ clean'[r] = clean[r]
  <2>1. Holds(r)'
    BY <1>1, <1>2, <1>3 DEF Holds
  <2>2. Repaired(r)'
    BY <1>3 DEF Repaired
  <2> QED BY <2>1, <2>2
<1>4. ASSUME NEW q \in Proc \ {r}, NEW t \in Text,
             file' = [file EXCEPT ![item[q]] = t], Disturb(q), pc[q] \in {"open", "write"}
      PROVE  Holds(r)' /\ Repaired(r)'
  <2>1. item[q] \in Item /\ \A i \in Item \ {item[q]} : file'[i] = file[i]
    BY <1>4 DEF TypeOK
  <2>2. CASE pc[r] # "idle" /\ item[q] \in batch[r]
    <3>1. /\ clean'[r] = FALSE
          /\ item[r] = item[q] => since'[r] = 0
          /\ item[r] # item[q] => since'[r] = since[r]
      BY <1>4, <2>2 DEF Disturb, TypeOK
    <3>4. since'[r] \in {0, since[r]}
      BY <3>1
    <3>5. item[r] # item[q] => file'[item[r]] = file[item[r]]
      BY <1>1, <2>1
    <3>6. pc[r] \in {"open", "write"} =>
             /\ since'[r] \in {0, answer[r]}
             /\ \/ answer[r] \in 1 .. current'[item[r]]
                \/ answer[r] = NoneText /\ failed'[r] /\ ~ clean'[r] /\ item[r] \in Jira
      BY <1>1, <1>2, <3>1, <3>4 DEF Holds
    <3>7. pc[r] = "read" => since'[r] \in {0, file'[item[r]]}
      BY <3>1, <3>4, <3>5 DEF Holds
    <3>8. pc[r] = "ask" => since'[r] = 0
      BY <3>4 DEF Holds
    <3>9. /\ todo[r] \subseteq batch[r] /\ (pc[r] = "idle" => batch[r] = {})
          /\ pc[r] \notin {"idle", "next"} => item[r] \in batch[r]
      BY DEF Holds
    <3> QED BY <3>1, <3>6, <3>7, <3>8, <3>9 DEF Holds, Repaired
  <2>3. CASE ~ (pc[r] # "idle" /\ item[q] \in batch[r])
    <3>1. clean'[r] = clean[r] /\ since'[r] = since[r]
      BY <1>4, <2>3 DEF Disturb, TypeOK
    <3>2. item[q] \notin batch[r]
      BY <2>3 DEF Holds
    <3>3. \A i \in batch[r] : file'[i] = file[i]
      BY <2>1, <3>2 DEF TypeOK
    <3>4. Holds(r)'
      BY <1>1, <1>2, <3>1, <3>3 DEF Holds
    <3>5. Repaired(r)'
      BY <3>1, <3>3 DEF Repaired
    <3> QED BY <3>4, <3>5
  <2> QED BY <2>2, <2>3
<1> QED BY <1>3, <1>4

LEMMA OthersStep ==
    ASSUME IInv, TypeOK', NEW q \in Proc, Run(q), NEW r \in Proc \ {q}
    PROVE  Holds(r)' /\ Repaired(r)' /\ shown'[r] = shown[r]
<1> USE DEF IInv, Goto
<1>1. TypeOK
  OBVIOUS
<1>2. /\ pc'[r] = pc[r] /\ _retrive'[r] = _retrive[r] /\ todo'[r] = todo[r]
      /\ item'[r] = item[r] /\ answer'[r] = answer[r] /\ batch'[r] = batch[r]
      /\ failed'[r] = failed[r] /\ shown'[r] = shown[r] /\ current' = current
  <2>1. CASE Start(q) \/ Process(q) \/ Ask(q)
    BY <1>1, <2>1 DEF Start, Process, Ask, TypeOK
  <2>2. CASE AskGetsNone(q) \/ AskRaises(q)
    BY <1>1, <2>2 DEF AskGetsNone, AskRaises, TypeOK
  <2>3. CASE Open(q) \/ Read(q)
    BY <1>1, <2>3 DEF Open, Read, Show, TypeOK
  <2>4. CASE Write(q)
    BY <1>1, <2>4 DEF Write, Show, TypeOK
  <2>5. CASE Done(q) \/ Break(q)
    <3>1. End(q) /\ current' = current
      BY <2>5 DEF Done, Break
    <3> QED BY <1>1, <3>1 DEF End, TypeOK
  <2> QED BY <2>1, <2>2, <2>3, <2>4, <2>5 DEF Run
<1>4. \A i \in Item : current'[i] >= current[i]
  <2>1. \A i \in Item : current[i] \in Nat
    BY <1>1, Texts DEF TypeOK
  <2> QED BY <1>2, <2>1
<1>5. \/ file' = file /\ since'[r] = since[r] /\ clean'[r] = clean[r]
      \/ \E p \in Proc \ {r}, t \in Text :
            file' = [file EXCEPT ![item[p]] = t] /\ Disturb(p) /\ pc[p] \in {"open", "write"}
  <2>1. CASE Open(q) \/ Write(q)
    <3>1. PICK t \in Text : file' = [file EXCEPT ![item[q]] = t]
      BY <1>1, <2>1, Texts DEF Open, Write, TypeOK
    <3>2. Disturb(q) /\ pc[q] \in {"open", "write"}
      BY <2>1 DEF Open, Write
    <3> QED BY <3>1, <3>2
  <2>2. CASE Start(q) \/ Process(q) \/ Ask(q) \/ AskGetsNone(q) \/ AskRaises(q) \/ Read(q)
    BY <1>1, <2>2 DEF Start, Process, Ask, AskGetsNone, AskRaises, Read, Fault, TypeOK
  <2>3. CASE Done(q) \/ Break(q)
    <3>1. End(q) /\ file' = file /\ clean' = [clean EXCEPT ![q] = TRUE]
      BY <2>3 DEF Done, Break
    <3> QED BY <1>1, <3>1 DEF End, TypeOK
  <2> QED BY <2>1, <2>2, <2>3 DEF Run
<1>6. Holds(r)' /\ Repaired(r)'
  BY <1>2, <1>4, <1>5, OthersKept
<1> QED BY <1>2, <1>6

-----------------------------------------------------------------------------
(* The run itself *)

\* What it knows of its item.
LEMMA OwnHolds == ASSUME IInv, TypeOK', NEW q \in Proc, Run(q) PROVE Holds(q)'
<1> USE DEF IInv, Goto
<1>1. TypeOK /\ Holds(q)
  OBVIOUS
<1>2. CASE Start(q)
  BY <1>1, <1>2 DEF Start, Holds, TypeOK
<1>3. CASE Process(q)
  <2>1. PICK i \in todo[q] : /\ todo'[q] = todo[q] \ {i} /\ item'[q] = i
                             /\ pc'[q] \in {"ask", "read"}
    BY <1>1, <1>3 DEF Process, TypeOK
  <2>2. since'[q] = 0 /\ batch'[q] = batch[q]
    BY <1>1, <1>3 DEF Process, TypeOK
  <2> QED BY <1>1, <2>1, <2>2 DEF Holds
<1>4. CASE Ask(q)
  <2>1. /\ pc'[q] = "open" /\ pc[q] = "ask" /\ answer'[q] = Answer(item[q]) /\ since'[q] = answer'[q]
        /\ UNCHANGED <<current, item, todo, batch>>
    BY <1>1, <1>4 DEF Ask, TypeOK
  <2>2. Answer(item[q]) \in 1 .. current[item[q]]
    <3>1. item[q] \in Item /\ current[item[q]] \in Nat \ {0}
      BY <1>1, Texts DEF TypeOK
    <3> QED BY <3>1 DEF Answer
  <2> QED BY <1>1, <2>1, <2>2 DEF Holds
<1>5. CASE AskGetsNone(q)
  <2>1. /\ pc'[q] = "open" /\ pc[q] = "ask" /\ answer'[q] = NoneText /\ clean'[q] = FALSE
        /\ failed'[q] = TRUE /\ item[q] \in Jira
        /\ UNCHANGED <<current, item, todo, batch, since>>
    BY <1>1, <1>5 DEF AskGetsNone, Fault, TypeOK
  <2> QED BY <1>1, <2>1 DEF Holds
<1>6. CASE AskRaises(q) \/ Read(q)
  <2>1. pc'[q] = "next" /\ UNCHANGED <<todo, batch>>
    BY <1>1, <1>6 DEF AskRaises, Read, TypeOK
  <2>2. pc[q] \notin {"idle"}
    BY <1>6 DEF AskRaises, Read
  <2> QED BY <1>1, <2>1, <2>2 DEF Holds
<1>7. CASE Open(q)
  <2>1. /\ pc'[q] = "write" /\ pc[q] = "open" /\ file'[item[q]] = Torn
        /\ UNCHANGED <<current, item, answer, todo, batch, failed>>
    BY <1>1, <1>7 DEF Open, TypeOK
  <2>2. since'[q] = since[q] /\ clean'[q] = clean[q]
    BY <1>1, <1>7 DEF Open, Disturb, TypeOK
  <2> QED BY <1>1, <2>1, <2>2 DEF Holds
<1>8. CASE Write(q)
  <2>1. /\ pc[q] = "write" /\ UNCHANGED <<item, answer, todo, batch>>
        /\ since'[q] = since[q]
    BY <1>1, <1>8 DEF Write, Disturb, TypeOK
  <2>2. CASE item[q] = People
    <3>1. pc'[q] = "next"
      BY <1>1, <1>8, <2>2 DEF Write, TypeOK
    <3> QED BY <1>1, <2>1, <3>1 DEF Holds
  <2>3. CASE item[q] # People
    <3>1. pc'[q] = "read" /\ file'[item[q]] = answer[q]
      BY <1>1, <1>8, <2>3 DEF Write, TypeOK
    <3> QED BY <1>1, <2>1, <3>1 DEF Holds
  <2> QED BY <2>2, <2>3
<1>9. CASE Done(q) \/ Break(q)
  <2>1. End(q)
    BY <1>9 DEF Done, Break
  <2>2. pc'[q] = "idle" /\ batch'[q] = {} /\ todo'[q] = {}
    BY <1>1, <2>1 DEF End, TypeOK
  <2> QED BY <2>2 DEF Holds
<1> QED BY <1>2, <1>3, <1>4, <1>5, <1>6, <1>7, <1>8, <1>9 DEF Run

\* A text of its own that nobody has disturbed is good when a run is through with it.
LEMMA StoredIsGood ==
    ASSUME IInv, NEW q \in Proc, Write(q), clean[q] PROVE Good(file'[item[q]])
<1> USE DEF IInv
<1>1. TypeOK /\ Holds(q) /\ pc[q] = "write"
  BY DEF Write
<1>2. file[item[q]] = Torn /\ answer[q] \in 1 .. current[item[q]]
  BY <1>1 DEF Holds
<1>3. file'[item[q]] = answer[q]
  BY <1>1, <1>2 DEF Write, TypeOK
<1>4. answer[q] \in Version
  <2>1. current[item[q]] \in 1 .. MaxVersion
    BY <1>1 DEF TypeOK, Version
  <2> QED BY <1>2, <2>1, CachesAssumption DEF Version
<1> QED BY <1>3, <1>4 DEF Good

LEMMA OwnRepaired == ASSUME IInv, TypeOK', NEW q \in Proc, Run(q) PROVE Repaired(q)'
<1> USE DEF IInv, Goto
<1>1. TypeOK /\ Holds(q) /\ Repaired(q)
  OBVIOUS
<1>2. CASE Start(q)
  BY <1>1, <1>2 DEF Start, Repaired, TypeOK
<1>3. CASE Process(q)
  <2>1. PICK i \in todo[q] : /\ todo'[q] = todo[q] \ {i} /\ item'[q] = i
                             /\ pc'[q] = IF MustAsk(q, i) THEN "ask" ELSE "read"
    BY <1>1, <1>3 DEF Process, TypeOK
  <2>2. pc[q] = "next" /\ UNCHANGED <<file, _retrive, batch, clean>>
    BY <1>3 DEF Process
  <2>3. _retrive[q] = "Always" => pc'[q] = "ask"
    BY <2>1 DEF MustAsk
  <2> QED BY <1>1, <2>1, <2>2, <2>3 DEF Repaired
<1>4. CASE Ask(q)
  BY <1>1, <1>4 DEF Ask, Repaired, TypeOK
<1>5. CASE AskGetsNone(q) \/ AskRaises(q)
  <2>1. clean'[q] = FALSE
    BY <1>1, <1>5 DEF AskGetsNone, AskRaises, Fault, TypeOK
  <2> QED BY <2>1 DEF Repaired
<1>6. CASE Read(q)
  BY <1>1, <1>6 DEF Read, Repaired, TypeOK
<1>7. CASE Open(q)
  <2>1. /\ pc'[q] = "write" /\ pc[q] = "open"
        /\ \A i \in Item \ {item[q]} : file'[i] = file[i]
        /\ UNCHANGED <<item, _retrive, todo, batch>>
    BY <1>1, <1>7 DEF Open, TypeOK
  <2>2. clean'[q] = clean[q] /\ batch[q] \subseteq Item
    BY <1>1, <1>7 DEF Open, Disturb, TypeOK
  <2> QED BY <1>1, <2>1, <2>2 DEF Repaired
<1>8. CASE Write(q)
  <2>1. /\ \A i \in Item \ {item[q]} : file'[i] = file[i]
        /\ UNCHANGED <<item, _retrive, todo, batch>>
    BY <1>1, <1>8 DEF Write, TypeOK
  <2>2. clean'[q] = clean[q] /\ batch[q] \subseteq Item
    BY <1>1, <1>8 DEF Write, Disturb, TypeOK
  <2>3. clean[q] => Good(file'[item[q]])
    BY <1>8, StoredIsGood
  <2>4. ASSUME _retrive'[q] = "Always", clean'[q], NEW i \in batch'[q] \ todo'[q] PROVE Good(file'[i])
    BY <1>1, <2>1, <2>2, <2>3, <2>4 DEF Repaired
  <2> QED BY <2>4 DEF Repaired, Good
<1>9. CASE Done(q) \/ Break(q)
  <2>1. End(q)
    BY <1>9 DEF Done, Break
  <2>2. batch'[q] = {}
    BY <1>1, <2>1 DEF End, TypeOK
  <2> QED BY <2>2 DEF Repaired
<1> QED BY <1>2, <1>3, <1>4, <1>5, <1>6, <1>7, <1>8, <1>9 DEF Run
-----------------------------------------------------------------------------
(* What all runs share *)

\* No text is ahead of the server's.
LEMMA PastStep == ASSUME IInv, TypeOK', NEW q \in Proc, Run(q) PROVE Past'
<1> USE DEF IInv
<1>1. TypeOK /\ Holds(q) /\ item[q] \in Item
  BY DEF TypeOK
<1>2. current' = current
  BY DEF Run, Start, Process, Ask, AskGetsNone, AskRaises, Open, Write, Read, Done, Break
<1>3. CASE Open(q)
  BY <1>1, <1>2, <1>3, Texts DEF Open, Past, Good, TypeOK
<1>4. CASE Write(q)
  <2>1. PICK t \in {answer[q], Torn} : file' = [file EXCEPT ![item[q]] = t]
    BY <1>4 DEF Write
  <2>2. file'[item[q]] = t /\ \A i \in Item \ {item[q]} : file'[i] = file[i]
    BY <1>1, <2>1 DEF TypeOK
  <2>3. Good(answer[q]) => answer[q] <= current[item[q]]
    BY <1>1, <1>4, Texts DEF Write, Holds, TypeOK
  <2> QED BY <1>2, <2>1, <2>2, <2>3, Texts DEF Past, Good
<1>5. CASE ~ Open(q) /\ ~ Write(q)
  <2>1. file' = file
    BY <1>5 DEF Run, Start, Process, Ask, AskGetsNone, AskRaises, Read, Done, Break
  <2> QED BY <1>2, <2>1 DEF Past, Good
<1> QED BY <1>3, <1>4, <1>5

\* A truncated file has a writer.
LEMMA OpenShares ==
    ASSUME IInv, TypeOK', NEW q \in Proc, Open(q) PROVE SpoiledByFaultsOnly' /\ Overlaps'
<1> USE DEF IInv, Goto, Writing
<1>1. TypeOK /\ item[q] \in Item
  BY DEF TypeOK
<1>2. /\ file'[item[q]] = Torn /\ pc'[q] = "write" /\ item' = item /\ pc[q] = "open"
      /\ \A i \in Item \ {item[q]} : file'[i] = file[i] /\ cause'[i] = cause[i]
      /\ \A r \in Proc \ {q} : pc'[r] = pc[r]
      /\ cause'[item[q]] = IF Alone(q) THEN {} ELSE cause[item[q]] \union {"overlap"}
  BY <1>1 DEF Open, TypeOK
<1>3. ASSUME NEW i \in Item
      PROVE  /\ file'[i] = NoneText => "request" \in cause'[i]
             /\ file'[i] = Torn /\ ~ (\E r \in Proc : pc'[r] = "write" /\ item'[r] = i) =>
                   "break" \in cause'[i] \/ (i = People /\ "overlap" \in cause'[i])
  <2>1. CASE i = item[q]
    BY <1>2, <2>1, Texts
  <2>2. CASE i # item[q]
    BY <1>2, <2>2 DEF SpoiledByFaultsOnly
  <2> QED BY <2>1, <2>2
<1>4. ASSUME NEW p \in Proc, NEW r \in Proc, p # r, pc'[p] = "write", pc'[r] = "write", item[p] = item[r]
      PROVE  "overlap" \in cause'[item[p]]
  <2>1. item[p] \in Item
    BY <1>1 DEF TypeOK
  <2>2. CASE item[p] # item[q]
    BY <1>2, <1>4, <2>1, <2>2 DEF Overlaps
  <2>3. CASE item[p] = item[q]
    <3>1. ~ Alone(q)
      BY <1>2, <1>4, <2>3 DEF Alone
    <3> QED BY <1>2, <2>3, <3>1
  <2> QED BY <2>2, <2>3
<1>5. ASSUME NEW r \in Proc, pc'[r] = "write", file'[item[r]] # Torn PROVE "overlap" \in cause'[item[r]]
  <2>1. r # q /\ item[r] # item[q] /\ item[r] \in Item
    BY <1>1, <1>2, <1>5 DEF TypeOK
  <2> QED BY <1>2, <1>5, <2>1 DEF Overlaps
<1> QED BY <1>2, <1>3, <1>4, <1>5 DEF SpoiledByFaultsOnly, Overlaps

\* What is written is an answer, None after a refused request, or torn by another.
LEMMA WriteShares ==
    ASSUME IInv, TypeOK', NEW q \in Proc, Write(q) PROVE SpoiledByFaultsOnly' /\ Overlaps'
<1> USE DEF IInv, Goto, Writing
<1>1. TypeOK /\ Holds(q) /\ item[q] \in Item
  BY DEF TypeOK
<1>2. PICK t \in {answer[q], Torn} :
         /\ t = Torn => item[q] = People /\ file[People] \notin {Torn, answer[q]}
         /\ file' = [file EXCEPT ![item[q]] = t]
  BY DEF Write
<1>3. /\ file'[item[q]] = t /\ item' = item /\ pc[q] = "write"
      /\ \A i \in Item \ {item[q]} : file'[i] = file[i] /\ cause'[i] = cause[i]
      /\ \A r \in Proc \ {q} : pc'[r] = pc[r]
      /\ cause'[item[q]] = (IF Alone(q) /\ file'[item[q]] = answer[q] THEN {} ELSE cause[item[q]])
                              \union (IF failed[q] THEN {"request"} ELSE {})
  BY <1>1, <1>2 DEF Write, TypeOK
<1>4. pc'[q] \in {"next", "read"}
  BY <1>1 DEF Write, TypeOK
<1>5. answer[q] \in 1 .. current[item[q]] \/ (answer[q] = NoneText /\ failed[q])
  BY <1>1, <1>3 DEF Holds
<1>6. answer[q] # Torn
  BY <1>1, <1>5, Texts DEF TypeOK, Torn
<1>7. answer[q] = NoneText => failed[q]
  BY <1>1, <1>5, Texts DEF TypeOK, NoneText
<1>8. ASSUME NEW i \in Item
      PROVE  /\ file'[i] = NoneText => "request" \in cause'[i]
             /\ file'[i] = Torn /\ ~ (\E r \in Proc : pc'[r] = "write" /\ item'[r] = i) =>
                   "break" \in cause'[i] \/ (i = People /\ "overlap" \in cause'[i])
  <2>1. CASE i = item[q]
    <3>1. file'[i] = NoneText => "request" \in cause'[i]
      BY <1>2, <1>3, <1>7, <2>1, Texts
    <3>2. ASSUME file'[i] = Torn PROVE i = People /\ "overlap" \in cause'[i]
      <4>1. t = Torn /\ item[q] = People /\ file[item[q]] # Torn /\ t # answer[q]
        BY <1>2, <1>3, <1>6, <2>1, <3>2
      <4>2. "overlap" \in cause[item[q]]
        BY <1>3, <4>1 DEF Overlaps
      <4> QED BY <1>3, <2>1, <4>1, <4>2
    <3> QED BY <3>1, <3>2
  <2>2. CASE i # item[q]
    BY <1>3, <2>2 DEF SpoiledByFaultsOnly
  <2> QED BY <2>1, <2>2
<1>9. ASSUME NEW p \in Proc, p # q, pc[p] = "write", "overlap" \in cause[item[p]]
      PROVE  "overlap" \in cause'[item[p]]
  <2>1. item[p] \in Item
    BY <1>1 DEF TypeOK
  <2>2. CASE item[p] = item[q]
    <3>1. ~ Alone(q)
      BY <1>9, <2>2 DEF Alone
    <3> QED BY <1>3, <1>9, <2>2, <3>1
  <2>3. CASE item[p] # item[q]
    BY <1>3, <1>9, <2>1, <2>3
  <2> QED BY <2>2, <2>3
<1>10. ASSUME NEW p \in Proc, NEW r \in Proc, p # r, pc'[p] = "write", pc'[r] = "write", item[p] = item[r]
       PROVE  "overlap" \in cause'[item[p]]
  <2>1. p # q /\ r # q /\ pc[p] = "write" /\ pc[r] = "write"
    BY <1>3, <1>4, <1>10
  <2> QED BY <1>9, <1>10, <2>1 DEF Overlaps
<1>11. ASSUME NEW r \in Proc, pc'[r] = "write", file'[item[r]] # Torn PROVE "overlap" \in cause'[item[r]]
  <2>1. r # q /\ pc[r] = "write" /\ item[r] \in Item
    BY <1>1, <1>3, <1>4, <1>11 DEF TypeOK
  <2>2. "overlap" \in cause[item[r]]
    BY <1>3, <1>11, <2>1 DEF Overlaps
  <2> QED BY <1>9, <2>1, <2>2
<1> QED BY <1>3, <1>8, <1>10, <1>11 DEF SpoiledByFaultsOnly, Overlaps

\* No other step changes a file; who breaks off while it writes is noted.
LEMMA SharedStep ==
    ASSUME IInv, TypeOK', NEW q \in Proc, Run(q) PROVE SpoiledByFaultsOnly' /\ Overlaps'
<1> USE DEF IInv, Goto, Writing
<1>1. TypeOK /\ item[q] \in Item
  BY DEF TypeOK
<1>2. CASE Break(q)
  <2>1. /\ file' = file /\ pc'[q] = "idle"
        /\ \A r \in Proc \ {q} : pc'[r] = pc[r] /\ item'[r] = item[r]
        /\ \A i \in Item : cause[i] \subseteq cause'[i]
        /\ pc[q] = "write" => "break" \in cause'[item[q]]
    BY <1>1, <1>2 DEF Break, End, TypeOK
  <2>2. ASSUME NEW i \in Item
        PROVE  /\ file'[i] = NoneText => "request" \in cause'[i]
               /\ file'[i] = Torn /\ ~ (\E r \in Proc : pc'[r] = "write" /\ item'[r] = i) =>
                     "break" \in cause'[i] \/ (i = People /\ "overlap" \in cause'[i])
    <3>1. CASE pc[q] = "write" /\ item[q] = i
      BY <2>1, <3>1 DEF SpoiledByFaultsOnly
    <3>2. CASE ~ (pc[q] = "write" /\ item[q] = i)
      BY <2>1, <3>2 DEF SpoiledByFaultsOnly
    <3> QED BY <3>1, <3>2
  <2>3. \A r \in Proc : item[r] \in Item
    BY <1>1 DEF TypeOK
  <2> QED BY <2>1, <2>2, <2>3 DEF SpoiledByFaultsOnly, Overlaps
<1>3. CASE ~ Open(q) /\ ~ Write(q) /\ ~ Break(q)
  <2>1. UNCHANGED <<file, cause>>
    BY <1>3 DEF Run, Start, Process, Ask, AskGetsNone, AskRaises, Read, Done
  <2>2. pc[q] # "write" /\ pc'[q] # "write"
    <3>1. CASE Start(q) \/ Process(q) \/ Ask(q)
      BY <1>1, <3>1 DEF Start, Process, Ask, TypeOK
    <3>2. CASE AskGetsNone(q) \/ AskRaises(q) \/ Read(q) \/ Done(q)
      BY <1>1, <3>2 DEF AskGetsNone, AskRaises, Read, Done, End, TypeOK
    <3> QED BY <1>3, <3>1, <3>2 DEF Run
  <2>3. \A r \in Proc \ {q} : pc'[r] = pc[r] /\ item'[r] = item[r]
    <3>1. CASE Start(q) \/ Process(q) \/ Ask(q)
      BY <1>1, <3>1 DEF Start, Process, Ask, TypeOK
    <3>2. CASE AskGetsNone(q) \/ AskRaises(q) \/ Read(q) \/ Done(q)
      BY <1>1, <3>2 DEF AskGetsNone, AskRaises, Read, Done, End, TypeOK
    <3> QED BY <1>3, <3>1, <3>2 DEF Run
  <2>4. \A r \in Proc : \A i : Writing(r, i)' <=> Writing(r, i)
    BY <2>2, <2>3
  <2>5. SpoiledByFaultsOnly'
    BY <2>1, <2>4 DEF SpoiledByFaultsOnly
  <2>6. Overlaps'
    BY <2>1, <2>2, <2>3 DEF Overlaps
  <2> QED BY <2>5, <2>6
<1> QED BY <1>2, <1>3, OpenShares, WriteShares

LEMMA ShowsStep == ASSUME IInv, TypeOK', NEW q \in Proc, Run(q) PROVE ShowsAnAnswer'
<1> USE DEF IInv, Goto
<1> DEFINE Fits(s) == s.text # 0 => s.text \in Max({1, s.since}) .. current[s.item]
<1>1. TypeOK /\ Holds(q) /\ item[q] \in Item
  BY DEF TypeOK
<1>2. current' = current
  BY DEF Run, Start, Process, Ask, AskGetsNone, AskRaises, Open, Write, Read, Done, Break
<1>3. ASSUME NEW t \in Nat \ {0}, Show(q, t), t <= current[item[q]], since[q] \in {0, t}
      PROVE  Fits(shown'[q])
  <2>1. shown'[q] = [item |-> item[q], text |-> t, since |-> since[q]]
    BY <1>1, <1>3 DEF Show, TypeOK
  <2>2. current[item[q]] \in Int
    BY <1>1, Texts DEF TypeOK
  <2>3. t \in Max({1, since[q]}) .. current[item[q]]
    BY <1>3, <2>2, Bounds
  <2> QED BY <2>1, <2>3
<1>4. Fits(shown[q])
  BY DEF ShowsAnAnswer
<1>5. Fits(Nothing)
  BY DEF Nothing
<1> HIDE DEF Fits
<1>6. Fits(shown'[q])
  <2>1. CASE shown'[q] = shown[q]
    BY <1>4, <2>1
  <2>2. CASE Process(q) \/ Done(q) \/ Break(q)
    BY <1>1, <1>5, <2>2 DEF Process, Done, Break, End, TypeOK
  <2>3. CASE Write(q) /\ item[q] = People
    <3>1. answer[q] \in 1 .. current[item[q]] /\ since[q] \in {0, answer[q]}
      BY <1>1, <2>3, Items DEF Write, Holds
    <3>2. answer[q] \in Nat \ {0} /\ answer[q] <= current[item[q]]
      BY <1>1, <3>1, Texts DEF TypeOK
    <3>3. Show(q, answer[q])
      BY <2>3 DEF Write
    <3> QED BY <1>3, <3>1, <3>2, <3>3
  <2>4. CASE Read(q) /\ Parses(file[item[q]])
    <3>1. file[item[q]] \in Nat \ {0} /\ file[item[q]] <= current[item[q]]
      BY <1>1, <2>4, Texts DEF Parses, Good, Past
    <3>2. since[q] \in {0, file[item[q]]} /\ Show(q, file[item[q]])
      BY <1>1, <2>4 DEF Read, Holds
    <3> QED BY <1>3, <3>1, <3>2
  <2>5. CASE /\ ~ Process(q) /\ ~ Done(q) /\ ~ Break(q)
             /\ ~ (Write(q) /\ item[q] = People) /\ ~ (Read(q) /\ Parses(file[item[q]]))
    <3>1. shown' = shown
      <4>1. CASE Write(q) \/ Read(q)
        BY <2>5, <4>1 DEF Write, Read
      <4> QED BY <2>5, <4>1 DEF Run, Start, Ask, AskGetsNone, AskRaises, Open
    <3> QED BY <2>1, <3>1
  <2> QED BY <2>2, <2>3, <2>4, <2>5
<1>7. ASSUME NEW r \in Proc PROVE Fits(shown'[r])
  <2>1. CASE r = q
    BY <1>6, <2>1
  <2>2. CASE r # q
    <3>1. shown'[r] = shown[r]
      BY <2>2, OthersStep
    <3> QED BY <3>1 DEF Fits, ShowsAnAnswer
  <2> QED BY <2>1, <2>2
<1> QED BY <1>2, <1>7 DEF Fits, ShowsAnAnswer

LEMMA PublishStep == ASSUME IInv, TypeOK', NEW i \in Item, Publish(i) PROVE IInv'
<1> USE DEF IInv
<1>1. TypeOK /\ UNCHANGED <<file, local, cause, faults>>
  BY DEF Publish
<1>2. \A j \in Item : current[j] \in Nat /\ current'[j] \in Nat /\ current'[j] >= current[j]
  <2>1. current \in [Item -> Nat] /\ current' = [current EXCEPT ![i] = @ + 1]
    BY <1>1, Texts DEF Publish, TypeOK
  <2> QED BY <2>1
<1>3. \A r \in Proc : Holds(r)' /\ Repaired(r)'
  BY <1>1, <1>2, OthersKept DEF local
<1>4. Past'
  <2>1. \A j \in Item : Good(file[j]) => file[j] \in Nat /\ file[j] <= current[j]
    BY <1>1, Texts DEF Past, Good
  <2>2. \A j \in Item : Good(file[j]) => file[j] <= current'[j]
    BY <1>2, <2>1
  <2> QED BY <1>1, <2>2 DEF Past, Good
<1>5. ShowsAnAnswer'
  <2>1. ASSUME NEW q \in Proc, shown[q].text # 0
        PROVE  shown[q].text \in Max({1, shown[q].since}) .. current'[shown[q].item]
    <3>1. shown[q].text \in Int /\ shown[q].since \in Nat /\ shown[q].item \in Item
      BY <1>1, Texts DEF TypeOK
    <3>2. shown[q].text \in Max({1, shown[q].since}) .. current[shown[q].item]
      BY <2>1 DEF ShowsAnAnswer
    <3> QED BY <1>2, <3>1, <3>2, Bounds
  <2> QED BY <1>1, <2>1 DEF ShowsAnAnswer, local
<1>6. SpoiledByFaultsOnly' /\ Overlaps'
  BY <1>1 DEF SpoiledByFaultsOnly, Overlaps, Writing, local
<1> QED BY <1>3, <1>4, <1>5, <1>6

LEMMA NextIInv == IInv /\ [Next]_vars => IInv'
<1>1. ASSUME IInv, NEW q \in Proc, Run(q) PROVE IInv'
  <2>1. TypeOK'
    BY <1>1, TypeStep DEF IInv, Next
  <2>2. \A r \in Proc : Holds(r)' /\ Repaired(r)'
    BY <1>1, <2>1, OwnHolds, OwnRepaired, OthersStep
  <2> QED BY <1>1, <2>1, <2>2, PastStep, SharedStep, ShowsStep DEF IInv
<1>2. ASSUME IInv, NEW i \in Item, Publish(i) PROVE IInv'
  BY <1>2, TypeStep, PublishStep DEF IInv, Next
<1>3. ASSUME IInv, UNCHANGED vars PROVE IInv'
  <2>1. /\ UNCHANGED <<current, file, cause, faults>>
        /\ UNCHANGED <<pc, _retrive, todo, item, answer, shown, since, batch, clean, failed>>
    BY <1>3 DEF vars, local
  <2>2. TypeOK' /\ Past'
    BY <1>3, <2>1 DEF IInv, TypeOK, Past, Good
  <2>3. \A r \in Proc : Holds(r)' /\ Repaired(r)'
    BY <1>3, <2>1 DEF IInv, Holds, Repaired, Good
  <2>4. ShowsAnAnswer'
    BY <1>3, <2>1 DEF IInv, ShowsAnAnswer
  <2>5. SpoiledByFaultsOnly' /\ Overlaps'
    BY <1>3, <2>1 DEF IInv, SpoiledByFaultsOnly, Overlaps, Writing
  <2> QED BY <2>2, <2>3, <2>4, <2>5 DEF IInv
<1> QED BY <1>1, <1>2, <1>3 DEF Next

LEMMA Invariance == Spec => []IInv
BY InitIInv, NextIInv, PTL DEF Spec

-----------------------------------------------------------------------------
(* Theorems *)

\* Every variable keeps its type.
THEOREM TypeCorrect == Spec => []TypeOK
<1>1. IInv => TypeOK
  BY DEF IInv
<1> QED BY <1>1, Invariance, PTL

\* Whatever failed or broke off and whoever else writes the file, what is printed
\* (lsbug 81, people 86) was the server's text, and the one of the question if
\* there was a question and nobody disturbed the run.
THEOREM AnswersAreShown == Spec => []ShowsAnAnswer
<1>1. IInv => ShowsAnAnswer
  BY DEF IInv
<1> QED BY <1>1, Invariance, PTL

\* A file (lsbug 144, people 80) is spoiled by what happened to that file alone: a
\* refused request, a run that broke off in it, or, for the list of people, two who
\* wrote it at once.
THEOREM FaultsSpoil == Spec => []SpoiledByFaultsOnly
<1>1. IInv => SpoiledByFaultsOnly
  BY DEF IInv
<1> QED BY <1>1, Invariance, PTL

\* An undisturbed run with -r (lsbug 140, people 75) leaves all its items good,
\* whatever it found.
THEOREM RetriveMakesGood == Spec => RetriveRepairs
<1> DEFINE Repairs == \A q \in Proc : Done(q) /\ _retrive[q] = "Always" /\ clean[q] =>
                         \A i \in batch[q] : Good(file[i])
<1>1. IInv => Repairs
  <2> SUFFICES ASSUME IInv, NEW q \in Proc, Done(q), _retrive[q] = "Always", clean[q],
                      NEW i \in batch[q]
               PROVE  Good(file[i])
    OBVIOUS
  <2>1. todo[q] = {} /\ pc[q] = "next"
    BY DEF Done
  <2> QED BY <2>1 DEF IInv, Repaired
<1> QED BY <1>1, Invariance, PTL DEF RetriveRepairs
=============================================================================
