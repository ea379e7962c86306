------------------------------- MODULE Caches -------------------------------
(***************************************************************************)
(* bin/lsbug.py and bin/people.py: answers of a server kept in files, one  *)
(* for each bug and one for all people, with no date and no check.  A file *)
(* is truncated when it is opened and written later; a run may be broken   *)
(* off in between, and another one may use the same file meanwhile.        *)
(***************************************************************************)
EXTENDS Integers, FiniteSets, FiniteSetsExt

CONSTANTS
    Jira, Unknown,     \* bugs by their tags: asked for at JIRA, or at no server
    People,            \* the list of people
    Proc,              \* runs of either program that may overlap
    MaxVersion,        \* bound: how often a server's text changes
    MaxFaults          \* bound: failed requests and broken runs

Bugs == Jira \union Unknown
Item == Bugs \union {People}

ASSUME CachesAssumption ==
    /\ Jira \intersect Unknown = {} /\ People \notin Bugs
    /\ MaxVersion \in Nat \ {0} /\ MaxFaults \in Nat

\* What a file holds: the text that the server had in some version, or ...
Missing == 0
Torn == -1      \* nothing, or a part of a page
NoneText == -2  \* the word None
Version == 1 .. MaxVersion
Good(text) == text \in Version

VARIABLES
    current,       \* version of the text on the server
    file,
    pc, _retrive,
    todo, item, answer,
    shown,         \* what was printed for the last item, and the version it must not be older than
    since,         \* history: version when the server was asked; 0 if it was not, or not alone
    batch, clean,  \* history: the items of the run; nothing has disturbed it
    failed,        \* history: the request for its item was refused
    cause,         \* history: what has happened to a file since a run used it alone
    faults

local == <<pc, _retrive, todo, item, answer, shown, since, batch, clean, failed>>
vars == <<current, file, local, cause, faults>>

Nothing == [item |-> People, text |-> 0, since |-> 0]

Init ==
    /\ current = [i \in Item |-> 1] /\ file = [i \in Item |-> Missing]
    /\ pc = [q \in Proc |-> "idle"] /\ _retrive = [q \in Proc |-> "OnDemand"]
    /\ todo = [q \in Proc |-> {}] /\ item \in [Proc -> {People}] /\ answer = [q \in Proc |-> Missing]
    /\ shown = [q \in Proc |-> Nothing]
    /\ since = [q \in Proc |-> 0] /\ batch = [q \in Proc |-> {}] /\ clean = [q \in Proc |-> TRUE]
    /\ failed = [q \in Proc |-> FALSE] /\ cause = [i \in Item |-> {}]
    /\ faults = 0

Writing(q, i) == pc[q] = "write" /\ item[q] = i
Alone(q) == \A r \in Proc \ {q} : ~ Writing(r, item[q])

Goto(q, l) == pc' = [pc EXCEPT ![q] = l]

\* Another run that is about to use the file I change is disturbed.
Disturb(q) ==
    LET others == {r \in Proc \ {q} : pc[r] # "idle" /\ item[q] \in batch[r]}
    IN /\ since' = [r \in Proc |-> IF r \in others /\ item[r] = item[q] THEN 0 ELSE since[r]]
       /\ clean' = [r \in Proc |-> clean[r] /\ r \notin others]

-----------------------------------------------------------------------------
(* A run *)

\* lsbug on one directory or on all of them, or people; Never if there are no
\* credentials, whatever the command line says.
Start(q) ==
    /\ pc[q] = "idle"
    /\ \E items \in {Bugs} \union {{i} : i \in Item}, m \in {"Never", "OnDemand", "Always"} :
          /\ m = "Never" => People \notin items
          /\ todo' = [todo EXCEPT ![q] = items] /\ batch' = [batch EXCEPT ![q] = items]
          /\ _retrive' = [_retrive EXCEPT ![q] = m]
    /\ clean' = [clean EXCEPT ![q] = \A r \in Proc \ {q} : pc[r] = "idle"]
    /\ Goto(q, "next")
    /\ UNCHANGED <<current, file, item, answer, shown, since, failed, cause, faults>>

\* Mutant: -r asks only for what is not in the cache, too.
MustAskIfMissing(q, i) == _retrive[q] # "Never" /\ file[i] = Missing

MustAsk(q, i) == \/ _retrive[q] = "Always"
                 \/ _retrive[q] = "OnDemand" /\ file[i] = Missing

Process(q) ==
    /\ pc[q] = "next"
    /\ \E i \in todo[q] :
          /\ todo' = [todo EXCEPT ![q] = @ \ {i}]
          /\ item' = [item EXCEPT ![q] = i]
          /\ Goto(q, IF MustAsk(q, i) THEN "ask" ELSE "read")
    /\ since' = [since EXCEPT ![q] = 0] /\ shown' = [shown EXCEPT ![q] = Nothing]
    /\ answer' = [answer EXCEPT ![q] = Missing] /\ failed' = [failed EXCEPT ![q] = FALSE]
    /\ UNCHANGED <<current, file, _retrive, batch, clean, cause, faults>>

\* Mutant: a bug with another tag has no issue.
AnswerOfServersOnly(i) == IF i \in Unknown THEN NoneText ELSE current[i]

\* Issue(id, "Unknown source") needs no server.
Answer(i) == IF i \in Unknown THEN 1 ELSE current[i]

Ask(q) ==
    /\ pc[q] = "ask"
    /\ answer' = [answer EXCEPT ![q] = Answer(item[q])]
    /\ since' = [since EXCEPT ![q] = Answer(item[q])]
    /\ Goto(q, "open")
    /\ UNCHANGED <<current, file, _retrive, todo, item, shown, batch, clean, failed, cause, faults>>

Fault(q) ==
    /\ faults < MaxFaults /\ faults' = faults + 1
    /\ clean' = [clean EXCEPT ![q] = FALSE]

\* JIRA answers with an error: there is no issue, and that is what will be stored.
AskGetsNone(q) ==
    /\ pc[q] = "ask" /\ item[q] \in Jira /\ Fault(q)
    /\ answer' = [answer EXCEPT ![q] = NoneText] /\ failed' = [failed EXCEPT ![q] = TRUE]
    /\ Goto(q, "open")
    /\ UNCHANGED <<current, file, _retrive, todo, item, shown, since, batch, cause>>

\* No connection, or an HTTP error of the people's server: an exception, which
\* the loop over directories survives.
AskRaises(q) ==
    /\ pc[q] = "ask" /\ item[q] \notin Unknown /\ Fault(q)
    /\ Goto(q, "next")
    /\ UNCHANGED <<current, file, _retrive, todo, item, answer, shown, since, batch, failed, cause>>

Open(q) ==
    /\ pc[q] = "open"
    /\ file' = [file EXCEPT ![item[q]] = Torn]
    /\ Goto(q, "write") /\ Disturb(q)
    /\ cause' = [cause EXCEPT ![item[q]] = IF Alone(q) THEN {} ELSE @ \union {"overlap"}]
    /\ UNCHANGED <<current, _retrive, todo, item, answer, shown, batch, failed, faults>>

Show(q, text) ==
    shown' = [shown EXCEPT ![q] = [item |-> item[q], text |-> text, since |-> since[q]]]

\* Two writers both start at the beginning of the file.  Of a bug the first line
\* counts; a long page below a short one spoils the list of people.
Write(q) ==
    /\ pc[q] = "write"
    /\ \E text \in {answer[q], Torn} :
          /\ text = Torn => item[q] = People /\ file[People] \notin {Torn, answer[q]}
          /\ file' = [file EXCEPT ![item[q]] = text]
    /\ IF item[q] = People THEN Show(q, answer[q]) /\ Goto(q, "next")    \* from memory
                           ELSE UNCHANGED shown /\ Goto(q, "read")
    /\ Disturb(q)
    /\ cause' = [cause EXCEPT ![item[q]] = (IF Alone(q) /\ file'[item[q]] = answer[q] THEN {} ELSE @)
                                           \union (IF failed[q] THEN {"request"} ELSE {})]
    /\ UNCHANGED <<current, _retrive, todo, item, answer, batch, failed, faults>>

\* Mutant: a line without a colon is taken as it is.
ParsesAnything(text) == text # Missing

\* index(":") and the XML parser raise on anything else.
Parses(text) == Good(text)

Read(q) ==
    /\ pc[q] = "read"
    /\ IF Parses(file[item[q]]) THEN Show(q, file[item[q]]) ELSE UNCHANGED shown
    /\ Goto(q, "next")
    /\ UNCHANGED <<current, file, _retrive, todo, item, answer, since, batch, clean, failed, cause, faults>>

\* The process ends, and its variables with it.
End(q) ==
    /\ Goto(q, "idle")
    /\ todo' = [todo EXCEPT ![q] = {}] /\ batch' = [batch EXCEPT ![q] = {}]
    /\ item' = [item EXCEPT ![q] = People] /\ answer' = [answer EXCEPT ![q] = Missing]
    /\ shown' = [shown EXCEPT ![q] = Nothing] /\ since' = [since EXCEPT ![q] = 0]
    /\ _retrive' = [_retrive EXCEPT ![q] = "OnDemand"] /\ failed' = [failed EXCEPT ![q] = FALSE]

Done(q) ==
    /\ pc[q] = "next" /\ todo[q] = {}
    /\ End(q) /\ clean' = [clean EXCEPT ![q] = TRUE]
    /\ UNCHANGED <<current, file, cause, faults>>

-----------------------------------------------------------------------------
(* The environment *)

\* Ctrl-C or a crash; a file that is open stays as it is.
Break(q) ==
    /\ pc[q] # "idle" /\ End(q)
    /\ faults < MaxFaults /\ faults' = faults + 1
    /\ clean' = [clean EXCEPT ![q] = TRUE]
    /\ cause' = [cause EXCEPT ![item[q]] = IF Writing(q, item[q]) THEN @ \union {"break"} ELSE @]
    /\ UNCHANGED <<current, file>>

Publish(i) ==
    /\ i \notin Unknown /\ current[i] < MaxVersion
    /\ current' = [current EXCEPT ![i] = @ + 1]
    /\ UNCHANGED <<file, local, cause, faults>>

Run(q) == \/ Start(q) \/ Process(q) \/ Ask(q) \/ AskGetsNone(q) \/ AskRaises(q)
          \/ Open(q) \/ Write(q) \/ Read(q) \/ Done(q) \/ Break(q)
Next == \/ \E q \in Proc : Run(q)
        \/ \E i \in Item : Publish(i)
Spec == Init /\ [][Next]_vars

-----------------------------------------------------------------------------
(* Properties *)

Text == {Missing, Torn, NoneText} \union Version

\* Every variable keeps its type.
TypeOK ==
    /\ current \in [Item -> Version] /\ file \in [Item -> Text]
    /\ pc \in [Proc -> {"idle", "next", "ask", "open", "write", "read"}]
    /\ _retrive \in [Proc -> {"Never", "OnDemand", "Always"}]
    /\ todo \in [Proc -> SUBSET Item] /\ item \in [Proc -> Item] /\ answer \in [Proc -> Text]
    /\ shown \in [Proc -> [item : Item, text : Text, since : Nat]]
    /\ since \in [Proc -> Nat] /\ batch \in [Proc -> SUBSET Item] /\ clean \in [Proc -> BOOLEAN]
    /\ failed \in [Proc -> BOOLEAN] /\ cause \in [Item -> SUBSET {"request", "break", "overlap"}]
    /\ faults \in 0 .. MaxFaults

\* What is printed was the server's text once, whatever failed or broke off
\* before and whoever writes the file (lsbug 81, people 86); and if the server was
\* asked and nobody else used the file, it is no older than that question.
ShowsAnAnswer ==
    \A q \in Proc : shown[q].text # 0 =>
        shown[q].text \in Max({1, shown[q].since}) .. current[shown[q].item]

\* A file is unusable only because of what happened to that very file since a run
\* wrote it alone: it says None because the request for it was refused, and holds
\* less than an answer, while nobody writes it, because a run broke off while it
\* wrote it, or because two wrote the list of people at once (people 80).  No other
\* fault, no order of runs and no kind of bug (lsbug 140) spoils it.
SpoiledByFaultsOnly ==
    \A i \in Item :
        /\ file[i] = NoneText => "request" \in cause[i]
        /\ file[i] = Torn /\ ~ (\E q \in Proc : Writing(q, i)) =>
              "break" \in cause[i] \/ (i = People /\ "overlap" \in cause[i])

\* -r repairs: a run of it that nothing disturbs leaves every one of its items
\* good, whatever state it found the cache in (lsbug 140, people 75).
RetriveRepairs ==
    [][\A q \in Proc : Done(q) /\ _retrive[q] = "Always" /\ clean[q] =>
          \A i \in batch[q] : Good(file[i])]_vars
=============================================================================
