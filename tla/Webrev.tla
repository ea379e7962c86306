------------------------------- MODULE Webrev -------------------------------
(***************************************************************************)
(* bin/webrevput.py: publish a webrev over SFTP as cr/webrev.NN, NN being  *)
(* one more than the latest, or delete or replace the latest.  Trees go    *)
(* over and are deleted file by file, and any request may fail, so a run   *)
(* may leave half a webrev to the next one.  One session at a time works   *)
(* on a user's home.                                                       *)
(***************************************************************************)
EXTENDS Integers, FiniteSets, FiniteSetsExt

CONSTANTS
    Files,          \* of a webrev
    Interactive,    \* _confirm: questions are declined, not answered with yes
    Published,      \* how many webrevs there may be before the first run
    ByHand,         \* sets of numbers N that may be taken by a "webrev.N" made
                    \* by hand, unpadded
    MaxNum, MaxEdits, MaxFaults    \* bounds

ASSUME WebrevAssumption ==
    /\ Interactive \in BOOLEAN
    /\ MaxNum \in Nat \ {0} /\ Published \subseteq 0 .. MaxNum
    /\ ByHand \subseteq SUBSET (1 .. MaxNum)
    /\ MaxEdits \in Nat /\ MaxFaults \in Nat

Num == 1 .. MaxNum

\* Directories named crId: in the user's home, and, by mistake, in that one.
Place == {"cr", "cr/cr"}

NoFile == -1
Damaged == 0     \* the start of a file, left by a put that failed

VARIABLES
    dirs,        \* the places that exist
    webrevs,     \* for each place, the numbers of the directories webrev.NN
    content,     \* the version of each file in them
    by_hand,     \* the numbers of those made by hand; no session touches them
    local,       \* version of the webrev on this side
    action, pc, cwd, num, rest,
    declined,    \* a question was answered with no, or there is no webrev here
    quiet,       \* history: the local webrev has not changed during the run
    result, edits, faults

server == <<dirs, webrevs, content, by_hand>>
vars == <<server, local, action, pc, cwd, num, rest, declined, quiet, result, edits, faults>>

Empty == [f \in Files |-> NoFile]

\* guess_name: the largest number after "webrev.", padded or not, 0 if none.
Names(p) == webrevs[p] \union (IF p = "cr" THEN by_hand ELSE {})
\* Mutants: numbers start below 0; the first name of the listing is taken.
LatestFromMinusOne(p) == IF Names(p) = {} THEN -1 ELSE Max(Names(p))
LatestIsFirst(p) == IF Names(p) = {} THEN 0 ELSE Min(Names(p))

Latest(p) == IF Names(p) = {} THEN 0 ELSE Max(Names(p))

Whole(p, n) == \A f \in Files : content[p][n][f] > Damaged

Init ==
    /\ by_hand \in ByHand
    /\ \E k \in Published :
          /\ by_hand \subseteq 1 .. k
          /\ webrevs = [p \in Place |-> IF p = "cr" THEN (1 .. k) \ by_hand ELSE {}]
          /\ dirs = IF k = 0 THEN {} ELSE {"cr"}
    /\ content = [p \in Place |-> [n \in Num |->
                     IF n \in webrevs[p] THEN [f \in Files |-> 1] ELSE Empty]]
    /\ local = 2
    /\ action = "none" /\ pc = "idle" /\ cwd = "home" /\ num = 0 /\ rest = {}
    /\ declined = FALSE /\ quiet = FALSE /\ result = "none" /\ edits = 0 /\ faults = 0

-----------------------------------------------------------------------------
Start(a) ==
    /\ pc = "idle"
    /\ a # "delete" => \A p \in Place : Latest(p) < MaxNum       \* bound
    /\ action' = a /\ pc' = IF a = "copy" THEN "copy" ELSE "delete"
    /\ cwd' = "home" /\ num' = 0 /\ rest' = {}
    /\ declined' = FALSE /\ quiet' = TRUE /\ result' = "none"
    /\ UNCHANGED <<server, local, edits, faults>>

End(how) == pc' = "idle" /\ result' = how

\* An exception: the program reports it and exits with 1.
Raise ==
    /\ End("failed")
    /\ UNCHANGED <<server, local, action, cwd, num, rest, declined, quiet, edits>>

Answers == IF Interactive THEN BOOLEAN ELSE {TRUE}

AfterDelete == IF action = "replace" THEN pc' = "copy" /\ UNCHANGED result ELSE End("ok")

\* Mutant: the last name but one is taken.
ProceedDeleteOffByOne ==
    /\ pc = "delete" /\ "cr" \in dirs
    /\ cwd' = "cr" /\ num' = Max({Latest("cr") - 1, 0})
    /\ \E yes \in Answers :
          /\ declined' = (declined \/ ~ yes)
          /\ IF yes THEN pc' = "deltree" /\ UNCHANGED result ELSE AfterDelete
    /\ UNCHANGED <<server, local, action, rest, quiet, edits, faults>>

\* proceed_delete up to the question.  After a no the working directory is
\* still the one of the cr.
ProceedDelete ==
    /\ pc = "delete" /\ "cr" \in dirs
    /\ cwd' = "cr" /\ num' = Latest("cr")
    /\ \E yes \in Answers :
          /\ declined' = (declined \/ ~ yes)
          /\ IF yes THEN pc' = "deltree" /\ UNCHANGED result ELSE AfterDelete
    /\ UNCHANGED <<server, local, action, rest, quiet, edits, faults>>

NoSuchCr == pc = "delete" /\ "cr" \notin dirs /\ Raise /\ UNCHANGED faults

\* deltree of the padded name; there may be none.
ListTree ==
    /\ pc = "deltree" /\ num \in webrevs["cr"]
    /\ pc' = "remove"
    /\ rest' = {f \in Files : content["cr"][num][f] # NoFile}
    /\ UNCHANGED <<server, local, action, cwd, num, declined, quiet, result, edits, faults>>

NoSuchTree == pc = "deltree" /\ num \notin webrevs["cr"] /\ Raise /\ UNCHANGED faults

RemoveFile ==
    /\ pc = "remove"
    /\ \E f \in rest :
          /\ rest' = rest \ {f}
          /\ content' = [content EXCEPT !["cr"][num][f] = NoFile]
    /\ UNCHANGED <<dirs, webrevs, by_hand, local, action, pc, cwd, num, declined, quiet, result, edits, faults>>

\* Mutants: the emptied directory stays; the working directory is not left.
RemoveDirForgotten ==
    /\ pc = "remove" /\ rest = {}
    /\ cwd' = "home"
    /\ AfterDelete
    /\ UNCHANGED <<server, local, action, num, rest, declined, quiet, edits, faults>>
RemoveDirStays ==
    /\ pc = "remove" /\ rest = {}
    /\ webrevs' = [webrevs EXCEPT !["cr"] = @ \ {num}]
    /\ AfterDelete
    /\ UNCHANGED <<dirs, content, by_hand, local, action, cwd, num, rest, declined, quiet, edits, faults>>

RemoveDir ==
    /\ pc = "remove" /\ rest = {}
    /\ webrevs' = [webrevs EXCEPT !["cr"] = @ \ {num}]
    /\ cwd' = "home"
    /\ AfterDelete
    /\ UNCHANGED <<dirs, content, by_hand, local, action, num, rest, declined, quiet, edits, faults>>

\* chdir(crId) from the working directory; home/cr/cr is as deep as it gets.
Target == IF cwd = "home" THEN "cr" ELSE "cr/cr"

\* proceed_copy up to its second question; the first one is about a new cr.
ProceedCopy ==
    /\ pc = "copy"
    /\ \E create, yes \in Answers, exists \in BOOLEAN :    \* a webrev in "."
          IF Target \notin dirs /\ ~ create
          THEN declined' = TRUE /\ End("ok") /\ UNCHANGED <<dirs, num, cwd>>
          ELSE /\ dirs' = dirs \union {Target}
               /\ cwd' = Target
               /\ num' = IF Target \in dirs THEN Latest(Target) + 1 ELSE 1
               /\ declined' = (declined \/ ~ exists \/ ~ yes)
               /\ IF exists /\ yes THEN pc' = "mkdir" /\ UNCHANGED result ELSE End("ok")
    /\ UNCHANGED <<webrevs, content, by_hand, local, action, rest, quiet, edits, faults>>

\* copytree makes the directory, which must not exist, then puts the files.
MakeDir ==
    /\ pc = "mkdir" /\ num \notin webrevs[cwd]
    /\ pc' = "put" /\ rest' = Files
    /\ webrevs' = [webrevs EXCEPT ![cwd] = @ \union {num}]
    /\ UNCHANGED <<dirs, content, by_hand, local, action, cwd, num, declined, quiet, result, edits, faults>>

PutFile ==
    /\ pc = "put"
    /\ \E f \in rest :
          /\ rest' = rest \ {f}
          /\ content' = [content EXCEPT ![cwd][num][f] = local]
    /\ UNCHANGED <<dirs, webrevs, by_hand, local, action, pc, cwd, num, declined, quiet, result, edits, faults>>

CopyDone ==
    /\ pc = "put" /\ rest = {}
    /\ End("ok")
    /\ UNCHANGED <<server, local, action, cwd, num, rest, declined, quiet, edits, faults>>

-----------------------------------------------------------------------------
\* The connection breaks, or the user interrupts the program: before a
\* request, or in the middle of a put.
Break ==
    /\ pc # "idle" /\ faults < MaxFaults
    /\ faults' = faults + 1
    /\ \/ Raise
       \/ /\ pc = "put" /\ End("failed")
          /\ \E f \in rest : content' = [content EXCEPT ![cwd][num][f] = Damaged]
          /\ UNCHANGED <<dirs, webrevs, by_hand, local, action, cwd, num, rest, declined, quiet, edits>>

\* The webrev is generated anew.
Edit ==
    /\ edits < MaxEdits
    /\ local' = local + 1 /\ edits' = edits + 1 /\ quiet' = FALSE
    /\ UNCHANGED <<server, action, pc, cwd, num, rest, declined, result, faults>>

Next == \/ \E a \in {"copy", "delete", "replace"} : Start(a)
        \/ ProceedDelete \/ NoSuchCr \/ ListTree \/ NoSuchTree \/ RemoveFile \/ RemoveDir
        \/ ProceedCopy \/ MakeDir \/ PutFile \/ CopyDone \/ Break \/ Edit

Spec == Init /\ [][Next]_vars

-----------------------------------------------------------------------------
(* Properties *)

\* Every variable keeps its type, and no step names a place that is not there.
TypeOK ==
    /\ dirs \subseteq Place /\ by_hand \subseteq Num /\ webrevs \in [Place -> SUBSET Num]
    /\ content \in [Place -> [Num -> [Files -> NoFile .. (2 + MaxEdits)]]]
    /\ local \in 2 .. (2 + MaxEdits)
    /\ action \in {"none", "copy", "delete", "replace"}
    /\ pc \in {"idle", "delete", "deltree", "remove", "copy", "mkdir", "put"}
    /\ cwd \in Place \union {"home"} /\ num \in Num \union {0} /\ rest \subseteq Files
    /\ declined \in BOOLEAN /\ quiet \in BOOLEAN /\ result \in {"none", "ok", "failed"}
    /\ edits \in 0 .. MaxEdits /\ faults \in 0 .. MaxFaults

\* Runs of copy, delete and replace, broken off anywhere, leave the numbers of
\* a cr, padded or not, without a gap and without a number that names two.
NoGaps == \A p \in Place : /\ Names(p) = 1 .. Cardinality(Names(p))
                           /\ p = "cr" => webrevs[p] \intersect by_hand = {}

\* Only the latest webrev ever changes: reviews published before it stay as
\* they are, whatever breaks off, and what was made by hand is not overwritten.
EarlierKept ==
    [][\A n \in Num : n < Latest("cr") =>
          /\ content'["cr"][n] = content["cr"][n]
          /\ n \in webrevs["cr"] <=> n \in webrevs'["cr"]]_vars

Incomplete == {w \in Place \X Num : w[2] \in webrevs[w[1]] /\ ~ Whole(w[1], w[2])}

\* Each webrev that is not whole was left so by a break of its own.
IncompleteWereBroken == pc = "idle" => Cardinality(Incomplete) <= faults

\* A copy or replace that ends well, with nothing declined or changed under
\* way, has made the local webrev the latest of the cr, complete.
Publishes ==
    pc = "idle" /\ result = "ok" /\ action \in {"copy", "replace"} /\ ~ declined /\ quiet =>
        /\ Latest("cr") \in webrevs["cr"]
        /\ content["cr"][Latest("cr")] = [f \in Files |-> local]

\* webrevput.py:123 tells the user that the copy goes to crId/webrevName.
CopiesToTheCr == pc \in {"mkdir", "put"} => cwd = "cr"
=============================================================================
