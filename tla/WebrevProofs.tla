---------------------------- MODULE WebrevProofs ----------------------------
(***************************************************************************)
(* For any files, any number of webrevs, edits and breaks, and whatever    *)
(* was made by hand: the numbers of a cr have no gap, only the latest      *)
(* webrev changes, and what is published is the local one.                 *)
(***************************************************************************)
EXTENDS Webrev, FiniteSetTheorems, TLAPS

\* The numbers at a place are 1 to the latest; a place without directory has none.
Numbers ==
    /\ \A p \in Place : Latest(p) \in 0 .. MaxNum /\ Names(p) = 1 .. Latest(p)
    /\ webrevs["cr"] \intersect by_hand = {}
    /\ \A p \in Place : p \notin dirs => Latest(p) = 0

\* What a session knows of the numbers where it stands.
Session ==
    /\ pc \in {"deltree", "remove"} => num = Latest("cr")
    /\ pc = "remove" => num \in webrevs["cr"]
    /\ pc = "mkdir" => \E p \in dirs : p = cwd /\ num = Latest(p) + 1
    /\ pc = "put" => \E p \in Place : p = cwd /\ num = Latest(p) /\ num \in webrevs[p]
    /\ pc \in {"delete", "deltree", "remove"} => action \in {"delete", "replace"}
    /\ pc \in {"copy", "mkdir", "put"} => action # "delete"
    /\ pc \in {"delete", "deltree", "remove", "copy", "mkdir"} /\ action # "delete" =>
          \A p \in Place : Latest(p) < MaxNum

\* What the copy has done: unless something was declined it works on the cr, and
\* the files that are over are there whole, and are the local ones.
Copied ==
    /\ local = 2 + edits
    /\ pc = "copy" /\ ~ declined => cwd = "home"
    /\ pc \in {"mkdir", "put"} /\ ~ declined => cwd = "cr"
    /\ pc = "put" => \A f \in Files \ rest : /\ content[cwd][num][f] > Damaged
                                             /\ quiet => content[cwd][num][f] = local

\* Half a webrev is left by a break, or is being deleted or copied.
Underway == IF pc = "remove" THEN {<<"cr", num>>}
            ELSE IF pc = "put" THEN {<<cwd, num>>} ELSE {}
Broken == Cardinality(Incomplete \ Underway) <= faults

IInv == TypeOK /\ Numbers /\ Session /\ Copied /\ Publishes /\ Broken

-----------------------------------------------------------------------------
(* Operators of the model *)

\* The largest element of an interval that starts at 1.
LEMMA LatestOfInterval ==
    ASSUME NEW S, NEW k \in Nat, S = 1 .. k
    PROVE  (IF S = {} THEN 0 ELSE Max(S)) = k /\ Cardinality(S) = k
<1>1. Cardinality(S) = k
  BY FS_Interval
<1>2. CASE k = 0
  BY <1>1, <1>2
<1>3. CASE k > 0
  <2>1. k \in S /\ \A y \in S : k >= y
    BY <1>3
  <2>2. Max(S) \in S /\ \A y \in S : Max(S) >= y
    BY <2>1 DEF Max
  <2>3. Max(S) = k
    BY <2>1, <2>2
  <2> QED BY <1>1, <2>1, <2>3
<1> QED BY <1>2, <1>3

\* An interval and its last element.
LEMMA LastOfInterval ==
    \A k \in Nat \ {0} : (1 .. k) \ {k} = 1 .. (k - 1) /\ (1 .. (k - 1)) \union {k} = 1 .. k
OBVIOUS

\* A place is "cr" or "cr/cr", and what the names there are.
LEMMA PlaceNames ==
    /\ Names("cr") = webrevs["cr"] \union by_hand
    /\ Names("cr/cr") = webrevs["cr/cr"]
BY DEF Names

\* As long as no directory is made or removed, the numbers stay.
LEMMA SameNames ==
    ASSUME UNCHANGED <<webrevs, by_hand>>
    PROVE  \A p \in Place : Names(p)' = Names(p) /\ Latest(p)' = Latest(p)
BY DEF Names, Latest

\* When the names at a place become an interval, its end is the latest number.
LEMMA NewLatest ==
    ASSUME NEW p, NEW k \in Nat, Names(p)' = 1 .. k
    PROVE  Latest(p)' = k
BY LatestOfInterval DEF Latest

\* The number of webrevs, and with it of incomplete ones, is finite.
LEMMA IncompleteFinite ==
    /\ \A T \in SUBSET Incomplete : IsFiniteSet(T) /\ Cardinality(T) \in Nat
    /\ \A T \in SUBSET Incomplete, U \in SUBSET Incomplete :
          T \subseteq U => Cardinality(T) <= Cardinality(U)
<1>1. IsFiniteSet(Place)
  <2>1. Place = {"cr"} \union {"cr/cr"}
    BY DEF Place
  <2> QED BY <2>1, FS_Union, FS_Singleton
<1>2. IsFiniteSet(Num)
  BY FS_Interval, WebrevAssumption DEF Num
<1>3. IsFiniteSet(Place \X Num)
  BY <1>1, <1>2, FS_Product
<1>4. IsFiniteSet(Incomplete)
  BY <1>3, FS_Subset DEF Incomplete
<1>5. \A T \in SUBSET Incomplete : IsFiniteSet(T)
  BY <1>4, FS_Subset
<1>6. \A T \in SUBSET Incomplete : Cardinality(T) \in Nat
  BY <1>5, FS_CardinalityType
<1>7. ASSUME NEW T \in SUBSET Incomplete, NEW U \in SUBSET Incomplete, T \subseteq U
      PROVE  Cardinality(T) <= Cardinality(U)
  BY <1>5, <1>7, FS_Subset
<1> QED BY <1>5, <1>6, <1>7

-----------------------------------------------------------------------------
(* Initial states *)

LEMMA InitIInv == Init => IInv
<1> SUFFICES ASSUME Init PROVE IInv
  OBVIOUS
<1>1. PICK k \in Published :
        /\ by_hand \subseteq 1 .. k
        /\ webrevs = [p \in Place |-> IF p = "cr" THEN (1 .. k) \ by_hand ELSE {}]
        /\ dirs = IF k = 0 THEN {} ELSE {"cr"}
  BY DEF Init
<1>2. k \in 0 .. MaxNum /\ k \in Nat /\ 1 .. k \subseteq Num
  BY WebrevAssumption DEF Num
<1>3. Names("cr") = 1 .. k /\ Names("cr/cr") = {} /\ {} = 1 .. 0
  <2>1. webrevs["cr"] = (1 .. k) \ by_hand
    BY <1>1 DEF Place
  <2>2. webrevs["cr/cr"] = {}
    BY <1>1 DEF Place
  <2>3. {} = 1 .. 0
    OBVIOUS
  <2> QED BY <1>1, <2>1, <2>2, <2>3, PlaceNames
<1>4. Latest("cr") = k /\ Latest("cr/cr") = 0
  BY <1>2, <1>3, LatestOfInterval DEF Latest
<1>5. TypeOK
  <2>1. /\ {1, 2, NoFile} \subseteq NoFile .. (2 + MaxEdits) /\ 2 \in 2 .. (2 + MaxEdits)
        /\ 0 \in 0 .. MaxEdits /\ 0 \in 0 .. MaxFaults
    BY WebrevAssumption DEF NoFile
  <2>2. content \in [Place -> [Num -> [Files -> NoFile .. (2 + MaxEdits)]]]
    BY <2>1 DEF Init, Empty
  <2>3. webrevs \in [Place -> SUBSET Num] /\ by_hand \subseteq Num /\ dirs \subseteq Place
    BY <1>1, <1>2 DEF Place
  <2> QED BY <2>1, <2>2, <2>3 DEF Init, TypeOK
<1>6. Numbers
  <2>1. \A p \in Place : Latest(p) \in 0 .. MaxNum /\ Names(p) = 1 .. Latest(p)
    <3>1. Latest("cr") \in 0 .. MaxNum /\ Names("cr") = 1 .. Latest("cr")
      BY <1>2, <1>3, <1>4
    <3>2. 0 \in 0 .. MaxNum
      BY WebrevAssumption
    <3>3. Latest("cr/cr") \in 0 .. MaxNum /\ Names("cr/cr") = 1 .. Latest("cr/cr")
      BY <1>3, <1>4, <3>2
    <3> QED BY <3>1, <3>3 DEF Place
  <2>2. webrevs["cr"] \intersect by_hand = {}
    BY <1>1 DEF Place
  <2>3. \A p \in Place : p \notin dirs => Latest(p) = 0
    BY <1>1, <1>4 DEF Place
  <2> QED BY <2>1, <2>2, <2>3 DEF Numbers
<1>7. Session /\ Copied /\ Publishes
  BY DEF Init, Session, Copied, Publishes
<1>8. Broken
  <2>1. Incomplete = {}
    <3> SUFFICES ASSUME NEW w \in Place \X Num, w[2] \in webrevs[w[1]]
                 PROVE  Whole(w[1], w[2])
      BY DEF Incomplete
    <3>1. content[w[1]][w[2]] = [f \in Files |-> 1]
      BY DEF Init
    <3> QED BY <3>1 DEF Whole, Damaged
  <2>2. Incomplete \ Underway = {}
    BY <2>1
  <2>3. faults = 0
    BY DEF Init
  <2> QED BY <2>2, <2>3, FS_EmptySet DEF Broken
<1> QED BY <1>5, <1>6, <1>7, <1>8 DEF IInv
-----------------------------------------------------------------------------
(* Steps: the type *)

LEMMA TypeStep == TypeOK /\ Numbers /\ Session /\ Copied /\ Next => TypeOK'
<1> SUFFICES ASSUME TypeOK, Numbers, Session, Copied, Next PROVE TypeOK'
  OBVIOUS
<1> USE WebrevAssumption DEF server, End
<1>1. ASSUME NEW a \in {"copy", "delete", "replace"}, Start(a) PROVE TypeOK'
  BY <1>1 DEF Start, TypeOK
<1>2. \A p \in Place : Latest(p) \in Num \union {0}
  BY DEF Numbers, Num
<1>3. CASE ProceedDelete
  <2>1. num' \in Num \union {0} /\ declined' \in BOOLEAN /\ cwd' \in Place
    BY <1>2, <1>3 DEF ProceedDelete, Place
  <2> QED BY <1>3, <2>1 DEF ProceedDelete, AfterDelete, TypeOK
<1>4. CASE NoSuchCr \/ ListTree \/ NoSuchTree
  BY <1>4 DEF NoSuchCr, ListTree, NoSuchTree, Raise, TypeOK
<1>5. CASE RemoveFile
  <2>1. NoFile \in NoFile .. (2 + MaxEdits) /\ num \in Num
    BY <1>5 DEF RemoveFile, NoFile, Session, TypeOK, Place
  <2>2. content' \in [Place -> [Num -> [Files -> NoFile .. (2 + MaxEdits)]]]
    BY <1>5, <2>1 DEF RemoveFile, TypeOK, Place
  <2> QED BY <1>5, <2>2 DEF RemoveFile, TypeOK
<1>6. CASE RemoveDir
  <2>1. webrevs' \in [Place -> SUBSET Num]
    BY <1>6 DEF RemoveDir, TypeOK
  <2> QED BY <1>6, <2>1 DEF RemoveDir, AfterDelete, TypeOK
<1>7. CASE ProceedCopy
  <2>1. Target \in Place /\ action # "delete" /\ pc = "copy"
    BY <1>7 DEF Target, Place, ProceedCopy, Session
  <2>2. Latest(Target) + 1 \in Num /\ 1 \in Num
    BY <2>1 DEF Numbers, Session, Num
  <2> QED BY <1>7, <2>1, <2>2 DEF ProceedCopy, TypeOK
<1>8. CASE MakeDir
  <2>1. num \in Num /\ cwd \in Place
    BY <1>8 DEF MakeDir, Session, TypeOK, Numbers, Num
  <2>2. webrevs' \in [Place -> SUBSET Num]
    BY <1>8, <2>1 DEF MakeDir, TypeOK
  <2> QED BY <1>8, <2>2 DEF MakeDir, TypeOK
<1>9. ASSUME NEW f \in Files, NEW v \in {local, Damaged}, pc = "put",
             content' = [content EXCEPT ![cwd][num][f] = v]
      PROVE  content' \in [Place -> [Num -> [Files -> NoFile .. (2 + MaxEdits)]]]
  <2>1. cwd \in Place /\ num \in Num
    BY <1>9 DEF Session, TypeOK
  <2>2. v \in NoFile .. (2 + MaxEdits)
    BY DEF TypeOK, NoFile, Damaged
  <2> QED BY <1>9, <2>1, <2>2 DEF TypeOK
<1>10. CASE PutFile
  <2>1. content' \in [Place -> [Num -> [Files -> NoFile .. (2 + MaxEdits)]]]
    BY <1>9, <1>10 DEF PutFile, TypeOK
  <2> QED BY <1>10, <2>1 DEF PutFile, TypeOK
<1>11. CASE CopyDone
  BY <1>11 DEF CopyDone, TypeOK
<1>12. CASE Break
  <2>1. faults' \in 0 .. MaxFaults
    BY <1>12 DEF Break, TypeOK
  <2>2. content' \in [Place -> [Num -> [Files -> NoFile .. (2 + MaxEdits)]]]
    BY <1>9, <1>12 DEF Break, Raise, TypeOK
  <2> QED BY <1>12, <2>1, <2>2 DEF Break, Raise, TypeOK
<1>13. CASE Edit
  <2>1. edits' \in 0 .. MaxEdits /\ local' \in 2 .. (2 + MaxEdits)
    BY <1>13 DEF Edit, TypeOK, Copied
  <2> QED BY <1>13, <2>1 DEF Edit, TypeOK
<1> QED BY <1>1, <1>3, <1>4, <1>5, <1>6, <1>7, <1>8, <1>10, <1>11, <1>12, <1>13 DEF Next

-----------------------------------------------------------------------------
(* Steps: the numbers *)

\* Deleting the latest webrev takes the last number.
LEMMA RemoveDirNumbers ==
    ASSUME TypeOK, Numbers, Session, RemoveDir
    PROVE  /\ Numbers'
           /\ Latest("cr")' = Latest("cr") - 1
           /\ Latest("cr/cr")' = Latest("cr/cr")
<1>1. num = Latest("cr") /\ num \in webrevs["cr"]
  BY DEF RemoveDir, Session
<1>2. "cr" \in Place /\ "cr/cr" \in Place
  BY DEF Place
<1>3. /\ webrevs'["cr"] = webrevs["cr"] \ {num} /\ webrevs'["cr/cr"] = webrevs["cr/cr"]
      /\ by_hand' = by_hand /\ dirs' = dirs
  BY <1>2 DEF RemoveDir, TypeOK
<1>4. Names("cr") = 1 .. num /\ num \in 1 .. MaxNum /\ num \notin by_hand
  BY <1>1, <1>2, PlaceNames DEF Numbers
<1>5. Names("cr")' = 1 .. (num - 1)
  <2>1. Names("cr")' = Names("cr") \ {num}
    BY <1>3, <1>4 DEF Names
  <2>2. num \in Nat \ {0}
    BY <1>4, WebrevAssumption
  <2> QED BY <1>4, <2>1, <2>2, LastOfInterval
<1>6. Latest("cr")' = num - 1
  BY <1>4, <1>5, NewLatest
<1>7. Names("cr/cr")' = Names("cr/cr") /\ Latest("cr/cr")' = Latest("cr/cr")
  BY <1>3 DEF Names, Latest
<1>8. "cr" \in dirs
  BY <1>1, <1>2, <1>4 DEF Numbers
<1>9. Numbers'
  <2>1. Latest("cr")' \in 0 .. MaxNum /\ Names("cr")' = 1 .. Latest("cr")'
    BY <1>4, <1>5, <1>6, WebrevAssumption
  <2>2. Latest("cr/cr")' \in 0 .. MaxNum /\ Names("cr/cr")' = 1 .. Latest("cr/cr")'
    BY <1>2, <1>7 DEF Numbers
  <2>3. webrevs'["cr"] \intersect by_hand' = {}
    BY <1>3 DEF Numbers
  <2>4. "cr" \in dirs' /\ ("cr/cr" \notin dirs' => Latest("cr/cr")' = 0)
    BY <1>2, <1>3, <1>7, <1>8 DEF Numbers
  <2> QED BY <2>1, <2>2, <2>3, <2>4 DEF Numbers, Place
<1> QED BY <1>1, <1>6, <1>7, <1>9

\* A new webrev gets the next number.
LEMMA MakeDirNumbers ==
    ASSUME TypeOK, Numbers, Session, MakeDir
    PROVE  /\ Numbers'
           /\ \A p \in Place : Latest(p)' = IF p = cwd THEN num ELSE Latest(p)
<1>1. PICK p \in Place : p = cwd /\ p \in dirs /\ num = Latest(p) + 1 /\ Latest(p) < MaxNum
  BY DEF MakeDir, Session, TypeOK
<1>2. /\ webrevs'[p] = webrevs[p] \union {num}
      /\ \A q \in Place : q # p => webrevs'[q] = webrevs[q]
      /\ by_hand' = by_hand /\ dirs' = dirs
  BY <1>1 DEF MakeDir, TypeOK
<1>3. Names(p) = 1 .. (num - 1) /\ num \in 1 .. MaxNum /\ num \in Nat \ {0}
  BY <1>1, WebrevAssumption DEF Numbers
<1>4. Names(p)' = 1 .. num
  <2>1. Names(p)' = Names(p) \union {num}
    BY <1>1, <1>2 DEF Names
  <2> QED BY <1>3, <2>1, LastOfInterval
<1>5. Latest(p)' = num
  BY <1>3, <1>4, NewLatest
<1>6. \A q \in Place : q # p => Names(q)' = Names(q) /\ Latest(q)' = Latest(q)
  BY <1>2 DEF Names, Latest
<1>7. Numbers'
  <2>1. webrevs'["cr"] \intersect by_hand' = {}
    <3>1. CASE p = "cr"
      <4>1. num \notin by_hand
        BY <1>3, <3>1, PlaceNames
      <4> QED BY <1>2, <3>1, <4>1 DEF Numbers
    <3>2. CASE p # "cr"
      BY <1>2, <3>2 DEF Numbers, Place
    <3> QED BY <3>1, <3>2
  <2>2. ASSUME NEW q \in Place
        PROVE  /\ Latest(q)' \in 0 .. MaxNum /\ Names(q)' = 1 .. Latest(q)'
               /\ q \notin dirs' => Latest(q)' = 0
    <3>1. CASE q = p
      BY <1>1, <1>2, <1>3, <1>4, <1>5, <3>1, WebrevAssumption
    <3>2. CASE q # p
      BY <1>2, <1>6, <3>2 DEF Numbers
    <3> QED BY <3>1, <3>2
  <2> QED BY <2>1, <2>2 DEF Numbers
<1> QED BY <1>1, <1>5, <1>6, <1>7

\* All other steps keep the numbers.
LEMMA OtherNumbers ==
    ASSUME TypeOK, Numbers, Next, ~ RemoveDir, ~ MakeDir
    PROVE  /\ Numbers'
           /\ \A p \in Place : Latest(p)' = Latest(p)
           /\ UNCHANGED <<webrevs, by_hand>>
<1>1. UNCHANGED <<webrevs, by_hand>> /\ dirs \subseteq dirs'
  BY DEF Next, Start, ProceedDelete, NoSuchCr, ListTree, NoSuchTree, RemoveFile, ProceedCopy,
         PutFile, CopyDone, Break, Edit, Raise, server
<1>2. \A p \in Place : Names(p)' = Names(p) /\ Latest(p)' = Latest(p)
  BY <1>1, SameNames
<1> QED BY <1>1, <1>2 DEF Numbers
-----------------------------------------------------------------------------
(* Steps: the session *)

LEMMA SessionStep == TypeOK /\ Numbers /\ Session /\ Next => Session'
<1> SUFFICES ASSUME TypeOK, Numbers, Session, Next PROVE Session'
  OBVIOUS
<1> USE DEF server, End, Session
<1>1. "cr" \in Place /\ "cr/cr" \in Place
  BY DEF Place
<1>2. CASE RemoveDir
  <2>1. \A p \in Place : Latest(p)' <= Latest(p) /\ Latest(p) \in Nat /\ Latest(p)' \in Nat
    BY <1>2, RemoveDirNumbers, WebrevAssumption DEF Numbers, Place
  <2> QED BY <1>2, <2>1, WebrevAssumption DEF RemoveDir, AfterDelete
<1>3. CASE MakeDir
  <2>1. PICK p \in Place : p = cwd
    BY <1>3 DEF MakeDir, TypeOK
  <2>2. Latest(p)' = num /\ num \in webrevs'[p]
    BY <1>3, <2>1, MakeDirNumbers DEF MakeDir, TypeOK
  <2> QED BY <1>3, <2>1, <2>2 DEF MakeDir
<1>4. CASE ~ RemoveDir /\ ~ MakeDir
  <2>1. \A p \in Place : Latest(p)' = Latest(p)
    BY <1>4, OtherNumbers
  <2>2. UNCHANGED webrevs
    BY <1>4, OtherNumbers
  <2>3. ASSUME NEW a \in {"copy", "delete", "replace"}, Start(a) PROVE Session'
    BY <2>1, <2>3 DEF Start
  <2>4. CASE ProceedDelete
    BY <1>1, <2>1, <2>4 DEF ProceedDelete, AfterDelete
  <2>5. CASE NoSuchCr \/ ListTree \/ NoSuchTree
    BY <1>1, <2>1, <2>2, <2>5 DEF NoSuchCr, ListTree, NoSuchTree, Raise
  <2>6. CASE RemoveFile \/ PutFile \/ Edit
    <3>1. UNCHANGED <<webrevs, dirs, pc, cwd, num, action>>
      BY <2>6 DEF RemoveFile, PutFile, Edit
    <3>2. ASSUME pc = "put" PROVE \E p \in Place : p = cwd /\ num = Latest(p)' /\ num \in webrevs[p]
      BY <2>1, <3>2
    <3>3. ASSUME pc = "mkdir" PROVE \E p \in dirs : p = cwd /\ num = Latest(p)' + 1
      BY <2>1, <3>3 DEF TypeOK
    <3>4. ASSUME pc \in {"delete", "deltree", "remove", "copy", "mkdir"}, action # "delete"
          PROVE  \A p \in Place : Latest(p)' < MaxNum
      BY <2>1, <3>4
    <3>5. pc \in {"deltree", "remove"} => num = Latest("cr")'
      BY <1>1, <2>1
    <3> QED BY <3>1, <3>2, <3>3, <3>4, <3>5
  <2>8. CASE CopyDone \/ Break
    BY <2>8 DEF CopyDone, Break, Raise
  <2>7. CASE ProceedCopy
    <3>1. PICK p \in Place : p = Target
      BY <1>1 DEF Target
    <3>2. CASE pc' = "mkdir"
      <4>1. cwd' = p /\ p \in dirs' /\ num' = Latest(p) + 1
        BY <2>7, <3>1, <3>2 DEF ProceedCopy, Numbers
      <4> QED BY <2>1, <2>7, <3>2, <4>1 DEF ProceedCopy
    <3>3. CASE pc' # "mkdir"
      BY <2>7, <3>3 DEF ProceedCopy
    <3> QED BY <3>2, <3>3
  <2> QED BY <1>4, <2>3, <2>4, <2>5, <2>6, <2>7, <2>8 DEF Next
<1> QED BY <1>2, <1>3, <1>4

LEMMA CopiedStep == TypeOK /\ Session /\ Copied /\ Next => Copied'
<1> SUFFICES ASSUME TypeOK, Session, Copied, Next PROVE Copied'
  OBVIOUS
<1> USE DEF server, End, Copied
<1>1. ASSUME NEW a \in {"copy", "delete", "replace"}, Start(a) PROVE Copied'
  BY <1>1 DEF Start
<1>2. CASE ProceedDelete \/ NoSuchCr \/ ListTree \/ NoSuchTree \/ RemoveFile \/ RemoveDir
  BY <1>2 DEF ProceedDelete, NoSuchCr, ListTree, NoSuchTree, RemoveFile, RemoveDir, Raise, AfterDelete
<1>3. CASE ProceedCopy
  BY <1>3 DEF ProceedCopy, Target
<1>4. CASE MakeDir \/ CopyDone
  BY <1>4 DEF MakeDir, CopyDone
<1>5. CASE PutFile
  <2>1. PICK f \in rest : /\ rest' = rest \ {f}
                          /\ content' = [content EXCEPT ![cwd][num][f] = local]
    BY <1>5 DEF PutFile
  <2>2. cwd \in Place /\ num \in Num /\ f \in Files /\ local > 0
    BY <1>5, <2>1 DEF PutFile, Session, TypeOK
  <2>3. \A g \in Files : content'[cwd][num][g] = IF g = f THEN local ELSE content[cwd][num][g]
    BY <2>1, <2>2 DEF TypeOK
  <2> QED BY <1>5, <2>1, <2>2, <2>3 DEF PutFile, Damaged
<1>6. CASE Break
  BY <1>6 DEF Break, Raise
<1>7. CASE Edit
  BY <1>7 DEF Edit, TypeOK
<1> QED BY <1>1, <1>2, <1>3, <1>4, <1>5, <1>6, <1>7 DEF Next

LEMMA PublishesStep == TypeOK /\ Numbers /\ Session /\ Copied /\ Publishes /\ Next => Publishes'
<1> SUFFICES ASSUME TypeOK, Numbers, Session, Copied, Publishes, Next,
                    pc' = "idle", result' = "ok", action' \in {"copy", "replace"}, ~ declined', quiet'
             PROVE  /\ Latest("cr")' \in webrevs'["cr"]
                    /\ content'["cr"][Latest("cr")'] = [f \in Files |-> local']
  BY DEF Publishes
<1>1. CASE CopyDone
  <2>1. cwd = "cr" /\ num = Latest("cr") /\ num \in webrevs["cr"]
    BY <1>1 DEF CopyDone, Copied, Session
  <2>2. \A f \in Files : content["cr"][num][f] = local
    BY <1>1, <2>1 DEF CopyDone, Copied
  <2>3. content["cr"][num] = [f \in Files |-> local]
    BY <2>1, <2>2 DEF TypeOK, Place
  <2>4. UNCHANGED server /\ UNCHANGED local
    BY <1>1 DEF CopyDone
  <2>5. Latest("cr")' = Latest("cr")
    BY <2>4, SameNames DEF server, Place
  <2> QED BY <2>1, <2>3, <2>4, <2>5 DEF server
<1>2. CASE ~ CopyDone
  BY <1>2 DEF Next, Start, ProceedDelete, NoSuchCr, ListTree, NoSuchTree, RemoveFile, RemoveDir,
     ProceedCopy, MakeDir, PutFile, Break, Edit, Raise, End, AfterDelete, Session
<1> QED BY <1>1, <1>2
-----------------------------------------------------------------------------
(* Steps: half webrevs *)

\* No step that leaves no further webrev incomplete does any harm.
LEMMA BrokenKept ==
    ASSUME TypeOK, Broken, faults' \in Nat, faults' >= faults,
           Incomplete' \ Underway' \subseteq Incomplete \ Underway
    PROVE  Broken'
<1>1. Cardinality(Incomplete' \ Underway') <= Cardinality(Incomplete \ Underway)
  BY IncompleteFinite
<1>2. /\ Cardinality(Incomplete \ Underway) \in Nat
      /\ Cardinality(Incomplete' \ Underway') \in Nat /\ faults \in Nat
  BY IncompleteFinite DEF TypeOK
<1>3. Cardinality(Incomplete' \ Underway') <= faults'
  BY <1>1, <1>2 DEF Broken
<1> QED BY <1>3 DEF Broken

\* A file that is removed or put belongs to one webrev.
LEMMA OtherWhole ==
    ASSUME TypeOK, NEW q, NEW n, NEW f, NEW v, content' = [content EXCEPT ![q][n][f] = v]
    PROVE  \A w \in Place \X Num : w # <<q, n>> => (Whole(w[1], w[2])' <=> Whole(w[1], w[2]))
<1> SUFFICES ASSUME NEW w \in Place \X Num, w # <<q, n>>
             PROVE  Whole(w[1], w[2])' <=> Whole(w[1], w[2])
  OBVIOUS
<1>1. w[1] # q \/ w[2] # n
  OBVIOUS
<1>2. content'[w[1]][w[2]] = content[w[1]][w[2]]
  BY <1>1 DEF TypeOK
<1> QED BY <1>2 DEF Whole

\* Half webrevs stay half, and the others whole, when none is changed.
LEMMA SameIncomplete ==
    ASSUME UNCHANGED <<webrevs, content>>
    PROVE  Incomplete' = Incomplete
<1>1. \A p, n : Whole(p, n)' <=> Whole(p, n)
  BY DEF Whole
<1> QED BY <1>1 DEF Incomplete

LEMMA BrokenStep == TypeOK /\ Numbers /\ Session /\ Copied /\ Broken /\ Next => Broken'
<1> SUFFICES ASSUME TypeOK, Numbers, Session, Copied, Broken, Next PROVE Broken'
  OBVIOUS
<1> USE DEF server, End
<1>1. faults \in Nat /\ (~ Break => faults' = faults)
  BY DEF TypeOK, Next, Start, ProceedDelete, NoSuchCr, ListTree, NoSuchTree, RemoveFile, RemoveDir,
         ProceedCopy, MakeDir, PutFile, CopyDone, Edit
<1>2. ASSUME ~ Break, Incomplete' \ Underway' \subseteq Incomplete \ Underway PROVE Broken'
  BY <1>1, <1>2, BrokenKept
<1>3. CASE \/ \E a \in {"copy", "delete", "replace"} : Start(a)
           \/ ProceedDelete \/ NoSuchCr \/ ListTree \/ NoSuchTree \/ ProceedCopy \/ Edit
  <2>1. UNCHANGED <<webrevs, content>> /\ ~ Break
    <3>1. UNCHANGED <<webrevs, content, faults>>
      BY <1>3 DEF Start, ProceedDelete, NoSuchCr, ListTree, NoSuchTree, ProceedCopy, Edit, Raise
    <3>2. ~ Break
      BY <1>1, <3>1 DEF Break
    <3> QED BY <3>1, <3>2
  <2>2. Underway \subseteq Underway'
    BY <1>3 DEF Start, ProceedDelete, NoSuchCr, ListTree, NoSuchTree, ProceedCopy, Edit, Raise, Underway
  <2> QED BY <1>2, <2>1, <2>2, SameIncomplete
<1>4. ASSUME RemoveFile \/ PutFile PROVE Broken'
  <2>1. PICK q, f, v : content' = [content EXCEPT ![q][num][f] = v] /\ Underway = {<<q, num>>}
    BY <1>4 DEF RemoveFile, PutFile, Underway
  <2>2. UNCHANGED <<webrevs, pc, cwd, num, faults>>
    BY <1>4 DEF RemoveFile, PutFile
  <2>3. Underway' = Underway /\ ~ Break
    BY <1>1, <2>2 DEF Underway, Break
  <2>4. Incomplete' \ Underway' \subseteq Incomplete \ Underway
    BY <2>1, <2>2, <2>3, OtherWhole DEF Incomplete
  <2> QED BY <1>2, <2>3, <2>4
<1>5. CASE RemoveDir
  <2>1. UNCHANGED <<content, faults>> /\ webrevs' = [webrevs EXCEPT !["cr"] = @ \ {num}]
    BY <1>5 DEF RemoveDir
  <2>2. Underway = {<<"cr", num>>} /\ ~ Break
    BY <1>1, <1>5, <2>1 DEF RemoveDir, Underway, Break
  <2>3. Incomplete' \subseteq Incomplete \ {<<"cr", num>>}
    <3> SUFFICES ASSUME NEW w \in Incomplete' PROVE w \in Incomplete /\ w # <<"cr", num>>
      OBVIOUS
    <3>1. w \in Place \X Num /\ w[2] \in webrevs'[w[1]] /\ ~ Whole(w[1], w[2])
      BY <2>1 DEF Incomplete, Whole
    <3>2. w[2] \in webrevs[w[1]] /\ w # <<"cr", num>>
      BY <2>1, <3>1 DEF TypeOK
    <3> QED BY <3>1, <3>2 DEF Incomplete
  <2> QED BY <1>2, <2>2, <2>3
<1>6. CASE MakeDir
  <2>1. /\ UNCHANGED <<content, cwd, num, faults>> /\ pc' = "put" /\ pc = "mkdir"
        /\ webrevs' = [webrevs EXCEPT ![cwd] = @ \union {num}]
    BY <1>6 DEF MakeDir
  <2>2. Underway' = {<<cwd, num>>} /\ Underway = {} /\ ~ Break
    BY <1>1, <2>1 DEF Underway, Break
  <2>3. ASSUME NEW w \in Incomplete', w # <<cwd, num>> PROVE w \in Incomplete
    <3>1. w \in Place \X Num /\ w[2] \in webrevs'[w[1]] /\ ~ Whole(w[1], w[2])
      BY <2>1 DEF Incomplete, Whole
    <3>2. w[2] \in webrevs[w[1]]
      BY <2>1, <2>3, <3>1 DEF TypeOK
    <3> QED BY <3>1, <3>2 DEF Incomplete
  <2> QED BY <1>2, <2>2, <2>3
<1>7. CASE CopyDone
  <2>1. UNCHANGED <<webrevs, content, faults>> /\ pc = "put" /\ pc' = "idle" /\ rest = {}
    BY <1>7 DEF CopyDone
  <2>2. <<cwd, num>> \notin Incomplete
    BY <2>1 DEF Copied, Whole, Incomplete
  <2>3. Underway = {<<cwd, num>>} /\ Underway' = {} /\ ~ Break
    BY <1>1, <2>1 DEF Underway, Break
  <2> QED BY <1>2, <2>1, <2>2, <2>3, SameIncomplete
<1>8. CASE Break
  <2>1. faults' = faults + 1 /\ UNCHANGED webrevs /\ pc' = "idle"
    BY <1>8 DEF Break, Raise
  <2>2. PICK x : Underway \subseteq {x}
    BY DEF Underway
  <2>3. Incomplete' \subseteq (Incomplete \ Underway) \union {x}
    <3>1. CASE content' = content
      BY <2>1, <2>2, <3>1, SameIncomplete
    <3>2. CASE content' # content
      <4>1. PICK f : content' = [content EXCEPT ![cwd][num][f] = Damaged] /\ pc = "put"
        BY <1>8, <3>2 DEF Break, Raise
      <4>2. x = <<cwd, num>> /\ Underway = {x}
        BY <2>2, <4>1 DEF Underway
      <4> QED BY <2>1, <4>1, <4>2, OtherWhole DEF Incomplete
    <3> QED BY <3>1, <3>2
  <2>4. DEFINE T == Incomplete \ Underway
  <2>5. IsFiniteSet(T) /\ Cardinality(T) \in Nat /\ Cardinality(T) <= faults
    BY IncompleteFinite DEF Broken
  <2>6. IsFiniteSet(T \union {x}) /\ Cardinality(T \union {x}) <= Cardinality(T) + 1
    BY <2>5, FS_AddElement
  <2>7. Underway' = {}
    BY <2>1 DEF Underway
  <2>8. Incomplete' \ Underway' \subseteq T \union {x}
    BY <2>3
  <2> HIDE DEF T
  <2>9. /\ Cardinality(Incomplete' \ Underway') <= Cardinality(T \union {x})
        /\ Cardinality(Incomplete' \ Underway') \in Nat /\ Cardinality(T \union {x}) \in Nat
    BY <2>6, <2>8, FS_Subset, FS_CardinalityType
  <2>10. Cardinality(Incomplete' \ Underway') <= faults'
    BY <1>1, <2>1, <2>5, <2>6, <2>9
  <2> QED BY <2>10 DEF Broken
<1> QED BY <1>3, <1>4, <1>5, <1>6, <1>7, <1>8 DEF Next
-----------------------------------------------------------------------------
(* Theorems *)

LEMMA NumbersStep == TypeOK /\ Numbers /\ Session /\ Next => Numbers'
BY RemoveDirNumbers, MakeDirNumbers, OtherNumbers

LEMMA NextIInv == IInv /\ [Next]_vars => IInv'
<1>1. ASSUME IInv, Next PROVE IInv'
  BY <1>1, TypeStep, NumbersStep, SessionStep, CopiedStep, PublishesStep, BrokenStep DEF IInv
<1>2. ASSUME IInv, UNCHANGED vars PROVE IInv'
  <2>1. UNCHANGED <<dirs, webrevs, content, by_hand, local, action, pc, cwd, num, rest,
                    declined, quiet, result, edits, faults>>
    BY <1>2 DEF vars, server
  <2>2. TypeOK' /\ Session' /\ Numbers'
    BY <1>2, <2>1, SameNames DEF IInv, TypeOK, Session, Numbers, Place
  <2>3. Copied' /\ Publishes'
    BY <1>2, <2>1, SameNames DEF IInv, Copied, Publishes, Place
  <2>4. Broken'
    BY <1>2, <2>1, SameIncomplete DEF IInv, Broken, Underway
  <2> QED BY <2>2, <2>3, <2>4 DEF IInv
<1> QED BY <1>1, <1>2

LEMMA Invariance == Spec => []IInv
BY InitIInv, NextIInv, PTL DEF Spec

\* Every variable keeps its type, whatever fails: a session names only places and
\* numbers there are (guess_name, proceed_delete, proceed_copy).
THEOREM TypeCorrect == Spec => []TypeOK
<1>1. IInv => TypeOK
  BY DEF IInv
<1> QED BY <1>1, Invariance, PTL

\* The numbers of a cr are 1, 2, ... to the latest, each the name of one webrev,
\* after any runs of copy, delete and replace that broke off anywhere.
THEOREM NumbersHaveNoGaps == Spec => []NoGaps
<1>1. IInv => NoGaps
  <2> SUFFICES ASSUME IInv, NEW p \in Place
               PROVE  /\ Names(p) = 1 .. Cardinality(Names(p))
                      /\ p = "cr" => webrevs[p] \intersect by_hand = {}
    BY DEF NoGaps
  <2>1. Latest(p) \in Nat /\ Names(p) = 1 .. Latest(p)
    BY WebrevAssumption DEF IInv, Numbers
  <2>2. Cardinality(Names(p)) = Latest(p)
    BY <2>1, LatestOfInterval
  <2> QED BY <2>1, <2>2 DEF IInv, Numbers
<1> QED BY <1>1, Invariance, PTL

\* A half webrev nobody works on is one a break left; each break leaves one at most.
THEOREM IncompleteOnlyByBreaks == Spec => []IncompleteWereBroken
<1>1. IInv => IncompleteWereBroken
  <2> SUFFICES ASSUME IInv, pc = "idle" PROVE Cardinality(Incomplete) <= faults
    BY DEF IncompleteWereBroken
  <2>1. Incomplete \ Underway = Incomplete
    BY DEF Underway
  <2> QED BY <2>1 DEF IInv, Broken
<1> QED BY <1>1, Invariance, PTL

\* What copy and replace report as done is the latest webrev of the cr, whole and
\* as it is on this side, though earlier runs may have left anything there.
THEOREM PublishesLocal == Spec => []Publishes
<1>1. IInv => Publishes
  BY DEF IInv
<1> QED BY <1>1, Invariance, PTL

\* No step of copytree or deltree touches a webrev before the latest one.
THEOREM EarlierStay == Spec => EarlierKept
<1> DEFINE Kept == \A n \in Num : n < Latest("cr") =>
                      /\ content'["cr"][n] = content["cr"][n]
                      /\ n \in webrevs["cr"] <=> n \in webrevs'["cr"]
<1>1. IInv /\ [Next]_vars => [Kept]_vars
  <2> SUFFICES ASSUME IInv, Next, NEW n \in Num, n < Latest("cr")
               PROVE  /\ content'["cr"][n] = content["cr"][n]
                      /\ n \in webrevs["cr"] <=> n \in webrevs'["cr"]
    OBVIOUS
  <2> USE DEF server
  <2>1. "cr" \in Place /\ Latest("cr") \in Int /\ n \in Int
    BY WebrevAssumption DEF Place, IInv, Numbers, Num
  <2>2. CASE RemoveFile \/ PutFile
    <3>1. PICK q, m, f, v : /\ content' = [content EXCEPT ![q][m][f] = v]
                            /\ UNCHANGED webrevs /\ (q = "cr" => m = Latest("cr"))
      <4>1. CASE RemoveFile
        <5>1. num = Latest("cr") /\ UNCHANGED webrevs
          BY <4>1 DEF RemoveFile, IInv, Session
        <5>2. PICK f : content' = [content EXCEPT !["cr"][num][f] = NoFile]
          BY <4>1 DEF RemoveFile
        <5> QED BY <5>1, <5>2
      <4>2. CASE PutFile
        <5>1. (cwd = "cr" => num = Latest("cr")) /\ UNCHANGED webrevs
          BY <4>2 DEF PutFile, IInv, Session
        <5> QED BY <4>2, <5>1 DEF PutFile
      <4> QED BY <2>2, <4>1, <4>2
    <3>2. q # "cr" \/ m # n
      BY <2>1, <3>1
    <3> QED BY <2>1, <3>1, <3>2 DEF IInv, TypeOK
  <2>3. CASE RemoveDir
    BY <2>1, <2>3 DEF RemoveDir, IInv, Session, TypeOK
  <2>4. CASE MakeDir
    <3>1. cwd = "cr" => num = Latest("cr") + 1
      BY <2>4 DEF MakeDir, IInv, Session
    <3> QED BY <2>1, <2>4, <3>1 DEF MakeDir, IInv, TypeOK
  <2>5. CASE Break
    <3>1. CASE content' = content
      BY <2>5, <3>1 DEF Break, Raise
    <3>2. CASE content' # content
      <4>1. PICK f : content' = [content EXCEPT ![cwd][num][f] = Damaged]
        BY <2>5, <3>2 DEF Break, Raise
      <4>2. (cwd = "cr" => num = Latest("cr")) /\ UNCHANGED webrevs
        BY <2>5, <3>2 DEF Break, Raise, IInv, Session
      <4>3. cwd # "cr" \/ num # n
        BY <2>1, <4>2
      <4> QED BY <2>1, <4>1, <4>2, <4>3 DEF IInv, TypeOK
    <3> QED BY <3>1, <3>2
  <2>6. CASE ~ (RemoveFile \/ PutFile \/ RemoveDir \/ MakeDir \/ Break)
    BY <2>6 DEF Next, Start, ProceedDelete, NoSuchCr, ListTree, NoSuchTree, ProceedCopy,
                CopyDone, Edit, Raise
  <2> QED BY <2>2, <2>3, <2>4, <2>5, <2>6
<1> QED BY <1>1, Invariance, PTL DEF Spec, EarlierKept
=============================================================================
