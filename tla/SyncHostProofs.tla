--------------------------- MODULE SyncHostProofs ---------------------------
(***************************************************************************)
(* What the attributes of a copy say of its content, for every source tree *)
(* and every number of edits, faults and seconds.                          *)
(***************************************************************************)
EXTENDS SyncHost, TLAPS

Copying == {"compare", "writable", "put", "putting", "mode", "utime"}

\* No clock reading comes from the future.
Clocks ==
    /\ stat_at <= now
    /\ \A f \in Files : src[f].mtime <= now /\ seen[f] <= now

\* The source of the last copy was looked at in a later second than the one
\* its mtime names: no later edit hides behind the same mtime.
Settled(f) == seen[f] > src[f].mtime

\* UpToDateIsEqual of a settled source, without the mode, which the copy changes on the way.
Recorded(f) ==
    /\ src[f].kind = "file" /\ tgt[f].kind = "file"
    /\ tgt[f].mtime = src[f].mtime /\ Settled(f)
    => tgt[f].ver = src[f].ver

\* The source of the copy under way has not been edited since it was stat'ed.
Untouched == src[file].kind = "file" /\ stat_at > src[file].mtime

\* What the copy has got hold of is that source; until its time is restored
\* the target bears a stamp no older than the stat, hence not the source's.
CopyInv ==
    /\ pc \in Copying /\ Untouched => srcstat.mtime = src[file].mtime
    /\ pc \in {"putting", "mode", "utime"} =>
          seen[file] = stat_at /\ tgt[file].mtime >= stat_at
    /\ pc = "putting" /\ Untouched => opened = src[file].ver
    /\ pc \in {"mode", "utime"} /\ Untouched => tgt[file].ver = src[file].ver

IInv == TypeOK /\ Clocks /\ (\A f \in Files : Recorded(f)) /\ CopyInv

-----------------------------------------------------------------------------
LEMMA AbsentType == Absent \in Node /\ Directory \in Node
BY SyncHostAssumption DEF Absent, Directory, Node, Damaged

\* A step that leaves the clock, the source and the copy's own state alone, and
\* of the target at most makes a directory, keeps what is recorded.
LEMMA MkdirKeepsRecorded ==
    ASSUME TypeOK, NEW d \in Dirs, NEW up \in BOOLEAN, MkdirNoError(d, up), UNCHANGED <<src, seen>>
    PROVE  /\ tgt' \in [Entries -> Node]
           /\ \A f \in Files : tgt'[f] = tgt[f]
BY AbsentType, SyncHostAssumption DEF TypeOK, MkdirNoError, Entries

\* Every variable keeps its type.
LEMMA TypeInvariance == TypeOK /\ [Next]_vars => TypeOK'
<1> SUFFICES ASSUME TypeOK, [Next]_vars PROVE TypeOK'
  OBVIOUS
<1> USE DEF TypeOK
<1>1. CASE Start
  <2>1. tgt' \in [Entries -> Node]
    BY <1>1, SyncHostAssumption, MkdirKeepsRecorded DEF Start
  <2> QED BY <1>1, <2>1, SyncHostAssumption DEF Start, Listing, Entries
<1>2. CASE Walk
  <2>1. ASSUME NEW d \in Dirs, Descend(d) PROVE TypeOK'
    <3>1. tgt' \in [Entries -> Node]
      BY <2>1, MkdirKeepsRecorded DEF Descend, history
    <3> QED BY <2>1, <3>1 DEF Descend, Listing, Entries, history
  <2>2. ASSUME NEW f \in Files, SkipFile(f) PROVE TypeOK'
    BY <2>2 DEF SkipFile, history
  <2>3. ASSUME NEW f \in Files, StatSource(f) PROVE TypeOK'
    BY <2>3 DEF StatSource, history
  <2>4. CASE StatSourceFails
    BY <2>4 DEF StatSourceFails, Raise, End, history
  <2>5. CASE Return
    BY <2>5, SyncHostAssumption DEF Return, history
  <2>6. CASE Finish
    BY <2>6 DEF Finish, End
  <2> QED BY <1>2, <2>1, <2>2, <2>3, <2>4, <2>5, <2>6 DEF Walk
<1>3. CASE Copy
  <2>0. file \in Entries
    BY DEF Entries
  <2>1. CASE Compare
    BY <2>1 DEF Compare, history
  <2>2. CASE MakeWritable
    BY <2>0, <2>2, SyncHostAssumption DEF MakeWritable, Node, history
  <2>3. CASE PutOpen
    <3>1. tgt' \in [Entries -> Node]
      BY <2>0, <2>3, SyncHostAssumption DEF PutOpen, Node, Damaged
    <3>2. src[file].ver \in Nat
      BY DEF Node
    <3> QED BY <2>3, <3>1, <3>2 DEF PutOpen
  <2>4. CASE PutOpenFails
    BY <2>4 DEF PutOpenFails, Raise, End, history
  <2>5. CASE PutDone
    <3>1. PICK v \in {opened, src[file].ver, Damaged} :
             tgt' = [tgt EXCEPT ![file].ver = v, ![file].mtime = now + Skew]
      BY <2>5 DEF PutDone
    <3>2. v \in Nat /\ now + Skew \in Nat
      BY <3>1, SyncHostAssumption DEF Node, Damaged
    <3>3. tgt' \in [Entries -> Node]
      BY <2>0, <3>1, <3>2 DEF Node
    <3> QED BY <2>5, <3>3 DEF PutDone, history
  <2>6. CASE RestoreMode
    BY <2>0, <2>6 DEF RestoreMode, Node, history
  <2>7. CASE RestoreTime
    BY <2>0, <2>7 DEF RestoreTime, RecordedTime, Node, history
  <2>8. CASE RequestFails
    BY <2>8 DEF RequestFails, Raise, End, history
  <2> QED BY <1>3, <2>1, <2>2, <2>3, <2>4, <2>5, <2>6, <2>7, <2>8 DEF Copy
<1>4. CASE PutChunk
  <2>1. now + Skew \in Nat
    BY SyncHostAssumption
  <2>2. tgt' \in [Entries -> Node]
    BY <1>4, <2>1 DEF PutChunk, Node, Entries
  <2> QED BY <1>4, <2>2 DEF PutChunk, run, history
<1>5. CASE Environment
  <2>1. CASE ConnectionLost
    <3>1. faults + 1 \in Nat
      OBVIOUS
    <3> QED BY <2>1, <3>1 DEF ConnectionLost, history
  <2>2. CASE Killed
    <3>1. faults + 1 \in Nat
      OBVIOUS
    <3> QED BY <2>2, <3>1 DEF Killed, End, history
  <2>3. CASE Tick
    <3>1. now + 1 \in Nat
      OBVIOUS
    <3> QED BY <2>3, <3>1 DEF Tick, run, history
  <2>4. ASSUME NEW f \in Files, NEW n \in Node, Change(f, n) PROVE TypeOK'
    <3>1. edits + 1 \in Nat
      OBVIOUS
    <3> QED BY <2>4, <3>1 DEF Change, run
  <2>5. ASSUME NEW f \in Files, Edit(f) PROVE TypeOK'
    <3>1. PICK m \in Modes : Change(f, SourceFile(edits + 2, m, now))
      BY <2>5 DEF Edit
    <3>2. SourceFile(edits + 2, m, now) \in Node
      BY DEF SourceFile, Node
    <3> QED BY <2>4, <3>1, <3>2
  <2>6. ASSUME NEW f \in Files, ChangeMode(f) PROVE TypeOK'
    <3>1. PICK m \in Modes : Change(f, [src[f] EXCEPT !.mode = m])
      BY <2>6 DEF ChangeMode
    <3>2. [src[f] EXCEPT !.mode = m] \in Node
      BY DEF Node
    <3> QED BY <2>4, <3>1, <3>2
  <2>7. ASSUME NEW f \in Files, Delete(f) PROVE TypeOK'
    BY <2>4, <2>7, AbsentType DEF Delete
  <2> QED BY <1>5, <2>1, <2>2, <2>3, <2>5, <2>6, <2>7 DEF Environment
<1>6. CASE UNCHANGED vars
  BY <1>6 DEF vars, run, history
<1> QED BY <1>1, <1>2, <1>3, <1>4, <1>5, <1>6 DEF Next

-----------------------------------------------------------------------------
LEMMA InitIInv == Init => IInv
<1> SUFFICES ASSUME Init PROVE IInv
  OBVIOUS
<1>1. TypeOK
  <2>1. src \in [Files -> Node]
    <3>1. \A m \in Modes : SourceFile(1, m, 1) \in Node
      BY DEF SourceFile, Node
    <3> QED BY <3>1 DEF Init
  <2>2. tgt \in [Entries -> Node]
    BY OldNodesAssumption DEF Init
  <2>3. opened \in Nat /\ now \in Nat /\ stat_at \in Nat /\ edits \in Nat /\ faults \in Nat
    BY DEF Init, Damaged
  <2>4. seen \in [Files -> Nat] /\ torn \subseteq Files /\ rest \in [Dirs -> SUBSET Entries]
    BY DEF Init
  <2> QED BY <2>1, <2>2, <2>3, <2>4, AbsentType, SyncHostAssumption DEF Init, TypeOK
<1>2. Clocks /\ \A f \in Files : Recorded(f)
  BY DEF Init, Clocks, Recorded, Settled, SourceFile
<1>3. CopyInv
  BY DEF Init, CopyInv, Copying
<1> QED BY <1>1, <1>2, <1>3 DEF IInv

\* The program's steps outside copy_with_attr change no file and no history.
LEMMA QuietStep ==
    ASSUME IInv, TypeOK', UNCHANGED <<src, now, seen>>,
           \A f \in Files : tgt'[f] = tgt[f],
           \/ pc' \notin Copying /\ stat_at' = stat_at
           \/ UNCHANGED <<pc, file, srcstat, stat_at, opened>>
    PROVE  IInv'
<1> USE DEF IInv
<1>1. Clocks'
  <2>1. CASE pc' \notin Copying /\ stat_at' = stat_at
    BY <2>1 DEF Clocks
  <2>2. CASE UNCHANGED <<pc, file, srcstat, stat_at, opened>>
    BY <2>2 DEF Clocks
  <2> QED BY <2>1, <2>2
<1>2. ASSUME NEW f \in Files PROVE Recorded(f)'
  BY DEF Recorded, Settled
<1>3. CopyInv'
  <2>1. CASE pc' \notin Copying
    BY <2>1 DEF CopyInv, Copying
  <2>2. CASE UNCHANGED <<pc, file, srcstat, stat_at, opened>>
    BY <2>2 DEF CopyInv, Untouched, TypeOK
  <2> QED BY <2>1, <2>2
<1> QED BY <1>1, <1>2, <1>3

\* An edit is stamped with the present second, which no stat has passed.
LEMMA SourceChange ==
    ASSUME IInv, TypeOK', NEW f \in Files, NEW n \in Node, Change(f, n),
           \/ n.kind = "absent" /\ n.mtime = 0
           \/ n.mtime = now
           \/ src[f].kind = "file" /\ n.ver = src[f].ver /\ n.mtime = src[f].mtime
    PROVE  IInv'
<1> USE DEF IInv
<1>1. Clocks'
  <2>1. ASSUME NEW g \in Files PROVE src'[g].mtime <= now /\ seen[g] <= now
    <3>1. src'[g] = IF g = f THEN n ELSE src[g]
      BY DEF Change, TypeOK
    <3>2. n.mtime <= now
      BY DEF Clocks, TypeOK
    <3> QED BY <3>1, <3>2 DEF Clocks
  <2> QED BY <2>1 DEF Clocks, Change, run
<1>2. ASSUME NEW g \in Files PROVE Recorded(g)'
  <2>1. CASE g # f
    BY <2>1 DEF Recorded, Settled, Change, TypeOK
  <2>2. CASE g = f
    <3>1. src'[f] = n /\ UNCHANGED <<tgt, seen>> /\ seen[f] <= now /\ seen[f] \in Nat
      BY DEF Change, TypeOK, Clocks
    <3>2. now \in Nat
      BY DEF TypeOK
    <3> QED BY <2>2, <3>1, <3>2 DEF Recorded, Settled
  <2> QED BY <2>1, <2>2
<1>3. CopyInv'
  <2>1. UNCHANGED <<tgt, seen, pc, file, srcstat, stat_at, opened>>
    BY DEF Change, run
  <2>2. CASE file # f
    <3>1. src'[file] = src[file]
      BY <2>2 DEF Change, TypeOK
    <3> QED BY <2>1, <3>1 DEF CopyInv, Untouched
  <2>3. CASE file = f
    <3>1. src'[file] = n /\ stat_at <= now /\ stat_at \in Nat /\ now \in Nat
      BY <2>3 DEF Change, TypeOK, Clocks
    <3>2. Untouched' => Untouched /\ n.ver = src[file].ver /\ n.mtime = src[file].mtime
      BY <2>1, <2>3, <3>1 DEF Untouched
    <3> QED BY <2>1, <3>1, <3>2 DEF CopyInv
  <2> QED BY <2>2, <2>3
<1> QED BY <1>1, <1>2, <1>3

LEMMA StatSourceStep == ASSUME IInv, TypeOK', NEW f \in Files, StatSource(f) PROVE IInv'
<1> USE DEF IInv
<1>1. Clocks'
  BY DEF StatSource, Clocks, history, TypeOK
<1>2. ASSUME NEW g \in Files PROVE Recorded(g)'
  BY DEF StatSource, Recorded, Settled, history
<1>3. CopyInv'
  BY DEF StatSource, CopyInv, Copying, Untouched
<1> QED BY <1>1, <1>2, <1>3

\* The copy begins: the stamp it puts on the target is not the source's.
LEMMA PutOpenStep == ASSUME IInv, TypeOK', PutOpen PROVE IInv'
<1> USE DEF IInv
<1>1. UNCHANGED <<src, now, file, srcstat, stat_at>> /\ file \in Entries
  BY DEF PutOpen, TypeOK, Entries
<1>2. /\ seen' = [seen EXCEPT ![file] = stat_at]
      /\ tgt'[file].mtime = now + Skew
      /\ \A g \in Files \ {file} : tgt'[g] = tgt[g]
  BY <1>1 DEF PutOpen, TypeOK, Entries
<1>3. now + Skew >= stat_at /\ stat_at <= now
  BY SyncHostAssumption DEF Clocks, TypeOK
<1>4. Clocks'
  BY <1>1, <1>2, <1>3 DEF Clocks, TypeOK
<1>5. ASSUME NEW g \in Files PROVE Recorded(g)'
  <2>1. CASE g # file
    BY <1>1, <1>2, <2>1 DEF Recorded, Settled, TypeOK
  <2>2. CASE g = file
    <3>1. seen'[g] = stat_at /\ tgt'[g].mtime >= stat_at /\ src'[g] = src[g]
      BY <1>1, <1>2, <1>3, <2>2 DEF TypeOK
    <3>2. src[g].mtime \in Nat /\ stat_at \in Nat
      BY DEF TypeOK, Node
    <3>3. tgt'[g].mtime \in Nat
      BY SyncHostAssumption, <1>2, <2>2 DEF TypeOK
    <3> QED BY <3>1, <3>2, <3>3 DEF Recorded, Settled
  <2> QED BY <2>1, <2>2
<1>6. CopyInv'
  <2>1. pc = "put" /\ pc' = "putting" /\ opened' = src[file].ver
    BY DEF PutOpen
  <2>2. seen'[file] = stat_at
    BY <1>2 DEF TypeOK
  <2> QED BY <1>1, <1>2, <1>3, <2>1, <2>2 DEF CopyInv, Copying, Untouched
<1> QED BY <1>4, <1>5, <1>6

\* What the later requests have in common: they touch the one target, once the
\* copy has begun, and leave it a stamp which is not the source's.
LEMMA LaterRequest ==
    ASSUME IInv, TypeOK', pc \in {"putting", "mode", "utime"}, pc' \in {"putting", "mode", "utime"},
           UNCHANGED <<src, now, seen, file, srcstat, stat_at, opened>>,
           \A g \in Files \ {file} : tgt'[g] = tgt[g],
           tgt'[file].mtime >= stat_at,
           pc' = "putting" => pc = "putting",
           pc' \in {"mode", "utime"} /\ Untouched => tgt'[file].ver = src[file].ver
    PROVE  IInv'
<1> USE DEF IInv
<1>1. Clocks'
  BY DEF Clocks
<1>2. ASSUME NEW g \in Files PROVE Recorded(g)'
  <2>1. CASE g # file
    BY <2>1 DEF Recorded, Settled
  <2>2. CASE g = file
    <3>1. seen[file] = stat_at
      BY DEF CopyInv
    <3>2. src[g].mtime \in Nat /\ stat_at \in Nat
      BY DEF TypeOK, Node
    <3>3. g \in Entries /\ tgt'[g].mtime \in Nat
      BY DEF TypeOK, Node, Entries
    <3> QED BY <2>2, <3>1, <3>2, <3>3 DEF Recorded, Settled
  <2> QED BY <2>1, <2>2
<1>3. CopyInv'
  BY DEF CopyInv, Copying, Untouched
<1> QED BY <1>1, <1>2, <1>3

LEMMA RestoreTimeStep == ASSUME IInv, TypeOK', RestoreTime PROVE IInv'
<1> USE DEF IInv
<1>1. /\ pc = "utime" /\ pc' = "walk"
      /\ UNCHANGED <<src, now, seen, stat_at>>
      /\ \A g \in Files \ {file} : tgt'[g] = tgt[g]
      /\ tgt'[file].ver = tgt[file].ver
  BY DEF RestoreTime, TypeOK, Entries, Node, history
<1>2. ASSUME NEW g \in Files PROVE Recorded(g)'
  <2>1. CASE g # file
    BY <1>1, <2>1 DEF Recorded, Settled
  <2>2. CASE g = file
    BY <1>1, <2>2 DEF Recorded, Settled, CopyInv, Untouched
  <2> QED BY <2>1, <2>2
<1>3. Clocks' /\ CopyInv'
  BY <1>1 DEF Clocks, CopyInv, Copying
<1> QED BY <1>2, <1>3

-----------------------------------------------------------------------------
LEMMA NextIInv == IInv /\ [Next]_vars => IInv'
<1> SUFFICES ASSUME IInv, [Next]_vars PROVE IInv'
  OBVIOUS
<1>0. TypeOK /\ TypeOK' /\ file \in Entries /\ conn \in BOOLEAN
  BY TypeInvariance DEF IInv, TypeOK, Entries
<1>1. CASE Start
  <2>1. \A f \in Files : tgt'[f] = tgt[f]
    BY <1>0, <1>1, SyncHostAssumption, MkdirKeepsRecorded DEF Start
  <2> QED BY <1>0, <1>1, <2>1, QuietStep DEF Start, Copying
<1>2. CASE Walk
  <2>1. ASSUME NEW d \in Dirs, Descend(d) PROVE IInv'
    <3>1. \A f \in Files : tgt'[f] = tgt[f]
      BY <1>0, <2>1, MkdirKeepsRecorded DEF Descend, history
    <3> QED BY <1>0, <2>1, <3>1, QuietStep DEF Descend, history
  <2>2. ASSUME NEW f \in Files, SkipFile(f) PROVE IInv'
    BY <1>0, <2>2, QuietStep DEF SkipFile, history
  <2>3. ASSUME NEW f \in Files, StatSource(f) PROVE IInv'
    BY <1>0, <2>3, StatSourceStep
  <2>4. CASE StatSourceFails
    BY <1>0, <2>4, QuietStep DEF StatSourceFails, Raise, End, history, Copying
  <2>5. CASE Return
    BY <1>0, <2>5, QuietStep DEF Return, history
  <2>6. CASE Finish
    BY <1>0, <2>6, QuietStep DEF Finish, End, Copying
  <2> QED BY <1>2, <2>1, <2>2, <2>3, <2>4, <2>5, <2>6 DEF Walk
<1>3. CASE Copy
  <2>1. CASE Compare
    <3>1. UNCHANGED <<src, tgt, now, file, srcstat, stat_at, opened, seen>>
          /\ pc = "compare" /\ pc' \in {"walk", "writable", "put"}
      BY <2>1 DEF Compare, history
    <3> QED BY <1>0, <3>1 DEF IInv, Clocks, Recorded, Settled, CopyInv, Copying, Untouched
  <2>2. CASE MakeWritable
    <3>1. /\ UNCHANGED <<src, now, file, srcstat, stat_at, opened, seen>>
          /\ pc = "writable" /\ pc' = "put"
          /\ \A g \in Files : /\ tgt'[g].kind = tgt[g].kind
                              /\ tgt'[g].mtime = tgt[g].mtime
                              /\ tgt'[g].ver = tgt[g].ver
      BY <1>0, <2>2 DEF MakeWritable, TypeOK, Entries, Node, history
    <3> QED BY <1>0, <3>1 DEF IInv, Clocks, Recorded, Settled, CopyInv, Copying, Untouched
  <2>3. CASE PutOpen
    BY <1>0, <2>3, PutOpenStep
  <2>4. CASE PutOpenFails
    BY <1>0, <2>4, QuietStep DEF PutOpenFails, Raise, End, history, Copying
  <2>5. CASE PutDone
    <3>1. PICK v \in IF src[file].ver = opened THEN {opened} ELSE {opened, src[file].ver, Damaged} :
             tgt' = [tgt EXCEPT ![file].ver = v, ![file].mtime = now + Skew]
      BY <2>5 DEF PutDone
    <3>2. /\ tgt'[file].mtime = now + Skew /\ tgt'[file].ver = v
          /\ \A g \in Files \ {file} : tgt'[g] = tgt[g]
      BY <1>0, <3>1 DEF TypeOK, Entries, Node
    <3>3. now + Skew >= stat_at
      BY <1>0, SyncHostAssumption DEF IInv, Clocks, TypeOK
    <3>4. Untouched => v = src[file].ver
      BY <2>5, <3>1 DEF PutDone, IInv, CopyInv
    <3>5. /\ pc = "putting" /\ pc' = "mode"
          /\ UNCHANGED <<src, now, seen, file, srcstat, stat_at, opened>>
      BY <2>5 DEF PutDone, history
    <3> QED BY <1>0, <3>2, <3>3, <3>4, <3>5, LaterRequest
  <2>6. CASE RestoreMode
    <3>1. /\ pc = "mode" /\ pc' = "utime"
          /\ UNCHANGED <<src, now, seen, file, srcstat, stat_at, opened>>
          /\ \A g \in Files \ {file} : tgt'[g] = tgt[g]
          /\ tgt'[file].ver = tgt[file].ver /\ tgt'[file].mtime = tgt[file].mtime
      BY <1>0, <2>6 DEF RestoreMode, TypeOK, Entries, Node, history
    <3>2. /\ tgt[file].mtime >= stat_at
          /\ Untouched => tgt[file].ver = src[file].ver
      BY <3>1 DEF IInv, CopyInv
    <3> QED BY <1>0, <3>1, <3>2, LaterRequest
  <2>7. CASE RestoreTime
    BY <1>0, <2>7, RestoreTimeStep
  <2>8. CASE RequestFails
    BY <1>0, <2>8, QuietStep DEF RequestFails, Raise, End, history, Copying
  <2> QED BY <1>3, <2>1, <2>2, <2>3, <2>4, <2>5, <2>6, <2>7, <2>8 DEF Copy
<1>4. CASE PutChunk
  <2>1. /\ tgt'[file].mtime = now + Skew
        /\ \A g \in Files \ {file} : tgt'[g] = tgt[g]
    BY <1>0, <1>4 DEF PutChunk, TypeOK, Entries, Node
  <2>2. now + Skew >= stat_at
    BY <1>0, SyncHostAssumption DEF IInv, Clocks, TypeOK
  <2>3. /\ pc = "putting" /\ pc' = "putting"
        /\ UNCHANGED <<src, now, seen, file, srcstat, stat_at, opened>>
    BY <1>4 DEF PutChunk, run, history
  <2> QED BY <1>0, <2>1, <2>2, <2>3, LaterRequest
<1>5. CASE Environment
  <2>1. CASE ConnectionLost
    BY <1>0, <2>1, QuietStep DEF ConnectionLost, history
  <2>2. CASE Killed
    BY <1>0, <2>2, QuietStep DEF Killed, End, history, Copying
  <2>3. CASE Tick
    <3>1. UNCHANGED <<src, tgt, run, history>> /\ now' = now + 1
      BY <2>3 DEF Tick
    <3>2. Clocks'
      BY <1>0, <3>1 DEF IInv, Clocks, TypeOK, Node, run, history
    <3> QED BY <1>0, <3>1, <3>2
            DEF IInv, Recorded, Settled, CopyInv, Copying, Untouched, run, history
  <2>4. ASSUME NEW f \in Files, Edit(f) PROVE IInv'
    <3>1. PICK m \in Modes : Change(f, SourceFile(edits + 2, m, now))
      BY <2>4 DEF Edit
    <3>2. SourceFile(edits + 2, m, now) \in Node /\ SourceFile(edits + 2, m, now).mtime = now
      BY <1>0 DEF SourceFile, Node, TypeOK
    <3> QED BY <1>0, <3>1, <3>2, SourceChange
  <2>5. ASSUME NEW f \in Files, ChangeMode(f) PROVE IInv'
    <3> DEFINE n(m) == [src[f] EXCEPT !.mode = m]
    <3>1. PICK m \in Modes : src[f].kind = "file" /\ Change(f, n(m))
      BY <2>5 DEF ChangeMode
    <3>2. n(m) \in Node /\ n(m).ver = src[f].ver /\ n(m).mtime = src[f].mtime
      BY <1>0 DEF Node, TypeOK
    <3> HIDE DEF n
    <3> QED BY <1>0, <3>1, <3>2, SourceChange
  <2>6. ASSUME NEW f \in Files, Delete(f) PROVE IInv'
    <3>1. Absent.kind = "absent" /\ Absent.mtime = 0
      BY DEF Absent
    <3> QED BY <1>0, <2>6, <3>1, AbsentType, SourceChange DEF Delete
  <2> QED BY <1>5, <2>1, <2>2, <2>3, <2>4, <2>5, <2>6 DEF Environment
<1>6. CASE UNCHANGED vars
  BY <1>0, <1>6, QuietStep DEF vars, run, history
<1> QED BY <1>1, <1>2, <1>3, <1>4, <1>5, <1>6 DEF Next

-----------------------------------------------------------------------------
\* A copy that was completed bears a time which is not after its stat: an edit of a
\* later second shows.  One that is not is torn.
Completed(f) == f \notin torn /\ seen[f] # 0 => tgt[f].mtime <= seen[f]
Times ==
    /\ \A f \in Files : Completed(f)
    /\ pc \in Copying => srcstat.mtime <= stat_at
    /\ pc \in {"putting", "mode", "utime"} => file \in torn /\ seen[file] = stat_at

LEMMA TimesStep == IInv /\ Times /\ [Next]_vars => Times'
<1> SUFFICES ASSUME IInv, Times, [Next]_vars PROVE Times'
  OBVIOUS
<1>0. TypeOK /\ file \in Entries /\ file \in Files /\ conn \in BOOLEAN /\ stat_at \in Nat
  BY DEF IInv, TypeOK, Entries
\* Nothing is done to a copy.
<1>1. ASSUME UNCHANGED <<seen, torn>>, \A f \in Files : tgt'[f] = tgt[f],
             pc' \notin Copying \/ UNCHANGED <<pc, file, srcstat, stat_at>>
      PROVE  Times'
  BY <1>1 DEF Times, Completed, Copying
\* The copy under way is torn, so that what is done to it says nothing.
<1>2. ASSUME UNCHANGED <<seen, torn, file, srcstat, stat_at>>, pc \in {"putting", "mode", "utime"},
             pc' \in {"putting", "mode", "utime"}, \A f \in Files \ {file} : tgt'[f] = tgt[f]
      PROVE  Times'
  BY <1>2 DEF Times, Completed, Copying
<1>3. CASE Start
  <2>1. \A f \in Files : tgt'[f] = tgt[f]
    BY <1>0, <1>3, SyncHostAssumption, MkdirKeepsRecorded DEF Start
  <2> QED BY <1>1, <1>3, <2>1 DEF Start, Copying
<1>4. CASE Walk
  <2>1. ASSUME NEW d \in Dirs, Descend(d) PROVE Times'
    <3>1. \A f \in Files : tgt'[f] = tgt[f]
      BY <1>0, <2>1, MkdirKeepsRecorded DEF Descend, history
    <3> QED BY <1>1, <2>1, <3>1 DEF Descend, history
  <2>2. ASSUME NEW f \in Files, StatSource(f) PROVE Times'
    <3>1. /\ pc' = "compare" /\ srcstat' = src[f] /\ stat_at' = now
          /\ UNCHANGED <<seen, torn, tgt>>
      BY <2>2 DEF StatSource, history
    <3>2. src[f].mtime <= now
      BY DEF IInv, Clocks
    <3> QED BY <3>1, <3>2 DEF Times, Completed, Copying
  <2>3. CASE StatSourceFails \/ Return \/ Finish \/ \E f \in Files : SkipFile(f)
    BY <1>1, <2>3 DEF StatSourceFails, Return, Finish, SkipFile, Raise, End, history, Copying
  <2> QED BY <1>4, <2>1, <2>2, <2>3 DEF Walk
<1>5. CASE Compare \/ MakeWritable
  <2>1. /\ UNCHANGED <<file, srcstat, stat_at, seen, torn>>
        /\ pc \in Copying /\ pc' \in {"walk", "writable", "put"}
        /\ \A f \in Files : tgt'[f].mtime = tgt[f].mtime
    BY <1>0, <1>5 DEF Compare, MakeWritable, TypeOK, Entries, Node, history, Copying
  <2> QED BY <2>1 DEF Times, Completed, Copying
<1>6. CASE PutOpen
  <2>1. /\ UNCHANGED <<file, srcstat, stat_at>> /\ pc = "put" /\ pc' = "putting"
        /\ torn' = torn \union {file} /\ seen'[file] = stat_at
        /\ \A f \in Files \ {file} : tgt'[f] = tgt[f] /\ seen'[f] = seen[f]
    BY <1>0, <1>6 DEF PutOpen, TypeOK, Entries
  <2> QED BY <2>1 DEF Times, Completed, Copying
<1>7. CASE PutChunk \/ PutDone \/ RestoreMode
  <2>1. /\ UNCHANGED <<file, srcstat, stat_at, seen, torn>>
        /\ pc \in {"putting", "mode", "utime"} /\ pc' \in {"putting", "mode", "utime"}
        /\ \A f \in Files \ {file} : tgt'[f] = tgt[f]
    BY <1>0, <1>7 DEF PutChunk, PutDone, RestoreMode, TypeOK, Entries, Node, history, run
  <2> QED BY <1>2, <2>1
<1>8. CASE RestoreTime
  <2>1. /\ UNCHANGED <<seen, stat_at>> /\ pc = "utime" /\ pc' = "walk"
        /\ torn' = torn \ {file} /\ tgt'[file].mtime = srcstat.mtime
        /\ \A f \in Files \ {file} : tgt'[f] = tgt[f]
    BY <1>0, <1>8 DEF RestoreTime, RecordedTime, TypeOK, Entries, Node
  <2>2. seen[file] = stat_at /\ srcstat.mtime <= stat_at
    BY <2>1 DEF Times, Copying
  <2>3. ASSUME NEW f \in Files PROVE Completed(f)'
    <3>1. CASE f = file
      BY <2>1, <2>2, <3>1 DEF Completed
    <3>2. CASE f # file
      BY <2>1, <3>2 DEF Times, Completed
    <3> QED BY <3>1, <3>2
  <2> QED BY <2>1, <2>3 DEF Times, Copying
<1>9. CASE PutOpenFails \/ RequestFails \/ Killed \/ ConnectionLost \/ Tick \/ UNCHANGED vars
  BY <1>1, <1>9 DEF PutOpenFails, RequestFails, Killed, ConnectionLost, Tick, Raise, End, vars, run,
                    history, Copying
<1>10. CASE \E f \in Files : Edit(f) \/ ChangeMode(f) \/ Delete(f)
  BY <1>1, <1>10 DEF Edit, ChangeMode, Delete, Change, run
<1> QED BY <1>3, <1>4, <1>5, <1>6, <1>7, <1>8, <1>9, <1>10 DEF Next, Copy, Environment

LEMMA Invariance == Spec => [](IInv /\ Times)
<1>1. Init => IInv /\ Times
  <2>1. Init => Times
    BY DEF Init, Times, Completed, Copying
  <2> QED BY <2>1, InitIInv
<1>2. IInv /\ Times /\ [Next]_vars => (IInv /\ Times)'
  BY NextIInv, TimesStep
<1> QED BY <1>1, <1>2, PTL DEF Spec

\* The specification keeps every variable's type.
THEOREM TypeCorrect == Spec => []TypeOK
<1>1. IInv => TypeOK
  BY DEF IInv
<1> QED BY <1>1, Invariance, PTL

\* If the attributes are those of the source, so is the content: either the source is
\* settled, or a completed copy would bear an earlier time.
LEMMA SameIsEqual ==
    ASSUME IInv, Times, NEW f \in Files, Same(f), ~ Coincident(f)
    PROVE  tgt[f].ver = src[f].ver
<1>1. /\ src[f].kind = "file" /\ tgt[f].kind = "file" /\ tgt[f].mtime = src[f].mtime
      /\ seen[f] # 0 /\ seen[f] # src[f].mtime /\ (f \in torn => ~ (src[f].mtime > seen[f]))
  BY DEF Same, Differs, Coincident
<1>2. seen[f] \in Nat /\ src[f].mtime \in Nat
  BY DEF IInv, TypeOK, Node
<1>3. Settled(f)
  BY <1>1, <1>2 DEF Times, Completed, Settled
<1> QED BY <1>1, <1>3 DEF IInv, Recorded

\* Line 108 never takes a broken or outdated copy for a good one, whatever breaks off
\* and whatever is edited before, while and after a run reads it, but for the
\* coincidences of seconds that Coincident names.
THEOREM UpToDateIsCorrect == Spec => []UpToDateIsEqual
<1>1. IInv /\ Times => UpToDateIsEqual
  BY SameIsEqual DEF UpToDateIsEqual
<1> QED BY <1>1, Invariance, PTL
-----------------------------------------------------------------------------
(* What the walk leaves behind.  IInv says what the attributes of one copy   *)
(* mean; here is which files have been visited.                              *)

\* The copy under way is of a listed file, and when it ends its target has the
\* attributes of the source.
CopyOf ==
    /\ \A d \in Dirs : \A e \in rest[d] : e # Root /\ Parent[e] = d
    /\ pc \in Copying => file \notin Skipped /\ Parent[file] = cur /\ file \notin rest[cur]
    /\ pc \in Copying /\ (quiet \/ synced) => srcstat = src[file] /\ srcstat.kind = "file"
    /\ pc \in {"putting", "mode", "utime"} => tgt[file].kind = "file"
    /\ pc = "utime" => tgt[file].mode = srcstat.mode

AllSame == \A f \in Files \ Skipped : src[f].kind = "file" => Same(f)

\* K is the path of directories the walk is in, down to cur.
IsPath(K) ==
    /\ K \subseteq Dirs /\ Root \in K /\ cur \in K
    /\ \A d \in K \ {Root} : Parent[d] \in K \ {cur}
    /\ \A d, e \in K \ {Root} : Parent[d] = Parent[e] => d = e

\* D is what the walk is done with: whole directories, and files that are as the
\* source.  In the directories of K it has still to visit what is in rest.
IsDone(D, K) ==
    /\ \A e \in D : e \in Entries \ {Root} /\ Parent[e] \in D \union K
    /\ \A d \in D \intersect Dirs : Listing(d) \subseteq D
    /\ \A f \in (D \intersect Files) \ Skipped : src[f].kind = "file" => Same(f)
    /\ \A d \in K :
          /\ rest[d] \intersect (D \union K) = {}
          /\ \A e \in Listing(d) : \/ e \in D \union rest[d] \union K
                                   \/ pc \in Copying /\ e = file
    /\ pc \in Copying => file \notin D

Walked == pc # "idle" /\ quiet => \E D \in SUBSET Entries, K \in SUBSET Dirs : IsPath(K) /\ IsDone(D, K)

\* A run that ended well while nothing was edited has left all files as they are
\* here, and later ones find them so.
Kept ==
    /\ pc = "idle" /\ result = "ok" /\ quiet => AllSame
    /\ synced => AllSame
    /\ synced /\ pc # "idle" =>
          /\ _update_only
          /\ pc \notin {"writable", "putting", "mode", "utime"}
          /\ pc = "put" => ~ conn

WInv == CopyOf /\ Walked /\ Kept

LEMMA InitWInv == Init => WInv
BY DEF Init, WInv, CopyOf, Walked, Kept, Copying

LEMMA CopyOfStep == TypeOK /\ CopyOf /\ [Next]_vars => CopyOf'
<1> SUFFICES ASSUME TypeOK, CopyOf, [Next]_vars PROVE CopyOf'
  OBVIOUS
<1> USE DEF CopyOf, Copying
<1>0. file \in Files /\ file \in Entries /\ cur \in Dirs /\ \A d \in Dirs : rest[d] \subseteq Entries
  BY DEF TypeOK, Entries
<1>1. CASE Start
  <2>1. \A d \in Dirs : \A e \in rest'[d] : e # Root /\ Parent[e] = d
    BY <1>1, SyncHostAssumption DEF Start, Listing, TypeOK
  <2> QED BY <1>1, <2>1 DEF Start
<1>2. ASSUME NEW d \in Dirs, Descend(d) PROVE CopyOf'
  <2>1. \A c \in Dirs : \A e \in rest'[c] : e # Root /\ Parent[e] = c
    BY <1>2 DEF Descend, Listing, TypeOK
  <2> QED BY <1>2, <2>1 DEF Descend
<1>3. ASSUME NEW f \in Files, SkipFile(f) PROVE CopyOf'
  BY <1>3 DEF SkipFile, TypeOK
<1>4. ASSUME NEW f \in Files, StatSource(f) PROVE CopyOf'
  <2>1. /\ f \in rest[cur] /\ f \notin Skipped /\ src[f].kind = "file"
        /\ pc' = "compare" /\ file' = f /\ srcstat' = src[f]
        /\ rest' = [rest EXCEPT ![cur] = @ \ {f}] /\ UNCHANGED <<src, cur>>
    BY <1>4 DEF StatSource
  <2>2. \A c \in Dirs : rest'[c] \subseteq rest[c] /\ f \notin rest'[cur]
    BY <1>0, <2>1 DEF TypeOK
  <2> QED BY <1>0, <2>1, <2>2
<1>5. CASE StatSourceFails \/ PutOpenFails \/ RequestFails \/ Killed \/ Finish
  BY <1>5 DEF StatSourceFails, PutOpenFails, RequestFails, Killed, Finish, Raise, End
<1>6. CASE Return
  BY <1>6 DEF Return
<1>7. CASE Compare \/ MakeWritable
  BY <1>7 DEF Compare, MakeWritable, history
<1>8. CASE PutOpen
  <2>1. tgt'[file].kind = "file"
    BY <1>0, <1>8 DEF PutOpen, TypeOK
  <2> QED BY <1>8, <2>1 DEF PutOpen
<1>9. CASE PutChunk \/ PutDone
  <2>1. tgt'[file].kind = "file"
    <3>1. tgt[file].kind = "file"
      BY <1>9 DEF PutChunk, PutDone
    <3>2. \E v, t : tgt'[file] = [tgt[file] EXCEPT !.mtime = t]
                 \/ tgt'[file] = [tgt[file] EXCEPT !.ver = v, !.mtime = t]
      <4>1. CASE PutChunk
        BY <1>0, <4>1 DEF PutChunk, TypeOK
      <4>2. CASE PutDone
        <5>1. PICK v : tgt' = [tgt EXCEPT ![file].ver = v, ![file].mtime = now + Skew]
          BY <4>2 DEF PutDone
        <5>2. tgt'[file] = [tgt[file] EXCEPT !.ver = v, !.mtime = now + Skew]
          BY <1>0, <5>1 DEF TypeOK
        <5> QED BY <5>2
      <4> QED BY <1>9, <4>1, <4>2
    <3> QED BY <1>0, <3>1, <3>2 DEF TypeOK, Node
  <2> QED BY <1>9, <2>1 DEF PutChunk, PutDone, run, history
<1>10. CASE RestoreMode
  <2>1. tgt'[file].kind = "file" /\ tgt'[file].mode = srcstat.mode
    BY <1>0, <1>10 DEF RestoreMode, TypeOK, Node
  <2> QED BY <1>10, <2>1 DEF RestoreMode, history
<1>11. CASE RestoreTime
  BY <1>11 DEF RestoreTime
<1>12. CASE ConnectionLost \/ Tick \/ UNCHANGED vars
  BY <1>12 DEF ConnectionLost, Tick, vars, run, history
<1>13. CASE \E f \in Files : Edit(f) \/ ChangeMode(f) \/ Delete(f)
  BY <1>13 DEF Edit, ChangeMode, Delete, Change, run
<1> QED BY <1>1, <1>2, <1>3, <1>4, <1>5, <1>6, <1>7, <1>8, <1>9, <1>10, <1>11, <1>12, <1>13
        DEF Next, Walk, Copy, Environment

-----------------------------------------------------------------------------
\* As long as no file changes, here or there, the walk stays where it is.
LEMMA WalkStays ==
    ASSUME NEW D, NEW K, IsPath(K), IsDone(D, K), UNCHANGED <<src, cur, rest>>,
           \A f \in D \intersect Files : tgt'[f] = tgt[f],
           \/ pc \in Copying /\ pc' \in Copying /\ file' = file
           \/ pc \notin Copying /\ pc' \notin Copying
    PROVE  IsPath(K)' /\ IsDone(D, K)'
<1>1. IsPath(K)'
  BY DEF IsPath
<1>2. \A d : Listing(d)' = Listing(d)
  BY DEF Listing
<1>3. \A f \in D \intersect Files : Same(f)' <=> Same(f)
  BY DEF Same, Differs
<1>4. IsDone(D, K)'
  BY <1>2, <1>3 DEF IsDone
<1> QED BY <1>1, <1>4

\* A file whose target has become the same is done with.
LEMMA FileDone ==
    ASSUME TypeOK, CopyOf, NEW D, NEW K, IsPath(K), IsDone(D, K),
           NEW g \in Files, g = file, UNCHANGED <<src, cur, rest>>,
           \A f \in Files \ {g} : tgt'[f] = tgt[f],
           pc \in Copying, pc' \notin Copying, Same(g)'
    PROVE  IsPath(K)' /\ IsDone(D \union {g}, K)'
<1>1. IsPath(K)'
  BY DEF IsPath
<1>2. \A d : Listing(d)' = Listing(d)
  BY DEF Listing
<1>3. \A f \in (D \intersect Files) \ {g} : Same(f)' <=> Same(f)
  BY DEF Same, Differs
<1>4. g \in Entries \ {Root} /\ Parent[g] = cur /\ g \notin rest[cur] /\ g \notin Dirs
  BY SyncHostAssumption DEF CopyOf, TypeOK, Entries
<1>5. \A d \in K : g \notin rest[d]
  BY <1>4 DEF CopyOf, IsPath
<1>6. \A e \in D \union {g} : e \in Entries \ {Root} /\ Parent[e] \in D \union K
  BY <1>4 DEF IsDone, IsPath
<1>7. \A d \in (D \union {g}) \intersect Dirs : Listing(d)' \subseteq D \union {g}
  BY <1>2, <1>4 DEF IsDone
<1>8. ASSUME NEW f \in ((D \union {g}) \intersect Files) \ Skipped, src[f].kind = "file" PROVE Same(f)'
  BY <1>3, <1>8 DEF IsDone
<1>9. ASSUME NEW d \in K
      PROVE  /\ rest[d] \intersect (D \union {g} \union K) = {}
             /\ \A e \in Listing(d) : e \in D \union {g} \union rest[d] \union K
  BY <1>5 DEF IsDone
<1>10. IsDone(D \union {g}, K)'
  BY <1>2, <1>6, <1>7, <1>8, <1>9 DEF IsDone
<1> QED BY <1>1, <1>10

\* Into a directory.
LEMMA DescendStep ==
    ASSUME TypeOK, CopyOf, NEW D, NEW K, IsPath(K), IsDone(D, K), NEW d \in Dirs, Descend(d)
    PROVE  IsPath(K \union {d})' /\ IsDone(D, K \union {d})'
<1>1. /\ pc = "walk" /\ pc' = "walk" /\ d \in rest[cur] /\ cur' = d /\ src' = src
      /\ rest' = [rest EXCEPT ![cur] = @ \ {d}, ![d] = Listing(d)]
      /\ \A f \in Files : tgt'[f] = tgt[f]
  <2>1. \A f \in Files : tgt'[f] = tgt[f]
    BY MkdirKeepsRecorded DEF Descend, TypeOK, history
  <2> QED BY <2>1 DEF Descend
<1>2. cur \in K /\ d # Root /\ Parent[d] = cur /\ cur \in Dirs
  BY <1>1 DEF CopyOf, TypeOK, IsPath
<1>3. d \notin K /\ d \notin D /\ d # cur
  BY <1>1, <1>2 DEF IsPath, IsDone
<1>4. IsPath(K \union {d})'
  BY <1>1, <1>2, <1>3 DEF IsPath
<1>5. \A c : Listing(c)' = Listing(c)
  BY <1>1 DEF Listing
<1>6. \A f \in D \intersect Files : Same(f)' <=> Same(f)
  BY <1>1 DEF Same, Differs
<1>7. /\ rest'[cur] = rest[cur] \ {d} /\ rest'[d] = Listing(d)
      /\ \A c \in Dirs \ {cur, d} : rest'[c] = rest[c]
  BY <1>1, <1>2, <1>3 DEF TypeOK
<1>8. \A e \in Listing(d) : e # Root /\ Parent[e] = d
  BY DEF Listing
<1>9. \A e \in Listing(d) : e \notin D \union K \union {d}
  <2>1. \A e \in D \union K : e # Root => Parent[e] \in D \union K
    BY DEF IsPath, IsDone
  <2>2. d \notin D \union K /\ Parent[d] # d
    BY <1>2, <1>3
  <2> QED BY <1>8, <2>1, <2>2
<1>10. ASSUME NEW c \in K \union {d}
       PROVE  /\ rest'[c] \intersect (D \union K \union {d}) = {}
              /\ \A e \in Listing(c) : e \in D \union rest'[c] \union K \union {d}
  <2>1. CASE c = d
    BY <1>7, <1>9, <2>1
  <2>2. CASE c = cur
    BY <1>1, <1>2, <1>7, <2>2 DEF IsDone, Copying
  <2>3. CASE c \in K \ {cur, d}
    <3>1. c \in Dirs /\ rest'[c] = rest[c] /\ d \notin rest[c]
      BY <1>2, <1>7, <2>3 DEF IsPath, CopyOf
    <3> QED BY <1>1, <2>3, <3>1 DEF IsDone, Copying
  <2> QED BY <1>10, <2>1, <2>2, <2>3
<1>11. /\ \A e \in D : e \in Entries \ {Root} /\ Parent[e] \in D \union K \union {d}
       /\ \A c \in D \intersect Dirs : Listing(c) \subseteq D
       /\ \A f \in (D \intersect Files) \ Skipped : src[f].kind = "file" => Same(f)'
  BY <1>6 DEF IsDone
<1>12. IsDone(D, K \union {d})'
  BY <1>1, <1>5, <1>10, <1>11 DEF IsDone, Copying
<1> QED BY <1>4, <1>12

\* Out of a directory that is done with.
LEMMA ReturnStep ==
    ASSUME TypeOK, CopyOf, NEW D, NEW K, IsPath(K), IsDone(D, K), NEW d, d = cur, Return
    PROVE  IsPath(K \ {d})' /\ IsDone(D \union {d}, K \ {d})'
<1> DEFINE p == Parent[cur]
<1>1. /\ pc = "walk" /\ pc' = "walk" /\ rest[cur] = {} /\ cur # Root /\ cur' = p
      /\ UNCHANGED <<src, tgt, rest>>
  BY DEF Return
<1>2. cur \in K /\ cur \in Dirs /\ p \in K /\ p # cur /\ cur \in Entries
  BY <1>1 DEF IsPath, Entries
<1>3. \A e \in K \ {Root} : Parent[e] # cur
  BY DEF IsPath
<1>4. \A e \in K \ {Root, cur} : Parent[e] # p
  BY <1>1, <1>2 DEF IsPath
<1>5. IsPath(K \ {d})'
  BY <1>1, <1>2, <1>3, <1>4 DEF IsPath
<1>6. \A c : Listing(c)' = Listing(c)
  BY <1>1 DEF Listing
<1>7. \A f : Same(f)' <=> Same(f)
  BY <1>1 DEF Same, Differs
<1>8. Listing(cur) \subseteq D
  <2>1. \A e \in Listing(cur) : e # Root /\ Parent[e] = cur
    BY DEF Listing
  <2>2. \A e \in Listing(cur) : e \in D \union K
    BY <1>1, <1>2 DEF IsDone, Copying
  <2> QED BY <1>3, <2>1, <2>2
<1>9. \A c \in (D \union {d}) \intersect Dirs : Listing(c) \subseteq D \union {d}
  BY <1>8 DEF IsDone
<1>10. \A e \in D \union {d} : /\ e \in Entries \ {Root}
                               /\ Parent[e] \in (D \union {d}) \union (K \ {d})
  BY <1>1, <1>2 DEF IsDone
<1>11. ASSUME NEW c \in K \ {d}
       PROVE  /\ rest[c] \intersect ((D \union {d}) \union (K \ {d})) = {}
              /\ \A e \in Listing(c) : e \in (D \union {d}) \union rest[c] \union (K \ {d})
  <2>1. rest[c] \intersect (D \union K) = {} /\ \A e \in Listing(c) : e \in D \union rest[c] \union K
    BY <1>1 DEF IsDone, Copying
  <2> QED BY <1>2, <2>1
<1>12. cur \notin Files
  BY <1>2, SyncHostAssumption
<1>13. \A f \in ((D \union {d}) \intersect Files) \ Skipped : src[f].kind = "file" => Same(f)
  BY <1>12 DEF IsDone
<1> HIDE DEF p
<1>14. IsDone(D \union {d}, K \ {d})'
  BY <1>1, <1>6, <1>7, <1>9, <1>10, <1>11, <1>13 DEF IsDone, Copying
<1> QED BY <1>5, <1>14

\* Each step of a walk, with what it is done with.
LEMMA WalkedStep == TypeOK /\ CopyOf /\ Walked /\ [Next]_vars => Walked'
<1> SUFFICES ASSUME TypeOK, CopyOf, Walked, [Next]_vars, pc' # "idle", quiet'
             PROVE  \E D \in SUBSET Entries, K \in SUBSET Dirs : IsPath(K)' /\ IsDone(D, K)'
  BY DEF Walked
<1>1. CASE Start
  <2>1. /\ cur' = Root /\ pc' = "walk" /\ src' = src
        /\ rest' = [rest EXCEPT ![Root] = Listing(Root)]
    BY <1>1 DEF Start
  <2>2. IsPath({Root})'
    BY <2>1, SyncHostAssumption DEF IsPath
  <2>3. \A d : Listing(d)' = Listing(d) /\ Root \notin Listing(d)
    BY <2>1 DEF Listing
  <2>4. rest'[Root] = Listing(Root)
    BY <2>1, SyncHostAssumption DEF TypeOK
  <2>5. IsDone({}, {Root})'
    BY <2>1, <2>3, <2>4 DEF IsDone, Copying
  <2> QED BY <2>2, <2>5, SyncHostAssumption
<1>2. CASE ~ Start
  <2>1. pc # "idle" /\ quiet /\ src' = src
    BY <1>2 DEF Next, Walk, Descend, SkipFile, StatSource, StatSourceFails, Return, Finish, Copy, Compare,
       MakeWritable, PutOpen, PutOpenFails, PutDone, RestoreMode, RestoreTime, RequestFails, PutChunk,
       Environment, ConnectionLost, Killed, Tick, Edit, ChangeMode, Delete, Change, Raise, End,
       vars, run, history
  <2>2. PICK D \in SUBSET Entries, K \in SUBSET Dirs : IsPath(K) /\ IsDone(D, K)
    BY <2>1 DEF Walked
  <2>3. file \in Files /\ file \in Entries /\ cur \in Dirs /\ cur \in Entries /\ file \notin Dirs
    BY SyncHostAssumption DEF TypeOK, Entries
  <2>4. ASSUME UNCHANGED <<cur, rest>>, \A f \in D \intersect Files : tgt'[f] = tgt[f],
               \/ pc \in Copying /\ pc' \in Copying /\ file' = file
               \/ pc \notin Copying /\ pc' \notin Copying
        PROVE  IsPath(K)' /\ IsDone(D, K)'
    BY <2>1, <2>2, <2>4, WalkStays
  <2>5. ASSUME UNCHANGED <<cur, rest, file>>, \A f \in Files \ {file} : tgt'[f] = tgt[f],
               pc \in Copying, pc' \in Copying
        PROVE  IsPath(K)' /\ IsDone(D, K)'
    <3>1. file \notin D
      BY <2>2, <2>5 DEF IsDone
    <3> QED BY <2>4, <2>5, <3>1
  <2>6. ASSUME NEW d \in Dirs, Descend(d) PROVE K \union {d} \in SUBSET Dirs
          /\ IsPath(K \union {d})' /\ IsDone(D, K \union {d})'
    BY <2>2, <2>6, DescendStep
  <2>7. CASE Return
    <3>1. PICK d \in Dirs : d = cur
      BY <2>3
    <3>2. IsPath(K \ {d})' /\ IsDone(D \union {d}, K \ {d})'
      BY <2>2, <2>7, <3>1, ReturnStep
    <3>3. D \union {d} \in SUBSET Entries /\ K \ {d} \in SUBSET Dirs
      BY <2>3, <3>1
    <3> QED BY <3>2, <3>3
  <2>8. ASSUME NEW f \in Files, SkipFile(f)
        PROVE  D \union {f} \in SUBSET Entries /\ IsPath(K)' /\ IsDone(D \union {f}, K)'
    <3>1. /\ pc = "walk" /\ pc' = "walk" /\ f \in rest[cur] /\ f \in Skipped
          /\ rest' = [rest EXCEPT ![cur] = @ \ {f}] /\ UNCHANGED <<cur, tgt>>
      BY <2>8 DEF SkipFile
    <3>2. f \in Entries \ {Root} /\ f \notin Dirs /\ Parent[f] = cur /\ cur \in K
      BY <2>2, <2>3, <3>1, SyncHostAssumption DEF CopyOf, IsPath, Entries
    <3>3. /\ rest'[cur] = rest[cur] \ {f} /\ \A c \in Dirs \ {cur} : rest'[c] = rest[c]
      BY <2>3, <3>1 DEF TypeOK
    <3>4. \A c \in K : rest'[c] = rest[c] \ {f}
      BY <2>2, <3>2, <3>3 DEF CopyOf, IsPath
    <3>5. \A d : Listing(d)' = Listing(d)
      BY <2>1 DEF Listing
    <3>6. \A g : Same(g)' <=> Same(g)
      BY <2>1, <3>1 DEF Same, Differs
    <3>7. IsPath(K)'
      BY <2>2, <3>1 DEF IsPath
    <3>8. f \notin K
      BY <2>2, <3>2
    <3>9. ASSUME NEW c \in K
          PROVE  /\ rest'[c] \intersect (D \union {f} \union K) = {}
                 /\ \A e \in Listing(c) : e \in D \union {f} \union rest'[c] \union K
      BY <2>2, <3>1, <3>4, <3>8 DEF IsDone, Copying
    <3>10. /\ \A e \in D \union {f} : e \in Entries \ {Root} /\ Parent[e] \in D \union {f} \union K
           /\ \A d \in (D \union {f}) \intersect Dirs : Listing(d) \subseteq D \union {f}
           /\ \A g \in ((D \union {f}) \intersect Files) \ Skipped : src[g].kind = "file" => Same(g)
      BY <2>2, <3>1, <3>2 DEF IsDone
    <3>11. IsDone(D \union {f}, K)'
      BY <2>1, <3>1, <3>5, <3>6, <3>9, <3>10 DEF IsDone, Copying
    <3> QED BY <3>2, <3>7, <3>11
  <2>9. ASSUME NEW f \in Files, StatSource(f) PROVE IsPath(K)' /\ IsDone(D, K)'
    <3>1. /\ pc = "walk" /\ pc' = "compare" /\ f \in rest[cur] /\ file' = f
          /\ rest' = [rest EXCEPT ![cur] = @ \ {f}] /\ UNCHANGED <<cur, tgt>>
      BY <2>9 DEF StatSource
    <3>2. cur \in K /\ f \notin D
      BY <2>2, <3>1 DEF IsDone, IsPath
    <3>3. \A c \in K : rest'[c] \subseteq rest[c] /\ rest[c] \subseteq rest'[c] \union {f}
      BY <2>2, <3>1 DEF TypeOK, IsPath
    <3>4. \A d : Listing(d)' = Listing(d)
      BY <2>1 DEF Listing
    <3>5. \A g : Same(g)' <=> Same(g)
      BY <2>1, <3>1 DEF Same, Differs
    <3>6. IsPath(K)'
      BY <2>2, <3>1 DEF IsPath
    <3>7. ASSUME NEW c \in K
          PROVE  /\ rest'[c] \intersect (D \union K) = {}
                 /\ \A e \in Listing(c) : e \in D \union rest'[c] \union K \/ e = f
      BY <2>2, <3>1, <3>3 DEF IsDone, Copying
    <3>8. IsDone(D, K)'
      BY <2>1, <2>2, <3>1, <3>2, <3>4, <3>5, <3>7 DEF IsDone, Copying
    <3> QED BY <3>6, <3>8
  <2>10. ASSUME pc \in Copying, pc' = "walk", UNCHANGED <<cur, rest, file>>,
                \A f \in Files \ {file} : tgt'[f] = tgt[f], ~ Differs(src[file], tgt'[file])
         PROVE  \E E \in SUBSET Entries : IsPath(K)' /\ IsDone(E, K)'
    <3>1. PICK g \in Files : g = file
      BY <2>3
    <3>2. src[g].kind = "file"
      BY <2>1, <2>10, <3>1 DEF CopyOf
    <3>3. Same(g)'
      BY <2>1, <2>10, <3>1, <3>2 DEF Same
    <3>4. IsPath(K)' /\ IsDone(D \union {g}, K)'
      BY <2>1, <2>2, <2>10, <3>1, <3>3, FileDone DEF Copying
    <3> QED BY <2>3, <3>1, <3>4
  <2>11. CASE Compare
    <3>1. /\ UNCHANGED <<tgt, cur, rest, file>> /\ pc = "compare" /\ pc' \in {"walk", "writable", "put"}
          /\ pc' = "walk" => ~ Differs(srcstat, tgt[file])
      BY <2>11 DEF Compare
    <3>2. srcstat = src[file]
      BY <2>1, <3>1 DEF CopyOf, Copying
    <3>3. CASE pc' = "walk"
      BY <2>10, <3>1, <3>2, <3>3 DEF Copying
    <3>4. CASE pc' # "walk"
      BY <2>5, <3>1, <3>4 DEF Copying
    <3> QED BY <3>3, <3>4
  <2>12. CASE MakeWritable \/ PutOpen \/ PutChunk \/ PutDone \/ RestoreMode
    <3>1. UNCHANGED <<cur, rest, file>> /\ pc \in Copying /\ pc' \in Copying
      BY <2>12 DEF MakeWritable, PutOpen, PutChunk, PutDone, RestoreMode, run, Copying
    <3>2. \A f \in Files \ {file} : tgt'[f] = tgt[f]
      BY <2>3, <2>12 DEF MakeWritable, PutOpen, PutChunk, PutDone, RestoreMode, TypeOK, Entries
    <3> QED BY <2>5, <3>1, <3>2
  <2>13. CASE RestoreTime
    <3>1. /\ UNCHANGED <<cur, rest, file>> /\ pc = "utime" /\ pc' = "walk"
          /\ tgt' = [tgt EXCEPT ![file].mtime = srcstat.mtime]
      BY <2>13 DEF RestoreTime, RecordedTime
    <3>2. \A f \in Files \ {file} : tgt'[f] = tgt[f]
      BY <2>3, <3>1 DEF TypeOK, Entries
    <3>3. /\ srcstat = src[file] /\ srcstat.kind = "file"
          /\ tgt[file].kind = "file" /\ tgt[file].mode = srcstat.mode
      BY <2>1, <3>1 DEF CopyOf, Copying
    <3>4. ~ Differs(src[file], tgt'[file])
      BY <2>3, <3>1, <3>3 DEF Differs, TypeOK, Node
    <3> QED BY <2>10, <3>1, <3>2, <3>4 DEF Copying
  <2>14. CASE ConnectionLost \/ Tick \/ UNCHANGED vars
    <3>1. UNCHANGED <<tgt, cur, rest, file, pc>>
      BY <2>14 DEF ConnectionLost, Tick, vars, run
    <3> QED BY <2>4, <3>1
  <2>15. ~ Finish /\ ~ StatSourceFails /\ ~ PutOpenFails /\ ~ RequestFails /\ ~ Killed
    BY DEF Finish, StatSourceFails, PutOpenFails, RequestFails, Killed, Raise, End
  <2>16. \A f \in Files : ~ Edit(f) /\ ~ ChangeMode(f) /\ ~ Delete(f)
    BY DEF Edit, ChangeMode, Delete, Change
  <2> QED BY <1>2, <2>4, <2>6, <2>7, <2>8, <2>9, <2>11, <2>12, <2>13, <2>14, <2>15, <2>16
          DEF Next, Walk, Copy, Environment
<1> QED BY <1>1, <1>2

\* When nothing is left in the top directory, every file has been visited: a
\* directory that was not would have a parent that was not, and so on up.
LEMMA AllVisited ==
    ASSUME TypeOK, NEW D, NEW K, IsPath(K), IsDone(D, K), pc = "walk", cur = Root, rest[cur] = {}
    PROVE  AllSame
<1> SUFFICES ASSUME NEW f \in Files \ Skipped, src[f].kind = "file" PROVE Same(f)
  BY DEF AllSame
<1>1. K = {Root}
  <2>1. K \ {Root} \in SUBSET (Dirs \ {Root}) /\ \A d \in K \ {Root} : Parent[d] \in K \ {Root}
    BY DEF IsPath
  <2>2. K \ {Root} = {}
    BY <2>1, SyncHostAssumption
  <2> QED BY <2>2 DEF IsPath
<1>2. \A e \in Entries : e \in Listing(Root) => e \in D
  BY <1>1 DEF IsDone, Copying, Listing
<1>3. \A d \in D \intersect Dirs : Listing(d) \subseteq D
  BY DEF IsDone
<1>4. \A d \in Dirs \ {Root} : d \in Listing(Parent[d])
  BY SyncHostAssumption DEF Listing, Entries
<1>5. Dirs \ (D \union {Root}) = {}
  <2> DEFINE S == Dirs \ (D \union {Root})
  <2>1. S \in SUBSET (Dirs \ {Root})
    OBVIOUS
  <2>2. ASSUME NEW d \in S PROVE Parent[d] \in S
    <3>1. Parent[d] \in Dirs /\ d \in Listing(Parent[d]) /\ d \in Entries
      BY <1>4, SyncHostAssumption DEF Entries
    <3> QED BY <1>2, <1>3, <3>1
  <2> HIDE DEF S
  <2>3. S = {}
    BY <2>1, <2>2, SyncHostAssumption
  <2> QED BY <2>3 DEF S
<1>6. Parent[f] \in Dirs /\ f \in Listing(Parent[f]) /\ f \in Entries /\ f \in Files
  BY SyncHostAssumption DEF Listing, Entries
<1>7. f \in D
  BY <1>2, <1>3, <1>5, <1>6
<1> QED BY <1>6, <1>7 DEF IsDone

LEMMA KeptStep == TypeOK /\ CopyOf /\ Walked /\ Kept /\ [Next]_vars => Kept'
<1> SUFFICES ASSUME TypeOK, CopyOf, Walked, Kept, [Next]_vars PROVE Kept'
  OBVIOUS
<1>0. ASSUME src' = src, \A f \in Files : tgt'[f] = tgt[f] PROVE AllSame' <=> AllSame
  BY <1>0 DEF AllSame, Same, Differs
<1>1. CASE Start
  <2>1. AllSame' <=> AllSame
    <3>1. \A f \in Files : tgt'[f] = tgt[f]
      BY <1>1, SyncHostAssumption, MkdirKeepsRecorded DEF Start
    <3> QED BY <1>0, <1>1, <3>1 DEF Start
  <2> QED BY <1>1, <2>1 DEF Start, Kept
<1>2. ASSUME NEW d \in Dirs, Descend(d) PROVE Kept'
  <2>1. AllSame' <=> AllSame
    <3>1. \A f \in Files : tgt'[f] = tgt[f]
      BY <1>2, MkdirKeepsRecorded DEF Descend, TypeOK, history
    <3> QED BY <1>0, <1>2, <3>1 DEF Descend
  <2> QED BY <1>2, <2>1 DEF Descend, Kept, history
<1>3. CASE Return \/ \E f \in Files : SkipFile(f) \/ StatSource(f)
  <2>1. UNCHANGED <<src, tgt, _update_only, conn, synced, quiet>> /\ pc = "walk" /\ pc' \in {"walk", "compare"}
    BY <1>3 DEF Return, SkipFile, StatSource, history
  <2> QED BY <1>0, <2>1 DEF Kept
<1>4. CASE StatSourceFails \/ PutOpenFails \/ RequestFails \/ Killed
  <2>1. UNCHANGED <<src, tgt, synced>> /\ pc' = "idle" /\ result' = "failed"
    BY <1>4 DEF StatSourceFails, PutOpenFails, RequestFails, Killed, Raise, End, history
  <2> QED BY <1>0, <2>1 DEF Kept
<1>5. CASE Finish
  <2>1. UNCHANGED <<src, tgt, quiet>> /\ pc' = "idle" /\ synced' = quiet /\ pc = "walk"
        /\ rest[cur] = {} /\ cur = Root
    BY <1>5 DEF Finish, End
  <2>2. quiet => AllSame
    BY <2>1, AllVisited DEF Walked
  <2> QED BY <1>0, <2>1, <2>2 DEF Kept
<1>6. CASE Compare
  <2>1. /\ UNCHANGED <<src, tgt, file, _update_only, conn, synced>> /\ pc = "compare"
        /\ IF DstExists
           THEN pc' = IF _update_only /\ ~ Differs(srcstat, tgt[file]) THEN "walk" ELSE "writable"
           ELSE pc' = "put"
    BY <1>6 DEF Compare, history
  <2>2. ASSUME synced PROVE _update_only /\ AllSame /\ (pc' = "walk" \/ (pc' = "put" /\ ~ conn))
    <3>1. /\ file \in Files \ Skipped /\ srcstat = src[file] /\ src[file].kind = "file"
          /\ _update_only /\ AllSame
      BY <2>1, <2>2 DEF CopyOf, Copying, TypeOK, Kept
    <3>2. ~ Differs(srcstat, tgt[file]) /\ tgt[file].kind = "file"
      BY <3>1 DEF AllSame, Same, Differs
    <3> QED BY <2>1, <3>1, <3>2 DEF DstExists
  <2>3. pc' # "idle"
    BY <2>1
  <2>4. AllSame' <=> AllSame
    BY <1>0, <2>1
  <2> QED BY <2>1, <2>2, <2>3, <2>4 DEF Kept
<1>7. CASE MakeWritable \/ PutOpen \/ PutChunk \/ PutDone \/ RestoreMode \/ RestoreTime
  <2>1. /\ synced' = synced /\ pc' # "idle"
        /\ pc \in {"writable", "putting", "mode", "utime"} \/ (pc = "put" /\ conn)
    BY <1>7 DEF MakeWritable, PutOpen, PutChunk, PutDone, RestoreMode, RestoreTime, run, history
  <2>2. ~ synced
    BY <2>1 DEF Kept
  <2> QED BY <2>1, <2>2 DEF Kept, TypeOK
<1>8. CASE ConnectionLost \/ Tick \/ UNCHANGED vars
  <2>1. /\ UNCHANGED <<src, tgt, pc, _update_only, result, quiet, synced>>
        /\ conn' = FALSE \/ conn' = conn
    BY <1>8 DEF ConnectionLost, Tick, vars, run, history
  <2> QED BY <1>0, <2>1 DEF Kept
<1>9. CASE \E f \in Files : Edit(f) \/ ChangeMode(f) \/ Delete(f)
  BY <1>9 DEF Edit, ChangeMode, Delete, Change, Kept
<1> QED BY <1>1, <1>2, <1>3, <1>4, <1>5, <1>6, <1>7, <1>8, <1>9 DEF Next, Walk, Copy, Environment

LEMMA VisitInvariance == Spec => []WInv
<1>1. IInv /\ WInv /\ [Next]_vars => WInv'
  BY CopyOfStep, WalkedStep, KeptStep DEF IInv, WInv
<1> QED BY <1>1, InitWInv, Invariance, PTL DEF Spec

\* A run that exits with 0 has copied every file it does not filter out (unless
\* one was edited meanwhile, and but for the coincidences), for any tree, any target,
\* and whatever the errors that stat_no_error and mkdir_no_error pass over.
THEOREM DoneIsDone == Spec => []DoneIsSynced
<1>1. IInv /\ Times /\ WInv => DoneIsSynced
  <2> SUFFICES ASSUME IInv, Times, WInv, pc = "idle", result = "ok", quiet,
                      NEW f \in Files \ Skipped, src[f].kind = "file"
               PROVE  Synced(f)
    BY DEF DoneIsSynced
  <2>1. Same(f)
    BY DEF WInv, Kept, AllSame
  <2> QED BY <2>1, SameIsEqual DEF Synced
<1> QED BY <1>1, Invariance, VisitInvariance, PTL

\* And the next run, unless it is one with -r, leaves all of them alone (108), even if
\* its connection breaks.
THEOREM SecondRunCopiesNothing == Spec => []RerunCopiesNothing
<1>1. WInv => RerunCopiesNothing
  BY DEF WInv, Kept, RerunCopiesNothing
<1> QED BY <1>1, VisitInvariance, PTL
=============================================================================
