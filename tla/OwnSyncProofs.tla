--------------------------- MODULE OwnSyncProofs ---------------------------
(***************************************************************************)
(* For any tree, any times and modes and any edits, peers and faults: an   *)
(* upload fails only if it was disturbed, keeps what it saw, and goes up   *)
(* once.                                                                   *)
(***************************************************************************)
EXTENDS OwnSync, TLAPS

\* A file that is there has a date, and none of this side is of the future.
Dated ==
    /\ \A f \in Files : local[f] # NoFile => local[f].time \in 0 .. ticks
    /\ \A f \in Files : cloud[f] # NoFile => cloud[f].time >= 0

\* What is still to be visited in a directory belongs there.
Listed == \A d \in Dirs : \A e \in rest[d] : e # Root /\ Parent[e] = d

\* While nobody interferes the walk stands on directories that there are.
Smooth ==
    edits = 0 /\ peer = 0 /\ faults = 0 =>
        /\ result # "failed" /\ pc # "mkpath"
        /\ \A f \in Files : local[f] # NoFile
        /\ \A d \in dirs \ {Root} : Parent[d] \in dirs
        /\ pc # "idle" => cur \in dirs
        /\ pc \in {"compare", "put"} => Parent[file] \in dirs

\* The reason to upload that Compare found holds until the file is put, and for
\* whatever is saved in its place before that.
Decided ==
    pc \in {"put", "mkpath"} /\ dst_lmd # -1 =>
        \/ _overwrite = "always"
        \/ /\ _overwrite = "check"
           /\ Newer(Round(ticks), dst_lmd)
           /\ local[file] # NoFile => Newer(Round(local[file].time), dst_lmd)

\* What has gone up is as old as the local file, and the next look will find it so.
Uploaded ==
    /\ \A f \in Files : uploads[f] > 0 =>
          local[f] # NoFile /\ cloud[f].time = Floor(local[f].time)
    /\ pc = "compare" /\ uploads[file] > 0 => dst_lmd = cloud[file].time
    /\ Tolerance > 0 /\ _overwrite # "always" =>
          /\ pc \in {"put", "mkpath"} => uploads[file] = 0
          /\ \A f \in Files : uploads[f] <= 1

IInv == TypeOK /\ Dated /\ Listed /\ Smooth /\ Decided /\ Uploaded

-----------------------------------------------------------------------------
(* Operators of the model *)

\* Both roundings keep order; rounding here and truncation on the cloud are at
\* most a second apart.
LEMMA Seconds ==
    /\ \A t \in Nat : Floor(t) \in Nat /\ Floor(t) <= t
    /\ \A t \in Nat : Round(t) \in Nat /\ Floor(t) <= Round(t) /\ Round(t) <= Floor(t) + 1
    /\ \A t, u \in Nat : t <= u => Round(t) <= Round(u)
<1>1. ASSUME NEW t \in Nat
      PROVE  /\ Floor(t) \in Nat /\ Floor(t) <= t
             /\ t = 2 * Floor(t) \/ t = 2 * Floor(t) + 1
             /\ Round(t) \in {Floor(t), Floor(t) + 1}
             /\ t = 2 * Floor(t) => Round(t) = Floor(t)
  <2>1. t \div 2 \in Nat /\ (t = 2 * (t \div 2) \/ t = 2 * (t \div 2) + 1)
    OBVIOUS
  <2>2. t = 2 * (t \div 2) => t % 2 # 1
    OBVIOUS
  <2>3. Floor(t) = t \div 2
    BY DEF Floor
  <2>4. Round(t) \in {Floor(t), Floor(t) + 1} /\ (t % 2 # 1 => Round(t) = Floor(t))
    BY DEF Round
  <2> QED BY <2>1, <2>2, <2>3, <2>4
<1>2. ASSUME NEW t \in Nat, NEW u \in Nat, t <= u PROVE Round(t) <= Round(u)
  <2>1. \A a, b \in Nat : 2 * a + 1 <= 2 * b + 1 => a <= b
    OBVIOUS
  <2>2. /\ Floor(t) \in Nat /\ Floor(u) \in Nat
        /\ Round(t) \in {Floor(t), Floor(t) + 1} /\ Round(u) \in {Floor(u), Floor(u) + 1}
        /\ t = 2 * Floor(t) => Round(t) = Floor(t)
        /\ t = 2 * Floor(t) \/ t = 2 * Floor(t) + 1
        /\ u = 2 * Floor(u) \/ u = 2 * Floor(u) + 1
    BY <1>1
  <2>3. CASE t = u
    BY <2>2, <2>3
  <2>4. CASE t = 2 * Floor(t)
    <3>1. Floor(t) <= Floor(u)
      BY <1>2, <2>1, <2>2, <2>4
    <3> QED BY <2>2, <2>4, <3>1
  <2>5. CASE t = 2 * Floor(t) + 1 /\ t < u
    <3>1. Floor(t) + 1 <= Floor(u)
      BY <2>1, <2>2, <2>5
    <3> QED BY <2>2, <3>1
  <2> QED BY <1>2, <2>2, <2>3, <2>4, <2>5
<1> QED BY <1>1, <1>2

\* A later date is newer still.
LEMMA NewerStill ==
    ASSUME NEW t \in Nat, NEW u \in Nat, t <= u, NEW b \in Int, Newer(Round(t), b)
    PROVE  Newer(Round(u), b)
<1>1. Round(t) \in Nat /\ Round(u) \in Nat /\ Round(t) <= Round(u)
  BY Seconds
<1> QED BY <1>1, OwnSyncAssumption DEF Newer

\* A file is not newer than its own copy.
LEMMA CopyIsNotOlder ==
    ASSUME Tolerance > 0, NEW t \in Nat
    PROVE  ~ Newer(Round(t), Floor(t))
<1>1. Round(t) \in Nat /\ Floor(t) \in Nat /\ Round(t) <= Floor(t) + 1
  BY Seconds
<1> QED BY <1>1, OwnSyncAssumption DEF Newer

\* mkpath takes what is still missing from the top down.
LEMMA NextOfMissing == ASSUME missing \subseteq Dirs, missing # {} PROVE NextMissing \in missing
<1>1. \E d \in missing : d = Root \/ Parent[d] \notin missing
  <2>1. CASE Root \in missing
    BY <2>1
  <2>2. CASE Root \notin missing
    <3>1. missing \in SUBSET (Dirs \ {Root})
      BY <2>2
    <3> QED BY <3>1, OwnSyncAssumption
  <2> QED BY <2>1, <2>2
<1> QED BY <1>1 DEF NextMissing

\* What the directory walk has to visit.
LEMMA ListingType ==
    \A d : Listing(d) \subseteq Entries /\ \A e \in Listing(d) : e # Root /\ Parent[e] = d
BY DEF Listing

-----------------------------------------------------------------------------
LEMMA InitIInv == Init => IInv
<1> SUFFICES ASSUME Init PROVE IInv
  OBVIOUS
<1> USE OwnSyncAssumption DEF Init
<1>1. TypeOK
  <2>1. NoFile \in [ver : Int, time : -1 .. MaxTicks]
    BY DEF NoFile
  <2>2. [ver |-> 1, time |-> 3] \in [ver : Nat, time : -1 .. MaxTicks] /\ ticks \in 3 .. MaxTicks
    OBVIOUS
  <2>3. /\ local \in [Files -> [ver : Nat, time : -1 .. MaxTicks]]
        /\ cloud \in [Files -> [ver : Int, time : -1 .. MaxTicks]]
    BY <2>1, <2>2
  <2>4. /\ dirs \subseteq Dirs /\ rest \in [Dirs -> SUBSET Entries] /\ uploads \in [Files -> 0 .. 2]
        /\ missing \subseteq Dirs /\ _overwrite \in {"never", "check", "always"}
    OBVIOUS
  <2>5. /\ pc \in {"idle", "walk", "compare", "put", "mkpath"} /\ cur \in Dirs /\ file \in Files
        /\ result \in {"none", "ok", "failed"} /\ dst_lmd \in -1 .. MaxTicks
    OBVIOUS
  <2>6. retried \in BOOLEAN /\ edits \in Nat /\ peer \in Nat /\ faults \in Nat
    OBVIOUS
  <2> QED BY <2>2, <2>3, <2>4, <2>5, <2>6, Zenon DEF TypeOK
<1>2. \A f \in Files : local[f].time = 3 /\ local[f].ver = 1 /\ local[f] # NoFile /\ cloud[f] = NoFile
  BY DEF NoFile
<1>3. Dated /\ Listed /\ Smooth /\ Decided
  BY <1>2 DEF Dated, Listed, Smooth, Decided
<1>4. Uploaded
  BY DEF Uploaded
<1> QED BY <1>1, <1>3, <1>4 DEF IInv

-----------------------------------------------------------------------------
(* Steps: the type *)

LEMMA TypeStep == TypeOK /\ Dated /\ Next => TypeOK'
<1> SUFFICES ASSUME TypeOK, Dated, Next PROVE TypeOK'
  OBVIOUS
<1> USE DEF TypeOK, End, program
<1>1. \A f \in Files : Parent[f] \in Dirs
  BY OwnSyncAssumption
<1>2. CASE Start
  BY <1>2, ListingType, OwnSyncAssumption DEF Start, UploadDir
<1>3. ASSUME NEW d \in Dirs, Descend(d) PROVE TypeOK'
  BY <1>3, ListingType DEF Descend, UploadDir
<1>4. ASSUME NEW d \in Dirs, MkdirRaises(d) PROVE TypeOK'
  BY <1>4 DEF MkdirRaises, Fatal
<1>5. ASSUME NEW f \in Files, GetLmd(f) PROVE TypeOK'
  <2>1. cloud[f].time \in -1 .. MaxTicks
    OBVIOUS
  <2> QED BY <1>5, <2>1 DEF GetLmd
<1>6. CASE Return
  <2>1. Parent[cur] \in Dirs
    BY OwnSyncAssumption
  <2> QED BY <1>6, <2>1 DEF Return
<1>7. CASE Finish \/ Compare
  BY <1>7 DEF Finish, Compare
<1>8. CASE LocalGone \/ PutRaises \/ MkPathRaises
  BY <1>8 DEF LocalGone, PutRaises, MkPathRaises, Fatal
<1>9. CASE PutFile
  <2>1. local[file].time \in 0 .. MaxTicks /\ local[file].ver \in Int
    <3>1. local[file].time \in 0 .. ticks /\ ticks \in Nat /\ ticks <= MaxTicks
      BY <1>9 DEF PutFile, Dated
    <3> QED BY <3>1, OwnSyncAssumption
  <2>2. Floor(local[file].time) \in -1 .. MaxTicks
    <3>1. Floor(local[file].time) \in Nat /\ Floor(local[file].time) <= local[file].time
      BY <2>1, Seconds
    <3> QED BY <2>1, <3>1, OwnSyncAssumption
  <2>3. cloud' \in [Files -> [ver : Int, time : -1 .. MaxTicks]]
    BY <1>9, <2>1, <2>2 DEF PutFile
  <2>4. uploads' \in [Files -> 0 .. 2]
    BY <1>9 DEF PutFile
  <2> QED BY <1>9, <2>3, <2>4 DEF PutFile
<1>10. CASE PutNotFound
  <2>1. missing' \subseteq Dirs
    BY <1>10 DEF PutNotFound, Path
  <2> QED BY <1>10, <2>1 DEF PutNotFound
<1>11. CASE MkPath
  <2>1. NextMissing \in Dirs
    BY <1>11, NextOfMissing DEF MkPath
  <2> QED BY <1>11, <2>1 DEF MkPath
<1>12. CASE Fail
  BY <1>12 DEF Fail, Fatal
<1>13. ASSUME Fresh PROVE uploads' \in [Files -> 0 .. 2]
  BY <1>13 DEF Fresh
<1>14. NoFile \in [ver : Nat, time : -1 .. MaxTicks] /\ NoFile \in [ver : Int, time : -1 .. MaxTicks]
  BY OwnSyncAssumption DEF NoFile
<1>15. ASSUME NEW f \in Files, Edit(f) PROVE TypeOK'
  <2>1. [ver |-> edits + 2, time |-> ticks] \in [ver : Nat, time : -1 .. MaxTicks]
    OBVIOUS
  <2>2. local' \in [Files -> [ver : Nat, time : -1 .. MaxTicks]]
    BY <1>14, <1>15, <2>1 DEF Edit
  <2> QED BY <1>13, <1>15, <2>2 DEF Edit
<1>16. ASSUME NEW f \in Files, PeerPut(f) PROVE TypeOK'
  <2>1. Floor(ticks) \in -1 .. MaxTicks
    <3>1. ticks \in Nat /\ ticks <= MaxTicks
      OBVIOUS
    <3>2. Floor(ticks) \in Nat /\ Floor(ticks) <= ticks
      BY <3>1, Seconds
    <3> QED BY <3>1, <3>2, OwnSyncAssumption
  <2>2. peer' \in Nat
    BY <1>16 DEF PeerPut
  <2>3. cloud' \in [Files -> [ver : Int, time : -1 .. MaxTicks]]
    BY <1>16, <2>1, <2>2 DEF PeerPut
  <2> QED BY <1>13, <1>16, <2>2, <2>3 DEF PeerPut
<1>17. ASSUME NEW d \in Dirs, PeerDelete(d) PROVE TypeOK'
  <2>1. cloud' \in [Files -> [ver : Int, time : -1 .. MaxTicks]]
    BY <1>14, <1>17 DEF PeerDelete
  <2> QED BY <1>13, <1>17, <2>1 DEF PeerDelete
<1>18. CASE Tick
  <2>1. ticks' \in 3 .. MaxTicks
    BY <1>18, OwnSyncAssumption DEF Tick
  <2> QED BY <1>18, <2>1 DEF Tick
<1> QED BY <1>2, <1>3, <1>4, <1>5, <1>6, <1>7, <1>8, <1>9, <1>10, <1>11, <1>12, <1>15, <1>16, <1>17, <1>18
        DEF Next, Walk, Put, Environment
-----------------------------------------------------------------------------
(* Steps: dates, the walk *)

LEMMA DatedStep == TypeOK /\ Dated /\ Next => Dated'
<1> SUFFICES ASSUME TypeOK, Dated, Next PROVE Dated'
  OBVIOUS
<1>1. ticks \in Nat /\ Floor(ticks) \in Nat
  <2>1. ticks \in Nat
    BY DEF TypeOK
  <2> QED BY <2>1, Seconds
<1>2. CASE PutFile
  <2>1. /\ UNCHANGED <<local, ticks>> /\ local[file] # NoFile
        /\ cloud' = [cloud EXCEPT ![file] = [ver |-> local[file].ver, time |-> Floor(local[file].time)]]
    BY <1>2 DEF PutFile
  <2>2. Floor(local[file].time) \in Nat
    <3>1. local[file].time \in Nat
      BY <2>1, <1>1 DEF Dated, TypeOK
    <3> QED BY <3>1, Seconds
  <2>3. ASSUME NEW f \in Files, cloud'[f] # NoFile PROVE cloud'[f].time >= 0
    BY <2>1, <2>2, <2>3 DEF TypeOK, Dated
  <2> QED BY <2>1, <2>3 DEF Dated
<1>3. ASSUME NEW f \in Files, Edit(f) PROVE Dated'
  <2>1. UNCHANGED <<cloud, ticks>> /\ \A g \in Files \ {f} : local'[g] = local[g]
    BY <1>3 DEF Edit, TypeOK
  <2>2. local'[f] = NoFile \/ local'[f].time = ticks
    BY <1>3 DEF Edit, TypeOK
  <2>3. local'[f] # NoFile => local'[f].time \in 0 .. ticks
    BY <1>1, <2>2
  <2> QED BY <2>1, <2>3 DEF Dated
<1>4. ASSUME NEW f \in Files, PeerPut(f) PROVE Dated'
  <2>1. UNCHANGED <<local, ticks>> /\ \A g \in Files \ {f} : cloud'[g] = cloud[g]
    BY <1>4 DEF PeerPut, TypeOK
  <2>2. cloud'[f].time = Floor(ticks)
    BY <1>4 DEF PeerPut, TypeOK
  <2> QED BY <1>1, <2>1, <2>2 DEF Dated
<1>5. ASSUME NEW d \in Dirs, PeerDelete(d) PROVE Dated'
  <2>1. UNCHANGED <<local, ticks>> /\ \A g \in Files : cloud'[g] \in {NoFile, cloud[g]}
    BY <1>5 DEF PeerDelete
  <2> QED BY <2>1 DEF Dated
<1>6. CASE Tick
  <2>1. UNCHANGED <<local, cloud>> /\ ticks' = ticks + 1
    BY <1>6 DEF Tick
  <2>2. \A f \in Files : local[f] # NoFile => local[f].time \in 0 .. (ticks + 1)
    BY <1>1 DEF Dated
  <2> QED BY <2>1, <2>2 DEF Dated
<1>7. CASE Start \/ Walk \/ Fail \/ (Put /\ ~ PutFile)
  <2>1. UNCHANGED <<local, cloud, ticks>>
    BY <1>7 DEF Start, Walk, Descend, MkdirRaises, GetLmd, Return, Finish, Put, Compare, LocalGone,
                PutNotFound, PutRaises, MkPath, MkPathRaises, Fail, Fatal
  <2> QED BY <2>1 DEF Dated
<1> QED BY <1>2, <1>3, <1>4, <1>5, <1>6, <1>7 DEF Next, Put, Environment

LEMMA ListedStep == TypeOK /\ Listed /\ Next => Listed'
<1> SUFFICES ASSUME TypeOK, Listed, Next PROVE Listed'
  OBVIOUS
<1>1. CASE Start
  BY <1>1, ListingType, OwnSyncAssumption DEF Start, Listed, TypeOK
<1>2. ASSUME NEW d \in Dirs, Descend(d) PROVE Listed'
  <2>1. \A c \in Dirs : rest'[c] \subseteq rest[c] \/ rest'[c] = Listing(c)
    BY <1>2 DEF Descend, TypeOK
  <2> QED BY <2>1, ListingType DEF Listed
<1>3. ASSUME NEW f \in Files, GetLmd(f) PROVE Listed'
  BY <1>3 DEF GetLmd, Listed, TypeOK
<1>4. CASE rest' = rest
  BY <1>4 DEF Listed
<1>5. Start \/ (\E d \in Dirs : Descend(d)) \/ (\E f \in Files : GetLmd(f)) \/ rest' = rest
  BY DEF Next, Walk, MkdirRaises, Return, Finish, Put, Compare, LocalGone, PutFile, PutNotFound,
         PutRaises, MkPath, MkPathRaises, Environment, Fail, Tick, Edit, PeerPut, PeerDelete, Fatal, program
<1> QED BY <1>1, <1>2, <1>3, <1>4, <1>5

\* No request of an undisturbed run meets a directory that is not there.
LEMMA SmoothStep == TypeOK /\ Listed /\ Smooth /\ Next => Smooth'
<1> SUFFICES ASSUME TypeOK, Listed, Smooth, Next, edits' = 0, peer' = 0, faults' = 0
             PROVE  /\ result' # "failed" /\ pc' # "mkpath"
                    /\ \A f \in Files : local'[f] # NoFile
                    /\ \A d \in dirs' \ {Root} : Parent[d] \in dirs'
                    /\ pc' # "idle" => cur' \in dirs'
                    /\ pc' \in {"compare", "put"} => Parent[file'] \in dirs'
  BY DEF Smooth
<1> USE DEF End, program
<1>1. edits \in Nat /\ peer \in Nat /\ faults \in Nat
  BY DEF TypeOK
<1>2. /\ ~ Fail /\ \A f \in Files : ~ Edit(f) /\ ~ PeerPut(f)
      /\ \A d \in Dirs : ~ PeerDelete(d)
  BY <1>1 DEF Fail, Edit, PeerPut, PeerDelete
<1>3. edits = 0 /\ peer = 0 /\ faults = 0
  BY <1>2 DEF Next, Start, Walk, Descend, MkdirRaises, GetLmd, Return, Finish, Put, Compare, LocalGone,
              PutFile, PutNotFound, PutRaises, MkPath, MkPathRaises, Environment, Tick, Fatal
<1>4. /\ result # "failed" /\ pc # "mkpath"
      /\ \A f \in Files : local[f] # NoFile
      /\ \A d \in dirs \ {Root} : Parent[d] \in dirs
      /\ pc # "idle" => cur \in dirs
      /\ pc \in {"compare", "put"} => Parent[file] \in dirs
  BY <1>3 DEF Smooth
<1>5. cur \in Dirs /\ file \in Files /\ rest[cur] \subseteq Entries
  BY DEF TypeOK
<1>6. ~ LocalGone /\ ~ PutNotFound /\ ~ PutRaises /\ ~ MkPath /\ ~ MkPathRaises
  BY <1>4, <1>5 DEF LocalGone, PutNotFound, PutRaises, MkPath, MkPathRaises
<1>7. CASE Start
  BY <1>4, <1>7 DEF Start, UploadDir
<1>8. ASSUME NEW d \in Dirs, Descend(d) PROVE UNCHANGED <<local, result, pc>> /\ pc = "walk"
        /\ dirs' = dirs \union {d} /\ cur' = d /\ d \in rest[cur]
  BY <1>8 DEF Descend, UploadDir
<1>9. ASSUME NEW d \in Dirs, MkdirRaises(d) PROVE FALSE
  <2>1. d \in rest[cur] /\ pc = "walk" /\ d # Root /\ Parent[d] \notin dirs
    BY <1>9 DEF MkdirRaises, CanMkdir
  <2>2. Parent[d] = cur
    BY <1>5, <2>1 DEF Listed
  <2> QED BY <1>4, <2>1, <2>2
<1>10. ASSUME NEW f \in Files, GetLmd(f) PROVE UNCHANGED <<local, result, dirs, cur>> /\ pc = "walk"
         /\ pc' = "compare" /\ file' = f /\ f \in rest[cur]
  BY <1>10 DEF GetLmd
<1>11. CASE \E d \in Dirs : Descend(d)
  <2>1. PICK d \in Dirs : Descend(d)
    BY <1>11
  <2>2. d # Root /\ Parent[d] = cur
    BY <1>5, <1>8, <2>1 DEF Listed
  <2> QED BY <1>4, <1>8, <2>1, <2>2
<1>12. CASE \E f \in Files : GetLmd(f)
  <2>1. PICK f \in Files : GetLmd(f)
    BY <1>12
  <2>2. Parent[f] = cur
    BY <1>5, <1>10, <2>1 DEF Listed
  <2> QED BY <1>4, <1>10, <2>1, <2>2
<1>13. CASE Return
  BY <1>4, <1>13 DEF Return
<1>14. CASE Finish \/ Compare \/ PutFile \/ Tick
  BY <1>4, <1>14 DEF Finish, Compare, PutFile, Tick
<1> QED BY <1>2, <1>6, <1>7, <1>9, <1>11, <1>12, <1>13, <1>14 DEF Next, Walk, Put, Environment
-----------------------------------------------------------------------------
(* Steps: what is put *)

LEMMA DecidedStep == TypeOK /\ Dated /\ Decided /\ Next => Decided'
<1> SUFFICES ASSUME TypeOK, Dated, Decided, Next PROVE Decided'
  OBVIOUS
<1>1. ticks \in Nat /\ dst_lmd \in Int
  BY DEF TypeOK
<1>2. CASE pc' \notin {"put", "mkpath"}
  BY <1>2 DEF Decided
<1>3. CASE Compare /\ pc' = "put" /\ dst_lmd # -1
  <2>1. UNCHANGED <<local, ticks, file, _overwrite, dst_lmd>> /\ local[file] # NoFile /\ ShouldCopy
    BY <1>3 DEF Compare
  <2>2. CASE _overwrite = "always"
    BY <2>1, <2>2 DEF Decided
  <2>3. CASE _overwrite = "check" /\ Newer(Round(local[file].time), dst_lmd)
    <3>1. local[file].time \in Nat /\ local[file].time <= ticks
      BY <1>1, <2>1 DEF Dated, TypeOK
    <3>2. Newer(Round(ticks), dst_lmd)
      BY <1>1, <2>3, <3>1, NewerStill
    <3> QED BY <2>1, <2>3, <3>2 DEF Decided
  <2> QED BY <1>3, <2>1, <2>2, <2>3 DEF ShouldCopy
<1>4. CASE Compare /\ dst_lmd = -1
  BY <1>4 DEF Compare, Decided
<1>5. ASSUME NEW f \in Files, Edit(f) PROVE Decided'
  <2>1. UNCHANGED <<ticks, pc, file, dst_lmd, _overwrite>>
    BY <1>5 DEF Edit, program
  <2>2. local'[file] \in {NoFile, local[file]} \/ local'[file].time = ticks
    BY <1>5 DEF Edit, TypeOK
  <2> QED BY <2>1, <2>2 DEF Decided
<1>6. CASE Tick
  <2>1. UNCHANGED <<local, pc, file, dst_lmd, _overwrite>> /\ ticks' = ticks + 1
    BY <1>6 DEF Tick, program
  <2>2. Newer(Round(ticks), dst_lmd) => Newer(Round(ticks + 1), dst_lmd)
    BY <1>1, NewerStill
  <2> QED BY <2>1, <2>2 DEF Decided
<1>7. CASE UNCHANGED <<local, ticks, file, dst_lmd, _overwrite>> /\ pc \in {"put", "mkpath"}
  BY <1>7 DEF Decided
<1>8. \/ pc' \notin {"put", "mkpath"} \/ Compare \/ Tick \/ \E f \in Files : Edit(f)
      \/ UNCHANGED <<local, ticks, file, dst_lmd, _overwrite>> /\ pc \in {"put", "mkpath"}
  BY DEF Next, Start, Walk, Descend, MkdirRaises, GetLmd, Return, Finish, Put, LocalGone,
         PutFile, PutNotFound, PutRaises, MkPath, MkPathRaises, Environment, Fail, PeerPut, PeerDelete,
         Fatal, End, program
<1>9. Compare => pc' \notin {"put", "mkpath"} \/ pc' = "put"
  BY DEF Compare
<1> QED BY <1>2, <1>3, <1>4, <1>5, <1>6, <1>7, <1>8, <1>9

LEMMA UploadedStep == TypeOK /\ Dated /\ Uploaded /\ Next => Uploaded'
<1> SUFFICES ASSUME TypeOK, Dated, Uploaded, Next PROVE Uploaded'
  OBVIOUS
<1>1. file \in Files
  BY DEF TypeOK
<1>2. CASE Compare
  <2>1. /\ UNCHANGED <<local, cloud, file, dst_lmd, uploads, _overwrite>>
        /\ pc = "compare" /\ pc' \in {"put", "walk"} /\ (pc' = "put" => ShouldCopy)
    BY <1>2 DEF Compare
  <2>2. ASSUME Tolerance > 0, _overwrite # "always", ShouldCopy PROVE uploads[file] = 0
    <3> SUFFICES ASSUME uploads[file] # 0 PROVE FALSE
      OBVIOUS
    <3>1. uploads[file] > 0
      BY <1>1 DEF TypeOK
    <3>2. /\ local[file] # NoFile /\ dst_lmd = Floor(local[file].time)
      BY <1>1, <2>1, <3>1 DEF Uploaded
    <3>3. local[file].time \in Nat
      BY <1>1, <3>2 DEF Dated, TypeOK
    <3>4. Floor(local[file].time) \in Nat /\ ~ Newer(Round(local[file].time), Floor(local[file].time))
      BY <2>2, <3>3, Seconds, CopyIsNotOlder
    <3> QED BY <2>2, <3>2, <3>4 DEF ShouldCopy
  <2> QED BY <2>1, <2>2 DEF Uploaded
<1>3. CASE PutFile
  <2>1. /\ local[file] # NoFile /\ pc = "put" /\ pc' = "walk" /\ UNCHANGED <<local, _overwrite>>
        /\ \A f \in Files \ {file} : cloud'[f] = cloud[f] /\ uploads'[f] = uploads[f]
        /\ cloud'[file].time = Floor(local[file].time)
        /\ uploads[file] = 0 => uploads'[file] = 1
    BY <1>1, <1>3 DEF PutFile, TypeOK
  <2>2. \A f \in Files : uploads'[f] > 0 =>
          local'[f] # NoFile /\ cloud'[f].time = Floor(local'[f].time)
    BY <1>1, <2>1 DEF Uploaded
  <2>3. Tolerance > 0 /\ _overwrite # "always" => \A f \in Files : uploads'[f] <= 1
    BY <1>1, <2>1 DEF Uploaded
  <2> QED BY <2>1, <2>2, <2>3 DEF Uploaded
<1>4. ASSUME NEW f \in Files, GetLmd(f) PROVE Uploaded'
  <2>1. UNCHANGED <<local, cloud, uploads, _overwrite>> /\ pc' = "compare" /\ file' = f /\ dst_lmd' = cloud[f].time
    BY <1>4 DEF GetLmd
  <2> QED BY <2>1 DEF Uploaded
<1>5. CASE Fresh /\ UNCHANGED file
  BY <1>1, <1>5 DEF Fresh, Uploaded
<1>6. CASE /\ UNCHANGED <<local, cloud, file, dst_lmd, uploads, _overwrite>>
           /\ pc' \notin {"compare", "put", "mkpath"} \/ pc' = pc
              \/ (pc \in {"put", "mkpath"} /\ pc' \in {"put", "mkpath"})
  BY <1>6 DEF Uploaded
<1>7. CASE Start \/ (Walk /\ ~ \E f \in Files : GetLmd(f))
  BY <1>6, <1>7 DEF Start, Walk, Descend, MkdirRaises, Return, Finish, Fatal, End
<1>8. CASE Put /\ ~ Compare /\ ~ PutFile
  BY <1>6, <1>8 DEF Put, LocalGone, PutNotFound, PutRaises, MkPath, MkPathRaises, Fatal, End
<1>9. CASE Environment
  BY <1>5, <1>6, <1>9 DEF Environment, Fail, Tick, Edit, PeerPut, PeerDelete, Fatal, End, program
<1> QED BY <1>2, <1>3, <1>4, <1>7, <1>8, <1>9 DEF Next, Put, Walk

-----------------------------------------------------------------------------
(* Theorems *)

LEMMA NextIInv == IInv /\ [Next]_vars => IInv'
<1>1. ASSUME IInv, Next PROVE IInv'
  BY <1>1, TypeStep, DatedStep, ListedStep, SmoothStep, DecidedStep, UploadedStep DEF IInv
<1>2. ASSUME IInv, UNCHANGED vars PROVE IInv'
  <2>1. TypeOK' /\ Dated' /\ Listed'
    BY <1>2 DEF vars, program, IInv, TypeOK, Dated, Listed
  <2>2. Smooth' /\ Decided' /\ Uploaded'
    BY <1>2 DEF vars, program, IInv, Smooth, Decided, Uploaded
  <2> QED BY <2>1, <2>2 DEF IInv
<1> QED BY <1>1, <1>2

LEMMA Invariance == Spec => []IInv
BY InitIInv, NextIInv, PTL DEF Spec

\* Every variable keeps its type.
THEOREM TypeCorrect == Spec => []TypeOK
<1>1. IInv => TypeOK
  BY DEF IInv
<1> QED BY <1>1, Invariance, PTL

\* No order of mkdir, get_lmd, put and mkpath fails by itself: every failure is of
\* a run after a local change, a write or deletion of a peer, or a fault.
THEOREM FailuresAreOfOthers == Spec => []FailsOnlyIfDisturbed
<1>1. IInv => FailsOnlyIfDisturbed
  BY DEF IInv, TypeOK, Smooth, FailsOnlyIfDisturbed
<1> QED BY <1>1, Invariance, PTL

\* With a tolerance of a second or more, repeated and broken uploads put nothing
\* up twice while nobody else changes anything: the mtime rounded here (compare_dates)
\* is at most a second later than the one the cloud has kept.
THEOREM GoesUpOnce == ASSUME Tolerance > 0 PROVE Spec => []UploadedOnce
<1>1. IInv => UploadedOnce
  BY DEF IInv, Uploaded, UploadedOnce
<1> QED BY <1>1, Invariance, PTL

\* A put goes over a file of the date that get_lmd saw (191) only if the mode says
\* so, though between the two the local file may be saved again, deleted, or both.
THEOREM SeenIsKept == Spec => KeepsWhatItSaw
<1> DEFINE Keeps ==
      \A f \in Files : PutFile /\ file = f /\ cloud[f] # NoFile /\ cloud[f].time = dst_lmd =>
          \/ _overwrite = "always"
          \/ _overwrite = "check" /\ Newer(Round(local[f].time), dst_lmd)
<1>1. IInv => Keeps
  <2> SUFFICES ASSUME IInv, PutFile, cloud[file] # NoFile, cloud[file].time = dst_lmd, file \in Files
               PROVE  \/ _overwrite = "always"
                      \/ _overwrite = "check" /\ Newer(Round(local[file].time), dst_lmd)
    OBVIOUS
  <2>1. dst_lmd >= 0
    BY DEF IInv, Dated
  <2>2. dst_lmd # -1
    BY <2>1
  <2> QED BY <2>2 DEF IInv, Decided, PutFile
<1> QED BY <1>1, Invariance, PTL DEF KeepsWhatItSaw
=============================================================================
