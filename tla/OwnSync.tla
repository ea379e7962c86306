------------------------------ MODULE OwnSync ------------------------------
(***************************************************************************)
(* bin/owcsync.py: upload a tree to an ownCloud.  A file goes up if the    *)
(* cloud has none or, by the overwrite mode, always or when the local one  *)
(* is newer by more than the tolerance.  The cloud is shared: between the  *)
(* requests of an upload a peer may write files and delete directories,    *)
(* and put_file mends a path that has gone.                                *)
(***************************************************************************)
EXTENDS Integers, FiniteSets

CONSTANTS
    Dirs, Files, Root, Parent,    \* the tree; Root is the host's prefix
    Overwrites,                   \* modes that users set: "never", "check", "always"
    Tolerance,                    \* -t, seconds
    MaxTicks, MaxEdits, MaxPeer, MaxFaults    \* bounds

ASSUME OwnSyncAssumption ==
    /\ Root \in Dirs /\ Dirs \intersect Files = {}
    /\ Parent \in [Dirs \union Files -> Dirs]
    /\ \A S \in SUBSET (Dirs \ {Root}) : S # {} => \E d \in S : Parent[d] \notin S    \* a tree
    /\ Overwrites \subseteq {"never", "check", "always"}
    /\ Tolerance \in Nat
    /\ MaxTicks \in Nat /\ MaxTicks >= 3 /\ MaxEdits \in Nat /\ MaxPeer \in Nat /\ MaxFaults \in Nat

Entries == Dirs \union Files
NoFile == [ver |-> 0, time |-> -1]

\* Local mtimes have fractions: a tick is half a second.
Floor(t) == t \div 2
Round(t) == LET s == Floor(t) IN IF t % 2 = 1 /\ s % 2 = 1 THEN s + 1 ELSE s

VARIABLES
    local,      \* local files: version and mtime in ticks; NoFile if deleted
    dirs,       \* the cloud's directories
    cloud,      \* its files: version and last modified date in seconds
    ticks,      \* the time
    _overwrite, \* the mode, the same in all runs
    pc, cur, rest, file, result,
    dst_lmd,    \* what get_lmd found, -1 for None
    missing,    \* directories mkpath has still to make
    retried,    \* put_file is in its handler
    edits, peer, faults,
    uploads     \* history: uploads, up to 2, since anybody else changed something

program == <<pc, cur, rest, file, result, dst_lmd, missing, retried>>
vars == <<local, dirs, cloud, ticks, _overwrite, program, edits, peer, faults, uploads>>

Listing(d) == {e \in Entries \ {Root} : Parent[e] = d /\ (e \in Files => local[e] # NoFile)}

\* The directories of a path: the least set with d and the parents of its members.
Path(d) == {e \in Dirs : \A S \in SUBSET Dirs :
               d \in S /\ (\A x \in S \ {Root} : Parent[x] \in S) => e \in S}

Init ==
    /\ local = [f \in Files |-> [ver |-> 1, time |-> 3]]
    /\ dirs = {} /\ cloud = [f \in Files |-> NoFile]
    /\ ticks = 3 /\ _overwrite \in Overwrites
    /\ pc = "idle" /\ cur = Root /\ rest = [d \in Dirs |-> {}] /\ file \in Files
    /\ result = "none" /\ dst_lmd = -1 /\ missing = {} /\ retried = FALSE
    /\ edits = 0 /\ peer = 0 /\ faults = 0 /\ uploads = [f \in Files |-> 0]

-----------------------------------------------------------------------------
End(how) == pc' = "idle" /\ result' = how

Fatal ==
    /\ End("failed")
    /\ UNCHANGED <<local, dirs, cloud, ticks, _overwrite, cur, rest, file, dst_lmd, missing, retried,
                   edits, peer, uploads>>

\* Mutant: 405 is raised as well.
CanMkdirOnce(d) == d \notin dirs /\ (d = Root \/ Parent[d] \in dirs)

\* mkdir ignores 405, already there; 409, no parent, is raised.
CanMkdir(d) == d = Root \/ Parent[d] \in dirs

UploadDir(d) ==
    /\ dirs' = dirs \union {d}
    /\ cur' = d

Start ==
    /\ pc = "idle"
    /\ pc' = "walk" /\ result' = "none"
    /\ UploadDir(Root)
    /\ rest' = [rest EXCEPT ![Root] = Listing(Root)]
    /\ UNCHANGED <<local, cloud, ticks, _overwrite, file, dst_lmd, missing, retried, edits, peer, faults, uploads>>

Descend(d) ==
    /\ pc = "walk" /\ d \in rest[cur] /\ CanMkdir(d)
    /\ UploadDir(d)
    /\ rest' = [rest EXCEPT ![cur] = @ \ {d}, ![d] = Listing(d)]
    /\ UNCHANGED <<local, cloud, ticks, _overwrite, pc, file, result, dst_lmd, missing, retried,
                   edits, peer, faults, uploads>>

MkdirRaises(d) == pc = "walk" /\ d \in rest[cur] /\ ~ CanMkdir(d) /\ Fatal /\ UNCHANGED faults

Return ==
    /\ pc = "walk" /\ rest[cur] = {} /\ cur # Root
    /\ cur' = Parent[cur]
    /\ UNCHANGED <<local, dirs, cloud, ticks, _overwrite, pc, rest, file, result, dst_lmd, missing, retried,
                   edits, peer, faults, uploads>>

Finish ==
    /\ pc = "walk" /\ rest[cur] = {} /\ cur = Root
    /\ End("ok")
    /\ UNCHANGED <<local, dirs, cloud, ticks, _overwrite, cur, rest, file, dst_lmd, missing, retried,
                   edits, peer, faults, uploads>>

\* Mutant: milliseconds are taken for seconds.
GetLmdMillis(f) ==
    /\ pc = "walk" /\ f \in rest[cur]
    /\ pc' = "compare" /\ file' = f
    /\ rest' = [rest EXCEPT ![cur] = @ \ {f}]
    /\ dst_lmd' = 1000 * cloud[f].time
    /\ UNCHANGED <<local, dirs, cloud, ticks, _overwrite, cur, result, missing, retried, edits, peer, faults, uploads>>

\* A name that has been deleted is no directory; get_lmd comes first for it too.
GetLmd(f) ==
    /\ pc = "walk" /\ f \in rest[cur]
    /\ pc' = "compare" /\ file' = f
    /\ rest' = [rest EXCEPT ![cur] = @ \ {f}]
    /\ dst_lmd' = cloud[f].time
    /\ UNCHANGED <<local, dirs, cloud, ticks, _overwrite, cur, result, missing, retried, edits, peer, faults, uploads>>

\* Mutant: dates are compared without the tolerance.
NewerAtAll(a, b) == a > b

\* compare_dates
Newer(a, b) == a > b /\ a - b > Tolerance

\* Mutant: a date is compared whatever the mode.
ShouldCopyByDate ==
    \/ dst_lmd = -1
    \/ Newer(Round(local[file].time), dst_lmd)
    \/ _overwrite = "always"

\* Mutant: the dates are compared the wrong way round.
ShouldCopyOlder ==
    \/ dst_lmd = -1
    \/ _overwrite = "check" /\ Newer(dst_lmd, Round(local[file].time))
    \/ _overwrite = "always"

ShouldCopy ==
    \/ dst_lmd = -1
    \/ _overwrite = "check" /\ Newer(Round(local[file].time), dst_lmd)
    \/ _overwrite = "always"

Compare ==
    /\ pc = "compare" /\ local[file] # NoFile
    /\ pc' = IF ShouldCopy THEN "put" ELSE "walk"
    /\ retried' = FALSE
    /\ UNCHANGED <<local, dirs, cloud, ticks, _overwrite, cur, rest, file, result, dst_lmd, missing,
                   edits, peer, faults, uploads>>

\* getmtime, or put's open, of a file that is no longer there.
LocalGone == pc \in {"compare", "put"} /\ local[file] = NoFile /\ Fatal /\ UNCHANGED faults

\* The cloud takes a file as a whole, with its mtime, or refuses it with 404.
PutFile ==
    /\ pc = "put" /\ local[file] # NoFile /\ Parent[file] \in dirs
    /\ pc' = "walk"
    /\ cloud' = [cloud EXCEPT ![file] =
                   [ver |-> local[file].ver, time |-> Floor(local[file].time)]]
    /\ uploads' = [uploads EXCEPT ![file] = IF @ = 2 THEN @ ELSE @ + 1]
    /\ UNCHANGED <<local, dirs, ticks, _overwrite, cur, rest, file, result, dst_lmd, missing, retried,
                   edits, peer, faults>>

PutNotFound ==
    /\ pc = "put" /\ local[file] # NoFile /\ Parent[file] \notin dirs /\ ~ retried
    /\ pc' = "mkpath" /\ missing' = Path(Parent[file]) /\ retried' = TRUE
    /\ UNCHANGED <<local, dirs, cloud, ticks, _overwrite, cur, rest, file, result, dst_lmd,
                   edits, peer, faults, uploads>>

PutRaises ==
    /\ pc = "put" /\ local[file] # NoFile /\ Parent[file] \notin dirs /\ retried
    /\ Fatal /\ UNCHANGED faults

\* mkpath, from the top down.
NextMissing == CHOOSE d \in missing : d = Root \/ Parent[d] \notin missing

MkPath ==
    /\ pc = "mkpath" /\ missing # {} /\ CanMkdir(NextMissing)
    /\ dirs' = dirs \union {NextMissing}
    /\ missing' = missing \ {NextMissing}
    /\ pc' = IF missing' = {} THEN "put" ELSE "mkpath"
    /\ UNCHANGED <<local, cloud, ticks, _overwrite, cur, rest, file, result, dst_lmd, retried,
                   edits, peer, faults, uploads>>

MkPathRaises == pc = "mkpath" /\ ~ CanMkdir(NextMissing) /\ Fatal /\ UNCHANGED faults

-----------------------------------------------------------------------------
(* The environment *)

\* Any other HTTP error, a lost connection, or Ctrl-C.
Fail ==
    /\ pc # "idle" /\ faults < MaxFaults
    /\ faults' = faults + 1
    /\ Fatal

Fresh == uploads' = [f \in Files |-> 0]

Edit(f) ==
    /\ edits < MaxEdits
    /\ edits' = edits + 1 /\ Fresh
    /\ \/ local' = [local EXCEPT ![f] = [ver |-> edits + 2, time |-> ticks]]
       \/ local[f] # NoFile /\ local' = [local EXCEPT ![f] = NoFile]
    /\ UNCHANGED <<dirs, cloud, ticks, _overwrite, program, peer, faults>>

\* Another client of the same account writes a file, or deletes a directory.
PeerPut(f) ==
    /\ peer < MaxPeer /\ Parent[f] \in dirs
    /\ peer' = peer + 1 /\ Fresh
    /\ cloud' = [cloud EXCEPT ![f] = [ver |-> -peer', time |-> Floor(ticks)]]
    /\ UNCHANGED <<local, dirs, ticks, _overwrite, program, edits, faults>>

PeerDelete(d) ==
    /\ peer < MaxPeer /\ d \in dirs
    /\ peer' = peer + 1 /\ Fresh
    /\ dirs' = {e \in dirs : d \notin Path(e)}
    /\ cloud' = [f \in Files |-> IF d \in Path(Parent[f]) THEN NoFile ELSE cloud[f]]
    /\ UNCHANGED <<local, ticks, _overwrite, program, edits, faults>>

Tick ==
    /\ ticks < MaxTicks
    /\ ticks' = ticks + 1
    /\ UNCHANGED <<local, dirs, cloud, _overwrite, program, edits, peer, faults, uploads>>

Walk == \/ \E d \in Dirs : Descend(d) \/ MkdirRaises(d)
        \/ \E f \in Files : GetLmd(f)
        \/ Return \/ Finish
Put == \/ Compare \/ LocalGone \/ PutFile \/ PutNotFound \/ PutRaises \/ MkPath \/ MkPathRaises
Environment == \/ Fail \/ Tick
               \/ \E f \in Files : Edit(f) \/ PeerPut(f)
               \/ \E d \in Dirs : PeerDelete(d)
Next == Start \/ Walk \/ Put \/ Environment

\* Uploads are repeated and go on; edits, peers and faults come to an end.
Fairness == WF_vars(Start) /\ WF_vars(Walk) /\ WF_vars(Put)
Spec == Init /\ [][Next]_vars
FairSpec == Spec /\ Fairness

-----------------------------------------------------------------------------
(* Properties *)

\* Every variable keeps its type.
TypeOK ==
    /\ local \in [Files -> [ver : Nat, time : -1 .. MaxTicks]]
    /\ dirs \subseteq Dirs /\ _overwrite \in {"never", "check", "always"}
    /\ cloud \in [Files -> [ver : Int, time : -1 .. MaxTicks]] /\ ticks \in 3 .. MaxTicks
    /\ pc \in {"idle", "walk", "compare", "put", "mkpath"}
    /\ cur \in Dirs /\ rest \in [Dirs -> SUBSET Entries] /\ file \in Files
    /\ result \in {"none", "ok", "failed"} /\ dst_lmd \in -1 .. MaxTicks
    /\ missing \subseteq Dirs /\ retried \in BOOLEAN
    /\ edits \in Nat /\ peer \in Nat /\ faults \in Nat /\ uploads \in [Files -> 0 .. 2]

\* While nobody but this program changes anything, a file goes up once at most,
\* unless the mode is to overwrite always, however often the upload is repeated
\* or broken off: rounding here and truncation on the cloud make a file look newer
\* than its own copy by no more than a tolerance of a second (-t, 10 by default).
UploadedOnce == _overwrite # "always" => \A f \in Files : uploads[f] <= 1

\* Once everybody else is quiet, repeated uploads bring up every file that the
\* mode asks for, through lost paths and failures.
Converges ==
    <>[](\A f \in Files : local[f] # NoFile =>
            /\ cloud[f] # NoFile
            /\ _overwrite = "check" => ~ Newer(Round(local[f].time), cloud[f].time))

\* An upload fails only because somebody interfered: a local deletion, a peer or
\* a fault.  No order of mkdir, get_lmd, put and mkpath fails by itself.
FailsOnlyIfDisturbed == result = "failed" => edits + peer + faults > 0

\* What the cloud showed when it was asked (191) and still has is overwritten
\* only as the mode says (owcsync.py:11): whatever was edited, lost or mended
\* before the put (222), a file that goes under was older than the local one, or
\* was written by a peer in between.
KeepsWhatItSaw ==
    [][\A f \in Files : PutFile /\ file = f /\ cloud[f] # NoFile /\ cloud[f].time = dst_lmd =>
          \/ _overwrite = "always"
          \/ _overwrite = "check" /\ Newer(Round(local[f].time), dst_lmd)]_vars
=============================================================================
