------------------------------ MODULE SyncHost ------------------------------
(***************************************************************************)
(* bin/sync_host.py: copy a jdk image to a test host over SFTP, and on the *)
(* next run copy only what has changed.  "Changed" is decided by comparing *)
(* the mode and the whole seconds of mtime, so a copy is up to date when   *)
(* its attributes say so: the attributes are the only record of what an    *)
(* earlier run, perhaps one that broke off, has done.  While a run walks   *)
(* the tree, a build may edit the source, time passes, and the connection  *)
(* or the program may die between any two of its requests.                 *)
(***************************************************************************)
EXTENDS Integers, FiniteSets

CONSTANTS
    Dirs, Files,    \* the source tree
    Root,           \* its top directory
    Parent,         \* the directory an entry is in
    Skipped,        \* the files should_copy filters out
    Modes,          \* the permissions files may have
    Writable,       \* 0o666
    DefaultMode,    \* what the server gives to a file it creates
    Options,        \* the values of _update_only that users choose: FALSE is -r
    Skew,           \* how far the host's clock is ahead of ours
    OldNodes,       \* what the target may hold before the first run
    MaxTime, MaxEdits, MaxFaults   \* bounds

ASSUME SyncHostAssumption ==
    /\ Root \in Dirs /\ Dirs \intersect Files = {}
    /\ Parent \in [Dirs \union Files -> Dirs]
    /\ \A S \in SUBSET (Dirs \ {Root}) : S # {} => \E d \in S : Parent[d] \notin S    \* a tree
    /\ Skipped \subseteq Files
    /\ {Writable, DefaultMode} \subseteq Modes
    /\ Options \subseteq BOOLEAN /\ Options # {}
    /\ Skew \in Nat       \* a host whose clock is late may stamp a torn copy
                          \* with the very second of the source
    /\ MaxTime \in Nat /\ MaxEdits \in Nat /\ MaxFaults \in Nat

Entries == Dirs \union Files

\* A version stands for a content; Damaged for one that no version has.
Damaged == 0
Node == [kind : {"file", "dir", "absent"}, ver : Nat, mode : Modes, mtime : Nat]
Absent == [kind |-> "absent", ver |-> Damaged, mode |-> DefaultMode, mtime |-> 0]
Directory == [Absent EXCEPT !.kind = "dir"]

ASSUME OldNodesAssumption == OldNodes \subseteq Node

VARIABLES
    src, tgt,       \* the source files; the target's nodes
    now,            \* our clock, in seconds
    pc,             \* what the run does next; "idle" between runs
    cur,            \* the directory copytree is in
    rest,           \* for each directory entered, the names it has still to visit
    file,           \* srcname
    srcstat,        \* srcstat: what os.stat said of file ...
    stat_at,        \* ... and when
    opened,         \* the version put opened
    conn,           \* the connection is up
    _update_only,   \* this run's option
    result,         \* how the last run ended
    edits, faults,  \* how often the environment has interfered
    seen,           \* history: when the source of the last copy was stat'ed; 0 if there is none
    torn,           \* history: the files whose last copy has not got to its end
    quiet,          \* history: no edit since the run started
    synced          \* history: no edit, and no copy with -r, since a quiet run
                    \* ended well

run == <<pc, cur, rest, file, srcstat, stat_at, opened, conn, _update_only, result>>
history == <<seen, torn, quiet, synced>>
vars == <<src, tgt, now, run, edits, faults, history>>

\* os.listdir, without the names that are not part of the source now.
Listing(d) == {e \in Entries \ {Root} : Parent[e] = d /\ (e \in Files => src[e].kind = "file")}

Reachable(e) == e = Root \/ tgt[Parent[e]].kind = "dir"

SourceFile(v, m, t) == [kind |-> "file", ver |-> v, mode |-> m, mtime |-> t]

Init ==
    /\ src \in [Files -> {SourceFile(1, m, 1) : m \in Modes}]
    /\ tgt \in [Entries -> OldNodes]
    /\ \A e \in Entries : tgt[e].kind # "absent" => Reachable(e)
    /\ now = 1
    /\ pc = "idle" /\ cur = Root /\ rest = [d \in Dirs |-> {}]
    /\ file \in Files /\ srcstat = Absent /\ stat_at = 0 /\ opened = Damaged
    /\ conn = FALSE /\ _update_only \in Options /\ result = "none"
    /\ edits = 0 /\ faults = 0
    /\ seen = [f \in Files |-> 0] /\ torn = {} /\ quiet = FALSE /\ synced = FALSE

-----------------------------------------------------------------------------
(* The run *)

\* mkdir_no_error: a name that is taken, by a file even, and a lost connection
\* alike change nothing.
MkdirNoError(d, connected) ==
    tgt' = IF connected /\ tgt[d].kind = "absent" /\ Reachable(d)
           THEN [tgt EXCEPT ![d] = Directory] ELSE tgt

Start ==
    /\ pc = "idle"
    /\ pc' = "walk" /\ conn' = TRUE /\ result' = "none"
    /\ _update_only' \in Options
    /\ cur' = Root
    /\ rest' = [rest EXCEPT ![Root] = Listing(Root)]
    /\ MkdirNoError(Root, TRUE)
    /\ quiet' = TRUE /\ synced' = (synced /\ _update_only')
    /\ UNCHANGED <<src, now, file, srcstat, stat_at, opened, edits, faults, seen, torn>>

Descend(d) ==
    /\ pc = "walk" /\ d \in rest[cur]      \* copytree of a directory in it
    /\ cur' = d
    /\ rest' = [rest EXCEPT ![cur] = @ \ {d}, ![d] = Listing(d)]
    /\ MkdirNoError(d, conn)
    /\ UNCHANGED <<src, now, pc, file, srcstat, stat_at, opened, _update_only, conn, result, edits, faults, history>>

Return ==
    /\ pc = "walk" /\ rest[cur] = {} /\ cur # Root
    /\ cur' = Parent[cur]
    /\ UNCHANGED <<src, tgt, now, pc, rest, file, srcstat, stat_at, opened, _update_only, conn, result,
                   edits, faults, history>>

End(how) ==
    /\ pc' = "idle" /\ result' = how /\ conn' = FALSE

Finish ==
    /\ pc = "walk" /\ rest[cur] = {} /\ cur = Root
    /\ End("ok")
    /\ synced' = quiet
    /\ UNCHANGED <<src, tgt, now, cur, rest, file, srcstat, stat_at, opened, _update_only, edits, faults, seen, torn, quiet>>

\* An exception ends the run with exit status 1.
Raise ==
    /\ End("failed")
    /\ UNCHANGED <<src, tgt, now, cur, rest, file, srcstat, stat_at, opened, _update_only, edits, faults, history>>

SkipFile(f) ==
    /\ pc = "walk" /\ f \in rest[cur] /\ f \in Skipped
    /\ rest' = [rest EXCEPT ![cur] = @ \ {f}]
    /\ UNCHANGED <<src, tgt, now, pc, cur, file, srcstat, stat_at, opened, _update_only, conn, result,
                   edits, faults, history>>

StatSource(f) ==
    /\ pc = "walk" /\ f \in rest[cur] /\ f \in Files \ Skipped
    /\ src[f].kind = "file"
    /\ pc' = "compare"
    /\ rest' = [rest EXCEPT ![cur] = @ \ {f}]
    /\ file' = f /\ srcstat' = src[f] /\ stat_at' = now
    /\ UNCHANGED <<src, tgt, now, cur, opened, _update_only, conn, result, edits, faults, history>>

\* The file was listed and has been deleted since: os.stat raises.
StatSourceFails ==
    /\ pc = "walk" /\ \E f \in (rest[cur] \intersect Files) \ Skipped : src[f].kind = "absent"
    /\ Raise

\* stat_no_error gives None on any error, a lost connection included.
DstExists == conn /\ tgt[file].kind # "absent"

\* st_mode holds the kind of the node too.
Differs(a, b) == a.kind # b.kind \/ a.mode # b.mode \/ a.mtime # b.mtime

\* Mutant: the times are not compared.
CompareModes ==
    /\ pc = "compare"
    /\ IF DstExists
       THEN pc' = IF _update_only /\ srcstat.mode = tgt[file].mode THEN "walk" ELSE "writable"
       ELSE pc' = "put"
    /\ UNCHANGED <<src, tgt, now, cur, rest, file, srcstat, stat_at, opened, _update_only, conn, result,
                   edits, faults, history>>

Compare ==
    /\ pc = "compare"
    /\ IF DstExists
       THEN pc' = IF _update_only /\ ~ Differs(srcstat, tgt[file]) THEN "walk" ELSE "writable"
       ELSE pc' = "put"
    /\ UNCHANGED <<src, tgt, now, cur, rest, file, srcstat, stat_at, opened, _update_only, conn, result,
                   edits, faults, history>>

\* copy_with_attr's requests.  Chmod of a directory that is where a file
\* should be succeeds too; put then fails on it.
MakeWritable ==
    /\ pc = "writable" /\ conn
    /\ pc' = "put"
    /\ tgt' = [tgt EXCEPT ![file].mode = Writable]
    /\ UNCHANGED <<src, now, cur, rest, file, srcstat, stat_at, opened, _update_only, conn, result, edits, faults, history>>

\* put opens the local file, then the remote one, which it truncates.
PutOpens == src[file].kind = "file" /\ tgt[file].kind # "dir" /\ Reachable(file)

PutOpen ==
    /\ pc = "put" /\ conn /\ PutOpens
    /\ pc' = "putting" /\ opened' = src[file].ver
    /\ tgt' = [tgt EXCEPT ![file] = [kind |-> "file", ver |-> Damaged, mtime |-> now + Skew,
                                     mode |-> IF @.kind = "file" THEN @.mode ELSE DefaultMode]]
    /\ seen' = [seen EXCEPT ![file] = stat_at] /\ torn' = torn \union {file}
    /\ UNCHANGED <<src, now, cur, rest, file, srcstat, stat_at, _update_only, conn, result, edits, faults, quiet, synced>>

PutOpenFails ==
    /\ pc = "put" /\ ~ PutOpens
    /\ Raise

\* A block arrives: the server stamps the file again.
PutChunk ==
    /\ pc = "putting" /\ conn
    /\ tgt' = [tgt EXCEPT ![file].mtime = now + Skew]
    /\ UNCHANGED <<src, now, run, edits, faults, history>>

\* What has been sent is one version, unless the file was edited meanwhile.
PutDone ==
    /\ pc = "putting" /\ conn
    /\ pc' = "mode"
    /\ \E v \in IF src[file].ver = opened THEN {opened} ELSE {opened, src[file].ver, Damaged} :
          tgt' = [tgt EXCEPT ![file].ver = v, ![file].mtime = now + Skew]
    /\ UNCHANGED <<src, now, cur, rest, file, srcstat, stat_at, opened, _update_only, conn, result, edits, faults, history>>

\* Mutant: the file keeps the mode it was made writable with.
RestoreModeForgotten ==
    /\ pc = "mode" /\ conn
    /\ pc' = "utime"
    /\ UNCHANGED <<src, tgt, now, cur, rest, file, srcstat, stat_at, opened, _update_only, conn, result,
                   edits, faults, history>>

RestoreMode ==
    /\ pc = "mode" /\ conn
    /\ pc' = "utime"
    /\ tgt' = [tgt EXCEPT ![file].mode = srcstat.mode]
    /\ UNCHANGED <<src, now, cur, rest, file, srcstat, stat_at, opened, _update_only, conn, result, edits, faults, history>>

\* Mutant: the times go over in the time of another zone.
RecordedTimeOfZone == srcstat.mtime - 3

\* Mutant: the file is looked at again, after it has been read.
RecordedTimeAfter == src[file].mtime

\* The times of the stat made before the file was read.
RecordedTime == srcstat.mtime

RestoreTime ==
    /\ pc = "utime" /\ conn
    /\ pc' = "walk"
    /\ tgt' = [tgt EXCEPT ![file].mtime = RecordedTime]
    /\ torn' = torn \ {file}
    /\ UNCHANGED <<src, now, cur, rest, file, srcstat, stat_at, opened, _update_only, conn, result, edits, faults,
                   seen, quiet, synced>>

\* Mutant: the error is reported and the walk goes on.
RequestFailsQuietly ==
    /\ pc \in {"writable", "put", "putting", "mode", "utime"} /\ ~ conn
    /\ pc' = "walk"
    /\ UNCHANGED <<src, tgt, now, cur, rest, file, srcstat, stat_at, opened, _update_only, conn, result,
                   edits, faults, history>>

RequestFails ==
    /\ pc \in {"writable", "put", "putting", "mode", "utime"} /\ ~ conn
    /\ Raise

-----------------------------------------------------------------------------
(* The environment *)

ConnectionLost ==
    /\ conn /\ faults < MaxFaults
    /\ conn' = FALSE /\ faults' = faults + 1
    /\ UNCHANGED <<src, tgt, now, pc, cur, rest, file, srcstat, stat_at, opened, _update_only, result, edits, history>>

\* The program is killed; the next run knows nothing of this one.
Killed ==
    /\ pc # "idle" /\ faults < MaxFaults
    /\ End("failed") /\ faults' = faults + 1
    /\ UNCHANGED <<src, tgt, now, cur, rest, file, srcstat, stat_at, opened, _update_only, edits, history>>

Tick ==
    /\ now < MaxTime
    /\ now' = now + 1
    /\ UNCHANGED <<src, tgt, run, edits, faults, history>>

Change(f, node) ==
    /\ edits < MaxEdits
    /\ src' = [src EXCEPT ![f] = node]
    /\ edits' = edits + 1 /\ quiet' = FALSE /\ synced' = FALSE
    /\ UNCHANGED <<tgt, now, run, faults, seen, torn>>

Edit(f) == \E m \in Modes : Change(f, SourceFile(edits + 2, m, now))
ChangeMode(f) == \E m \in Modes \ {src[f].mode} :
                    src[f].kind = "file" /\ Change(f, [src[f] EXCEPT !.mode = m])
Delete(f) == src[f].kind = "file" /\ Change(f, Absent)

-----------------------------------------------------------------------------
Walk == \/ \E d \in Dirs : Descend(d)
        \/ \E f \in Files : SkipFile(f) \/ StatSource(f)
        \/ StatSourceFails \/ Return \/ Finish
Copy == \/ Compare \/ MakeWritable \/ PutOpen \/ PutOpenFails \/ PutDone
        \/ RestoreMode \/ RestoreTime \/ RequestFails
Environment == \/ ConnectionLost \/ Killed \/ Tick
               \/ \E f \in Files : Edit(f) \/ ChangeMode(f) \/ Delete(f)

Next == Start \/ Walk \/ Copy \/ PutChunk \/ Environment

\* The program goes on, its user runs it again, and clocks advance; nothing is
\* assumed of edits and faults but that there are finitely many.
Fairness == WF_vars(Walk) /\ WF_vars(Copy) /\ WF_vars(Start) /\ WF_vars(Tick)
Spec == Init /\ [][Next]_vars
FairSpec == Spec /\ Fairness

-----------------------------------------------------------------------------
(* Properties *)

\* Every variable keeps its type.
TypeOK ==
    /\ src \in [Files -> Node] /\ tgt \in [Entries -> Node]
    /\ now \in Nat
    /\ pc \in {"idle", "walk", "compare", "writable", "put", "putting", "mode", "utime"}
    /\ cur \in Dirs /\ rest \in [Dirs -> SUBSET Entries]
    /\ file \in Files /\ srcstat \in Node /\ stat_at \in Nat /\ opened \in Nat
    /\ conn \in BOOLEAN /\ _update_only \in BOOLEAN /\ result \in {"none", "ok", "failed"}
    /\ edits \in Nat /\ faults \in Nat
    /\ seen \in [Files -> Nat] /\ torn \subseteq Files /\ quiet \in BOOLEAN /\ synced \in BOOLEAN

Same(f) == src[f].kind = "file" /\ ~ Differs(src[f], tgt[f])

\* When a time may name two contents: no run has copied the file yet; or the
\* source was written in the very second of the stat of its last copy; or that
\* copy broke off, and a later edit fell into the second of the stamp that the
\* host had given to what there was of it.  Nothing tells these cases from a
\* good copy, and no run repairs them before the next edit.
Coincident(f) == seen[f] \in {0, src[f].mtime} \/ (f \in torn /\ src[f].mtime > seen[f])

\* What the next run will take for up to date (line 108) has the content of
\* the source, but for coincidences of seconds: an edit after the stat, be it
\* before, while or after put reads the file, shows in the times of a copy that
\* was completed, and a broken copy shows in the host's stamp.
UpToDateIsEqual == \A f \in Files : Same(f) => tgt[f].ver = src[f].ver \/ Coincident(f)

Synced(f) == Same(f) /\ (tgt[f].ver = src[f].ver \/ Coincident(f))

\* A run that ends with exit status 0, if nothing was edited meanwhile, has
\* left every file it does not filter out on the target with the attributes
\* of the source and, but for the coincidences, its content: the errors that
\* stat_no_error and mkdir_no_error swallow do not hide a missing file.
DoneIsSynced ==
    pc = "idle" /\ result = "ok" /\ quiet =>
        \A f \in Files \ Skipped : src[f].kind = "file" => Synced(f)

\* After such a run, until the next edit, a run without -r rewrites nothing: the
\* four requests of copy_with_attr leave exactly what line 108 compares.
RerunCopiesNothing ==
    _update_only /\ synced => pc \notin {"writable", "putting", "mode", "utime"}

\* A file is where a directory should be, or the other way round: nothing removes it.
Misplaced == (\E d \in Dirs : tgt[d].kind = "file") \/ (\E f \in Files : tgt[f].kind = "dir")

\* When edits and faults have ended, runs without -r repeated often enough bring
\* every file over, whatever the earlier ones left half done, but for the
\* coincidences.
Converges ==
    ~ Misplaced /\ <>[]_update_only =>
        <>[](\A f \in Files \ Skipped : src[f].kind = "file" => Synced(f))
=============================================================================
