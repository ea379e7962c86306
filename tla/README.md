# A verification project for jdk_tools

jdk_tools is a collection of the tools a JDK engineer keeps at hand: programs
that measure a JVM, copy images and reviews to other hosts, run suites of tests
and turn logs into tables. There is no server in the middle; each tool is a
program of its own, and what is hard about it happens at its border: with the
kernel (signals, children, `/proc`), with a remote file store (SFTP, WebDAV),
with a benchmark harness that calls it back, or with itself, when a run breaks
off and the next one starts from what it left.

## Inventory

| component | source | state it keeps | operations | what is hard | correct when |
|---|---|---|---|---|---|
| time_ex | `time_utility/time_ex.cpp` | `_pid`, `_should_exit`, counters and sums | warm-ups, timed runs, SIGINT | a handler between any two instructions; vfork shares memory with the child; EINTR | runs never overlap, good timed runs alone are counted, an interruption ends the series |
| sync_host | `bin/sync_host.py` | nothing of its own: mode and mtime of the target are its record | copy a tree, copy what changed | a run breaks off between four requests; the source is edited meanwhile; clocks of two hosts | what looks up to date is, a good exit means all files arrived, repeated runs converge |
| owcsync | `bin/owcsync.py` | the cloud's files and dates | upload, path repair, download | other clients of the cloud; checks and uploads are apart | no needless upload, no failure without a cause, convergence |
| webrevput | `bin/webrevput.py` | directories `webrev.NN` | copy, delete, replace, list | a working directory carried from one step to the next; half a tree | numbers without gaps, earlier reviews untouched, the local one published |
| rss_launcher | `bin/rss_launcher.py` | the `Popen` object shared by two threads, samples | start, sample, join | the JVM ends between open and read; its pid is reused; pipes fill up | sampling covers the JVM's life, samples are of this JVM, no JVM is left behind |
| Dacapo callbacks | `dacapo/dacapo-callback/*` | the JFR recording, descriptors of perf counters | start, stop, complete | start and stop decide differently whether an iteration counts; descriptors are never closed | a count is of one iteration |
| dacapo_parser | `dacapo/dacapo_parser.py` | results by iteration | read logs, write a table | logs that end anywhere, failed iterations | a row is about one iteration, a column about one event, no log is lost |
| specjbb reports | `specjbb/specjbb.py` | result sets by run name | walk, merge, search upward, sort, write | files in any order, unreadable ones, two runs of one timestamp, links | a row has its run's figures and nearest descriptions, no run is lost, both tables agree |
| specjbb launcher | `specjbb/runme.sh`, `options.sh` | processes of a run | start controller, backends, injectors | backends are not awaited; options accumulate over groups | each group starts with its options |
| nano-harness | `smoketest/nano-harnes/*.sh` | counters, logs, an archive of natives | run a suite, count, archive | tests that are lost or counted twice; a truncated archive | counts add up to the tests |
| lsbug, people | `bin/lsbug.py`, `bin/people.py` | caches on disk | look up, store | a failure is cached; a rewrite breaks off, or overlaps with a reader | what is shown was an answer, only faults spoil a cache, -r repairs it |
| syslog | `syslog_server/*` | none | send, filter, print | datagrams | a message is filtered by its own text |
| C2 synthetic test | `smoketest/c2syntest/*` | generated classes | generate, load, run | batches | bytecode agrees with the template |
| MultiAlloc | `smoketest/multialloc/*` | one counter | allocate, with or without a lock | unsynchronised increments | none is promised |
| build scripts | `bin/jdk_*.sh`, `bin/testjava.py` | none | configure, make, jtreg | arithmetic of jobs | |
| settings and charts | the rest | none | | | |

The components do not call each other. They meet through files and hosts: a
build makes the image that sync_host copies and rss_launcher or time_ex
measure; the callbacks write the logs that the parser reads.

`PROJECT.json` has, under "hazards", every place where the code is hard to test,
with the properties that are about it.

## What is modelled

| module | of | shows |
|---|---|---|
| `TimeEx` | time_ex: main loop, `do_exec`, the child, `sigint_handler` | interleavings of main thread, child and signals |
| `Series` | what a runner of benchmarks promises | abstract specification of `TimeEx` |
| `TimeExProofs` | | theorems about `TimeEx` |
| `SyncHost` | sync_host: `copytree`, `copy_with_attr`, repeated runs | crash recovery from attributes alone |
| `SyncHostProofs` | | theorems about `SyncHost` |
| `OwnSync` | owcsync: `upload_tree`, `should_copy`, `put_file`, `mkpath` | a shared store, checks apart from uploads |
| `OwnSyncProofs` | | theorems about `OwnSync` |
| `Webrev` | webrevput: copy, delete, replace | a protocol of directories, broken runs |
| `WebrevProofs` | | theorems about `Webrev` |
| `RssLauncher` | rss_launcher: both threads, the JVM, the kernel's pids | a pid that outlives its process, pipes that fill, exit while a thread runs |
| `RssLauncherProofs` | | theorems about `RssLauncher` |
| `Dacapo` | `PerfCallback`, `perf_callback.c`, `run_dacapo.sh`, dacapo_parser | callbacks, kernel counters and logs composed with their parser |
| `DacapoProofs` | | theorems about `Dacapo` |
| `JbbReports` | specjbb.py | merging in any order, partial failure, a search that must end |
| `JbbReportsProofs` | | theorems about `JbbReports` |
| `Caches` | lsbug, people | caches without dates or checks, shared by runs |
| `CachesProofs` | | theorems about `Caches` |
| `MC...` | | instances for TLC |

An operator whose comment says *Mutant* is not a part of a model. It is a
plausible mistake in the definition after it, kept to show that a property
notices it.

### time_ex

The main thread is the control variable `pc`; `phase` and `i` are its two
loops. `Vfork`, `ChildStore`, `Execve`, `StorePid`, `EnterWaitpid` and `Reap` are
`do_exec` (75-103) taken apart where something else can get between: the line
`_pid = vfork()` is two stores, the child's 0 and, only after the child has left
the shared memory, the parent's pid. `child` is the kernel's table of processes,
with the exit code that `waitpid` will report. `SignalProcess` and `SignalGroup`
are kill and Ctrl-C, `Handler` is `sigint_handler` in the main thread, between
any two steps but those where vfork suspends it; as SA_RESTART is not set it also
makes a waiting `waitpid` return -1. A child that is not yet exec'ed has the
handler too, and raises the shared flag (in `SignalGroup`).

CPU time is one number: every execution costs `Cost`, and `ru_children` is what
RUSAGE_CHILDREN adds up. A child that got SIGINT may die of it, end as usual or
ignore it.

Not modelled: SIGINT before `sigaction`, reuse of a pid within a series (`kill`
of a reaped pid does nothing), output redirection, clocks and the printing.

### sync_host

One tree, and for each run the user's choice of `_update_only` (-r); `tgt` is the
host, `src` the image, which a build may edit at any time (`Edit`, `ChangeMode`, `Delete`). Versions stand for contents. A run is a walk
(`Start`, `Descend`, `StatSource`, `Compare`, `Return`, `Finish`), and a copy is
the four requests of `copy_with_attr`, one action each, the put in three: it
opens and truncates, blocks arrive, it ends. Each of them leaves the server's
time on the file until `RestoreTime`. The connection may be lost and the program
killed between any two (`MaxFaults`), after which the user starts it again.

The names of a directory are fixed, apart from deleted files; `rest[d]` is what
the loop in `copytree` has still to visit, in any order, as `os.listdir` gives
it. `stat_no_error` is `DstExists`: a lost connection looks like a missing file.

Assumed: `Skew` is a natural number, that is, the host's clock is not late. A
torn upload of a new file would otherwise bear, in one unlucky second, the mtime
of the source, and be taken for good. An edit stamps the file with the present
second.

`Coincident` names the three cases in which attributes that agree do not vouch for the
content, and the properties claim nothing for them: no run has copied the file yet (a
file of unknown origin was there); the source was written in the very second in which
the last copy's stat was made; or that copy broke off, and the source was edited later,
in the second of the stamp that the host had put on the half file. The last two are
limits of the program itself: in either case line 108 takes the target for good, every
later run ends with status 0, and a wrong or torn file stays until the next edit.
Any other edit after the stat, be it before, while or after put reads the file, must
show, and so must any other broken copy. `torn` and `seen` are the history this needs.

-a copies three trees into one host; it is an instance whose root is the directory above
them. `RerunCopiesNothing` is about runs without -r, and starts anew with every run under
-r, which copies everything and may break off. `Converges` supposes that from some time
on runs are made without -r, and that no file stands in the place of a directory on the
host, or the other way round (`Misplaced`): nothing removes it, and every run fails at it.

### owcsync

The same shape of walk, against a cloud where a put is atomic, with peers that
write files and delete directories between requests. `Round` is Python's
rounding of a local mtime in half seconds (to even), `Floor` what the cloud
keeps: the client sends the mtime of a file along with it. `GetLmd` and `Compare` are
`should_copy`, then `PutFile`, or `PutNotFound` and `MkPath` and a second try. The date read may be stale when it is used.

What the properties leave to others: a write of a peer between the date check and the
put is lost, which is the program's design; `KeepsWhatItSaw` holds the put to the date
that was seen. `FailsOnlyIfDisturbed` and `UploadedOnce` are about sequences of runs that
nobody disturbs.

### webrevput

A session is the sequence of requests of one run of the program, and one session
at a time works on a user's home. `cwd` is the SFTP client's working directory,
which the copy of a *replace* inherits from the deletion. `ByHand` are directories
whose number is not padded: `guess_name` counts them, and "webrev.%02d" does not
name them. `Break` is any request that fails, and the user's Ctrl-C; a put that
breaks leaves the start of a file.

Not modelled: a second session. Two copies that choose the same number meet at
`sftp.mkdir` (42), where one fails; a deletion that overlaps a copy may leave a gap
or a mixed webrev, and nothing in the program or its help promises otherwise.

### rss_launcher

`pc` is the main thread, `thread` the `RunJava` thread, `p` says that `self.p` is
stored. The kernel's side is the pid alone: `life` counts its owners, 0 being the
JVM, and `st` says whether the present one runs, is a zombie, or the pid is free.
An open status file stays tied to the owner it was opened for (`opened`), so that
`ReadStatus` may find that owner gone: ESRCH is no `FileNotFoundError`, main ends
with its exception, and the samples are lost. `Sample` is what 77-83 take from a
status: a zombie has no RssAnon, and `int(None)` then ends the table (`Report`).
`Drain` and `Reap` are `communicate`. `Interrupt` is `sys.exit` in the main thread
wherever it is; `Shutdown` is the interpreter's, which joins the thread.

Assumed: no second SIGINT during that shutdown, and no descendant of the JVM that
keeps its pipes open. `do_run` (89-97) is never called.

### Dacapo logs

`Jvms` is the history of a directory of logs: the runs made there, each with its benchmark
and its own list of `perf.event`, on whatever day. The harness calls `start` (`Start`),
runs the benchmark (`Iterate`) and calls `complete` (`Complete`). `perf_event_open` may
fail for any event in any iteration, whatever the reason (`Opens`): a right or the event
is missing, or there is no descriptor left, of which `FdLimit` is the largest number the
JVM may get. The -1 is stored and read like a descriptor, and 0 is printed; `refused`
remembers it, and each line of a log has, as a history, how its event was opened.
`kernel` is every counter ever opened in a JVM: nothing closes them, and those of
warm-ups and of failed iterations go on counting. `Killed` cuts a log anywhere.
`OpenLog`, `ReadLine` and `CloseLog` are `extract_data_from_file`, a line at a time, for
one log after the other in any order; `pc = "raised"` is the exception that `results[-1]`
of an empty list would be. `Parsed` and `WriteToExcel` make the table. An event's number
stands for its type and its config, which are the key of the parser's dict.

The sheet's header is made of the first row, which is any log of the first benchmark,
as os.listdir has no order: logs of other events get the wrong names (see the findings).
Not modelled: what a benchmark itself prints, which might look like a counter, the logs
of the other modes of run_dacapo.sh (raw, vmstat), and errors of `read` and `ioctl` on a
descriptor that was opened.

`VMStatCallback` is not modelled: what `jfrStop` does when nothing records is the
JDK's. Reading it shows that with JFR the first timed iteration is not recorded
(281 tests `>`), while the comment at 54 speaks of each timed run.

### specjbb reports

`place` gives each file the directory in which the walk finds it (`dir`) and the one
it really is in (`real`); they differ for a link. `GrepFile` is `get_run_name`, the
filter and the lookup; if the run is new, `Climb` and `Register` are `ResultSet` with
`get_file_set`, a directory at a time; `ReadLine` reads one line, and `Close` ends the
file wherever reading it stops. `Above` is what walking upward from a directory passes,
as the least closed set: no recursion, and defined where the walk never ends, too.
`WriteRow` is one iteration of either table's loop: of the results that are left
(`rest`) it takes the one that comes before all others (`Before`, the stable sort by
one of four keys); `-o` with a spreadsheet follows the text. Scores and pauses are
natural numbers (a pause in units of its last digit) or None. Runs of one timestamp under two directories are one row; that is the program's choice
(line 103), and the properties speak of runs by name.

The help says that -t N saves only N results (11). For N > 0 both tables do so
(`TopRows`), though they count from different numbers; for -t 0 both write the first run
of the order, as the test comes after the row: `TopRows` states this, too. `Ends` supposes
that every file lies below the working directory, by its real path: a link or an argument
that leads outside makes the search for descriptions go round at the root for ever.
The model has one directory argument, and does not take the file's own name for a
directory of a run.

Not modelled: the text of descriptions and options, and the sheets of single runs.

### lsbug and people

Both programs keep a server's answers in files without a date. `Caches` has one
module for them: an item is a bug or the list of people, a run is either program. A
file is truncated by open and written later (`Open`, `Write`); what a broken run
leaves is `Torn`. JIRA's error becomes the text None in the file (`AskGetsNone`), a
lost connection an exception (`AskRaises`). `people` shows what it has just got from
memory, lsbug reads the file again. Tags that no server knows need none. `Proc` runs
may overlap; two writers of the people's page may mix two versions. `cause` is, for each
file, what has happened to it since a run last wrote it alone: its request was refused, a
run broke off while writing it, two wrote it at once. Only these may spoil it.

## What is checked

| run | instance | properties |
|---|---|---|
| time_ex | 1 warm-up, 3 runs, flush, 2 signals | `TypeOK` `OneChild` `CountedRuns` `CleanEnd` `SeriesSpec` `SeriesEnds` |
| sync_host | 2 directories, 2 files, one of them filtered out, with and without -r, a host with old files, 2 seconds, 1 edit, 2 faults, a host 1 second ahead | `TypeOK` `UpToDateIsEqual` `DoneIsSynced` `RerunCopiesNothing` `Converges` |
| webrev | up to 3 webrevs of 2 files, the second perhaps made by hand, questions, 1 edit, 2 breaks | `TypeOK` `NoGaps` `IncompleteWereBroken` `Publishes` `EarlierKept` |
| own_sync | the three modes, 2 files, an edit, 2 acts of a peer, a fault, 6 half seconds | `TypeOK` `UploadedOnce` `FailsOnlyIfDisturbed` `KeepsWhatItSaw` `Converges` |
| rss_launcher | good, unusable and missing JVM, 2 blocks for each pipe of 1, 2 new owners of the pid, 1 SIGINT | `TypeOK` `SampledToTheEnd` `ReportIsOfTheJvm` `NothingLeftBehind` `Ends` |
| dacapo | 2 JVMs of one benchmark, one with 2 events and one with 1, 3 iterations, windows 1, 2 and 4, 5 descriptors | `TypeOK` `CountsOneIteration` `RowIsOneIteration` `NoLogLost` |
| jbb_reports | 3 files in 3 placements, 3 contents, 6 command lines | `TypeOK` `RowIsItsRun` `NoRunLost` `DescribedByNearest` `TopRows` `Ends` |
| caches | 2 runs at once, 2 bugs, the people, 2 versions, 1 fault | `TypeOK` `ShowsAnAnswer` `SpoiledByFaultsOnly` `RetriveRepairs` |

The bounds are where the hazards need them. Two signals suffice for one that is
lost and one that is noticed, three runs for one before, at and after the
interruption. A torn copy and a recovery from it need one fault, a recovery that
breaks off again two, and an edit before or after put reads the file is one edit; with
two seconds and a host that is one ahead, an edit can fall into the second of the
stat, of the host's stamp, or of neither. What more files, faults and edits add is
proved and not only checked, but for `Converges`. Two faults of webrevput break a copy
and the replacement of what it left; a second place, home/cr/cr, is as deep as its
working directory gets. A peer that deletes a directory before the put and again after
the path is mended needs two acts.

A pipe of one block is full after the first of two. One new owner of the pid is
enough to be sampled instead of the JVM, a second one to come between open and
read. Five descriptors run out in the third iteration of two events; a window of 4
is cut to the 3 iterations, one of 1 has two warm-ups. Three files are two that
merge and one beside them; the placements add a run of the same name in another
directory, a file outside any run and a link that leads above the working
directory. Two runs of lsbug or people are a writer and a reader, or two writers,
and two versions an old answer and a newer one.

### Where code and documents disagree

| run | what TLC finds |
|---|---|
| time_ex_signal | SIGINT handled between vfork's return and the store to `_pid` is not passed on to the running child, as the handler's comment says it is. |
| time_ex_mean | RUSAGE_CHILDREN is cumulative, but is added once per run: the mean grows with the number of runs. |
| dacapo_columns | Two logs of one benchmark with different events: the parser writes one log's values below the other's event names. |
| webrev_declined | *replace* with the deletion declined copies to a cr nested in the cr, not to the place its question names. |

### Fairness

`TimeEx`: weak fairness of the main thread, the child and the delivery of a
pending signal: the scheduler's and the kernel's promise. It includes that the
measured command ends; nothing in time_ex limits it.

`SyncHost` and `OwnSync`: weak fairness of the program's steps (grouped, so that
blocks of one put need not go on for ever) and of *Start*, the user who runs it
again; in `SyncHost` of the clock too. Edits, faults and peers are finite in number and not fair.
`RssLauncher`: weak fairness of either thread, of the JVM (the benchmark ends once its
output is taken) and of a later owner of its pid: a pid that is reused for ever would
be sampled for ever. Spinning in `wait_for_pid` is not a step that helps, and
`Ends` names the one case in which it never stops. `JbbReports`: weak fairness of the
program, which is sequential.
`Webrev`, `Caches` and `Dacapo` have safety properties only: a session may be abandoned
anywhere.

## What is proved

TLAPS checks these for every value of the constants that satisfies the modules'
assumptions. Every safety property that a passing run checks is among them.

| theorem | says |
|---|---|
| `TimeExProofs!TypeCorrect` | `Spec => []TypeOK` |
| `TimeExProofs!NoOverlap` | `Spec => []OneChild` |
| `TimeExProofs!ImplementsSeries` | `Spec => SeriesSpec` |
| `TimeExProofs!CountsGoodRuns` | `Spec => []CountedRuns` |
| `TimeExProofs!EndsClean` | `Spec => []CleanEnd` |
| `RssLauncherProofs!TypeCorrect` | `Spec => []TypeOK` |
| `RssLauncherProofs!SamplesToTheEnd` | `Spec => []SampledToTheEnd` |
| `RssLauncherProofs!ReportsTheJvm` | `Spec => []ReportIsOfTheJvm` |
| `RssLauncherProofs!LeavesNoJvm` | `Spec => []NothingLeftBehind` |
| `SyncHostProofs!TypeCorrect` | `Spec => []TypeOK` |
| `SyncHostProofs!UpToDateIsCorrect` | `Spec => []UpToDateIsEqual` |
| `SyncHostProofs!DoneIsDone` | `Spec => []DoneIsSynced` |
| `SyncHostProofs!SecondRunCopiesNothing` | `Spec => []RerunCopiesNothing` |
| `WebrevProofs!TypeCorrect` | `Spec => []TypeOK` |
| `WebrevProofs!NumbersHaveNoGaps` | `Spec => []NoGaps` |
| `WebrevProofs!IncompleteOnlyByBreaks` | `Spec => []IncompleteWereBroken` |
| `WebrevProofs!PublishesLocal` | `Spec => []Publishes` |
| `WebrevProofs!EarlierStay` | `Spec => EarlierKept` |
| `OwnSyncProofs!TypeCorrect` | `Spec => []TypeOK` |
| `OwnSyncProofs!FailuresAreOfOthers` | `Spec => []FailsOnlyIfDisturbed` |
| `OwnSyncProofs!GoesUpOnce` | `Tolerance > 0` implies `Spec => []UploadedOnce` |
| `OwnSyncProofs!SeenIsKept` | `Spec => KeepsWhatItSaw` |
| `CachesProofs!TypeCorrect` | `Spec => []TypeOK` |
| `CachesProofs!AnswersAreShown` | `Spec => []ShowsAnAnswer` |
| `CachesProofs!FaultsSpoil` | `Spec => []SpoiledByFaultsOnly` |
| `CachesProofs!RetriveMakesGood` | `Spec => RetriveRepairs` |
| `DacapoProofs!TypeCorrect` | `Spec => []TypeOK` |
| `DacapoProofs!CountsAreOfOneIteration` | `Spec => []CountsOneIteration` |
| `DacapoProofs!RowsAreOfOneIteration` | `Spec => []RowIsOneIteration` |
| `DacapoProofs!NothingIsLost` | `Spec => []NoLogLost` |
| `JbbReportsProofs!TypeCorrect` | `Spec => []TypeOK` |
| `JbbReportsProofs!RowsAreTheirRuns` | `Spec => []RowIsItsRun` |
| `JbbReportsProofs!NothingIsLost` | `Spec => []NoRunLost` |
| `JbbReportsProofs!NearestDescribes` | `Spec => []DescribedByNearest` |
| `JbbReportsProofs!TopIsShown` | `Spec => []TopRows` |

The assumptions are those of a real instance: `Parent` makes a tree (every set of
directories without the root has one whose parent is not in it), the host of sync_host
is not late, sets of options and bounds are what their types say. `GoesUpOnce` needs a
tolerance of a second: a local mtime of 1.5 seconds is rounded to 2, the cloud truncates
it to 1, and with -t 0 the file would look newer than its own copy in every run.

*TimeEx.* `OneChild` is not inductive: that no earlier child is left depends on
where the main thread is, and on the flag. The invariant of the proof adds which
child each `pc` is about (the last one forked, in the state that vfork and waitpid
allow), that `forks` follows from the phase and the counter, and that a child is
left unreaped at the head of a loop only if there was a signal, in which case
there is no further iteration. The refinement uses the same invariant: every
action is a step of `Series` or leaves its variables alone.

`StatsInv` adds what the counter is between `waitpid` and `RecordRun`: it lags by the
last child if that ended with zero, and by nothing if it was a warm-up or the wait was
interrupted. Until `waitpid` returns the last child is not reaped (`Waiting`), so an
interrupted wait cannot have been a good run.

*RssLauncher.* Each state of the thread allows some states of the JVM (`Lives`), and
what main has learnt where it stands (`Where`) is a fact about the thread that no later
step undoes: p stays stored, a reaped JVM stays reaped. `Samples` has `opened <= life`,
from which follows that a status that cannot be read any more is that of a reaped JVM.
That a JVM is never left behind rests on the interpreter's join (`Shutdown`): `exited`
is reached only with a thread that has returned, or never ran.

*SyncHost.* `UpToDateIsEqual` is about attributes that may lie. Where the source has not
been written since the second of its last stat (`Settled`), `IInv` gives the content.
`Recorded` drops the mode, which a copy changes on its way, and keeps: a target whose
mtime is that of a settled source has its content. `Clocks` orders the times: no mtime,
stat or `seen` is in the future, so an edit is never stamped earlier than a stat already
made. `CopyInv` says what a copy under way knows: if its source has been left alone since
the stat (`Untouched`), then what was opened, and later what was sent, is the source; and
until the time is restored the target bears a stamp of the host, no older than the stat
and therefore not the mtime of a settled source. That last part is where the host's clock
must not be late. Where the source was edited later, `Times` has that a completed copy
bears a time not after its stat: the edit shows. What is neither is `Coincident`.

`DoneIsSynced` and `RerunCopiesNothing` need what a walk has done: `Walked` says that a
directory that the walk has left, or a file it has passed, is done with, and `Kept` that
what was equal stays so while nobody edits. `UpToDateIsEqual` then gives the content.

*Webrev.* The properties are about what is on the host, and are not inductive without
what a session knows (`Session`): between `guess_name` and `mkdir` the number it holds is
the latest or the one after it, in the directory it stands in. `Numbers` says that the
names at a place are an interval from 1, from which `Latest`, a maximum, can be computed;
`Copied`, that what the copy is done with is whole and local; `Broken` counts half
webrevs without the one that is being copied or deleted.

*OwnSync.* `Smooth` describes an undisturbed walk: its directories are there when a put
comes, so nothing can fail. `Decided` keeps the reason for an upload from `should_copy`
to the put, over any number of saves in between: an mtime only grows, and `Round` keeps
order. `Uploaded` ties the cloud's date to the local one; that the two are at most a
second apart (`Seconds`) is where the tolerance is needed.

*Caches.* `Holds` says what a run knows of the file it has in hand; `since` and `clean`,
which the properties use, are there to be compared with it. Two that write the people's
page at once are remembered in `cause` from the moment they overlap, and until a run
writes the page alone.

*Dacapo.* `Written` says of each pair of neighbouring lines which may follow which, in any
beginning of a log, and of each line that it is of its iteration: `Complete` writes whole
groups, `Killed` cuts them. `Counting` says that a descriptor of this iteration counts
nothing else, and that one is missing only if its event was refused. `RowOf` says what the
last result is after n lines: it is of the last PASSED of them, and its counters are of
that iteration. `Rows` has that a log that was read and is not empty has its row: the
first line of what is left of a log is a PASSED. This is the invariant for which the
model reads a line at a time: a fold over the log would need an induction, a loop does
not.

*JbbReports.* `Scored` says of each row, file by file and line by line, what has been
read for it so far: a pause is not less than any, and is one of them; a score is one of
them; the last one if only one file has any. Order and place of failures do not matter,
since it is about what was read and not when. `Registered` has the runs of all files that
were come to; `Climbing`, that a search has found the nearest description below where it
is or there is none. `Filling` says of a table that is being written: what is in it is
better than what is not, everything that is not in it is still to come, and the counter
is its length and the header; `rest` is emptied early only when the table has N rows.

Only model-checked: what needs fairness (`SeriesEnds`, `Converges`, `Ends`), which is
beyond the prover.

## Plan

The order was: time_ex and sync_host, the tools that depend on an interleaving or on a
recovery; then the other two that talk to a server, each with its protocol; then
rss_launcher, the reports, the caches and the callbacks with their parser. What is left:

1. `RunMe`: the processes of a SPECjbb run, of which only the controller is awaited, and
   the options, which in composite mode grow from run to run (132, 134 of runme.sh).
2. `NanoHarness`: a suite's counters against the tests run, and the archive of natives.
3. `VMStatCallback` beside `PerfCallback` in `Dacapo`, once it is known what the JDK
   answers when a recording is stopped that was never started.
4. Two sessions in `Webrev`; the download and the configuration of owcsync, where an
   empty password in the file passes the test for None (394).
5. Proofs: an abstract specification of the tools that copy (a target that only moves
   from old to damaged to new), which `SyncHost` and `OwnSync` implement, step by step.

## Not modelled

Syslog server and sender keep no state: one datagram is sent, or printed, at a time.
The counter of MultiAlloc is never read. SynTest's bytecode is generated from a template
and would have to be modelled as such. The arithmetic of jobs in jdk_build is one
expression in a script that otherwise calls configure and make. Set-up of SSH sessions,
command lines, charts, shell settings and build files have no behaviour to check.
