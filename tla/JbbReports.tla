----------------------------- MODULE JbbReports -----------------------------
(***************************************************************************)
(* specjbb/specjbb.py: walk over directories of SPECjbb runs in whatever   *)
(* order the file system gives, gather the scores and pauses of each run   *)
(* from its files, look upward for what describes the run, and write the   *)
(* best runs to a text table and to a spreadsheet.                         *)
(***************************************************************************)
EXTENDS Integers, SequencesExt

CONSTANTS
    Dirs, Root, Parent,     \* the file system; Parent[Root] = Root
    Cwd, Arg,               \* _cwd, and the directory to walk
    Amnesiac,               \* the prefix and the run of a file that has none
    RunName,                \* names of the directories that match RUN_NAME_PATTERN, and of Amnesiac
    PrefixOrder,            \* alphabetical order of the prefixes
    Files, Matching,        \* files below Arg; those that match FILES
    Placements,             \* where the files may be: where they are found, and their real places
    Contents,               \* what files may contain: sequences of lines
    Kind, Descriptions,     \* options.txt, README.md, ..., and which directories have them
    Options                 \* of command lines; -p is the set of prefixes it accepts

None == -1
RunDirs == DOMAIN RunName \ {Amnesiac}
Prefix == Dirs \union {Amnesiac}
Score == Nat \union {None}
Line == [max : Score, crit : Score, young : Score, full : Score]

ASSUME JbbAssumption ==
    /\ {Root, Cwd, Arg} \subseteq Dirs /\ Amnesiac \notin Dirs
    /\ Parent \in [Dirs -> Dirs] /\ Parent[Root] = Root
    /\ RunDirs \subseteq Dirs /\ Amnesiac \in DOMAIN RunName /\ \A d \in DOMAIN RunName : RunName[d] \in Nat
    /\ PrefixOrder \in [Prefix -> Nat]
    /\ Matching \subseteq Files /\ Placements \subseteq [dir : [Files -> Dirs], real : [Files -> Dirs]]
    /\ Contents \subseteq Seq(Line) /\ Descriptions \subseteq [Kind -> SUBSET Dirs]
    /\ Options \subseteq [prefix : SUBSET Prefix, zeros : BOOLEAN, top : Nat \union {None},
                          sort : {"name", "prefix", "max", "crit"}]

VARIABLES
    place, content, described,                \* the file system
    _prefix_filter, _show_zeros, _sort, _top, \* the options
    pc, todo, file,
    rdir, found,    \* get_file_set: where it is, and what it has found
    _results,       \* ResultSets by run name
    registered,     \* the names in the order of their registration, as a dict keeps them
    rest, row, table,   \* the results the loop has still to come to, its counter, the tables written
    read            \* how many lines of a file were read

tree == <<place, content, described>>
options == <<_prefix_filter, _show_zeros, _sort, _top>>
grep == <<todo, file, rdir, found, _results, registered, read>>
report == <<rest, row, table>>
vars == <<tree, options, pc, grep, report>>

Init ==
    /\ place \in Placements /\ content \in [Files -> Contents] /\ described \in Descriptions
    /\ \E o \in Options : /\ _prefix_filter = o.prefix /\ _show_zeros = o.zeros
                          /\ _sort = o.sort /\ _top = o.top
    /\ pc = "walk" /\ todo = Files /\ file = CHOOSE f \in Files : TRUE
    /\ rdir = Root /\ found = [k \in Kind |-> Amnesiac]
    /\ _results = [n \in {} |-> 0] /\ registered = <<>>
    /\ rest = {} /\ row = 1 /\ table = [t \in {"txt", "xlsx"} |-> <<>>]
    /\ read = [f \in Files |-> 0]

-----------------------------------------------------------------------------
(* grep *)

\* The least set of directories that has d and, until it stops, what is above.
Above(stops) == [d \in Dirs |-> {e \in Dirs : \A S \in SUBSET Dirs :
                    d \in S /\ (\A x \in S \ stops : Parent[x] \in S) => e \in S}]

\* Components of a file's path as it was walked, from the file to the argument.
Components == Above({Arg, Root})

\* get_run_name: the component nearest to the file that looks like a run, and
\* the one before it.
RunDir(f) == LET runs == Components[place.dir[f]] \intersect RunDirs
             IN IF runs = {} THEN Amnesiac ELSE CHOOSE d \in runs : runs \subseteq Components[d]
GetRunName(f) == RunName[RunDir(f)]
GetPrefix(f) == IF RunDir(f) \in {Arg, Amnesiac} THEN Amnesiac ELSE Parent[RunDir(f)]

Accepted(f) == f \in Matching /\ GetPrefix(f) \in _prefix_filter

Skip(f) ==
    /\ pc = "walk" /\ f \in todo /\ ~ Accepted(f)
    /\ todo' = todo \ {f}
    /\ UNCHANGED <<tree, options, pc, file, rdir, found, _results, registered, read, report>>

\* Mutant: every file makes a ResultSet of its own.
GrepFileAnew(f) ==
    /\ pc = "walk" /\ f \in todo /\ Accepted(f)
    /\ todo' = todo \ {f} /\ file' = f
    /\ pc' = "climb" /\ rdir' = place.real[f] /\ found' = [k \in Kind |-> Amnesiac]
    /\ UNCHANGED <<tree, options, _results, registered, read, report>>

\* grep_file: the run's ResultSet is looked up, or made.
GrepFile(f) ==
    /\ pc = "walk" /\ f \in todo /\ Accepted(f)
    /\ todo' = todo \ {f} /\ file' = f
    /\ IF GetRunName(f) \in DOMAIN _results
       THEN pc' = "read" /\ UNCHANGED <<rdir, found>>
       ELSE pc' = "climb" /\ rdir' = place.real[f] /\ found' = [k \in Kind |-> Amnesiac]
    /\ UNCHANGED <<tree, options, _results, registered, read, report>>

\* Mutant: the topmost description wins.
LookForTopmost == [k \in Kind |-> IF rdir \in described[k] THEN rdir ELSE found[k]]

LookFor == [k \in Kind |-> IF rdir \in described[k] /\ found[k] = Amnesiac THEN rdir ELSE found[k]]

\* Mutant: only the root ends the search.
AtTheTopOnly == FALSE

\* The names are absolute, and dirname("/") is "/": it never becomes "".
AtTheTop == rdir = Cwd

\* get_file_set, a directory at a time.
Climb ==
    /\ pc = "climb" /\ ~ AtTheTop
    /\ found' = LookFor /\ rdir' = Parent[rdir]
    /\ UNCHANGED <<tree, options, pc, todo, file, _results, registered, read, report>>

ResultSet(f) == [prefix |-> GetPrefix(f), max_j |-> 0, crit_j |-> 0, max_gc_y |-> 0, max_gc_f |-> 0,
                 filename |-> f, files |-> LookFor]

Register ==
    /\ pc = "climb" /\ AtTheTop
    /\ pc' = "read"
    /\ _results' = [n \in DOMAIN _results \union {GetRunName(file)} |->
                       IF n = GetRunName(file) THEN ResultSet(file) ELSE _results[n]]
    /\ registered' = Append(registered, GetRunName(file))
    /\ UNCHANGED <<tree, options, todo, file, rdir, found, read, report>>

\* Mutant: a pattern that is not found gives a score as well.
FromLineUnchecked(r, ln) ==
    [r EXCEPT !.max_j = ln.max, !.crit_j = ln.crit,
              !.max_gc_y = IF ln.young > @ THEN ln.young ELSE @,
              !.max_gc_f = IF ln.full > @ THEN ln.full ELSE @]

\* from_line: the last score stays, and the longest pause.
FromLine(r, ln) ==
    [r EXCEPT !.max_j = IF ln.max # None THEN ln.max ELSE @,
              !.crit_j = IF ln.crit # None THEN ln.crit ELSE @,
              !.max_gc_y = IF ln.young > @ THEN ln.young ELSE @,
              !.max_gc_f = IF ln.full > @ THEN ln.full ELSE @]

ReadLine ==
    /\ pc = "read" /\ read[file] < Len(content[file])
    /\ read' = [read EXCEPT ![file] = @ + 1]
    /\ _results' = [_results EXCEPT ![GetRunName(file)] = FromLine(@, content[file][read[file] + 1])]
    /\ UNCHANGED <<tree, options, pc, todo, file, rdir, found, registered, report>>

\* Mutant: an exception ends the walk.
CloseAtTheFirstError ==
    /\ pc = "read" /\ pc' = "walk"
    /\ todo' = IF read[file] < Len(content[file]) THEN {} ELSE todo
    /\ UNCHANGED <<tree, options, file, rdir, found, _results, registered, read, report>>

\* The file ends, or cannot be opened, or its next line cannot be read or decoded:
\* the exception is reported, and the walk goes on.
Close ==
    /\ pc = "read" /\ pc' = "walk"
    /\ UNCHANGED <<tree, options, todo, file, rdir, found, _results, registered, read, report>>

-----------------------------------------------------------------------------
(* Reports *)

Key(n) == CASE _sort = "name"   -> n
            [] _sort = "prefix" -> PrefixOrder[_results[n].prefix]
            [] _sort = "max"    -> _results[n].max_j
            [] _sort = "crit"   -> _results[n].crit_j

\* sort(reverse=True) is stable: equal keys keep the order of registration.
Earlier(m, n) == \E i, j \in DOMAIN registered : i < j /\ registered[i] = m /\ registered[j] = n
Before(m, n) == Key(m) > Key(n) \/ (Key(m) = Key(n) /\ Earlier(m, n))

Walked ==
    /\ pc = "walk" /\ todo = {}
    /\ pc' = "txt" /\ rest' = DOMAIN _results /\ row' = 1
    /\ UNCHANGED <<tree, options, grep, table>>

Shown(n) == _show_zeros \/ _results[n].max_j # 0

CountRow(n) == IF Shown(n) THEN row + 1 ELSE row

\* Mutant: the spreadsheet's header is not allowed for.
PastTopSame(r) == _top # None /\ r > _top

\* The text counts rows from 1, the spreadsheet, below its header, from 2.
PastTop(r) == _top # None /\ r > (IF pc = "txt" THEN _top ELSE _top + 1)

\* The best of the rest is next; past the top there is no rest.
WriteRow ==
    /\ pc \in {"txt", "xlsx"}
    /\ \E n \in rest :
          /\ \A m \in rest \ {n} : Before(n, m)
          /\ table' = IF Shown(n) THEN [table EXCEPT ![pc] = Append(@, n)] ELSE table
          /\ row' = CountRow(n)
          /\ rest' = IF PastTop(row') THEN {} ELSE rest \ {n}
    /\ UNCHANGED <<tree, options, pc, grep>>

\* -o: the spreadsheet follows the text on the screen.
TableDone ==
    /\ pc \in {"txt", "xlsx"} /\ rest = {}
    /\ IF pc = "txt" THEN pc' = "xlsx" /\ rest' = DOMAIN _results /\ row' = 2
                     ELSE pc' = "end" /\ UNCHANGED <<rest, row>>
    /\ UNCHANGED <<tree, options, grep, table>>

-----------------------------------------------------------------------------
Terminated == pc = "end" /\ UNCHANGED vars

Program == \/ \E f \in Files : Skip(f) \/ GrepFile(f)
           \/ Climb \/ Register \/ ReadLine \/ Close \/ Walked \/ WriteRow \/ TableDone
Next == Program \/ Terminated

Spec == Init /\ [][Next]_vars /\ WF_vars(Program)

-----------------------------------------------------------------------------
(* Properties *)

\* Every variable keeps its type; a run is registered once, and no table lists
\* one that is not registered.
TypeOK ==
    /\ pc \in {"walk", "climb", "read", "txt", "xlsx", "end"}
    /\ todo \subseteq Files /\ (pc \in {"climb", "read"} => file \in Files)
    /\ rdir \in Dirs /\ found \in [Kind -> Prefix]
    /\ \A n \in DOMAIN _results :
          /\ _results[n].prefix \in Prefix /\ _results[n].files \in [Kind -> Prefix]
          /\ \A k \in {"max_j", "crit_j", "max_gc_y", "max_gc_f"} : _results[n][k] \in Nat
    /\ Range(registered) = DOMAIN _results /\ Len(registered) = Cardinality(DOMAIN _results)
    /\ rest \subseteq DOMAIN _results /\ row \in Nat
    /\ read \in [Files -> Nat] /\ \A f \in Files : read[f] <= Len(content[f])
    /\ \A t \in {"txt", "xlsx"} : Range(table[t]) \subseteq DOMAIN _results

\* Lines of a kind that were read for a run, from any of its files.
SourcesOf(n) == {f \in Files : Accepted(f) /\ GetRunName(f) = n}
ReadLines(f) == SubSeq(content[f], 1, read[f])
Values(n, k) == (UNION {{ln[k] : ln \in Range(ReadLines(f))} : f \in SourcesOf(n)}) \ {None}
ScoreFiles(n) == {f \in SourcesOf(n) : \E ln \in Range(ReadLines(f)) : ln.max # None}
LastMax(f) == content[f][Max({j \in 1 .. read[f] : content[f][j].max # None})].max

\* In whatever order the files come (217), with whichever of them unreadable, a
\* run's row has the longest pauses of all its files and, if one file alone has
\* scores, that file's last one; other runs' files leave no trace in it.
RowIsItsRun ==
    \A n \in DOMAIN _results :
        LET r == _results[n] IN
        /\ r.max_gc_y = Max(Values(n, "young") \union {0})
        /\ r.max_gc_f = Max(Values(n, "full") \union {0})
        /\ r.max_j \in Values(n, "max") \/ (r.max_j = 0 /\ Values(n, "max") = {})
        /\ r.crit_j \in Values(n, "crit") \/ (r.crit_j = 0 /\ Values(n, "crit") = {})
        /\ \A f \in ScoreFiles(n) : ScoreFiles(n) = {f} => r.max_j = LastMax(f)

\* Every run that has a file the filter accepts is there in the end, whichever
\* files failed before (225), and under the prefix of one of its files.
NoRunLost ==
    pc \in {"txt", "xlsx", "end"} =>
        /\ DOMAIN _results = {GetRunName(f) : f \in {g \in Files : Accepted(g)}}
        /\ \A n \in DOMAIN _results : \E f \in SourcesOf(n) : _results[n].prefix = GetPrefix(f)

\* Directories from d up to the working directory.
Upward == Above({Cwd, Root})

\* A run is described by the nearest file on the way from its data up to the
\* working directory (127), and by nothing above that or beside it.
DescribedByNearest ==
    \A n \in DOMAIN _results, k \in Kind :
        LET r == _results[n]
            candidates == Upward[place.real[r.filename]] \intersect described[k]
        IN IF candidates = {} THEN r.files[k] = Amnesiac
           ELSE /\ r.files[k] \in candidates
                /\ candidates \subseteq Upward[r.files[k]]

\* With -t N, N > 0, either table has the N best of the runs that are shown (246,
\* 324), or all of them if there are fewer, though the two count their rows from
\* different numbers; zero rows, which are left out, do not count.  -t 0 does not
\* save none, as "save only N" (11) would have it: the test comes after the first
\* run of the order, which is written if it is shown.
TopRows ==
    pc = "end" => \A t \in {"txt", "xlsx"} :
        LET shown == {n \in DOMAIN _results : Shown(n)}
            rows == Range(table[t])
        IN /\ rows \subseteq shown
           /\ _top = None => rows = shown
           /\ Len(table[t]) = Cardinality(rows)
           /\ _top > 0 => Len(table[t]) = Min({_top, Cardinality(shown)})
           /\ _top = 0 /\ DOMAIN _results # {} =>
                 \E n \in DOMAIN _results : /\ \A m \in DOMAIN _results \ {n} : Before(n, m)
                                            /\ rows = {n} \intersect shown
           /\ \A m \in rows, n \in shown \ rows : Key(m) >= Key(n)

\* The program ends, unless a file that is walked lies outside the working directory,
\* by a link or because the argument does: then the search for descriptions goes
\* round at the root (127).
Ends == (\A f \in Files : Cwd \in Upward[place.real[f]]) => <>(pc = "end")
=============================================================================
