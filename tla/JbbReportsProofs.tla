-------------------------- MODULE JbbReportsProofs --------------------------
(***************************************************************************)
(* For any file system, contents and options, in whatever order the files  *)
(* come and wherever reading them fails: a run's row is made of its files  *)
(* and of nothing else, none is lost, each is described by the nearest     *)
(* description, and a table with -t has the best runs.                     *)
(***************************************************************************)
EXTENDS JbbReports, FiniteSetTheorems, TLAPS

Row == [prefix : Prefix, max_j : Nat, crit_j : Nat, max_gc_y : Nat, max_gc_f : Nat,
        filename : Files, files : [Kind -> Prefix]]
Names == DOMAIN _results
Walking == pc \in {"walk", "climb", "read"}

World ==
    /\ place.dir \in [Files -> Dirs] /\ place.real \in [Files -> Dirs]
    /\ content \in [Files -> Seq(Line)] /\ described \in [Kind -> SUBSET Dirs]
    /\ _top \in Nat \union {None} /\ _sort \in {"name", "prefix", "max", "crit"}
    /\ _show_zeros \in BOOLEAN

\* The runs that are registered are those of the files that have been come to.
Registered ==
    /\ Names \subseteq Nat /\ IsFiniteSet(Names) /\ _results \in [Names -> Row]
    /\ registered \in Seq(Nat)
    /\ \A n \in Names : \E f \in SourcesOf(n) :
          _results[n].filename = f /\ _results[n].prefix = GetPrefix(f)
    /\ pc \in {"climb", "read"} => \E g \in Files \ todo :
          g = file /\ Accepted(g) /\ (pc = "climb" <=> GetRunName(g) \notin Names)
    /\ \A f \in Files \ todo : Accepted(f) => GetRunName(f) \in Names \/ (pc = "climb" /\ f = file)
    /\ ~ Walking => todo = {}
    /\ \A f \in Files : read[f] > 0 => GetRunName(f) \in Names

\* What a row says of the lines that were read for it, a kind at a time.
Longest(n, pause, k) ==
    /\ \A f \in SourcesOf(n) : \A j \in 1 .. read[f] : content[f][j][k] <= pause
    /\ pause = 0 \/ \E f \in SourcesOf(n) : \E j \in 1 .. read[f] : content[f][j][k] = pause
OneOf(n, score, k) ==
    \/ \E f \in SourcesOf(n) : \E j \in 1 .. read[f] : content[f][j][k] = score
    \/ score = 0 /\ \A f \in SourcesOf(n) : \A j \in 1 .. read[f] : content[f][j][k] = None
LastOf(f, score) ==
    \E j \in 1 .. read[f] : /\ content[f][j].max = score /\ score # None
                            /\ \A i \in j + 1 .. read[f] : content[f][i].max = None
Scored(n) ==
    /\ Longest(n, _results[n].max_gc_y, "young") /\ Longest(n, _results[n].max_gc_f, "full")
    /\ OneOf(n, _results[n].max_j, "max") /\ OneOf(n, _results[n].crit_j, "crit")
    /\ \A f \in ScoreFiles(n) : ScoreFiles(n) = {f} => LastOf(f, _results[n].max_j)

\* A search has found the nearest description, or there is none below where it is.
Nearest(d, candidates) == d \in candidates /\ candidates \subseteq Upward[d]
Climbing ==
    pc = "climb" =>
        LET all == Upward[place.real[file]] IN
        /\ rdir \in all /\ Upward[rdir] \subseteq all
        /\ \A k \in Kind :
              IF found[k] = Amnesiac THEN all \intersect described[k] \subseteq Upward[rdir]
                                     ELSE Nearest(found[k], all \intersect described[k])

\* A table that is being written: the best of the shown runs are in it, the others
\* are still to come, unless enough are written.
Listed(t) == Range(table[t])
ShownRuns == {n \in Names : Shown(n)}
Best(t) ==
    /\ Listed(t) \subseteq ShownRuns /\ Cardinality(Listed(t)) = Len(table[t])
    /\ \A m \in Listed(t), n \in ShownRuns \ Listed(t) : Key(m) >= Key(n)
    /\ _top > 0 => Len(table[t]) <= _top
\* With -t 0 the first run alone has been looked at.
OnlyFirst(t) ==
    \E n \in Names : (\A m \in Names \ {n} : Before(n, m)) /\ Listed(t) = {n} \intersect ShownRuns
Filling(t, first) ==
    /\ Best(t) /\ Listed(t) \intersect rest = {}
    /\ row = first + Len(table[t])
    /\ rest # {} => ShownRuns \ Listed(t) \subseteq rest /\ (_top > 0 => Len(table[t]) < _top)
    /\ rest = {} => ShownRuns \subseteq Listed(t) \/ (_top # None /\ Len(table[t]) >= _top)
    /\ _top = 0 /\ rest # {} => rest = Names /\ Listed(t) = {}
    /\ _top = 0 /\ rest = {} /\ Names # {} => OnlyFirst(t)
Filled(t) ==
    /\ Best(t) /\ (ShownRuns \subseteq Listed(t) \/ (_top # None /\ Len(table[t]) >= _top))
    /\ _top = 0 /\ Names # {} => OnlyFirst(t)
Tables ==
    /\ table \in [{"txt", "xlsx"} -> Seq(Nat)]
    /\ Walking => rest = {} /\ table["txt"] = <<>>
    /\ Walking \/ pc = "txt" => table["xlsx"] = <<>>
    /\ pc = "txt" => Filling("txt", 1)
    /\ pc = "xlsx" => Filled("txt") /\ Filling("xlsx", 2)
    /\ pc = "end" => Filled("txt") /\ Filled("xlsx")

IInv == /\ TypeOK /\ World /\ Registered /\ Climbing /\ DescribedByNearest /\ Tables
        /\ \A n \in Names : Scored(n)

-----------------------------------------------------------------------------
(* Constants and operators *)

LEMMA Constants ==
    /\ Root \in Dirs /\ Cwd \in Dirs /\ Arg \in Dirs /\ Amnesiac \notin Dirs
    /\ Parent \in [Dirs -> Dirs] /\ Parent[Root] = Root
    /\ Prefix = Dirs \union {Amnesiac} /\ RunDirs \subseteq Dirs
    /\ \A d \in RunDirs \union {Amnesiac} : RunName[d] \in Nat
    /\ PrefixOrder \in [Prefix -> Nat]
    /\ None = -1
BY JbbAssumption DEF Prefix, RunDirs, None

\* The directories above d, one step at a time.
LEMMA AboveIs ==
    ASSUME NEW stops, NEW d \in Dirs
    PROVE  /\ Above(stops)[d] \subseteq Dirs /\ d \in Above(stops)[d]
           /\ d \in stops => Above(stops)[d] = {d}
           /\ d \notin stops => Above(stops)[d] = {d} \union Above(stops)[Parent[d]]
<1> DEFINE Closed(S) == \A x \in S \ stops : Parent[x] \in S
<1>1. \A x \in Dirs : Above(stops)[x] =
         {e \in Dirs : \A S \in SUBSET Dirs : x \in S /\ Closed(S) => e \in S}
  BY DEF Above
<1> HIDE DEF Closed
<1>2. \A x \in Dirs : Above(stops)[x] \subseteq Dirs /\ x \in Above(stops)[x]
  BY <1>1
<1>3. ASSUME d \in stops
      PROVE  Above(stops)[d] = {d}
  <2>1. Closed({d}) /\ {d} \in SUBSET Dirs
    BY <1>3 DEF Closed
  <2> QED
    BY <2>1, <1>1, <1>2
<1>4. ASSUME d \notin stops
      PROVE  Above(stops)[d] = {d} \union Above(stops)[Parent[d]]
  <2>0. Parent[d] \in Dirs
    BY Constants
  <2>1. ASSUME NEW e \in Above(stops)[Parent[d]]
        PROVE  e \in Above(stops)[d]
    <3>1. ASSUME NEW S \in SUBSET Dirs, d \in S, Closed(S)
          PROVE  e \in S
      <4>1. Parent[d] \in S
        BY <1>4, <3>1 DEF Closed
      <4> QED
        BY <4>1, <3>1, <2>0, <2>1, <1>1
    <3> QED
      BY <3>1, <2>0, <2>1, <1>1, <1>2
  <2> DEFINE T == {d} \union Above(stops)[Parent[d]]
  <2>2. T \in SUBSET Dirs /\ d \in T
    BY <2>0, <1>2
  <2>3. ASSUME NEW x \in T, x \notin stops
        PROVE  Parent[x] \in T
    <3>1. CASE x = d
      BY <3>1, <2>0, <1>2
    <3>2. CASE x # d
      <4>1. x \in Above(stops)[Parent[d]] /\ x \in Dirs /\ Parent[x] \in Dirs
        BY <3>2, <2>2, <2>3, Constants
      <4>2. ASSUME NEW S \in SUBSET Dirs, Parent[d] \in S, Closed(S)
            PROVE  Parent[x] \in S
        <5>1. x \in S
          BY <4>1, <4>2, <2>0, <1>1
        <5> QED
          BY <5>1, <4>2, <2>3 DEF Closed
      <4>3. Parent[x] \in Above(stops)[Parent[d]]
        BY <4>1, <4>2, <2>0, <1>1
      <4> QED
        BY <4>3
    <3> QED
      BY <3>1, <3>2
  <2>4. Closed(T)
    BY <2>3 DEF Closed
  <2>5. Above(stops)[d] \subseteq T
    BY <2>2, <2>4, <1>1
  <2> QED
    BY <2>1, <2>5, <1>2
<1> QED
  BY <1>2, <1>3, <1>4

\* On the way up from d there is a directory of R that is nearest to d, if any is.
LEMMA NearestExists ==
    ASSUME NEW stops, NEW d \in Dirs, NEW R \in SUBSET Above(stops)[d], R # {}
    PROVE  \E e \in R : R \subseteq Above(stops)[e]
<1> SUFFICES ASSUME \A e \in R : ~ (R \subseteq Above(stops)[e])
             PROVE  FALSE
  OBVIOUS
<1> DEFINE S == {x \in Dirs : R \subseteq Above(stops)[x]}
<1>1. S \in SUBSET Dirs /\ d \in S
  OBVIOUS
<1>2. ASSUME NEW x \in S \ stops
      PROVE  Parent[x] \in S
  <2>1. x \in Dirs /\ R \subseteq Above(stops)[x] /\ Parent[x] \in Dirs
    BY Constants
  <2>2. Above(stops)[x] = {x} \union Above(stops)[Parent[x]]
    BY <2>1, AboveIs
  <2>3. x \notin R
    BY <2>1
  <2> QED
    BY <2>1, <2>2, <2>3
<1>3. PICK e \in R : TRUE
  OBVIOUS
<1>4. e \in S
  <2>1. Above(stops)[d] = {y \in Dirs : \A T \in SUBSET Dirs :
                              d \in T /\ (\A x \in T \ stops : Parent[x] \in T) => y \in T}
    BY DEF Above
  <2>2. e \in Above(stops)[d]
    BY <1>3
  <2> HIDE DEF S
  <2> QED
    BY <1>1, <1>2, <2>1, <2>2
<1> QED
  BY <1>3, <1>4

\* The name of a file's run is a name, its prefix a prefix.
LEMMA RunOfFile ==
    ASSUME World, NEW f \in Files
    PROVE  GetRunName(f) \in Nat /\ GetPrefix(f) \in Prefix
<1> DEFINE runs == Components[place.dir[f]] \intersect RunDirs
<1>1. place.dir[f] \in Dirs
  BY DEF World
<1>2. RunDir(f) \in RunDirs \union {Amnesiac}
  <2>1. CASE runs = {}
    BY <2>1 DEF RunDir
  <2>2. CASE runs # {}
    <3>1. \E d \in runs : runs \subseteq Components[d]
      <4>1. runs \in SUBSET Above({Arg, Root})[place.dir[f]]
        BY DEF Components
      <4> HIDE DEF runs
      <4>2. \E d \in runs : runs \subseteq Above({Arg, Root})[d]
        BY <4>1, <1>1, <2>2, NearestExists
      <4> QED
        BY <4>2 DEF Components
    <3>2. RunDir(f) = CHOOSE d \in runs : runs \subseteq Components[d]
      BY <2>2 DEF RunDir
    <3>3. RunDir(f) \in runs
      BY <3>1, <3>2
    <3> QED
      BY <3>3
  <2> QED
    BY <2>1, <2>2
<1>3. GetRunName(f) \in Nat
  BY <1>2, Constants DEF GetRunName
<1>4. GetPrefix(f) \in Prefix
  BY <1>2, Constants DEF GetPrefix
<1> QED
  BY <1>3, <1>4

LEMMA LineIs ==
    ASSUME NEW l \in Seq(Line), NEW j \in 1 .. Len(l)
    PROVE  /\ l[j] \in Line
           /\ l[j].max \in Nat \union {None} /\ l[j].crit \in Nat \union {None}
           /\ l[j].young \in Nat \union {None} /\ l[j].full \in Nat \union {None}
<1>1. l[j] \in Line
  OBVIOUS
<1> QED
  BY <1>1 DEF Line, Score

\* What is in a set, and not less than any of it, is its maximum.
LEMMA MaxIs ==
    ASSUME NEW S \in SUBSET Int, NEW x \in S, \A y \in S : y <= x
    PROVE  Max(S) = x
<1>1. \A z \in S : (\A y \in S : z >= y) => z = x
  OBVIOUS
<1>2. \A y \in S : x >= y
  OBVIOUS
<1> QED
  BY <1>1, <1>2 DEF Max

\* What never changes, and what follows from it.
LEMMA SameWorld ==
    ASSUME UNCHANGED <<tree, options>>
    PROVE  /\ UNCHANGED <<place, content, described, _prefix_filter, _show_zeros, _sort, _top>>
           /\ World => World'
           /\ \A f \in Files : /\ Accepted(f)' = Accepted(f) /\ GetRunName(f)' = GetRunName(f)
                               /\ GetPrefix(f)' = GetPrefix(f)
           /\ \A n : SourcesOf(n)' = SourcesOf(n)
<1>1. UNCHANGED <<place, content, described, _prefix_filter, _show_zeros, _sort, _top>>
  BY DEF tree, options
<1>2. World => World'
  BY <1>1 DEF World
<1>3. ASSUME NEW f \in Files
      PROVE  /\ Accepted(f)' = Accepted(f) /\ GetRunName(f)' = GetRunName(f)
             /\ GetPrefix(f)' = GetPrefix(f)
  <2>1. RunDir(f)' = RunDir(f)
    BY <1>1 DEF RunDir
  <2>2. GetRunName(f)' = GetRunName(f) /\ GetPrefix(f)' = GetPrefix(f)
    BY <2>1 DEF GetRunName, GetPrefix
  <2> QED
    BY <2>2, <1>1 DEF Accepted
<1>4. ASSUME NEW n
      PROVE  SourcesOf(n)' = SourcesOf(n)
  BY <1>3 DEF SourcesOf
<1> QED
  BY <1>1, <1>2, <1>3, <1>4

-----------------------------------------------------------------------------
(* Steps of the walk *)

\* A row that nobody touches, of files that are not read, says what it said.
LEMMA SameRow ==
    ASSUME UNCHANGED <<tree, options>>, NEW n, Scored(n), _results'[n] = _results[n],
           \A f \in SourcesOf(n) : read'[f] = read[f]
    PROVE  Scored(n)'
<1>1. content' = content /\ SourcesOf(n)' = SourcesOf(n)
  BY SameWorld
<1>2. ScoreFiles(n)' = ScoreFiles(n)
  BY <1>1 DEF ScoreFiles, ReadLines
<1>3. Longest(n, _results[n].max_gc_y, "young")' /\ Longest(n, _results[n].max_gc_f, "full")'
  BY <1>1 DEF Scored, Longest
<1>4. OneOf(n, _results[n].max_j, "max")' /\ OneOf(n, _results[n].crit_j, "crit")'
  BY <1>1 DEF Scored, OneOf
<1>5. (\A f \in ScoreFiles(n) : ScoreFiles(n) = {f} => LastOf(f, _results[n].max_j))'
  BY <1>1, <1>2 DEF Scored, LastOf, ScoreFiles
<1> QED
  BY <1>3, <1>4, <1>5 DEF Scored

LEMMA SameRows ==
    ASSUME IInv, UNCHANGED <<tree, options, _results, read>>
    PROVE  /\ World' /\ DescribedByNearest' /\ (\A n \in Names' : Scored(n)')
           /\ UNCHANGED <<place, content, described, _prefix_filter, _show_zeros, _sort, _top>>
           /\ ShownRuns' = ShownRuns /\ Names' = Names
<1>1. /\ UNCHANGED <<place, content, described, _prefix_filter, _show_zeros, _sort, _top>>
      /\ World'
  BY SameWorld DEF IInv
<1>2. _results' = _results /\ read' = read /\ Names' = Names
  BY DEF Names
<1>3. DescribedByNearest'
  BY <1>1, <1>2 DEF IInv, DescribedByNearest
<1>4. \A n \in Names : Scored(n)'
  BY <1>2, SameRow DEF IInv
<1>5. ShownRuns' = ShownRuns
  BY <1>1, <1>2 DEF ShownRuns, Shown, Names
<1> QED
  BY <1>1, <1>2, <1>3, <1>4, <1>5

\* No table is begun before the walk is over.
LEMMA NoTableYet ==
    ASSUME IInv, Walking, Walking', UNCHANGED report
    PROVE  /\ Tables' /\ UNCHANGED <<rest, row, table>> /\ rest' = {}
           /\ \A t \in {"txt", "xlsx"} : Range(table'[t]) = {}
<1>1. UNCHANGED <<rest, row, table>>
  BY DEF report
<1>2. rest = {} /\ table["txt"] = <<>> /\ table["xlsx"] = <<>>
  BY DEF IInv, Tables
<1>3. Tables'
  BY <1>1, <1>2 DEF IInv, Tables, Walking
<1>4. \A t \in {"txt", "xlsx"} : Range(table'[t]) = {}
  BY <1>1, <1>2 DEF Range
<1> QED
  BY <1>1, <1>2, <1>3, <1>4

\* The register, when no run is added to it; g is the file that is come to.
LEMMA SameRegister ==
    ASSUME IInv, UNCHANGED <<tree, options, _results, registered, read>>, NEW g,
           pc' \in {"climb", "read"} =>
              /\ g \in Files \ todo' /\ file' = g /\ Accepted(g)
              /\ pc' = "climb" <=> GetRunName(g) \notin Names,
           \A f \in Files \ todo' :
              Accepted(f) => GetRunName(f) \in Names \/ (pc' = "climb" /\ f = g),
           pc' = "climb" => file' = g,
           ~ Walking' => todo' = {}
    PROVE  Registered'
<1>1. _results' = _results /\ registered' = registered /\ read' = read /\ Names' = Names
  BY DEF Names
<1>2. /\ \A n : SourcesOf(n)' = SourcesOf(n)
      /\ \A f \in Files : /\ Accepted(f)' = Accepted(f) /\ GetRunName(f)' = GetRunName(f)
                          /\ GetPrefix(f)' = GetPrefix(f)
  BY SameWorld
<1>3. \A n \in Names' : \E f \in SourcesOf(n)' :
         _results'[n].filename = f /\ _results'[n].prefix = GetPrefix(f)'
  BY <1>1, <1>2 DEF IInv, Registered, SourcesOf
<1>4. pc' \in {"climb", "read"} => \E f \in Files \ todo' :
         f = file' /\ Accepted(f)' /\ (pc' = "climb" <=> GetRunName(f)' \notin Names')
  BY <1>1, <1>2
<1>5. \A f \in Files \ todo' :
         Accepted(f)' => GetRunName(f)' \in Names' \/ (pc' = "climb" /\ f = file')
  BY <1>1, <1>2
<1>6. \A f \in Files : read'[f] > 0 => GetRunName(f)' \in Names'
  BY <1>1, <1>2 DEF IInv, Registered
<1> QED
  BY <1>1, <1>3, <1>4, <1>5, <1>6 DEF IInv, Registered, Names

LEMMA SkipKeeps ==
    ASSUME IInv, NEW f \in Files, Skip(f)
    PROVE  IInv'
<1>1. /\ pc = "walk" /\ pc' = "walk" /\ f \in todo /\ ~ Accepted(f) /\ todo' = todo \ {f}
      /\ UNCHANGED <<tree, options, file, rdir, found, _results, registered, read, report>>
  BY DEF Skip
<1>2. World' /\ DescribedByNearest' /\ (\A n \in Names' : Scored(n)') /\ content' = content
  BY <1>1, SameRows
<1>3. Tables' /\ UNCHANGED <<rest, row, table>>
  BY <1>1, NoTableYet DEF Walking
<1>4. TypeOK'
  BY <1>1, <1>2, <1>3 DEF IInv, TypeOK
<1>5. ASSUME NEW g \in Files \ todo', Accepted(g)
      PROVE  GetRunName(g) \in Names
  <2>1. g # f /\ g \in Files \ todo
    BY <1>1, <1>5
  <2> QED
    BY <2>1, <1>1, <1>5 DEF IInv, Registered
<1>6. Registered'
  BY <1>1, <1>5, SameRegister DEF Walking
<1>7. Climbing'
  BY <1>1 DEF Climbing
<1> QED
  BY <1>2, <1>3, <1>4, <1>6, <1>7 DEF IInv

LEMMA GrepFileKeeps ==
    ASSUME IInv, NEW f \in Files, GrepFile(f)
    PROVE  IInv'
<1>1. /\ pc = "walk" /\ f \in todo /\ Accepted(f) /\ todo' = todo \ {f} /\ file' = f
      /\ IF GetRunName(f) \in Names
         THEN pc' = "read" /\ rdir' = rdir /\ found' = found
         ELSE pc' = "climb" /\ rdir' = place.real[f] /\ found' = [k \in Kind |-> Amnesiac]
      /\ UNCHANGED <<tree, options, _results, registered, read, report>>
  BY DEF GrepFile, Names
<1>2. World' /\ DescribedByNearest' /\ (\A n \in Names' : Scored(n)')
      /\ content' = content /\ place' = place /\ described' = described
  BY <1>1, SameRows
<1>3. Tables' /\ UNCHANGED <<rest, row, table>>
  BY <1>1, NoTableYet DEF Walking
<1>4. place.real[f] \in Dirs
  BY DEF IInv, World
<1>5. TypeOK'
  <2>1. rdir' \in Dirs /\ found' \in [Kind -> Prefix]
    BY <1>1, <1>4, Constants DEF IInv, TypeOK
  <2> QED
    BY <1>1, <1>2, <1>3, <2>1 DEF IInv, TypeOK
<1>6. Registered'
  <2>1. \A g \in Files \ todo' : Accepted(g) => GetRunName(g) \in Names \/ g = f
    BY <1>1 DEF IInv, Registered
  <2>2. pc' \in {"climb", "read"} /\ (pc' = "climb" <=> GetRunName(f) \notin Names)
    BY <1>1
  <2>3. f \in Files \ todo'
    BY <1>1
  <2>4. Walking'
    BY <2>2 DEF Walking
  <2> QED
    BY <1>1, <2>1, <2>2, <2>3, <2>4, SameRegister
<1>7. Climbing'
  <2>1. ASSUME pc' = "climb"
        PROVE  /\ rdir' = place.real[f] /\ \A k \in Kind : found'[k] = Amnesiac
               /\ rdir' \in Upward[place.real[f]]
    BY <2>1, <1>1, <1>4, AboveIs DEF Upward
  <2> QED
    BY <2>1, <1>1, <1>2 DEF Climbing
<1> QED
  BY <1>2, <1>3, <1>5, <1>6, <1>7 DEF IInv

\* What is found when the directory rdir has been looked at, too.
LEMMA Looked ==
    ASSUME IInv, pc = "climb"
    PROVE  /\ LookFor \in [Kind -> Prefix] /\ rdir \in Upward[place.real[file]]
           /\ \A k \in Kind :
                 LET all == Upward[place.real[file]] \intersect described[k]
                 IN IF LookFor[k] = Amnesiac THEN all \subseteq Upward[rdir] \ {rdir}
                                             ELSE Nearest(LookFor[k], all)
<1>1. /\ rdir \in Dirs /\ found \in [Kind -> Prefix] /\ described \in [Kind -> SUBSET Dirs]
      /\ rdir \in Upward[place.real[file]]
  BY DEF IInv, TypeOK, World, Climbing
<1>2. LookFor \in [Kind -> Prefix]
  BY <1>1, Constants DEF LookFor
<1>3. ASSUME NEW k \in Kind
      PROVE  LET all == Upward[place.real[file]] \intersect described[k]
             IN IF LookFor[k] = Amnesiac THEN all \subseteq Upward[rdir] \ {rdir}
                                         ELSE Nearest(LookFor[k], all)
  <2> DEFINE all == Upward[place.real[file]] \intersect described[k]
  <2>1. /\ found[k] = Amnesiac => all \subseteq Upward[rdir]
        /\ found[k] # Amnesiac => Nearest(found[k], all)
    BY DEF IInv, Climbing
  <2>2. LookFor[k] = IF rdir \in described[k] /\ found[k] = Amnesiac THEN rdir ELSE found[k]
    BY DEF LookFor
  <2>3. CASE found[k] # Amnesiac
    BY <2>1, <2>2, <2>3
  <2>4. CASE found[k] = Amnesiac /\ rdir \in described[k]
    <3>1. LookFor[k] = rdir /\ rdir # Amnesiac /\ rdir \in all
      BY <1>1, <2>2, <2>4, Constants
    <3> QED
      BY <3>1, <2>1, <2>4 DEF Nearest
  <2>5. CASE found[k] = Amnesiac /\ rdir \notin described[k]
    <3>1. LookFor[k] = Amnesiac /\ rdir \notin all
      BY <2>2, <2>5
    <3> QED
      BY <3>1, <2>1, <2>5
  <2> QED
    BY <2>3, <2>4, <2>5
<1> QED
  BY <1>1, <1>2, <1>3

LEMMA ClimbKeeps ==
    ASSUME IInv, Climb
    PROVE  IInv'
<1>1. /\ pc = "climb" /\ pc' = "climb" /\ rdir # Cwd /\ found' = LookFor /\ rdir' = Parent[rdir]
      /\ UNCHANGED <<tree, options, todo, file, _results, registered, read, report>>
  BY DEF Climb, AtTheTop
<1>2. World' /\ DescribedByNearest' /\ (\A n \in Names' : Scored(n)')
      /\ content' = content /\ place' = place /\ described' = described
  BY <1>1, SameRows
<1>3. Tables' /\ UNCHANGED <<rest, row, table>>
  BY <1>1, NoTableYet DEF Walking
<1>4. rdir \in Dirs /\ rdir' \in Dirs /\ found' \in [Kind -> Prefix]
  BY <1>1, Looked, Constants DEF IInv, TypeOK
<1>5. TypeOK'
  BY <1>1, <1>2, <1>3, <1>4 DEF IInv, TypeOK
<1>6. PICK g \in Files \ todo : g = file /\ Accepted(g) /\ GetRunName(g) \notin Names
  BY <1>1 DEF IInv, Registered
<1>7. Registered'
  <2>1. \A f \in Files \ todo' : Accepted(f) => GetRunName(f) \in Names \/ f = g
    BY <1>1, <1>6 DEF IInv, Registered
  <2>2. Walking' /\ pc' = "climb" /\ todo' = todo /\ file' = g
    BY <1>1, <1>6 DEF Walking
  <2> QED
    BY <1>1, <1>6, <2>1, <2>2, SameRegister
<1>8. Climbing'
  <2> DEFINE all == Upward[place.real[file]]
  <2>1. /\ Upward[rdir] \subseteq all /\ rdir \in all
        /\ \A k \in Kind : IF LookFor[k] = Amnesiac
                           THEN all \intersect described[k] \subseteq Upward[rdir] \ {rdir}
                           ELSE Nearest(LookFor[k], all \intersect described[k])
    BY <1>1, Looked DEF IInv, Climbing
  <2>2. rdir' \in Upward[rdir'] /\ Upward[rdir'] \subseteq Upward[rdir]
        /\ Upward[rdir] \ {rdir} \subseteq Upward[rdir']
    <3>1. CASE rdir = Root
      BY <3>1, <1>1, <1>4, AboveIs, Constants DEF Upward
    <3>2. CASE rdir # Root
      <4>1. Upward[rdir] = {rdir} \union Upward[Parent[rdir]] /\ rdir' \in Upward[rdir']
        BY <3>2, <1>1, <1>4, AboveIs DEF Upward
      <4> QED
        BY <4>1, <1>1
    <3> QED
      BY <3>1, <3>2
  <2>3. /\ rdir' \in all /\ Upward[rdir'] \subseteq all
        /\ \A k \in Kind : IF found'[k] = Amnesiac
                           THEN all \intersect described[k] \subseteq Upward[rdir']
                           ELSE Nearest(found'[k], all \intersect described[k])
    BY <2>1, <2>2, <1>1
  <2> QED
    BY <2>3, <1>1, <1>2 DEF Climbing, Nearest
<1> QED
  BY <1>2, <1>3, <1>5, <1>7, <1>8 DEF IInv

LEMMA RegisterKeeps ==
    ASSUME IInv, Register
    PROVE  IInv'
<1>1. /\ pc = "climb" /\ pc' = "read" /\ rdir = Cwd
      /\ UNCHANGED <<tree, options, todo, file, rdir, found, read, report>>
  BY DEF Register, AtTheTop
<1>2. PICK g \in Files \ todo : g = file /\ Accepted(g) /\ GetRunName(g) \notin Names
  BY <1>1 DEF IInv, Registered
<1>3. /\ World' /\ UNCHANGED <<place, content, described>>
      /\ \A n : SourcesOf(n)' = SourcesOf(n)
      /\ \A f \in Files : /\ Accepted(f)' = Accepted(f) /\ GetRunName(f)' = GetRunName(f)
                          /\ GetPrefix(f)' = GetPrefix(f)
  BY <1>1, SameWorld DEF IInv
<1>4. GetRunName(g) \in Nat /\ GetPrefix(g) \in Prefix
  BY RunOfFile DEF IInv
<1>5. PICK name \in Nat : name = GetRunName(g)
  BY <1>4
<1>6. /\ _results' = [n \in Names \union {name} |-> IF n = name THEN ResultSet(g) ELSE _results[n]]
      /\ registered' = Append(registered, name) /\ name \notin Names
  BY <1>2, <1>5 DEF Register, Names
<1>7. /\ Names' = Names \union {name}
      /\ _results'[name] = ResultSet(g)
      /\ \A n \in Names : _results'[n] = _results[n]
  BY <1>6 DEF Names
<1>8. Tables' /\ UNCHANGED <<rest, row, table>> /\ rest' = {}
      /\ \A t \in {"txt", "xlsx"} : Range(table'[t]) = {}
  BY <1>1, NoTableYet DEF Walking
<1>9. /\ ResultSet(g) \in Row
      /\ ResultSet(g).max_j = 0 /\ ResultSet(g).crit_j = 0
      /\ ResultSet(g).max_gc_y = 0 /\ ResultSet(g).max_gc_f = 0
      /\ ResultSet(g).prefix = GetPrefix(g) /\ ResultSet(g).filename = g
      /\ ResultSet(g).files = LookFor /\ LookFor \in [Kind -> Prefix]
  BY <1>1, <1>4, Looked DEF ResultSet, Row
<1>10. /\ registered \in Seq(Nat) /\ Range(registered) = Names
       /\ IsFiniteSet(Names) /\ Names \subseteq Nat /\ _results \in [Names -> Row]
       /\ Len(registered) = Cardinality(Names)
  BY DEF IInv, Registered, TypeOK, Names
<1>11. /\ IsFiniteSet(Names') /\ Cardinality(Names') = Cardinality(Names) + 1
       /\ Names' \subseteq Nat /\ _results' \in [Names' -> Row]
  <2>1. IsFiniteSet(Names \union {name}) /\ Cardinality(Names \union {name}) = Cardinality(Names) + 1
    BY <1>6, <1>10, FS_AddElement
  <2> QED
    BY <2>1, <1>5, <1>6, <1>7, <1>9, <1>10
<1>12. /\ registered' \in Seq(Nat) /\ Len(registered') = Len(registered) + 1
       /\ Range(registered') = Names'
  <2>1. /\ registered' \in Seq(Nat) /\ Len(registered') = Len(registered) + 1
        /\ \A i \in 1 .. Len(registered) : registered'[i] = registered[i]
        /\ registered'[Len(registered) + 1] = name /\ Len(registered) \in Nat
    BY <1>5, <1>6, <1>10
  <2>2. DOMAIN registered = 1 .. Len(registered) /\ DOMAIN registered' = 1 .. Len(registered) + 1
    BY <2>1, <1>10
  <2>3. Range(registered') \subseteq Range(registered) \union {name}
    BY <2>1, <2>2 DEF Range
  <2>4. Range(registered) \subseteq Range(registered')
    BY <2>1, <2>2 DEF Range
  <2>5. name \in Range(registered')
    BY <2>1, <2>2 DEF Range
  <2> QED
    BY <2>1, <2>3, <2>4, <2>5, <1>7, <1>10
<1>13. TypeOK'
  <2>1. ASSUME NEW n \in Names'
        PROVE  /\ _results'[n].prefix \in Prefix /\ _results'[n].files \in [Kind -> Prefix]
               /\ \A k \in {"max_j", "crit_j", "max_gc_y", "max_gc_f"} : _results'[n][k] \in Nat
    <3>1. _results'[n] \in Row
      BY <1>11
    <3> QED
      BY <3>1 DEF Row
  <2>2. DOMAIN _results' = Names'
    BY DEF Names
  <2>3. Range(registered') = Names' /\ Len(registered') = Cardinality(Names')
    BY <1>10, <1>11, <1>12
  <2>4. file' \in Files /\ rdir' \in Dirs /\ found' \in [Kind -> Prefix]
    BY <1>1, <1>2 DEF IInv, TypeOK
  <2> QED
    BY <1>1, <1>3, <1>8, <2>1, <2>2, <2>3, <2>4 DEF IInv, TypeOK
<1>14. Registered'
  <2>1. \A n \in Names' : \E f \in SourcesOf(n)' :
           _results'[n].filename = f /\ _results'[n].prefix = GetPrefix(f)'
    <3>1. ASSUME NEW n \in Names
          PROVE  \E f \in SourcesOf(n)' :
                    _results'[n].filename = f /\ _results'[n].prefix = GetPrefix(f)'
      <4>1. PICK f \in SourcesOf(n) : _results[n].filename = f /\ _results[n].prefix = GetPrefix(f)
        BY DEF IInv, Registered
      <4>2. f \in SourcesOf(n)' /\ GetPrefix(f)' = GetPrefix(f)
        BY <4>1, <1>3 DEF SourcesOf
      <4>3. _results'[n] = _results[n]
        BY <1>7
      <4> QED
        BY <4>1, <4>2, <4>3
    <3>2. g \in SourcesOf(name)' /\ GetPrefix(g)' = GetPrefix(g)
      BY <1>2, <1>3, <1>5 DEF SourcesOf
    <3>3. _results'[name].filename = g /\ _results'[name].prefix = GetPrefix(g)'
      BY <3>2, <1>7, <1>9
    <3> QED
      BY <3>1, <3>2, <3>3, <1>7
  <2>2. g \in Files \ todo' /\ g = file' /\ Accepted(g)' /\ GetRunName(g)' \in Names'
    BY <1>1, <1>2, <1>3, <1>5, <1>7
  <2>3. \A f \in Files \ todo' : Accepted(f)' => GetRunName(f)' \in Names'
    BY <1>1, <1>2, <1>3, <1>5, <1>7 DEF IInv, Registered
  <2>4. \A f \in Files : read'[f] > 0 => GetRunName(f)' \in Names'
    BY <1>1, <1>3, <1>7 DEF IInv, Registered
  <2> QED
    BY <1>1, <1>11, <1>12, <2>1, <2>2, <2>3, <2>4 DEF Registered, Walking
<1>15. Climbing'
  BY <1>1 DEF Climbing
<1>16. DescribedByNearest'
  <2>1. ASSUME NEW n \in Names', NEW k \in Kind
        PROVE  LET r == _results'[n]
                   candidates == Upward[place.real[r.filename]] \intersect described[k]
               IN IF candidates = {} THEN r.files[k] = Amnesiac
                  ELSE /\ r.files[k] \in candidates
                       /\ candidates \subseteq Upward[r.files[k]]
    <3>1. CASE n \in Names
      BY <3>1, <1>7 DEF IInv, DescribedByNearest, Names
    <3>2. CASE n = name
      <4> DEFINE candidates == Upward[place.real[g]] \intersect described[k]
      <4>1. IF LookFor[k] = Amnesiac THEN candidates \subseteq Upward[Cwd] \ {Cwd}
                                     ELSE Nearest(LookFor[k], candidates)
        BY <1>1, <1>2, Looked
      <4>2. Upward[Cwd] = {Cwd}
        BY AboveIs, Constants DEF Upward
      <4>3. _results'[n].filename = g /\ _results'[n].files[k] = LookFor[k]
        BY <3>2, <1>7, <1>9
      <4>4. Amnesiac \notin candidates
        BY Constants DEF IInv, World
      <4> QED
        BY <4>1, <4>2, <4>3, <4>4 DEF Nearest
    <3> QED
      BY <3>1, <3>2, <1>7
  <2>2. DOMAIN _results' = Names'
    BY DEF Names
  <2> QED
    BY <2>1, <2>2, <1>3 DEF DescribedByNearest
<1>17. ASSUME NEW n \in Names'
       PROVE  Scored(n)'
  <2>1. CASE n \in Names
    BY <2>1, <1>1, <1>7, SameRow DEF IInv
  <2>2. CASE n = name
    <3>1. ASSUME NEW f \in SourcesOf(name)
          PROVE  read[f] = 0 /\ read'[f] = 0
      BY <1>1, <1>6 DEF IInv, Registered, SourcesOf, TypeOK
    <3>2. \A f \in SourcesOf(n)' : read'[f] = 0 /\ f \in Files /\ 1 .. read'[f] = {}
      BY <3>1, <2>2, <1>3 DEF SourcesOf
    <3>3. ScoreFiles(n)' = {}
      <4>1. ASSUME NEW f \in SourcesOf(n)'
            PROVE  Range(ReadLines(f)') = {}
        <5>1. ReadLines(f)' = SubSeq(content'[f], 1, 0)
          BY <3>2 DEF ReadLines
        <5>2. SubSeq(content'[f], 1, 0) = <<>>
          BY <3>2 DEF IInv, World
        <5> QED
          BY <5>1, <5>2 DEF Range
      <4> QED
        BY <4>1 DEF ScoreFiles
    <3>4. /\ _results'[n].max_j = 0 /\ _results'[n].crit_j = 0
          /\ _results'[n].max_gc_y = 0 /\ _results'[n].max_gc_f = 0
      BY <2>2, <1>7, <1>9
    <3>5. Longest(n, _results[n].max_gc_y, "young")' /\ Longest(n, _results[n].max_gc_f, "full")'
      BY <3>2, <3>4 DEF Longest
    <3>6. OneOf(n, _results[n].max_j, "max")' /\ OneOf(n, _results[n].crit_j, "crit")'
      BY <3>2, <3>4 DEF OneOf
    <3> QED
      BY <3>3, <3>5, <3>6 DEF Scored
  <2> QED
    BY <2>1, <2>2, <1>7
<1> QED
  BY <1>3, <1>8, <1>13, <1>14, <1>15, <1>16, <1>17 DEF IInv

\* The lines that were read of a file.
LEMMA LinesRead ==
    ASSUME NEW l \in Seq(Line), NEW m \in 0 .. Len(l)
    PROVE  Range(SubSeq(l, 1, m)) = {l[j] : j \in 1 .. m}
<1>1. /\ DOMAIN SubSeq(l, 1, m) = 1 .. m
      /\ \A j \in 1 .. m : SubSeq(l, 1, m)[j] = l[j]
  OBVIOUS
<1> QED
  BY <1>1 DEF Range

\* A pause that is not less than any that was read, when one more line is read.
LEMMA LongestKeeps ==
    ASSUME TypeOK, World, NEW n, NEW k, NEW g \in SourcesOf(n), NEW pause \in Nat,
           Longest(n, pause, k), read[g] < Len(content[g]), UNCHANGED <<tree, options>>,
           \A f \in Files : \A j \in 1 .. Len(content[f]) : content[f][j][k] \in Nat \union {None},
           read' = [read EXCEPT ![g] = @ + 1],
           NEW longest,
           longest = IF content[g][read[g] + 1][k] > pause THEN content[g][read[g] + 1][k] ELSE pause
    PROVE  Longest(n, longest, k)'
<1>1. /\ g \in Files /\ read \in [Files -> Nat] /\ content \in [Files -> Seq(Line)]
      /\ SourcesOf(n) \subseteq Files /\ \A f \in Files : read[f] <= Len(content[f])
  BY DEF TypeOK, World, SourcesOf
<1>2. read'[g] = read[g] + 1 /\ \A f \in Files \ {g} : read'[f] = read[f]
  BY <1>1
<1> DEFINE v == content[g][read[g] + 1][k]
<1>3. v \in Nat \union {None} /\ longest \in Nat /\ pause <= longest /\ v <= longest
  <2>1. read[g] + 1 \in 1 .. Len(content[g])
    BY <1>1
  <2>2. v \in Nat \union {None}
    BY <2>1, <1>1
  <2> HIDE DEF v
  <2>3. longest = IF v > pause THEN v ELSE pause
    BY DEF v
  <2> QED
    BY <2>2, <2>3, Constants
<1>4. ASSUME NEW f \in SourcesOf(n), NEW j \in 1 .. read'[f]
      PROVE  content[f][j][k] <= longest
  <2>1. CASE j \in 1 .. read[f]
    <3>1. j \in 1 .. Len(content[f]) /\ f \in Files
      BY <2>1, <1>1
    <3>2. PICK x \in Nat \union {None} : x = content[f][j][k]
      BY <3>1
    <3>3. x <= pause
      BY <2>1, <3>2 DEF Longest
    <3>4. x <= longest
      BY <3>3, <1>3, Constants
    <3> QED
      BY <3>2, <3>4
  <2>2. CASE j \notin 1 .. read[f]
    <3>1. f = g /\ j = read[g] + 1
      BY <2>2, <1>1, <1>2
    <3> QED
      BY <3>1, <1>3
  <2> QED
    BY <2>1, <2>2
<1>5. longest = 0 \/ \E f \in SourcesOf(n) : \E j \in 1 .. read'[f] : content[f][j][k] = longest
  <2>1. CASE longest = v
    <3>1. read[g] + 1 \in 1 .. read'[g]
      BY <1>1, <1>2
    <3> QED
      BY <3>1, <2>1
  <2>2. CASE longest = pause /\ pause # 0
    <3>1. PICK f \in SourcesOf(n) : \E j \in 1 .. read[f] : content[f][j][k] = pause
      BY <2>2 DEF Longest
    <3>2. 1 .. read[f] \subseteq 1 .. read'[f]
      BY <1>1, <1>2
    <3> QED
      BY <3>1, <3>2, <2>2
  <2> QED
    BY <2>1, <2>2
<1>6. content' = content /\ SourcesOf(n)' = SourcesOf(n)
  BY SameWorld
<1> QED
  BY <1>4, <1>5, <1>6 DEF Longest

\* A score that was read, when one more line is read.
LEMMA OneOfKeeps ==
    ASSUME TypeOK, World, NEW n, NEW k, NEW g \in SourcesOf(n), NEW score \in Nat,
           OneOf(n, score, k), read[g] < Len(content[g]), UNCHANGED <<tree, options>>,
           read' = [read EXCEPT ![g] = @ + 1],
           NEW last,
           last = IF content[g][read[g] + 1][k] # None THEN content[g][read[g] + 1][k] ELSE score
    PROVE  OneOf(n, last, k)'
<1>1. /\ g \in Files /\ read \in [Files -> Nat] /\ SourcesOf(n) \subseteq Files
  BY DEF TypeOK, SourcesOf
<1>2. read'[g] = read[g] + 1 /\ \A f \in Files \ {g} : read'[f] = read[f]
  BY <1>1
<1>3. \A f \in SourcesOf(n) : 1 .. read[f] \subseteq 1 .. read'[f]
  BY <1>1, <1>2
<1> DEFINE v == content[g][read[g] + 1][k]
           Goal == \/ \E f \in SourcesOf(n) : \E j \in 1 .. read'[f] : content[f][j][k] = last
                   \/ /\ last = 0
                      /\ \A f \in SourcesOf(n) : \A j \in 1 .. read'[f] : content[f][j][k] = None
<1>4. ASSUME v # None PROVE Goal
  <2>1. read[g] + 1 \in 1 .. read'[g]
    BY <1>1, <1>2
  <2> QED
    BY <2>1, <1>4
<1>5. ASSUME v = None, \E f \in SourcesOf(n) : \E j \in 1 .. read[f] : content[f][j][k] = score
      PROVE  Goal
  BY <1>3, <1>5
<1>6. ASSUME v = None, score = 0,
             \A f \in SourcesOf(n) : \A j \in 1 .. read[f] : content[f][j][k] = None
      PROVE  Goal
  <2>1. ASSUME NEW f \in SourcesOf(n), NEW j \in 1 .. read'[f], j \notin 1 .. read[f]
        PROVE  f = g /\ j = read[g] + 1
    BY <2>1, <1>1, <1>2
  <2>2. ASSUME NEW f \in SourcesOf(n), NEW j \in 1 .. read'[f]
        PROVE  content[f][j][k] = None
    <3>1. CASE j \in 1 .. read[f]
      BY <3>1, <1>6
    <3>2. CASE j \notin 1 .. read[f]
      <4>1. f = g /\ j = read[g] + 1
        BY <3>2, <2>1
      <4> QED
        BY <4>1, <1>6
    <3> QED
      BY <3>1, <3>2
  <2>3. last = 0
    BY <1>6
  <2> QED
    BY <2>2, <2>3
<1>7. content' = content /\ SourcesOf(n)' = SourcesOf(n)
  BY SameWorld
<1>8. Goal
  <2> HIDE DEF Goal, v
  <2> QED
    BY <1>4, <1>5, <1>6 DEF OneOf
<1> QED
  BY <1>7, <1>8 DEF OneOf

\* The last score of the only file that has any, when one more line is read.
LEMMA LastKeeps ==
    ASSUME TypeOK, World, NEW n, NEW g \in SourcesOf(n), NEW score \in Nat,
           \A f \in ScoreFiles(n) : ScoreFiles(n) = {f} => LastOf(f, score),
           read[g] < Len(content[g]), UNCHANGED <<tree, options>>,
           read' = [read EXCEPT ![g] = @ + 1],
           NEW last,
           last = IF content[g][read[g] + 1].max # None THEN content[g][read[g] + 1].max ELSE score,
           NEW f \in ScoreFiles(n)', ScoreFiles(n)' = {f}
    PROVE  LastOf(f, last)'
<1> DEFINE Goal == \E j \in 1 .. read'[f] : /\ content[f][j].max = last /\ last # None
                                            /\ \A i \in j + 1 .. read'[f] : content[f][i].max = None
<1>1. /\ g \in Files /\ read \in [Files -> Nat] /\ content \in [Files -> Seq(Line)]
      /\ SourcesOf(n) \subseteq Files /\ \A h \in Files : read[h] <= Len(content[h])
  BY DEF TypeOK, World, SourcesOf
<1>2. read'[g] = read[g] + 1 /\ \A h \in Files \ {g} : read'[h] = read[h]
  BY <1>1
<1>3. content' = content /\ SourcesOf(n)' = SourcesOf(n)
  BY SameWorld
<1>4. \A h \in SourcesOf(n) :
         /\ h \in ScoreFiles(n) <=> \E j \in 1 .. read[h] : content[h][j].max # None
         /\ h \in ScoreFiles(n)' <=> \E j \in 1 .. read'[h] : content[h][j].max # None
  <2> TAKE h \in SourcesOf(n)
  <2>1. content[h] \in Seq(Line) /\ read[h] \in 0 .. Len(content[h]) /\ read'[h] \in 0 .. Len(content[h])
    BY <1>1, <1>2
  <2>2. /\ Range(SubSeq(content[h], 1, read[h])) = {content[h][j] : j \in 1 .. read[h]}
        /\ Range(SubSeq(content[h], 1, read'[h])) = {content[h][j] : j \in 1 .. read'[h]}
    BY <2>1, LinesRead
  <2>3. Range(ReadLines(h)) = {content[h][j] : j \in 1 .. read[h]}
    BY <2>2 DEF ReadLines
  <2>4. Range(ReadLines(h))' = {content[h][j] : j \in 1 .. read'[h]}
    BY <2>2, <1>3 DEF ReadLines
  <2> QED
    BY <2>3, <2>4, <1>3 DEF ScoreFiles
<1>5. \A h \in SourcesOf(n) : 1 .. read[h] \subseteq 1 .. read'[h]
  BY <1>1, <1>2
<1>6. f \in SourcesOf(n) /\ \A h \in ScoreFiles(n) : h = f
  <2>1. f \in SourcesOf(n) /\ ScoreFiles(n) \subseteq SourcesOf(n)
    BY <1>3 DEF ScoreFiles
  <2>2. ScoreFiles(n) \subseteq ScoreFiles(n)'
    BY <2>1, <1>4, <1>5
  <2> QED
    BY <2>1, <2>2
<1> DEFINE v == content[g][read[g] + 1].max
<1>7. ASSUME f = g, v # None PROVE Goal
  <2>1. read[g] + 1 \in 1 .. read'[g] /\ read[g] + 1 + 1 .. read'[g] = {}
    BY <1>1, <1>2
  <2> QED
    BY <2>1, <1>7
<1>8. ASSUME v = None PROVE Goal
  <2>1. f \in ScoreFiles(n)
    <3>1. PICK j \in 1 .. read'[f] : content[f][j].max # None
      BY <1>4, <1>6
    <3>2. j \in 1 .. read[f] \/ (f = g /\ j = read[g] + 1)
      BY <1>1, <1>2, <1>6
    <3>3. j \in 1 .. read[f]
      BY <3>1, <3>2, <1>8
    <3> QED
      BY <3>1, <3>3, <1>4, <1>6
  <2>2. LastOf(f, score)
    BY <2>1, <1>6
  <2>3. PICK j \in 1 .. read[f] : /\ content[f][j].max = score /\ score # None
                                  /\ \A i \in j + 1 .. read[f] : content[f][i].max = None
    BY <2>2 DEF LastOf
  <2>4. \A i \in j + 1 .. read'[f] : i \in j + 1 .. read[f] \/ (f = g /\ i = read[g] + 1)
    BY <1>1, <1>2, <1>6
  <2>5. \A i \in j + 1 .. read'[f] : content[f][i].max = None
    BY <2>3, <2>4, <1>8
  <2>6. j \in 1 .. read'[f]
    BY <1>5, <1>6
  <2> QED
    BY <2>3, <2>5, <2>6, <1>8
<1>9. ASSUME f # g, v # None PROVE Goal
  <2>1. read[g] + 1 \in 1 .. read'[g]
    BY <1>1, <1>2
  <2>2. g \in ScoreFiles(n)'
    BY <2>1, <1>4, <1>9
  <2> QED
    BY <2>2, <1>9
<1>10. Goal
  BY <1>7, <1>8, <1>9
<1> QED
  BY <1>3, <1>10 DEF LastOf

LEMMA ReadLineKeeps ==
    ASSUME IInv, ReadLine
    PROVE  IInv'
<1>1. /\ pc = "read" /\ pc' = "read" /\ read[file] < Len(content[file])
      /\ read' = [read EXCEPT ![file] = @ + 1]
      /\ UNCHANGED <<tree, options, todo, file, rdir, found, registered, report>>
  BY DEF ReadLine
<1>2. PICK g \in Files : g = file /\ g \notin todo /\ Accepted(g) /\ GetRunName(g) \in Names
  BY <1>1 DEF IInv, Registered
<1>3. /\ World' /\ UNCHANGED <<place, content, described>>
      /\ \A n : SourcesOf(n)' = SourcesOf(n)
      /\ \A f \in Files : /\ Accepted(f)' = Accepted(f) /\ GetRunName(f)' = GetRunName(f)
                          /\ GetPrefix(f)' = GetPrefix(f)
  BY <1>1, SameWorld DEF IInv
<1>4. PICK name \in Names : name = GetRunName(g)
  BY <1>2
<1>5. PICK r \in Row : r = _results[name]
  BY DEF IInv, Registered
<1>6. /\ read \in [Files -> Nat] /\ \A f \in Files : read[f] <= Len(content[f])
      /\ content \in [Files -> Seq(Line)] /\ read[g] + 1 \in 1 .. Len(content[g])
  <2>1. read \in [Files -> Nat] /\ (\A f \in Files : read[f] <= Len(content[f]))
        /\ content \in [Files -> Seq(Line)]
    BY DEF IInv, TypeOK, World
  <2> QED
    BY <2>1, <1>1, <1>2
<1>7. PICK ln \in Line : ln = content[g][read[g] + 1]
  BY <1>6
<1>8. /\ FromLine(r, ln) \in Row
      /\ FromLine(r, ln).max_j = (IF ln.max # None THEN ln.max ELSE r.max_j)
      /\ FromLine(r, ln).crit_j = (IF ln.crit # None THEN ln.crit ELSE r.crit_j)
      /\ FromLine(r, ln).max_gc_y = (IF ln.young > r.max_gc_y THEN ln.young ELSE r.max_gc_y)
      /\ FromLine(r, ln).max_gc_f = (IF ln.full > r.max_gc_f THEN ln.full ELSE r.max_gc_f)
      /\ FromLine(r, ln).prefix = r.prefix /\ FromLine(r, ln).filename = r.filename
      /\ FromLine(r, ln).files = r.files
  <2>1. /\ ln.max \in Nat \union {None} /\ ln.crit \in Nat \union {None}
        /\ ln.young \in Nat \union {None} /\ ln.full \in Nat \union {None}
    BY DEF Line, Score
  <2>2. r.max_j \in Nat /\ r.crit_j \in Nat /\ r.max_gc_y \in Nat /\ r.max_gc_f \in Nat
    BY DEF Row
  <2>3. PICK m \in Nat : m = IF ln.max # None THEN ln.max ELSE r.max_j
    BY <2>1, <2>2
  <2>4. PICK c \in Nat : c = IF ln.crit # None THEN ln.crit ELSE r.crit_j
    BY <2>1, <2>2
  <2>5. PICK y \in Nat : y = IF ln.young > r.max_gc_y THEN ln.young ELSE r.max_gc_y
    BY <2>1, <2>2, Constants
  <2>6. PICK f \in Nat : f = IF ln.full > r.max_gc_f THEN ln.full ELSE r.max_gc_f
    BY <2>1, <2>2, Constants
  <2>7. PICK q : q = FromLine(r, ln)
    OBVIOUS
  <2>8. q = [r EXCEPT !.max_j = m, !.crit_j = c, !.max_gc_y = y, !.max_gc_f = f]
    BY <2>3, <2>4, <2>5, <2>6, <2>7 DEF FromLine
  <2>9. /\ q \in Row /\ q.max_j = m /\ q.crit_j = c /\ q.max_gc_y = y /\ q.max_gc_f = f
        /\ q.prefix = r.prefix /\ q.filename = r.filename /\ q.files = r.files
    BY <2>8 DEF Row
  <2> QED
    BY <2>3, <2>4, <2>5, <2>6, <2>7, <2>9
<1>9. /\ _results' = [_results EXCEPT ![name] = FromLine(r, ln)]
      /\ _results \in [Names -> Row]
  BY <1>2, <1>4, <1>5, <1>7 DEF ReadLine, IInv, Registered
<1>10. PICK q \in Row : q = FromLine(r, ln)
  BY <1>8
<1>11. /\ Names' = Names /\ _results' \in [Names -> Row] /\ _results'[name] = q
       /\ \A n \in Names \ {name} : _results'[n] = _results[n]
       /\ \A n \in Names : /\ _results'[n].prefix = _results[n].prefix
                           /\ _results'[n].filename = _results[n].filename
                           /\ _results'[n].files = _results[n].files
  <2>1. _results' = [_results EXCEPT ![name] = q]
    BY <1>9, <1>10
  <2>2. Names' = Names /\ _results' \in [Names -> Row]
    BY <2>1, <1>9 DEF Names
  <2>3. _results'[name] = q /\ \A n \in Names \ {name} : _results'[n] = _results[n]
    BY <2>1, <1>9
  <2> QED
    BY <2>2, <2>3, <1>5, <1>8, <1>10
<1>12. Tables' /\ UNCHANGED <<rest, row, table>> /\ rest' = {}
       /\ \A t \in {"txt", "xlsx"} : Range(table'[t]) = {}
  BY <1>1, NoTableYet DEF Walking
<1>13. TypeOK'
  <2>1. ASSUME NEW n \in Names
        PROVE  /\ _results'[n].prefix \in Prefix /\ _results'[n].files \in [Kind -> Prefix]
               /\ \A k \in {"max_j", "crit_j", "max_gc_y", "max_gc_f"} : _results'[n][k] \in Nat
    <3>1. _results'[n] \in Row
      BY <1>11
    <3> QED
      BY <3>1 DEF Row
  <2>2. DOMAIN _results' = Names /\ DOMAIN _results = Names
    BY <1>11 DEF Names
  <2>3. read' \in [Files -> Nat] /\ \A f \in Files : read'[f] <= Len(content'[f])
    BY <1>1, <1>2, <1>3, <1>6
  <2> QED
    BY <1>1, <1>2, <1>3, <1>12, <2>1, <2>2, <2>3 DEF IInv, TypeOK
<1>14. Registered'
  <2>1. \A n \in Names : \E f \in SourcesOf(n) :
           _results'[n].filename = f /\ _results'[n].prefix = GetPrefix(f)
    BY <1>11 DEF IInv, Registered
  <2>2. \A n \in Names : \E f \in SourcesOf(n)' :
           _results'[n].filename = f /\ _results'[n].prefix = GetPrefix(f)'
    BY <2>1, <1>3 DEF SourcesOf
  <2>3. \A f \in Files \ todo' : Accepted(f)' => GetRunName(f)' \in Names'
    BY <1>1, <1>3, <1>11 DEF IInv, Registered
  <2>4. \A f \in Files : read'[f] > 0 => GetRunName(f)' \in Names'
    BY <1>1, <1>2, <1>3, <1>6, <1>11 DEF IInv, Registered
  <2>5. g \in Files \ todo' /\ g = file' /\ Accepted(g)' /\ GetRunName(g)' \in Names'
    BY <1>1, <1>2, <1>3, <1>11
  <2>6. Names' \subseteq Nat /\ IsFiniteSet(Names') /\ registered' \in Seq(Nat)
    BY <1>1, <1>11 DEF IInv, Registered
  <2> QED
    BY <1>1, <1>11, <2>2, <2>3, <2>4, <2>5, <2>6 DEF Registered, Walking
<1>15. Climbing'
  BY <1>1 DEF Climbing
<1>16. DescribedByNearest'
  <2>1. DOMAIN _results' = Names /\ DOMAIN _results = Names
    BY <1>11 DEF Names
  <2> QED
    BY <2>1, <1>3, <1>11 DEF IInv, DescribedByNearest
<1>17. ASSUME NEW n \in Names
       PROVE  Scored(n)'
  <2>1. CASE n # name
    <3>1. \A f \in SourcesOf(n) : read'[f] = read[f]
      BY <2>1, <1>1, <1>2, <1>4, <1>6 DEF SourcesOf
    <3> QED
      BY <2>1, <3>1, <1>1, <1>11, SameRow DEF IInv
  <2>2. CASE n = name
    <3>1. /\ TypeOK /\ World /\ g \in SourcesOf(n) /\ read' = [read EXCEPT ![g] = @ + 1]
          /\ read[g] < Len(content[g]) /\ Scored(n) /\ SourcesOf(n) = SourcesOf(n)'
          /\ content' = content
      BY <2>2, <1>1, <1>2, <1>3, <1>4 DEF IInv, SourcesOf
    <3>2. /\ r.max_j \in Nat /\ r.crit_j \in Nat /\ r.max_gc_y \in Nat /\ r.max_gc_f \in Nat
          /\ r = _results[n] /\ q = _results'[n]
      BY <2>2, <1>5, <1>11 DEF Row
    <3>3. \A f \in Files : \A j \in 1 .. Len(content[f]) :
             /\ content[f][j].young \in Nat \union {None} /\ content[f][j].full \in Nat \union {None}
      BY <1>6, LineIs
    <3>4. Longest(n, r.max_gc_y, "young") /\ Longest(n, r.max_gc_f, "full")
          /\ OneOf(n, r.max_j, "max") /\ OneOf(n, r.crit_j, "crit")
          /\ \A f \in ScoreFiles(n) : ScoreFiles(n) = {f} => LastOf(f, r.max_j)
      BY <3>1, <3>2 DEF Scored
    <3> DEFINE line == content[g][read[g] + 1]
    <3>5. /\ q.max_j = (IF line.max # None THEN line.max ELSE r.max_j)
          /\ q.crit_j = (IF line.crit # None THEN line.crit ELSE r.crit_j)
          /\ q.max_gc_y = (IF line.young > r.max_gc_y THEN line.young ELSE r.max_gc_y)
          /\ q.max_gc_f = (IF line.full > r.max_gc_f THEN line.full ELSE r.max_gc_f)
      BY <1>7, <1>8, <1>10
    <3>6. UNCHANGED <<tree, options>>
      BY <1>1
    <3>7. /\ \A f \in Files : \A j \in 1 .. Len(content[f]) : content[f][j]["young"] \in Nat \union {None}
          /\ \A f \in Files : \A j \in 1 .. Len(content[f]) : content[f][j]["full"] \in Nat \union {None}
      BY <3>3
    <3> HIDE DEF line
    <3>8. Longest(n, q.max_gc_y, "young")'
      BY <3>1, <3>2, <3>4, <3>5, <3>6, <3>7, LongestKeeps DEF line
    <3>9. Longest(n, q.max_gc_f, "full")'
      BY <3>1, <3>2, <3>4, <3>5, <3>6, <3>7, LongestKeeps DEF line
    <3>10. OneOf(n, q.max_j, "max")'
      BY <3>1, <3>2, <3>4, <3>5, <3>6, OneOfKeeps DEF line
    <3>11. OneOf(n, q.crit_j, "crit")'
      BY <3>1, <3>2, <3>4, <3>5, <3>6, OneOfKeeps DEF line
    <3>12. ASSUME NEW f \in ScoreFiles(n)', ScoreFiles(n)' = {f}
          PROVE  LastOf(f, q.max_j)'
      BY <3>1, <3>2, <3>4, <3>12, <3>5, <3>6, LastKeeps DEF line
    <3>13. Longest(n, _results[n].max_gc_y, "young")' /\ Longest(n, _results[n].max_gc_f, "full")'
      BY <3>2, <3>8, <3>9 DEF Longest
    <3>14. OneOf(n, _results[n].max_j, "max")' /\ OneOf(n, _results[n].crit_j, "crit")'
      BY <3>2, <3>10, <3>11 DEF OneOf
    <3>15. (\A f \in ScoreFiles(n) : ScoreFiles(n) = {f} => LastOf(f, _results[n].max_j))'
      BY <3>2, <3>12 DEF LastOf
    <3> QED
      BY <3>13, <3>14, <3>15 DEF Scored
  <2> QED
    BY <2>1, <2>2
<1> QED
  BY <1>3, <1>11, <1>12, <1>13, <1>14, <1>15, <1>16, <1>17 DEF IInv

LEMMA CloseKeeps ==
    ASSUME IInv, Close
    PROVE  IInv'
<1>1. /\ pc = "read" /\ pc' = "walk"
      /\ UNCHANGED <<tree, options, todo, file, rdir, found, _results, registered, read, report>>
  BY DEF Close
<1>2. World' /\ DescribedByNearest' /\ (\A n \in Names' : Scored(n)') /\ content' = content
  BY <1>1, SameRows
<1>3. Tables' /\ UNCHANGED <<rest, row, table>>
  BY <1>1, NoTableYet DEF Walking
<1>4. TypeOK'
  BY <1>1, <1>2, <1>3 DEF IInv, TypeOK
<1>5. \A f \in Files \ todo' : Accepted(f) => GetRunName(f) \in Names
  BY <1>1 DEF IInv, Registered
<1>6. Registered'
  BY <1>1, <1>5, SameRegister DEF Walking
<1>7. Climbing'
  BY <1>1 DEF Climbing
<1> QED
  BY <1>2, <1>3, <1>4, <1>6, <1>7 DEF IInv

-----------------------------------------------------------------------------
(* Steps of the reports *)

\* Nothing of the runs changes when their reports are written.
LEMMA Reporting ==
    ASSUME IInv, UNCHANGED <<tree, options, grep>>, pc \notin {"climb", "read"},
           pc' \in {"txt", "xlsx", "end"}, todo = {}
    PROVE  /\ World' /\ Registered' /\ Climbing' /\ DescribedByNearest'
           /\ \A n \in Names' : Scored(n)'
           /\ ShownRuns' = ShownRuns /\ Names' = Names /\ \A n : Key(n)' = Key(n) /\ Shown(n)' = Shown(n)
           /\ \A m, n : Before(m, n)' = Before(m, n)
           /\ UNCHANGED <<todo, file, rdir, found, _results, registered, read>>
           /\ UNCHANGED <<place, content, _top>>
<1>1. UNCHANGED <<todo, file, rdir, found, _results, registered, read>>
  BY DEF grep
<1>2. /\ World' /\ DescribedByNearest' /\ (\A n \in Names' : Scored(n)')
      /\ UNCHANGED <<place, content, described, _prefix_filter, _show_zeros, _sort, _top>>
      /\ ShownRuns' = ShownRuns /\ Names' = Names
  BY <1>1, SameRows
<1>3. \A n : Key(n)' = Key(n) /\ Shown(n)' = Shown(n)
  BY <1>1, <1>2 DEF Key, Shown
<1>4. Registered'
  <2>1. \A f \in Files \ todo' : Accepted(f) => GetRunName(f) \in Names
    BY <1>1 DEF IInv, Registered
  <2> QED
    BY <1>1, <2>1, SameRegister
<1>5. Climbing'
  BY DEF Climbing
<1>6. \A m, n : Before(m, n)' = Before(m, n)
  BY <1>1, <1>3 DEF Before, Earlier
<1> QED
  BY <1>1, <1>2, <1>3, <1>4, <1>5, <1>6

LEMMA KeyIs ==
    ASSUME IInv, NEW n \in Names
    PROVE  Key(n) \in Nat /\ n \in Nat
<1>1. /\ _results[n] \in Row /\ n \in Nat /\ _sort \in {"name", "prefix", "max", "crit"}
  BY DEF IInv, World, Registered
<1>2. PICK r \in Row : r = _results[n]
  BY <1>1
<1>3. PrefixOrder[r.prefix] \in Nat /\ r.max_j \in Nat /\ r.crit_j \in Nat
  BY Constants DEF Row
<1> QED
  BY <1>1, <1>2, <1>3 DEF Key

\* The type of a state in which a report is written.
LEMMA TypeOfReports ==
    ASSUME IInv, UNCHANGED <<todo, rdir, found, _results, registered, read, place, content>>,
           pc' \in {"txt", "xlsx", "end"}, rest' \subseteq Names, row' \in Nat,
           \A t \in {"txt", "xlsx"} : Range(table'[t]) \subseteq Names
    PROVE  TypeOK'
BY DEF IInv, TypeOK, Names

\* A table that nothing is written to.
LEMMA Empty ==
    ASSUME World', NEW t, table'[t] = <<>>, rest' = Names', NEW first \in Nat, row' = first
    PROVE  Filling(t, first)'
<1>1. Listed(t)' = {} /\ Len(table'[t]) = 0
  BY DEF Listed, Range
<1>2. Cardinality({}) = 0 /\ ShownRuns' \subseteq Names'
  BY FS_EmptySet DEF ShownRuns
<1>3. _top' > 0 => 0 <= _top' /\ 0 < _top'
  BY Constants DEF World
<1>4. Best(t)'
  BY <1>1, <1>2, <1>3 DEF Best
<1> QED
  BY <1>1, <1>2, <1>3, <1>4 DEF Filling

LEMMA SameTable ==
    ASSUME NEW t, table'[t] = table[t], ShownRuns' = ShownRuns, \A n : Key(n)' = Key(n),
           _top' = _top, Names' = Names, \A m, n : Before(m, n)' = Before(m, n), Filled(t)
    PROVE  Filled(t)'
<1>1. Listed(t)' = Listed(t)
  BY DEF Listed
<1>2. OnlyFirst(t) => OnlyFirst(t)'
  BY <1>1 DEF OnlyFirst
<1> QED
  BY <1>1, <1>2 DEF Filled, Best

LEMMA WalkedKeeps ==
    ASSUME IInv, Walked
    PROVE  IInv'
<1>1. /\ pc = "walk" /\ todo = {} /\ pc' = "txt" /\ rest' = Names /\ row' = 1
      /\ UNCHANGED <<tree, options, grep, table>>
  BY DEF Walked, Names
<1>2. /\ World' /\ Registered' /\ Climbing' /\ DescribedByNearest' /\ (\A n \in Names' : Scored(n)')
      /\ ShownRuns' = ShownRuns /\ Names' = Names
      /\ UNCHANGED <<todo, file, rdir, found, _results, registered, read, place, content>>
  BY <1>1, Reporting
<1>3. table'["txt"] = <<>> /\ table'["xlsx"] = <<>> /\ table' \in [{"txt", "xlsx"} -> Seq(Nat)]
  BY <1>1 DEF IInv, Tables, Walking
<1>4. TypeOK'
  <2>1. \A t \in {"txt", "xlsx"} : Range(table'[t]) \subseteq Names
    BY <1>3 DEF Range
  <2> QED
    BY <1>1, <1>2, <2>1, TypeOfReports
<1>5. Filling("txt", 1)'
  BY <1>1, <1>2, <1>3, Empty
<1>6. Tables'
  BY <1>1, <1>3, <1>5 DEF Tables, Walking
<1> QED
  BY <1>2, <1>4, <1>6 DEF IInv

LEMMA TableDoneKeeps ==
    ASSUME IInv, TableDone
    PROVE  IInv'
<1>1. /\ pc \in {"txt", "xlsx"} /\ rest = {}
      /\ IF pc = "txt" THEN pc' = "xlsx" /\ rest' = Names /\ row' = 2
                       ELSE pc' = "end" /\ rest' = rest /\ row' = row
      /\ UNCHANGED <<tree, options, grep, table>>
  BY DEF TableDone, Names
<1>2. todo = {}
  BY <1>1 DEF IInv, Registered, Walking
<1>3. /\ World' /\ Registered' /\ Climbing' /\ DescribedByNearest' /\ (\A n \in Names' : Scored(n)')
      /\ ShownRuns' = ShownRuns /\ Names' = Names /\ \A n : Key(n)' = Key(n)
      /\ \A m, n : Before(m, n)' = Before(m, n)
      /\ UNCHANGED <<todo, file, rdir, found, _results, registered, read, place, content, _top>>
  BY <1>1, <1>2, Reporting
<1>4. TypeOK'
  <2>1. \A t \in {"txt", "xlsx"} : Range(table'[t]) \subseteq Names
    BY <1>1 DEF IInv, TypeOK, Names
  <2>2. rest' \subseteq Names /\ row' \in Nat
    BY <1>1 DEF IInv, TypeOK, Names
  <2> QED
    BY <1>1, <1>3, <2>1, <2>2, TypeOfReports
<1>5. CASE pc = "txt"
  <2>1. Filled("txt") /\ table["xlsx"] = <<>>
    BY <1>1, <1>5 DEF IInv, Tables, Filling, Filled
  <2>2. Filled("txt")'
    BY <2>1, <1>1, <1>3, SameTable
  <2>3. Filling("xlsx", 2)'
    BY <2>1, <1>1, <1>3, <1>5, Empty
  <2>4. Tables'
    BY <2>2, <2>3, <1>1, <1>5 DEF IInv, Tables, Walking
  <2> QED
    BY <2>4, <1>3, <1>4 DEF IInv
<1>6. CASE pc = "xlsx"
  <2>1. Filled("txt") /\ Filled("xlsx")
    BY <1>1, <1>6 DEF IInv, Tables, Filling, Filled
  <2>2. Filled("txt")' /\ Filled("xlsx")'
    BY <2>1, <1>1, <1>3, SameTable
  <2>3. Tables'
    BY <2>2, <1>1, <1>6 DEF IInv, Tables, Walking
  <2> QED
    BY <2>3, <1>3, <1>4 DEF IInv
<1> QED
  BY <1>1, <1>5, <1>6

\* A row is written below the rows of better runs, or left out, and the table that
\* has enough is done.
LEMMA RowFills ==
    ASSUME IInv, NEW t \in {"txt", "xlsx"}, pc = t,
           NEW first, first = IF t = "txt" THEN 1 ELSE 2, Filling(t, first),
           NEW n \in rest, \A m \in rest \ {n} : Before(n, m),
           table' = IF Shown(n) THEN [table EXCEPT ![t] = Append(@, n)] ELSE table,
           row' = CountRow(n), rest' = IF PastTop(row') THEN {} ELSE rest \ {n},
           ShownRuns' = ShownRuns, \A m : Key(m)' = Key(m), _top' = _top,
           Names' = Names, \A m, x : Before(m, x)' = Before(m, x)
    PROVE  /\ Filling(t, first)'
           /\ table' \in [{"txt", "xlsx"} -> Seq(Nat)]
           /\ \A s \in {"txt", "xlsx"} : s # t => table'[s] = table[s]
           /\ Range(table'[t]) \subseteq Names
<1>1. /\ table \in [{"txt", "xlsx"} -> Seq(Nat)] /\ _top \in Nat \union {None} /\ None = -1
      /\ rest \subseteq Names /\ Names \subseteq Nat /\ IsFiniteSet(Names) /\ n \in Nat
  BY Constants DEF IInv, Tables, World, TypeOK, Registered, Names
<1>2. PICK l \in Seq(Nat) : l = table[t]
  BY <1>1
<1>3. Len(l) \in Nat /\ Listed(t) = Range(l) /\ row = first + Len(l) /\ first \in {1, 2}
  BY <1>2 DEF Filling, Listed
<1>4. /\ Listed(t) \subseteq ShownRuns /\ Cardinality(Listed(t)) = Len(l)
      /\ \A m \in Listed(t), x \in ShownRuns \ Listed(t) : Key(m) >= Key(x)
      /\ Listed(t) \intersect rest = {}
      /\ ShownRuns \ Listed(t) \subseteq rest /\ (_top > 0 => Len(l) < _top)
  BY <1>2 DEF Filling, Best
<1>5. ASSUME NEW r
      PROVE  PastTop(r) <=> _top # None /\ r > _top + first - 1
  BY <1>1 DEF PastTop
<1>6. ASSUME _top = 0
      PROVE  /\ rest' = {} /\ \A m \in Names \ {n} : Before(n, m)
             /\ Listed(t)' = {n} \intersect ShownRuns => OnlyFirst(t)'
  <2>1. rest = Names /\ Listed(t) = {}
    BY <1>6 DEF Filling
  <2>2. row' >= row /\ row \in Nat /\ row' \in Nat
    BY <1>3 DEF CountRow
  <2>3. row' > first - 1
    BY <2>2, <1>3
  <2>4. PastTop(row')
    BY <2>3, <1>1, <1>3, <1>5, <1>6
  <2> QED
    BY <2>1, <2>4, <1>1 DEF OnlyFirst
<1>7. CASE Shown(n)
  <2>1. table' = [table EXCEPT ![t] = Append(@, n)] /\ row' = first + Len(l) + 1
    BY <1>3, <1>7 DEF CountRow
  <2>2. PICK k \in Seq(Nat) : k = Append(l, n)
    <3>1. Append(l, n) \in Seq(Nat)
      BY <1>1, <1>2
    <3> QED
      BY <3>1
  <2>3. /\ table' \in [{"txt", "xlsx"} -> Seq(Nat)] /\ table'[t] = k
        /\ \A s \in {"txt", "xlsx"} : s # t => table'[s] = table[s]
    BY <2>1, <2>2, <1>1, <1>2
  <2>4. /\ Len(k) = Len(l) + 1 /\ k[Len(l) + 1] = n /\ \A i \in 1 .. Len(l) : k[i] = l[i]
        /\ DOMAIN k = 1 .. Len(l) + 1 /\ DOMAIN l = 1 .. Len(l)
    BY <2>2, <1>1, <1>3
  <2>5. Range(k) = Range(l) \union {n}
    <3>1. Range(k) \subseteq Range(l) \union {n}
      <4>1. ASSUME NEW i \in 1 .. Len(l) + 1
            PROVE  k[i] = n \/ \E j \in 1 .. Len(l) : k[i] = l[j]
        <5>1. i = Len(l) + 1 \/ i \in 1 .. Len(l)
          BY <1>3
        <5> QED
          BY <5>1, <2>4
      <4>2. ASSUME NEW x \in Range(k) PROVE x \in Range(l) \union {n}
        <5>1. PICK i \in 1 .. Len(l) + 1 : x = k[i]
          BY <2>4 DEF Range
        <5>2. x = n \/ \E j \in DOMAIN l : x = l[j]
          BY <4>1, <5>1, <2>4
        <5> QED
          BY <5>2 DEF Range
      <4> QED
        BY <4>2
    <3>2. Range(l) \subseteq Range(k)
      BY <2>4, <1>3 DEF Range
    <3>3. n \in Range(k)
      BY <2>4, <1>3 DEF Range
    <3> QED
      BY <3>1, <3>2, <3>3
  <2>6. Listed(t)' = Listed(t) \union {n} /\ n \notin Listed(t) /\ n \in ShownRuns
    BY <2>3, <2>5, <1>1, <1>3, <1>4, <1>7 DEF Listed, ShownRuns
  <2>7. Cardinality(Listed(t)') = Len(k)
    <3>1. IsFiniteSet(Listed(t))
      BY <1>1, <1>4, FS_Subset DEF ShownRuns
    <3>2. Cardinality(Listed(t) \union {n}) = Cardinality(Listed(t)) + 1
      BY <3>1, <2>6, FS_AddElement
    <3> QED
      BY <3>2, <2>4, <2>6, <1>4
  <2>8. ASSUME NEW m \in Listed(t)', NEW x \in ShownRuns \ Listed(t)'
        PROVE  Key(m) >= Key(x)
    <3>1. CASE m \in Listed(t)
      BY <3>1, <2>6, <1>4
    <3>2. CASE m = n
      <4>1. x \in rest \ {n} /\ x \in Names
        BY <2>6, <1>1, <1>4
      <4>2. Before(n, x) /\ Key(n) \in Nat /\ Key(x) \in Nat
        BY <4>1, <1>1, KeyIs
      <4> QED
        BY <3>2, <4>2 DEF Before
    <3> QED
      BY <3>1, <3>2, <2>6
  <2>9. Listed(t)' \subseteq ShownRuns' /\ (_top' > 0 => Len(k) <= _top')
    BY <2>4, <2>6, <1>1, <1>3, <1>4
  <2>10. Best(t)'
    BY <2>3, <2>7, <2>8, <2>9 DEF Best
  <2>11. ASSUME rest' # {}
         PROVE  ShownRuns \ Listed(t)' \subseteq rest' /\ (_top > 0 => Len(k) < _top)
    <3>1. ~ PastTop(row') /\ rest' = rest \ {n}
      BY <2>11
    <3>2. _top = None \/ ~ (first + Len(l) + 1 > _top + first - 1)
      BY <3>1, <2>1, <1>5
    <3> QED
      BY <3>1, <3>2, <2>4, <2>6, <1>1, <1>3, <1>4
  <2>12. ASSUME rest' = {}
         PROVE  ShownRuns \subseteq Listed(t)' \/ (_top # None /\ Len(k) >= _top)
    <3>1. CASE PastTop(row')
      <4>1. _top # None /\ first + Len(l) + 1 > _top + first - 1
        BY <3>1, <2>1, <1>5
      <4> QED
        BY <4>1, <2>4, <1>1, <1>3
    <3>2. CASE ~ PastTop(row')
      BY <3>2, <2>6, <2>12, <1>4
    <3> QED
      BY <3>1, <3>2
  <2>13. Listed(t)' \intersect rest' = {}
    BY <2>6, <1>4
  <2>14. row' = first + Len(k)
    BY <2>1, <2>4, <1>3
  <2>15. Filling(t, first)'
    <3>1. _top = 0 => rest' = {} /\ OnlyFirst(t)'
      <4>1. _top = 0 => Listed(t) = {}
        BY DEF Filling
      <4> QED BY <4>1, <2>6, <1>6
    <3> QED BY <3>1, <2>3, <2>10, <2>11, <2>12, <2>13, <2>14 DEF Filling
  <2> QED
    BY <2>3, <2>5, <2>15, <1>1, <1>3, <1>4 DEF ShownRuns
<1>8. CASE ~ Shown(n)
  <2>1. table' = table /\ row' = row /\ n \notin ShownRuns
    BY <1>8 DEF CountRow, ShownRuns
  <2>2. Listed(t)' = Listed(t)
    BY <2>1 DEF Listed
  <2>3. Best(t)'
    BY <2>1, <2>2 DEF Best, Filling
  <2>4. ASSUME rest' # {}
        PROVE  ShownRuns \ Listed(t) \subseteq rest'
    BY <2>1, <2>4, <1>4
  <2>5. ASSUME rest' = {}
        PROVE  ShownRuns \subseteq Listed(t) \/ (_top # None /\ Len(l) >= _top)
    <3>1. CASE PastTop(row')
      <4>1. _top # None /\ first + Len(l) > _top + first - 1
        BY <3>1, <2>1, <1>3, <1>5
      <4> QED
        BY <4>1, <1>1, <1>3
    <3>2. CASE ~ PastTop(row')
      BY <3>2, <2>1, <2>5, <1>4
    <3> QED
      BY <3>1, <3>2
  <2>6. Listed(t) \intersect rest' = {}
    BY <1>4
  <2>7. Filling(t, first)'
    <3>1. _top = 0 => rest' = {} /\ OnlyFirst(t)'
      <4>1. _top = 0 => Listed(t) = {}
        BY DEF Filling
      <4> QED BY <4>1, <2>1, <2>2, <1>6
    <3> QED BY <3>1, <2>1, <2>2, <2>3, <2>4, <2>5, <2>6, <1>2, <1>3, <1>4 DEF Filling
  <2> QED
    BY <2>1, <2>7, <1>1, <1>3, <1>4, <1>2 DEF ShownRuns
<1> QED
  BY <1>7, <1>8

LEMMA WriteRowKeeps ==
    ASSUME IInv, WriteRow
    PROVE  IInv'
<1>1. PICK t \in {"txt", "xlsx"} : t = pc /\ pc' = t
  BY DEF WriteRow
<1>2. PICK n \in rest : /\ \A m \in rest \ {n} : Before(n, m)
                        /\ table' = IF Shown(n) THEN [table EXCEPT ![t] = Append(@, n)] ELSE table
                        /\ row' = CountRow(n)
                        /\ rest' = IF PastTop(row') THEN {} ELSE rest \ {n}
  BY <1>1 DEF WriteRow
<1>3. UNCHANGED <<tree, options, grep>> /\ todo = {}
  BY <1>1 DEF WriteRow, IInv, Registered, Walking
<1>4. /\ World' /\ Registered' /\ Climbing' /\ DescribedByNearest' /\ (\A m \in Names' : Scored(m)')
      /\ ShownRuns' = ShownRuns /\ Names' = Names /\ \A m : Key(m)' = Key(m)
      /\ \A m, x : Before(m, x)' = Before(m, x)
      /\ UNCHANGED <<todo, file, rdir, found, _results, registered, read, place, content, _top>>
  BY <1>1, <1>3, Reporting
<1>5. PICK first : first = IF t = "txt" THEN 1 ELSE 2
  OBVIOUS
<1>6. Filling(t, first) /\ (t = "xlsx" => Filled("txt")) /\ (t = "txt" => table["xlsx"] = <<>>)
  BY <1>1, <1>5 DEF IInv, Tables
<1>7. /\ Filling(t, first)' /\ table' \in [{"txt", "xlsx"} -> Seq(Nat)]
      /\ \A s \in {"txt", "xlsx"} : s # t => table'[s] = table[s]
      /\ Range(table'[t]) \subseteq Names
  BY <1>1, <1>2, <1>4, <1>5, <1>6, RowFills
<1>8. TypeOK'
  <2>1. \A s \in {"txt", "xlsx"} : Range(table'[s]) \subseteq Names
    BY <1>7 DEF IInv, TypeOK, Names
  <2>2. rest' \subseteq Names /\ row' \in Nat
    BY <1>2 DEF IInv, TypeOK, Names, CountRow
  <2> QED
    BY <1>1, <1>4, <2>1, <2>2, TypeOfReports
<1>9. t = "xlsx" => Filled("txt")'
  BY <1>4, <1>6, <1>7, SameTable
<1>10. Tables'
  BY <1>1, <1>5, <1>6, <1>7, <1>9 DEF Tables, Walking
<1> QED
  BY <1>4, <1>8, <1>10 DEF IInv

-----------------------------------------------------------------------------
(* The invariant *)

LEMMA Initially ==
    ASSUME Init
    PROVE  IInv
<1>1. /\ place \in Placements /\ content \in [Files -> Contents] /\ described \in Descriptions
      /\ pc = "walk" /\ todo = Files /\ rdir = Root /\ found = [k \in Kind |-> Amnesiac]
      /\ _results = [n \in {} |-> 0] /\ registered = <<>> /\ rest = {} /\ row = 1
      /\ table = [t \in {"txt", "xlsx"} |-> <<>>] /\ read = [f \in Files |-> 0]
  BY DEF Init
<1>2. PICK o \in Options : /\ _show_zeros = o.zeros /\ _sort = o.sort /\ _top = o.top
  BY DEF Init
<1>3. World
  BY <1>1, <1>2, JbbAssumption DEF World
<1>4. Names = {} /\ Range(registered) = {} /\ Cardinality({}) = 0 /\ IsFiniteSet({})
  BY <1>1, FS_EmptySet DEF Names, Range
<1>5. _results \in [Names -> Row]
  BY <1>1, <1>4
<1>6. \A t \in {"txt", "xlsx"} : table[t] = <<>> /\ Range(table[t]) = {}
  BY <1>1 DEF Range
<1>7. TypeOK
  <2>1. found \in [Kind -> Prefix] /\ rdir \in Dirs /\ Len(registered) = 0
    BY <1>1, Constants
  <2>2. read \in [Files -> Nat] /\ \A f \in Files : read[f] <= Len(content[f])
    BY <1>1, <1>3 DEF World
  <2> QED
    BY <1>1, <1>4, <1>6, <2>1, <2>2 DEF TypeOK, Names
<1>8. Registered
  BY <1>1, <1>4, <1>5 DEF Registered, Walking
<1>9. Climbing
  BY <1>1 DEF Climbing
<1>10. DescribedByNearest
  BY <1>4 DEF DescribedByNearest, Names
<1>11. Tables
  BY <1>1, <1>6 DEF Tables, Walking
<1> QED
  BY <1>3, <1>4, <1>7, <1>8, <1>9, <1>10, <1>11 DEF IInv

LEMMA StutterKeeps ==
    ASSUME IInv, UNCHANGED vars
    PROVE  IInv'
<1>1. /\ UNCHANGED <<tree, options, pc, todo, file, rdir, found, _results, registered, read>>
      /\ UNCHANGED <<rest, row, table>>
  BY DEF vars, grep, report
<1>2. /\ World' /\ DescribedByNearest' /\ (\A n \in Names' : Scored(n)')
      /\ UNCHANGED <<place, content, described, _top, _sort, _show_zeros>>
      /\ ShownRuns' = ShownRuns /\ Names' = Names
  BY <1>1, SameRows
<1>3. TypeOK'
  BY <1>1, <1>2 DEF IInv, TypeOK
<1>4. Registered'
  <2>1. CASE pc \in {"climb", "read"}
    <3>1. PICK g \in Files \ todo : g = file /\ Accepted(g) /\ (pc = "climb" <=> GetRunName(g) \notin Names)
      BY <2>1 DEF IInv, Registered
    <3>2. \A f \in Files \ todo' : Accepted(f) => GetRunName(f) \in Names \/ (pc' = "climb" /\ f = g)
      BY <3>1, <1>1 DEF IInv, Registered
    <3> QED
      BY <1>1, <2>1, <3>1, <3>2, SameRegister DEF Walking
  <2>2. CASE pc \notin {"climb", "read"}
    <3>1. \A f \in Files \ todo' : Accepted(f) => GetRunName(f) \in Names
      BY <1>1, <2>2 DEF IInv, Registered
    <3>2. ~ Walking' => todo' = {}
      BY <1>1 DEF IInv, Registered, Walking
    <3> QED
      BY <1>1, <2>2, <3>1, <3>2, SameRegister
  <2> QED
    BY <2>1, <2>2
<1>5. Climbing'
  BY <1>1, <1>2 DEF IInv, Climbing
<1>6. Tables'
  <2>1. \A n : Key(n)' = Key(n)
    BY <1>1, <1>2 DEF Key
  <2>2. \A t \in {"txt", "xlsx"} : Listed(t)' = Listed(t)
    BY <1>1 DEF Listed
  <2>3. \A t \in {"txt", "xlsx"} : Best(t) => Best(t)'
    BY <2>1, <2>2, <1>1, <1>2 DEF Best
  <2>4. \A m, n : Before(m, n)' = Before(m, n)
    BY <2>1, <1>1 DEF Before, Earlier
  <2>5. \A t \in {"txt", "xlsx"} : OnlyFirst(t) => OnlyFirst(t)'
    BY <2>2, <2>4, <1>2 DEF OnlyFirst
  <2>6. \A t \in {"txt", "xlsx"} : Filled(t) => Filled(t)'
    BY <2>2, <2>3, <2>5, <1>1, <1>2 DEF Filled
  <2>7. \A t \in {"txt", "xlsx"}, first \in {1, 2} : Filling(t, first) => Filling(t, first)'
    BY <2>2, <2>3, <2>5, <1>1, <1>2 DEF Filling
  <2> QED
    BY <2>6, <2>7, <1>1 DEF IInv, Tables, Walking
<1> QED
  BY <1>2, <1>3, <1>4, <1>5, <1>6 DEF IInv

LEMMA Invariance ==
    Spec => []IInv
<1>1. IInv /\ [Next]_vars => IInv'
  BY SkipKeeps, GrepFileKeeps, ClimbKeeps, RegisterKeeps, ReadLineKeeps, CloseKeeps, WalkedKeeps,
     WriteRowKeeps, TableDoneKeeps, StutterKeeps DEF Next, Program, Terminated
<1> QED
  BY <1>1, Initially, PTL DEF Spec

-----------------------------------------------------------------------------
(* Theorems *)

\* TypeOK: every variable keeps its type; a run is registered once, no table lists
\* one that is not, and no file is read past its end, whatever the files hold.
THEOREM TypeCorrect == Spec => []TypeOK
<1>1. IInv => TypeOK
  BY DEF IInv
<1> QED
  BY <1>1, Invariance, PTL

\* DescribedByNearest: get_file_set (127) finds the nearest description between a
\* run's data and the working directory, in every tree of directories.
THEOREM NearestDescribes == Spec => []DescribedByNearest
<1>1. IInv => DescribedByNearest
  BY DEF IInv
<1> QED
  BY <1>1, Invariance, PTL

\* NoRunLost: every run that has an accepted file is there when the walk is over,
\* whichever files could not be read (225), under the prefix of one of its files.
THEOREM NothingIsLost == Spec => []NoRunLost
<1>1. IInv => NoRunLost
  <2> SUFFICES ASSUME IInv, pc \in {"txt", "xlsx", "end"}
               PROVE  /\ Names = {GetRunName(f) : f \in {g \in Files : Accepted(g)}}
                      /\ \A n \in Names : \E f \in SourcesOf(n) : _results[n].prefix = GetPrefix(f)
    BY DEF NoRunLost, Names
  <2>1. todo = {} /\ \A f \in Files : Accepted(f) => GetRunName(f) \in Names
    BY DEF IInv, Registered, Walking
  <2>2. \A n \in Names : \E f \in SourcesOf(n) : _results[n].prefix = GetPrefix(f)
    BY DEF IInv, Registered
  <2>3. \A n \in Names : \E f \in Files : Accepted(f) /\ GetRunName(f) = n
    BY <2>2 DEF SourcesOf
  <2> QED
    BY <2>1, <2>2, <2>3
<1> QED
  BY <1>1, Invariance, PTL

LEMMA ValuesAre ==
    ASSUME IInv, NEW n \in Names, NEW k, NEW x
    PROVE  /\ x \in Values(n, k) <=>
                 x # None /\ \E f \in SourcesOf(n) : \E j \in 1 .. read[f] : x = content[f][j][k]
           /\ \A f \in SourcesOf(n) :
                 f \in ScoreFiles(n) <=> \E j \in 1 .. read[f] : content[f][j].max # None
<1>1. \A f \in SourcesOf(n) : Range(ReadLines(f)) = {content[f][j] : j \in 1 .. read[f]}
  <2> TAKE f \in SourcesOf(n)
  <2>1. content[f] \in Seq(Line) /\ read[f] \in 0 .. Len(content[f])
    BY DEF IInv, TypeOK, World, SourcesOf
  <2> QED
    BY <2>1, LinesRead DEF ReadLines
<1>3. x \in Values(n, k) <=>
         x # None /\ \E f \in SourcesOf(n) : \E j \in 1 .. read[f] : x = content[f][j][k]
  <2>1. x \in Values(n, k) <=>
           x # None /\ \E f \in SourcesOf(n) : x \in {ln[k] : ln \in Range(ReadLines(f))}
    BY DEF Values
  <2>2. ASSUME NEW f \in SourcesOf(n)
        PROVE  x \in {ln[k] : ln \in Range(ReadLines(f))} <=> \E j \in 1 .. read[f] : x = content[f][j][k]
    BY <1>1
  <2> QED
    BY <2>1, <2>2
<1>4. \A f \in SourcesOf(n) :
         f \in ScoreFiles(n) <=> \E j \in 1 .. read[f] : content[f][j].max # None
  BY <1>1 DEF ScoreFiles
<1> QED
  BY <1>3, <1>4

\* The longest pause that was read is the greatest value.
LEMMA LongestIsMax ==
    ASSUME IInv, NEW n \in Names, NEW k, NEW pause \in Nat, Longest(n, pause, k),
           \A f \in Files : \A j \in 1 .. Len(content[f]) : content[f][j][k] \in Nat \union {None}
    PROVE  pause = Max(Values(n, k) \union {0})
<1> DEFINE S == Values(n, k) \union {0}
<1>1. \A f \in SourcesOf(n) : \A j \in 1 .. read[f] : content[f][j][k] \in Nat \union {None}
  BY DEF IInv, TypeOK, SourcesOf
<1>2. \A x \in S : x \in Nat /\ x <= pause
  <2>1. ASSUME NEW x \in Values(n, k)
        PROVE  x \in Nat /\ x <= pause
    BY <1>1, ValuesAre DEF Longest
  <2> QED
    BY <2>1
<1>3. pause \in S
  <2>1. CASE pause # 0
    <3>1. pause # None
      BY Constants
    <3> QED
      BY <3>1, <2>1, ValuesAre DEF Longest
  <2> QED
    BY <2>1
<1>4. S \in SUBSET Int
  BY <1>2
<1> HIDE DEF S
<1>5. Max(S) = pause
  BY <1>2, <1>3, <1>4, MaxIs
<1> QED
  BY <1>5 DEF S

\* RowIsItsRun: whatever the order of the files, and wherever reading them stops, a
\* row holds the longest pauses of its run's files and scores that one of them has,
\* the last one if a single file has scores (from_line, 63-70).
THEOREM RowsAreTheirRuns == Spec => []RowIsItsRun
<1>1. ASSUME IInv, NEW n \in Names
      PROVE  LET r == _results[n] IN
             /\ r.max_gc_y = Max(Values(n, "young") \union {0})
             /\ r.max_gc_f = Max(Values(n, "full") \union {0})
             /\ r.max_j \in Values(n, "max") \/ (r.max_j = 0 /\ Values(n, "max") = {})
             /\ r.crit_j \in Values(n, "crit") \/ (r.crit_j = 0 /\ Values(n, "crit") = {})
             /\ \A f \in ScoreFiles(n) : ScoreFiles(n) = {f} => r.max_j = LastMax(f)
  <2>1. PICK r \in Row : r = _results[n]
    BY <1>1 DEF IInv, Registered
  <2>2. /\ Longest(n, r.max_gc_y, "young") /\ Longest(n, r.max_gc_f, "full")
        /\ OneOf(n, r.max_j, "max") /\ OneOf(n, r.crit_j, "crit")
        /\ \A f \in ScoreFiles(n) : ScoreFiles(n) = {f} => LastOf(f, r.max_j)
    BY <1>1, <2>1 DEF IInv, Scored
  <2>3. /\ r.max_j \in Nat /\ r.crit_j \in Nat /\ r.max_gc_y \in Nat /\ r.max_gc_f \in Nat
        /\ r.max_j # None /\ r.crit_j # None
    BY Constants DEF Row
  <2>4. \A f \in Files : \A j \in 1 .. Len(content[f]) :
           /\ content[f][j].young \in Nat \union {None} /\ content[f][j].full \in Nat \union {None}
    BY <1>1, LineIs DEF IInv, World
  <2>5. r.max_gc_y = Max(Values(n, "young") \union {0}) /\ r.max_gc_f = Max(Values(n, "full") \union {0})
    BY <1>1, <2>2, <2>3, <2>4, LongestIsMax
  <2>6. \A k : \A s \in Nat : OneOf(n, s, k) => s \in Values(n, k) \/ (s = 0 /\ Values(n, k) = {})
    BY <1>1, ValuesAre, Constants DEF OneOf
  <2>7. ASSUME NEW f \in ScoreFiles(n), ScoreFiles(n) = {f}
        PROVE  r.max_j = LastMax(f)
    <3> DEFINE S == {i \in 1 .. read[f] : content[f][i].max # None}
    <3>1. PICK j \in 1 .. read[f] : /\ content[f][j].max = r.max_j /\ r.max_j # None
                                    /\ \A i \in j + 1 .. read[f] : content[f][i].max = None
      BY <2>2, <2>7 DEF LastOf
    <3>2. read[f] \in Nat
      BY <1>1 DEF IInv, TypeOK, ScoreFiles, SourcesOf
    <3>3. j \in S /\ S \in SUBSET Int /\ \A i \in S : i <= j
      BY <3>1, <3>2
    <3>4. Max(S) = j
      <4> HIDE DEF S
      <4> QED
        BY <3>3, MaxIs
    <3> QED
      BY <3>1, <3>4 DEF LastMax
  <2>8. /\ r.max_j \in Values(n, "max") \/ (r.max_j = 0 /\ Values(n, "max") = {})
        /\ r.crit_j \in Values(n, "crit") \/ (r.crit_j = 0 /\ Values(n, "crit") = {})
    BY <2>2, <2>3, <2>6
  <2> QED
    BY <2>1, <2>5, <2>7, <2>8
<1>2. IInv => RowIsItsRun
  BY <1>1 DEF RowIsItsRun, Names
<1> QED
  BY <1>2, Invariance, PTL

\* What is in a set, and not greater than any of it, is its minimum.
LEMMA MinIs ==
    ASSUME NEW S \in SUBSET Int, NEW x \in S, \A y \in S : x <= y
    PROVE  Min(S) = x
<1>1. \A z \in S : (\A y \in S : z <= y) => z = x
  OBVIOUS
<1> QED
  BY <1>1 DEF Min

\* TopRows: with -t N (246, 324) the text and the spreadsheet end up with the N best
\* of the runs that are shown, or with all of them, for every order and filter; with
\* -t 0 with the first run of the order, if it is shown.
THEOREM TopIsShown == Spec => []TopRows
<1>1. ASSUME IInv, pc = "end", NEW t \in {"txt", "xlsx"}
      PROVE  /\ Listed(t) \subseteq ShownRuns
             /\ _top = None => Listed(t) = ShownRuns
             /\ Len(table[t]) = Cardinality(Listed(t))
             /\ _top > 0 => Len(table[t]) = Min({_top, Cardinality(ShownRuns)})
             /\ _top = 0 /\ Names # {} => OnlyFirst(t)
             /\ \A m \in Listed(t), n \in ShownRuns \ Listed(t) : Key(m) >= Key(n)
  <2>1. /\ Listed(t) \subseteq ShownRuns /\ Cardinality(Listed(t)) = Len(table[t])
        /\ \A m \in Listed(t), n \in ShownRuns \ Listed(t) : Key(m) >= Key(n)
        /\ _top > 0 => Len(table[t]) <= _top
        /\ ShownRuns \subseteq Listed(t) \/ (_top # None /\ Len(table[t]) >= _top)
        /\ _top = 0 /\ Names # {} => OnlyFirst(t)
    BY <1>1 DEF IInv, Tables, Filled, Best
  <2>2. /\ IsFiniteSet(ShownRuns) /\ Cardinality(ShownRuns) \in Nat
        /\ Cardinality(Listed(t)) <= Cardinality(ShownRuns) /\ Cardinality(Listed(t)) \in Nat
    <3>1. IsFiniteSet(ShownRuns)
      BY <1>1, FS_Subset DEF IInv, Registered, ShownRuns
    <3> QED
      BY <3>1, <2>1, FS_Subset, FS_CardinalityType
  <2>3. ASSUME _top > 0
        PROVE  Len(table[t]) = Min({_top, Cardinality(ShownRuns)})
    <3>1. _top \in Nat /\ Len(table[t]) \in Nat /\ Cardinality(ShownRuns) \in Nat
      BY <1>1, <2>1, <2>2, <2>3, Constants DEF IInv, World
    <3>2. PICK x \in Nat, c \in Nat, len \in Nat :
             x = _top /\ c = Cardinality(ShownRuns) /\ len = Len(table[t])
      BY <3>1
    <3>3. ShownRuns \subseteq Listed(t) => Listed(t) = ShownRuns
      BY <2>1
    <3>4. len <= c /\ len <= x /\ (len = c \/ len >= x)
      BY <2>1, <2>2, <2>3, <3>2, <3>3
    <3>5. len \in {x, c} /\ {x, c} \in SUBSET Int /\ \A y \in {x, c} : len <= y
      BY <3>2, <3>4
    <3> QED
      BY <3>2, <3>5, MinIs
  <2> QED
    BY <2>1, <2>3
<1>2. IInv => TopRows
  BY <1>1 DEF TopRows, Listed, ShownRuns, OnlyFirst, Names
<1> QED
  BY <1>2, Invariance, PTL
=============================================================================
