---------------------------- MODULE MCJbbReports ----------------------------
(* Instances of JbbReports for TLC: /home is the working directory, with    *)
(* g1/r1 and g2/r2, which bear the same timestamp, and g2/r3.                      *)
EXTENDS JbbReports

CONSTANTS top, home, g1, r1, g2, r2, r3, a, b, c

MCParent == top :> top @@ home :> top @@ g1 :> home @@ r1 :> g1 @@ g2 :> home @@ r2 :> g2 @@ r3 :> g2
MCRunName == Amnesiac :> 9 @@ r1 :> 1 @@ r2 :> 1 @@ r3 :> 2
MCPrefixOrder == Amnesiac :> 0 @@ top :> 1 @@ home :> 1 @@ g1 :> 3 @@ r1 :> 1 @@ g2 :> 2 @@ r2 :> 1 @@ r3 :> 1
\* The runs apart; one of them by a link to a file above; two files of one run,
\* and one that belongs to none.
Apart == a :> r1 @@ b :> r2 @@ c :> r3
Together == a :> r1 @@ b :> r1 @@ c :> g1
MCPlacements == {[dir |-> Apart, real |-> Apart], [dir |-> Apart, real |-> [Apart EXCEPT ![c] = top]],
                 [dir |-> Together, real |-> Together]}

Scores(m, n) == [max |-> m, crit |-> n, young |-> None, full |-> None]
Pauses(y, f) == [max |-> None, crit |-> None, young |-> y, full |-> f]
MCContents == {<<>>, <<Scores(3, 1), Scores(2, None)>>, <<Pauses(2, None), Pauses(1, 1)>>}
MCDescriptions == {[options |-> {top, home, r1}, readme |-> {top, g1, r2}]}
Command(prefix, zeros, sort, n) == [prefix |-> prefix, zeros |-> zeros, sort |-> sort, top |-> n]
MCOptions == {Command(Prefix, FALSE, "name", None), Command(Prefix, FALSE, "prefix", 1),
              Command(Prefix, TRUE, "max", 1), Command(Prefix, TRUE, "max", 0),
              Command({g2}, FALSE, "crit", 1), Command({g1, g2}, TRUE, "prefix", 2)}
=============================================================================
