---------------------------- MODULE MCRssLauncher ----------------------------
(* Instances of RssLauncher for TLC.                                        *)
EXTENDS RssLauncher

MCOutput == [stdout |-> 2, stderr |-> 2]
=============================================================================
