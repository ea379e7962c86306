----------------------------- MODULE MCSyncHost -----------------------------
(* An instance of SyncHost for TLC: a top directory and, below it, a          *)
(* directory with a library and its debug info.                              *)
EXTENDS SyncHost, TLC

CONSTANTS root, sub, lib, debuginfo, m644, m666

MCParent == (root :> root) @@ (sub :> root) @@ (lib :> sub) @@ (debuginfo :> sub)
MCModes == {m644, m666}

\* The target is new, or holds files of unknown origin.
Stale == [kind |-> "file", ver |-> Damaged, mode |-> m644, mtime |-> 0]
OldHost == {Absent, Stale}
=============================================================================
