----------------------------- MODULE MCOwnSync -----------------------------
(* Instances of OwnSync for TLC: host/a and host/logs/b.                    *)
EXTENDS OwnSync, TLC

CONSTANTS host, logs, a, b

MCParent == (host :> host) @@ (logs :> host) @@ (a :> host) @@ (b :> logs)
=============================================================================
