------------------------------- MODULE Series -------------------------------
(***************************************************************************)
(* What a runner of benchmarks promises: warm-ups, then timed runs, one at *)
(* a time; timed runs alone are counted; an interruption ends the series   *)
(* with the run during or before which it is noted, and interrupted        *)
(* warm-ups give no result.                                                *)
(***************************************************************************)
EXTENDS Naturals

CONSTANTS Warmups, Runs

VARIABLES started, running, counted, interrupted, ended

vars == <<started, running, counted, interrupted, ended>>

Init ==
    /\ started = 0 /\ running = FALSE /\ counted = 0
    /\ interrupted = FALSE /\ ended = "none"

StartRun ==
    /\ ended = "none" /\ ~ running /\ started < Warmups + Runs
    /\ started' = started + 1 /\ running' = TRUE
    /\ UNCHANGED <<counted, interrupted, ended>>

CompleteRun ==
    /\ running /\ running' = FALSE
    /\ counted' \in IF started > Warmups THEN {counted, counted + 1} ELSE {counted}
    /\ ended' = IF ~ interrupted THEN "none"
                ELSE IF started > Warmups THEN "success" ELSE "failure"
    /\ UNCHANGED <<started, interrupted>>

Interrupt ==
    /\ ended = "none"
    /\ interrupted' = TRUE
    /\ UNCHANGED <<started, running, counted, ended>>

EndSeries ==
    /\ ended = "none" /\ ~ running /\ started = Warmups + Runs
    /\ ended' = "success"
    /\ UNCHANGED <<started, running, counted, interrupted>>

\* A run cannot be set up at all.
Fail ==
    /\ ended = "none" /\ ~ running /\ started < Warmups + Runs
    /\ ended' = "failure"
    /\ UNCHANGED <<started, running, counted, interrupted>>

Next == StartRun \/ CompleteRun \/ Interrupt \/ EndSeries \/ Fail
Spec == Init /\ [][Next]_vars
=============================================================================
