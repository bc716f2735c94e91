-------------------------------- MODULE MCSweep --------------------------------
(***************************************************************************)
(* Constants for Sweep: three levels of one scenario with two repetitions,  *)
(* four levels of two scenarios with one, of which the last is no number    *)
(* and ends the sweep unless the ceiling does so before, two levels of two  *)
(* scenarios, and a baseline alone; process tables with and without a       *)
(* browser. For the claims of the documents, one sweep of two scenarios     *)
(* with three levels and two repetitions.                                  *)
(***************************************************************************)
EXTENDS Sweep, TLC

MCLevels == <<1, 5, 10, 0>>

MCPlans == {[scenarios |-> 1, levels |-> 3, reps |-> 2],
            [scenarios |-> 2, levels |-> 4, reps |-> 1],
            [scenarios |-> 2, levels |-> 2, reps |-> 1],
            [scenarios |-> 1, levels |-> 1, reps |-> 1]}

MCClaimPlans == {[scenarios |-> 2, levels |-> 3, reps |-> 2]}

\* One run is saturated whatever the baseline, the other if the baseline is low.
MCOutcomes == {[p95 |-> 1, hot |-> TRUE], [p95 |-> 3, hot |-> FALSE]}

\* What a run with the same tail latency may amount to.
MCClaimOutcomes == [p95 : {1}, hot : BOOLEAN]

Proc(kind, ppid, rss) == [kind |-> kind, ppid |-> ppid, rss |-> rss]

\* Process 1 is the controller, 9 another program with its own browser.
Quiet == 1 :> Proc("other", 9, 1) @@ 9 :> Proc("chromium", 0, 2)

\* 1 has a driver 2, which has a browser 3 with a renderer 4, a GPU process 5
\* whose child 6 is nobody's browser.
Browsing ==
  1 :> Proc("other", 9, 1) @@ 2 :> Proc("other", 1, 1) @@
  3 :> Proc("chromium", 2, 4) @@ 4 :> Proc("chromium", 3, 8) @@
  5 :> Proc("gpu", 3, 16) @@ 6 :> Proc("other", 5, 32) @@ 9 :> Proc("chromium", 0, 2)

MCIdle == {Quiet}

MCSnapshots == {Quiet, Browsing}
===============================================================================
