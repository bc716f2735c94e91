----------------------------- MODULE MCClosedLoop -----------------------------
(* Instances of ClosedLoop small enough for TLC.                            *)
EXTENDS ClosedLoop, TLC

CONSTANTS l1, l2, l3

\* A fixed run: one window with every loop.
FixedLevels == << Loop >>

\* A ramp run: a level with one loop, then one with every loop.
RampLevels == << {l1}, Loop >>

\* Tasks and workers are interchangeable.
Symmetry == Permutations(Task) \cup Permutations(Worker)
===============================================================================
