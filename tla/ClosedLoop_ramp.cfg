\* Warmup and measurement, each a ramp from one loop to two; liveness.
CONSTANTS
  l1 = l1
  l2 = l2
  l3 = l3
  Loop = {l1, l2}
  Worker = {w1}
  Task = {t1, t2, t3}
  Levels <- RampLevels
  WarmUp = TRUE
  NoTask = NoTask
SPECIFICATION FairSpec
INVARIANTS
  CountersExact
  CancelledOnce
PROPERTIES
  WindowsSeparated
  ImplementsLedger
  Terminates
  SubmittedFinish
