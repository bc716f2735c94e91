\* The in-flight cap and the warmup boundary, when the run is cancelled.
CONSTANTS
  l1 = l1
  l2 = l2
  l3 = l3
  Loop = {l1, l2}
  Worker = {w1}
  Task = {t1, t2, t3}
  Levels <- FixedLevels
  WarmUp = TRUE
  NoTask = NoTask
SPECIFICATION FairSpec
PROPERTIES
  CancelledAsDocumented
