\* The raw Chromium processes of a run whose set-up fails.
CONSTANTS
  Kind = {"http", "perTask", "pooled", "cdp"}
  NWorkers = 2
  Task = {t1, t2, t3}
  NoTask = NoTask
SPECIFICATION Spec
INVARIANT NoOrphans
