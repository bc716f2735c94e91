\* Every scenario, two workers, three tasks, with and without a warmup.
CONSTANTS
  Kind = {"http", "perTask", "pooled", "cdp"}
  NWorkers = 2
  Task = {t1, t2, t3}
  NoTask = NoTask
SPECIFICATION FairSpec
INVARIANTS
  IInv
  InfrastructureUp
  TaskBrowserClosed
  NoChromiumAfterRun
  ResultsPersist
PROPERTIES
  CancellationReported
  RunEnds
