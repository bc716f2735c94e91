\* Two tasks, one crash, every scenario and workflow.
SPECIFICATION FairSpec
CONSTANTS
  Task = {t1, t2}
  NoTask = NoTask
  NoId = NoId
  NoOrder = NoOrder
  Products = 2
  MaxBoots = 2
  MaxIds = 6
  MaxFaults = 1
INVARIANTS
  IInv
  OrdersWhole
  RefusedOnlyOnFault
  AckedDurable
  RecorderAgrees
PROPERTIES
  ImplementsDesk
  WorkflowsEnd
