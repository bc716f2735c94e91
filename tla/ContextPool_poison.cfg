\* One worker and its pool, as in a run, after a task has failed.
CONSTANTS
  User = {u1}
  Context = {c1, c2}
  Count = 2
  NoContext = NoContext
SPECIFICATION Spec
INVARIANT PoisonedNeverServes
