\* Three logical tasks share two workers, no warmup.
CONSTANTS
  l1 = l1
  l2 = l2
  l3 = l3
  Loop = {l1, l2, l3}
  Worker = {w1, w2}
  Task = {t1, t2, t3, t4}
  Levels <- FixedLevels
  WarmUp = FALSE
  NoTask = NoTask
SPECIFICATION Spec
SYMMETRY Symmetry
INVARIANTS
  IInv
  TokensConserved
  InFlightBounded
  ReturnedAccounts
  NoUseAfterClose
