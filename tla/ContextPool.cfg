\* Three users of a pool built with two contexts: the pool runs out.
CONSTANTS
  User = {u1, u2, u3}
  Context = {c1, c2, c3, c4}
  Count = 2
  NoContext = NoContext
SPECIFICATION Spec
INVARIANTS
  IInv
  Exclusive
  ContextsBounded
  ClosedBeforeBrowser
