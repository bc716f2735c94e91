\* Two pages and other traffic; every buffer holds one message.
CONSTANTS
  Client = {c1, c2}
  SendCap = 1
  EventCap = 1
  WireCap = 1
  Others = 1
  NoClient = NoClient
SPECIFICATION FairSpec
INVARIANTS
  IInv
  NoPanic
  NoGhost
  GapFree
PROPERTIES
  HubForgets
