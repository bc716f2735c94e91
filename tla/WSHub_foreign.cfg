\* Two pages at once.
CONSTANTS
  Client = {c1, c2}
  SendCap = 1
  EventCap = 1
  WireCap = 1
  Others = 0
  NoClient = NoClient
SPECIFICATION Spec
INVARIANT OwnEvent
