SPECIFICATION Spec
CONSTANTS
  Event = {e1, e2, e3}
  NoEvent = NoEvent
  EVQ_SIZE = 4
PROPERTIES
  PendingIsHonest
  ImplementsDropOldest
