SPECIFICATION Spec
CONSTANTS
  Items = {i1, i2, i3, i4}
  Waiters = {w1, w2}
  concurrency = 2
  maxPending = 2
INVARIANTS
  QueueConsistent
  NoIdleSlot
PROPERTIES
  DrainsWhenStopped
