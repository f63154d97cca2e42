SPECIFICATION Spec
CONSTANTS
  e1 = e1
  e2 = e2
  Elements = {e1, e2}
  Batches <- MCBatches
  NoElement = NoElement
  NoThread = NoThread
  Producers = {p1, p2}
  Consumers = {c1, c2}
  maxElements = 2
  HaveMP = TRUE
  Calls <- MCLockedCalls
  MaxCount = 5
INVARIANTS FifoInv NoSlotRace PeekCoherent
PROPERTIES IsQueue
