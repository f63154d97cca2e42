SPECIFICATION Spec
CONSTANTS
  e1 = e1
  e2 = e2
  Elements = {e1, e2}
  Batches <- MCBatches
  NoElement = NoElement
  NoThread = NoThread
  Producers = {p1}
  Consumers = {c1}
  maxElements = 3
  HaveMP = FALSE
  Calls <- MCPlainCalls
  MaxCount = 7
INVARIANTS FifoInv NoSlotRace PeekCoherent
PROPERTIES IsQueue
