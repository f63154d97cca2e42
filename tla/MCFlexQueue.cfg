SPECIFICATION Spec
CONSTANTS
  NULL = NULL
  Pushers = {t1, t2}
  Poppers = {t3, t4}
  maxQueues = 3
  Lengths = {1, 2}
  MaxBlocks = 4
INVARIANTS FQInv OnePlace BlocksOwned
PROPERTIES IsQueue
