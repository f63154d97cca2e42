SPECIFICATION Spec
CONSTANTS
  Clients = {c1}
  Tokens = {k1, k2}
  MaxTasks = 2
  Careful = TRUE
  None = None
PROPERTIES PendingEnds
