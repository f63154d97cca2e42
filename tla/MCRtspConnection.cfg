SPECIFICATION Spec
CONSTANTS
  Clients = {c1, c2}
  Tokens = {k1, k2, k3}
  MaxTasks = 2
  Careful = TRUE
  None = None
INVARIANTS PortInv OneClient StoppedStaysDead
PROPERTIES FailedIsReplaced
