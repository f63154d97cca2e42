SPECIFICATION Spec
CONSTANTS
  Users = {u1}
  Timers = {t1}
  Ids = {a}
  Intervals = {1}
  Overdue = 0
  NoId = NoId
  SingleId = SingleId
  NoTimer = NoTimer
PROPERTIES DestroyReturns
