SPECIFICATION Spec
CONSTANTS
  Users = {u1}
  Timers = {t1, t2, t3}
  Ids = {a}
  Intervals = {1, 2}
  Overdue = 0
  NoId = NoId
  SingleId = SingleId
  NoTimer = NoTimer
INVARIANTS TypeOK OneList NoOversleep
PROPERTIES NextStays SingleShotOnce
