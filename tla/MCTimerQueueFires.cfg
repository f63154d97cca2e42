SPECIFICATION OneAddressSpec
CONSTANTS
  Users = {u1}
  Timers = {t1, t2, t3}
  Ids = {t1, t2, t3}
  Intervals = {1}
  Overdue = 1
  NoId = NoId
  SingleId = SingleId
  NoTimer = NoTimer
INVARIANTS NoOversleep
PROPERTIES ActiveFires
