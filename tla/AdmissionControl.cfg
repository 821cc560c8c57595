SPECIFICATION Spec
CONSTANTS
  Requests = {r1, r2, r3}
  Tasks = {t1}
  MaxConcurrent = 2
  Pool = 4
  Threads = 2
  Depth = 2
INVARIANT Unstuck
PROPERTIES EventuallyAnswered
CHECK_DEADLOCK FALSE
