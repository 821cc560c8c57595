SPECIFICATION Spec
CONSTANTS
  MaxTotal = 2
  Payments = {p1, p2}
  Returns = {r1, r2}
  WriteOffs = {w1}
  Calls = {}
SYMMETRY Symmetry
INVARIANTS TypeOK  DebtAgrees
PROPERTY RefundsWithinReceipts
CHECK_DEADLOCK FALSE
