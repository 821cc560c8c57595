SPECIFICATION Spec
CONSTANTS
  Orders = {o1, o2}
  Units = {u1, u2}
  Returns = {r1, r2}
  QuoteItems = {q1}
  None = None
  Calls = {}
SYMMETRY Symmetry
INVARIANTS OneHolder HolderMatchesStock PapersAgree
PROPERTIES  KeepsCustody
CHECK_DEADLOCK FALSE
