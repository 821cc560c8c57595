SPECIFICATION Spec
CONSTANTS
  Orders = {o1}
  Units = {u1, u2}
  Returns = {r1, r2}
  QuoteItems = {q1}
  None = None
  Calls = {"delete_cancelled", "complete_returned", "edit_completed", "held_pool", "stale_delete"}
SYMMETRY Symmetry
INVARIANT ReturnedOnce
CHECK_DEADLOCK FALSE
