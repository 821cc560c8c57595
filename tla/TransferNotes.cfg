SPECIFICATION Spec
CONSTANTS
  Notes = {n1, n2}
  Lines = {l1, l2}
  Serials = {s1}
  Lots = {t1}
  Places = {a, b}
  MaxEdits = 2
  Calls = {}
SYMMETRY Symmetry
INVARIANTS NotesAgree
PROPERTY NothingGoesBack
CHECK_DEADLOCK FALSE
