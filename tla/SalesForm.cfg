SPECIFICATION FormSpec
CONSTANTS
    o1 = o1  o2 = o2  u1 = u1  u2 = u2
    Orders = {o1, o2}  Units = {u1, u2}  NoOrder = NoOrder  NoUnit = NoUnit
    Existing <- MCExisting  MaxLines = 2  MaxChecks = 1
INVARIANTS FormTypeOK SentFoots 
CHECK_DEADLOCK FALSE
