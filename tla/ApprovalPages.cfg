SPECIFICATION Spec
CONSTANTS
    d1 = d1  d2 = d2
    Docs = {d1, d2}  NoDoc = NoDoc
    Pages <- AllPages  MaxLoads = 2  MaxReqs = 2
INVARIANTS TypeOK OneDecision DialogsAgree ShownIsDecided
PROPERTY GuardReleased
CHECK_DEADLOCK FALSE
