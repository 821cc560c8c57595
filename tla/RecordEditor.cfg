SPECIFICATION Spec
CONSTANTS
    r1 = r1  r2 = r2
    Records = {r1, r2}  NoRec = NoRec
    Pages <- AllPages
    MaxVer = 2
INVARIANTS OneSave OwnForm NoLostUpdate
CHECK_DEADLOCK FALSE
