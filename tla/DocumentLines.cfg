SPECIFICATION LinesSpec
CONSTANTS
    r1 = r1  r2 = r2  r3 = r3
    Records = {r1, r2, r3}  NoRec = NoRec  Existing = {r1, r2}
    Pages <- AllPages
    MaxVer = 1
INVARIANTS LinesFollowSelection ViewShowsSaved
CHECK_DEADLOCK FALSE
