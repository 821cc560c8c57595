SPECIFICATION Spec
CONSTANTS
    Actions = {a1}
    Messages = {m1, m2}
    MaxClicks = 2
    MaxReads = 3
INVARIANTS TypeOK TranscriptKept CardsHold
CHECK_DEADLOCK FALSE
