SPECIFICATION FairSpec
CONSTANTS
    p1 = p1  p2 = p2
    Parties = {p1, p2}  NoParty = NoParty
    Newest = 3  PartyOf <- MCPartyOf  Opening <- MCOpening
    Amounts = {1, 2}  Percents = {100}
    MaxRows = 2
PROPERTY PostEnds
INVARIANTS EntryTypeOK OnePost PlacedInOrder 
CHECK_DEADLOCK FALSE
