SPECIFICATION FairSpec
CONSTANTS
    t1 = t1  t2 = t2  a = a  b = b  me1 = me1  me2 = me2
    Tabs = {t1}
    Requests = {a, b, me1}
    TabOf <- MCTabOf  MeOf <- MCMeOf
    Refusing = {b}  MaxTokens = 3
INVARIANTS OneRefresh NoStrandedCall RefreshOnce SignedInHasToken
 
CHECK_DEADLOCK FALSE
