SPECIFICATION FairSpec
CONSTANTS
    t1 = t1
    t2 = t2
    Thunk = {t1, t2}
    None = None
    MaxKey = 1
    MaxTag = 1
    MaxTime = 0
    Ttl = 0
PROPERTY
    LoadingEnds
