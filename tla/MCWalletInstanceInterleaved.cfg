SPECIFICATION Spec
CONSTANTS
    t1 = t1
    t2 = t2
    Thunk = {t1, t2}
    None = None
    MaxKey = 2
    MaxTag = 1
    MaxTime = 1
    Ttl = 0
SYMMETRY Symmetries
INVARIANTS
    StoredTagIsRegistered
    RefreshOnlyWhenNeeded
    DoneMeansUsable
PROPERTY
    DoneMeansRevoked
