SPECIFICATION FairSpec
CONSTANTS
    t1 = t1
    c1 = c1
    MDL = MDL
    DC = DC
    None = None
    Thunk = {t1}
    CThunk = {c1}
    Type = {MDL}
    MaxFlow = 1
    MaxCred = 1
    MaxRestarts = 1
    SpidUrlHasCie = {FALSE, TRUE}
    Patient = FALSE
INVARIANTS LoadingHasThunk DoneMeansPresent DoneMeansPid UsedParamsAreGone
PROPERTY LoadingEnds
