SPECIFICATION Spec
CONSTANTS
    t1 = t1
    c1 = c1
    MDL = MDL
    DC = DC
    None = None
    Thunk = {t1}
    CThunk = {c1}
    Type = {MDL, DC}
    MaxFlow = 2
    MaxCred = 2
    MaxRestarts = 0
    SpidUrlHasCie = {FALSE}
    Patient = TRUE
INVARIANTS CredentialsOfCurrentPid ShownTrustmarkIsOwn LoadingMeansGoingOn
