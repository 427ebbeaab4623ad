SPECIFICATION FairSpec
CONSTANTS
    Empty = Empty
    Garbage = Garbage
    Undefined = Undefined
    None = None
    f1 = f1
    f2 = f2
    r1 = r1
    r2 = r2
    Flow = {f1, f2}
    RP = {r1, r2}
    Vc <- TwoCredentials
    Claim <- KnownAndUnknown
    RsaGen <- FirstGen
    MaxGen = 2
    MaxWia = 2
INVARIANTS AnswersScannedClient AcceptedIsConsented RefusedForAReason
PROPERTY FlowEnds
CHECK_DEADLOCK FALSE
