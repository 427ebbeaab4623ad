SPECIFICATION Spec
CONSTANTS
    None = None
    f1 = f1
    f2 = f2
    c1 = c1
    c2 = c2
    plain = plain
    Cred = {c1, c2, plain}
    KeyOf <- OwnKeys
    Plain = {plain}
    Flow = {f1, f2}
    GatewayStatus = {404}
    MaxGen = 2
SYMMETRY Symmetries
INVARIANTS AttestsOwnCredential InvalidStatusIsTheIssuers
CHECK_DEADLOCK FALSE
