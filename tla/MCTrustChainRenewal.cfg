SPECIFICATION Spec
CONSTANTS
    leaf = leaf
    inter = inter
    ta = ta
    other = other
    Entity <- MCEntity
    Anchor = ta
    Superior <- MCSuperior
    TrustMarked <- MCTrustMarked
    MaxGen = 2
    MaxRotations = 1
    MaxChain = 3
    KidOf <- Thumbprint
PROPERTY
    RejectedOnlyAfterRenewal
