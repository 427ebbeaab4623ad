SPECIFICATION Spec
CONSTANTS
    leaf = leaf
    inter = inter
    ta = ta
    other = other
    Entity <- MCEntity
    Anchor = ta
    Superior <- MCSuperior
    TrustMarked <- MCTrustMarked
    MaxGen = 2
    MaxRotations = 2
    MaxChain = 3
    KidOf <- Thumbprint
INVARIANTS
    AcceptedChainIsPath
    RefreshedPathIsAccepted
