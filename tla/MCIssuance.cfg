SPECIFICATION FairSpec
CONSTANTS
    Flow = {f1, f2}
    QueryFlow = {f1}
    None = None
    MaxWia = 2
    MaxDpop = 3
    MaxIssuerKey = 2
CHECK_DEADLOCK FALSE
INVARIANTS DeliveredIsOwn
PROPERTIES LoneFlowFailsForAReason ImplementsContract FlowEnds
