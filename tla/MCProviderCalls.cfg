SPECIFICATION CallSpec
CONSTANTS
    a = a
    b = b
    Caller = {a, b}
    GatewayStatus = {302, 403, 409, 500}
    MaxCalls = 4
SYMMETRY Callers
INVARIANTS CallTypeOK FailureIsTyped SuccessMeansDone CodeTellsInstance NonceTellsNothing
CHECK_DEADLOCK FALSE
