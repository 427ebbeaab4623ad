SPECIFICATION HolderSpec
CONSTANTS
    Empty = Empty
    Garbage = Garbage
    Undefined = Undefined
    Name = {"a", "b"}
    Value = {"text", "zero"}
    Salt = {1, 2}
    MaxHashes = 2
    MaxSegments = 3
INVARIANTS StillVerifies RevealsExactly IndexLeadsToClaim ParsedIsDisclosed
