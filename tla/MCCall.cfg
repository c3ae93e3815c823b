SPECIFICATION Spec
CONSTANTS
    Address = {a1, a2, s1}
    Tag = {}
    Void = Void
    Null = Null
    Shared = {s1}
    Static = {}
    Protos <- OwnershipProtos
    Reenter = {"read", "trace", "handler"}
    EnvOps = {}
    MaxDepth = 2
    MaxRefs = 2
INVARIANTS
    TypeOK
    Balanced
    NeverOverReleased
