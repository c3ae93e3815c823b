SPECIFICATION Spec
CONSTANTS
    Address = {a1, a2, a3}
    Tag = {s1, s2}
    Void = void
    MaxCount = 2
INVARIANTS
    AccessOnlyAllocated
    AllocatedIsRegistered
