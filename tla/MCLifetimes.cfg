SPECIFICATION Spec
CONSTANTS
    Lib = {l1, l2}
    Proto = {p1, p2}
    Fn = {f1, f2}
    Callback = {c1, c2}
    Wrapper = {w1, w2}
    Command = {n1}
    Slot = {s1, s2}
    None = None
    MaxDepth = 4
SYMMETRY Symmetry
INVARIANTS
    TypeOK
    RefsExact
    RunningIsAllocated
