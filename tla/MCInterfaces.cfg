SPECIFICATION IfcSpec
CONSTANTS
    Lib = {}
    Proto = {p1, p2, p3}
    Fn = {f1}
    Callback = {}
    Wrapper = {}
    Command = {}
    Slot <- IfcSlots
    None = None
    MaxDepth = 1
    Ifc = {i1, i2, i3}
    IfcName = {x1, x2}
    Method = {m1, m2}
    MaxMethods = 3
SYMMETRY Symmetry
INVARIANTS
    IfcRefsExact
    SlotsAgree
