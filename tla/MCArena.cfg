SPECIFICATION Spec
CONSTANTS
    Address = {a1, a2, a3, a4}
    Tag = {}
    Void = void
    MaxCount = 2
SYMMETRY Symmetry
CHECK_DEADLOCK FALSE
INVARIANTS
    TypeOK
    LiveBlocksBacked
    FramesStacked
    OnlyLiveRegistered
    ValidateSucceeds
PROPERTIES
    PopKeepsLowerFrames
