SPECIFICATION Spec
CONSTANTS
    Address = {a1}
    Tag = {}
    Void = Void
    Null = Null
    Shared = {}
    Static = {}
    Protos <- UndisposedProtos
    Reenter = {}
    EnvOps = {}
    MaxDepth = 1
    MaxRefs = 1
PROPERTIES
    DisposedWhateverReturned
