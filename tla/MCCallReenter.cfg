SPECIFICATION Spec
CONSTANTS
    Address = {a1, c1}
    Tag = {}
    Void = Void
    Null = Null
    Shared = {}
    Static = {c1}
    Protos <- ReentrantProtos
    Reenter = {"read", "callback", "trace", "handler"}
    EnvOps = {"safe", "counted", "pin", "dispose", "invalidate"}
    MaxDepth = 2
    MaxRefs = 1
PROPERTIES
    ResultRegistered
