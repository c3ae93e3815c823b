SPECIFICATION Spec
CONSTANTS
    Namespace = {Global, Platform, N}
    Global = Global
    Platform = Platform
    Relative = Relative
    Tails = {E, Star}
    ProperTails = {E}
    Glob <- MCGlob
    Free = Free
    Member = {a, b, c, bad}
    ProperMember = {a, b, c}
    EnumLists <- MCEnumLists
    Flags <- MCFlags
    AliasDecls <- MCAliasDecls
    Here = {Global, N}
    Counted <- MCCounted
    MaxEnums = 2
    MaxAliases = 1
    IntBits = 3
    WideBits = 4
    N = N
    E = E
    Star = Star
    a = a
    b = b
    c = c
    bad = bad
INVARIANTS TypeOK MasksRoundTrip
PROPERTIES DefinitionsStand
