SPECIFICATION Spec
CONSTANTS
    Address = {a1, a2}
    Tag = {t1, t2, t3}
    Void = void
    MaxCount = 3
SYMMETRY Symmetry
INVARIANTS
    TypeOK
    CountsAreLive
    PinnedMatchesAnyTag
PROPERTIES
    SubtagNeverRedirected
    LifetimeRefined
