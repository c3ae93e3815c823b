CONSTANTS
    A = A
    B = B
    AliasName = {A, B}
    AliasDecls <- MCAliasDecls
    Decls <- MCDecls
SPECIFICATION DeclSpec
INVARIANTS OrderIrrelevant AcceptedIsUsable AliasTransparent
