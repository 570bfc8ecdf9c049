CONSTANTS
    None = None
    a = a
    b = b
    c = c
    d = d
    Identities = {a, b, c, d}
    Root = a
    MaxIncludeDepth = 3
    MaxCallDepth = 2
    MaxExpansions = 2
    MaxVirtual = 2
    MaxFrames = 6

SYMMETRY Interchangeable

CHECK_DEADLOCK FALSE

SPECIFICATION Spec

INVARIANTS
    TypeOK
    DepthsAreExact
    LoopFlagIsExact
    ImportsEvaluateOnce

PROPERTIES
    ImportsEndWhole
