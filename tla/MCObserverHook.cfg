SPECIFICATION HookSpec
CONSTANTS
    N = 1
    Matching <- MCMatching
    Damage <- MCDamage
    MaxFrames = 4
    Words = 8
    Layouts <- MCLayouts
INVARIANTS
    OriginalsRecoverable
    OutcomeMatchesMemory
    GameFunctionNeverSkipped
    ActiveOnlyWhileHooked
    WritesStayInImage
PROPERTIES
    QuietAfterStop
