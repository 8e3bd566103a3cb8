\* Every function of at most 6 syntax nodes, of the constructs that are lowered
\* the way design/language says they run; every decision comes out both ways.
SPECIFICATION RunSpec
CONSTANTS
    MaxNodes = 6
    MaxOperands = 2
    Outcomes = {0, 1}
    ArmLists <- PlainArms
    Patterns <- PresentPatterns
    Constructs <- Translated
    Features = {}
INVARIANTS
    InStep
    MirAnswers
