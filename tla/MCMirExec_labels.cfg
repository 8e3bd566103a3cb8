\* Loops in loops, with breaks and nexts that may name the outer one.
SPECIFICATION RunSpec
CONSTANTS
    MaxNodes = 6
    MaxOperands = 2
    Outcomes = {0, 1}
    ArmLists <- NoArms
    Patterns <- PresentPatterns
    Constructs = {"operands", "call", "block", "infinite", "break", "next"}
    Features = {"label"}
INVARIANTS
    InStep
