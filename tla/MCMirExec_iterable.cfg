\* `loop x in f() { ... }`: what is looped over is itself a call.
SPECIFICATION RunSpec
CONSTANTS
    MaxNodes = 6
    MaxOperands = 2
    Outcomes = {0, 1}
    ArmLists <- NoArms
    Patterns <- PresentPatterns
    Constructs = {"operands", "call", "in", "ret"}
    Features = {"iterable"}
INVARIANTS
    InStep
