\* Functions with a fork: are its results known after it?
SPECIFICATION Spec
CONSTANTS
    Names = {"x"}
    Bound = {"x"}
    Prelude = {}
    MaxNodes = 6
    MaxOperands = 2
    PatternLists <- MCOneName
    Constructs = {"use", "operands", "fork", "fn", "method"}
INVARIANTS
    ResultsAvailable
