\* One function of at most 5 syntax nodes, at most 2 operands, arguments or
\* statements per node, every construct; a break or next is in a loop of its own.
SPECIFICATION Spec
CONSTANTS
    MaxNodes = 5
    MaxOperands = 2
    ArmLists <- MCArmLists
    Patterns <- MCPatterns
    Constructs <- NodeKinds
    Features = {"label", "iterable", "loop_else"}
INVARIANTS
    TypeOK
    OneOwner
    LoopNesting
    TargetsExist
    AllTerminated
    EntryNotRejoined
PROPERTIES
    BlocksLiveOnce
