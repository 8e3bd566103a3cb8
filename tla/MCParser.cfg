\* Modules of one of the families of inputs of MCParser.
SPECIFICATION Spec
CONSTANTS
    Strings <- MCStrings
    Inputs <- MCInputs
INVARIANTS
    TypeOK
    EofStays
    SpanKeys
    Precedence
    EveryLiteralOnce
    ErrorsAdvance
    AcceptedShape
PROPERTIES
    Terminates
