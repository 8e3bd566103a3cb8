\* Up to three calls of unify in a row on plain types over three variables, or two
\* on types of every arm of unify.
SPECIFICATION Spec
CONSTANTS
    MaxVars = 3
    Checkers <- MCCheckers
    Ground <- MCGround
INVARIANTS
    TypeOK
    WalkEnds
    Agreement
    MostGeneral
PROPERTIES
    NeverRebound
