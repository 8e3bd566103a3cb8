\* Two calls of unify on plain types, and what finalize makes of them.
SPECIFICATION Spec
CONSTANTS
    MaxVars = 3
    Checkers <- FirstChecker
    Ground <- MCGround
INVARIANTS
    FinalizeReturns
