\* Violation run: LaterModulesFinished.
CONSTANTS
    Kinds <- MainKinds
    Spins = 10
SPECIFICATION Spec
INVARIANT LaterModulesFinished
CHECK_DEADLOCK FALSE
