\* Violation run: the node that wins the exec lock need not hold the handler.
CONSTANTS
    n1 = n1  n2 = n2
    Nodes <- MCNodes
    ApiNodes <- MCApiNodes
    NoRun = NoRun
    MaxRuns = 2
    MaxOps = 2

SPECIFICATION Spec

PROPERTY WinnerHasHandler

CHECK_DEADLOCK FALSE
