\* Pass run: two nodes, one task, leases that lapse at any moment.
CONSTANTS
    n1 = n1  n2 = n2
    Nodes <- MCNodes
    ApiNodes <- MCApiNodes
    NoRun = NoRun
    MaxRuns = 2
    MaxOps = 2

SPECIFICATION Spec

PROPERTY RunTaskReturns

CHECK_DEADLOCK FALSE
