SPECIFICATION FairSpec
CONSTANTS
    g1 = g1
    g2 = g2
    g3 = g3
    stranger = stranger
    opA = opA
    opB = opB
    none = none
    noOp = noOp
    Callers <- MCCallers
    Governors <- MCGovernors
    Guardian = g3
    Quorum = 2
    MinDelay = 1
    MaxWindow = 3
    Ops <- MCOps
    NoOp = noOp
    Eta <- MCEta
    ExpiresAt <- MCExpiresAt
    Predecessor <- MCPredecessor
    Absent = none
    Ticks = {1, 2}
    MaxLag = 2
    MaxEpoch = 6
INVARIANTS
    ExecutionJustified
PROPERTIES
    LifecycleNeverRegresses
    ImplementsLifecycle
    EveryOperationEnds
CHECK_DEADLOCK FALSE
