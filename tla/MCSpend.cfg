SPECIFICATION Spec

CONSTANTS
    Workers = {w1, w2}
    Slots = 2
    Budget = 2
    MaxCost = 2
    MaxMonths = 1
    MaxCharges = 4
    MaxFaults = 2
    MaxRestarts = 1

INVARIANTS
    TypeOK
    OvershootPerProcess
    LossBounded
    NeverOvercounted

SYMMETRY Symmetry

CHECK_DEADLOCK FALSE
