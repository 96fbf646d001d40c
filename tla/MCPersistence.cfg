SPECIFICATION PersistenceSpec

CONSTANTS
    Workers = {w1}
    Slots = 1
    Budget = 2
    MaxCost = 1
    MaxMonths = 1
    MaxCharges = 2
    MaxFaults = 1
    MaxRestarts = 1
    Entries = {answered, bare}
    Complete = {answered}
    Accepted = {answered, bare}
    UseKafka = FALSE
    UsePg = TRUE
    QueueMax = 1
    MaxOutages = 1

PROPERTIES
    DatabasePersists

CHECK_DEADLOCK FALSE
