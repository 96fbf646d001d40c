SPECIFICATION Spec

CONSTANTS
    e1 = e1
    e2 = e2
    e3 = e3
    long = long
    blocked = blocked
    Entries = {e1, e2, e3, long, blocked}
    Complete = {e1, e2, e3, long}
    Accepted = {e1, e2, e3, blocked}
    UseKafka = TRUE
    UsePg = TRUE
    QueueMax = 1
    MaxOutages = 2
    MaxRestarts = 1

INVARIANTS
    TypeOK
    ExactlyOnce
    OneStrayPerOutage

SYMMETRY Symmetry

CHECK_DEADLOCK FALSE
