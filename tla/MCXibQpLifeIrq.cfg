SPECIFICATION FairSpec
CONSTANTS
    g = g
    q1 = q1
    QP = {g, q1}
    GsiQPs = {g}
    UserQPs = {}
    ErrorsBefore = 0
    NULL = NULL
    MaxQp = 2
    Failures = {}
    Discipline = {"booted", "gsi", "quiet", "serial", "settled", "rc"}
    Kinds = {"comp"}
    States = {"INIT"}
    MaxEvents = 2
PROPERTIES
    EveryInterruptServed
CHECK_DEADLOCK FALSE
