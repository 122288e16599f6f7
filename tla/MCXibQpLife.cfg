SPECIFICATION Spec
CONSTANTS
    g = g
    q1 = q1
    q2 = q2
    QP = {g, q1, q2}
    GsiQPs = {g}
    UserQPs = {q2}
    ErrorsBefore = 3
    NULL = NULL
    MaxQp = 3
    Failures = {"late"}
    Discipline = {"booted", "gsi", "quiet", "serial", "settled", "rc"}
    Kinds = {"comp", "cnp"}
    States = {"INIT"}
    MaxEvents = 2
INVARIANTS
    InterruptNotLost
    IndexIdentifiesQp
    EnabledQpHasBuffers
    FatalStopsOnlyFaulty
    NoCrash
PROPERTIES
    NewQpStartsAtZero
CHECK_DEADLOCK FALSE
