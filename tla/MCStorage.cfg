SPECIFICATION Spec
CONSTANTS
    x = x
    y = y
    k1 = k1
    k2 = k2
    k3 = k3
    Payment <- MCPayment
    Key <- MCKey
    Password = {"", "secret"}
    Helper = {"peer"}
    Scenarios <- MCScenarios
    Down = Down
    Absent = Absent
    Torn = Torn
    Nobody = Nobody
INVARIANTS
    TypeOK
    AcknowledgedIsSaved
    FileIsTheWindows
PROPERTY
    CopyIsWhole
CHECK_DEADLOCK FALSE
