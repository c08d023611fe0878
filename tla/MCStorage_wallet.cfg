SPECIFICATION Spec
CONSTANTS
    x = x
    y = y
    k1 = k1
    k2 = k2
    k3 = k3
    Payment <- MCPayment
    Key <- MCKey
    Password = {"", "secret"}
    Helper = {"peer"}
    Scenarios <- ProtectedWallet
    Down = Down
    Absent = Absent
    Torn = Torn
    Nobody = Nobody
PROPERTY
    WalletIsPersistent
CHECK_DEADLOCK FALSE
