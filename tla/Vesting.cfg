SPECIFICATION Spec
CONSTANTS
    None = None
    Unit = 100
    FixedPoint = 10
    GenesisAccounts <- MCAccounts
    Amounts = {1, 3}
    MaxTime = 7
    MaxCoins = 12
INVARIANTS VestedNearOriginal LockedHeld VestedIsLinear
PROPERTY VestedMonotone
CHECK_DEADLOCK FALSE
