SPECIFICATION FairSpec
CONSTANTS
    None = None
    Accounts <- MCAccounts
    Chains <- MCChains
    Unit = 100
    Epsilon = 4
    Dust = 3
    MaxKills = 2
INVARIANTS HoldingsCountedOnce RerunSame
PROPERTY ExportEnds
