SPECIFICATION Spec
CONSTANTS
    None = None
    Accounts <- MCAccounts
    Chains <- WalletChains
    Unit = 100
    Epsilon = 4
    Dust = 3
    MaxKills = 1
INVARIANT RerunSame
