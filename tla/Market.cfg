SPECIFICATION FairSpec
CONSTANTS
    alice = alice
    bob = bob
    usdr = usdr
    ukrw = ukrw
    Luna = Luna
    None = None
    SDR = usdr
    Terra = {usdr, ukrw}
    Accounts = {alice, bob}
    Unit = 100
    TobinTaxes <- Taxes
    RateTables <- AllTables
    BasePool = 1000
    PoolRecoveryPeriod = 2
    MinStabilitySpread = 2
    ZeroSwapFails = FALSE
    InitDelta = 0
    InitBalances <- Purses
    Offers = {3, 20}
    MaxSwaps = 3
INVARIANTS
    TerraPoolPositive
PROPERTIES
    MintedWorthNoMore PoolsReplenish
