SPECIFICATION Spec
CONSTANTS
    sdr = sdr
    krw = krw
    Luna = luna
    SDR = sdr
    None = None
    Unit = 100
    Terra <- MCTerra
    Whitelist <- MCTerra
    RateTables <- MCRateTables
    BondedTokens = {2}
    BlocksPerWeek = 2
    WindowShort = 1
    WindowLong = 2
    WindowProbation = 1
    MiningIncrement = 107
    SeigniorageBurdenTarget = 67
    TaxPolicies <- MCTaxPolicies
    RewardPolicies <- MCRewardPolicies
    InitSupply = 20
    Taxes <- MCTaxes
    LunaMoves <- MCLunaMoves
    Burns <- MCBurns
    MaxDec = 2000000000
    MaxHeight = 6
    MaxTxs = 2
    MaxRestarts = 1
PROPERTY StepsAsDocumented
CHECK_DEADLOCK FALSE
