SPECIFICATION AnteSpec
CONSTANTS
    sdr = sdr
    krw = krw
    Luna = luna
    SDR = sdr
    None = None
    alice = alice
    v1 = v1
    Unit = 100
    Terra <- MCTerra
    Whitelist <- MCTerra
    RateTables <- MCRateTables
    BondedTokens = {2}
    BlocksPerWeek = 2
    WindowShort = 1
    WindowLong = 2
    WindowProbation = 0
    MiningIncrement = 107
    SeigniorageBurdenTarget = 67
    TaxPolicies <- MCTaxPolicies
    RewardPolicies <- MCRewardPolicies
    InitSupply = 20
    Taxes = {}
    LunaMoves = {}
    Burns = {}
    MaxDec = 2000000000
    MaxHeight = 3
    MaxTxs = 2
    MaxRestarts = 0
    Payers = {alice}
    Validators = {v1}
    Txs <- MCTxs
    InitBalance <- MCInitBalance
    MinGasPrices <- MCMinGasPrices
    MaxOracleMsgGasUsage = 2
    MempoolSize = 2
    MaxNodeRestarts = 1
INVARIANTS ProceedsCovered MempoolPaysTax OneFreePerHeight
CHECK_DEADLOCK FALSE
