SPECIFICATION TallySpec
CONSTANTS
    v1 = v1
    v2 = v2
    v3 = v3
    ukrw = ukrw
    usdr = usdr
    Luna = Luna
    None = None
    Unit = 10
    Validators = {v1, v2, v3}
    Restless = {v3}
    Accounts = {v1, v2, v3}
    Delegates = {}
    Denoms = {ukrw, usdr}
    InitPower <- OddPower
    Rank <- TwoRank
    InitWhitelist <- BothListed
    Whitelists <- SameWhitelist
    Rates = {0, 10, 20, 40}
    Taxes = {0}
    UnbondingBlocks = 7
    VotePeriod = 2
    VoteThreshold = 6
    RewardBand = 2
    RewardDistributionWindow = 4
    SlashWindow = 8
    SlashFraction = 1
    MinValidPerWindow = 5
    Fees = {10}
    MaxPool = 10
    MaxHeight = 4
INVARIANTS
    NeverHalts
    MedianSplits
PROPERTIES
    AbstainerAbsolved
    RewardsWithinBudget
CHECK_DEADLOCK FALSE
