SPECIFICATION TallySpec
CONSTANTS
    v1 = v1
    v2 = v2
    v3 = v3
    ukrw = ukrw
    usdr = usdr
    Luna = Luna
    None = None
    Unit = 10
    Validators = {v1, v2, v3}
    Restless = {v3}
    Accounts = {v1, v2, v3}
    Delegates = {}
    Denoms = {ukrw, usdr}
    InitPower <- LargeAndTwoSmall
    Rank <- TwoRank
    InitWhitelist <- BothListed
    Whitelists <- SameWhitelist
    Rates = {0, 10, 20}
    Taxes = {0}
    UnbondingBlocks = 7
    VotePeriod = 2
    VoteThreshold = 5
    RewardBand = 2
    RewardDistributionWindow = 4
    SlashWindow = 8
    SlashFraction = 1
    MinValidPerWindow = 5
    Fees = {}
    MaxPool = 0
    MaxHeight = 4
CHECK_DEADLOCK FALSE
PROPERTY PassingBallotsPriced
