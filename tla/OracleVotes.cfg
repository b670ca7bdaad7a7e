SPECIFICATION Spec
CONSTANTS
    v1 = v1
    v2 = v2
    ukrw = ukrw
    usdr = usdr
    Luna = Luna
    None = None
    Unit = 10
    Validators = {v1, v2}
    Restless = {v1}
    Accounts = {v1, v2}
    Delegates = {v2}
    Denoms = {ukrw}
    InitPower <- TwoPower
    Rank <- OneRank
    InitWhitelist <- OneListed
    Whitelists <- OnOrOff
    Rates = {10}
    Taxes = {0}
    UnbondingBlocks = 3
    VotePeriod = 2
    VoteThreshold = 6
    RewardBand = 2
    RewardDistributionWindow = 4
    SlashWindow = 4
    SlashFraction = 1
    MinValidPerWindow = 5
    Fees = {}
    MaxPool = 0
    MaxHeight = 8
INVARIANTS
    CommittedBeforeReveals
    PrevotesExpire
    VotesNameTargets
    MissesBounded
    MissCounterOwnerExists
PROPERTIES
    RevealablePrevotesKept
    SlashedIffBelowMinimum
CHECK_DEADLOCK FALSE
