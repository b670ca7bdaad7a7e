SPECIFICATION FairSpec
CONSTANTS
    u1 = u1
    None = None
    Users = {u1}
    Messages <- MCMessages
    SubMessages <- MCSubMessages
    InitCodes <- MCCodes
    InitContracts <- MCContracts
    InstanceBits = 1
    MaxContractGas = 3
    TxGas = 3
    GasCosts = {1}
    GasLimits = {1}
    MaxSubMsgs = 2
    MaxTxs = 2
INVARIANTS InstanceIdsUnique GasFits
PROPERTIES ContractsKept NoAdminNoChange CallsSpec TxEnds
CHECK_DEADLOCK FALSE
