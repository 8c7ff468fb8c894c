CONSTANTS
    a1 = a1
    a2 = a2
    b1 = b1
    b2 = b2
    unknown = unknown
    Addr <- MCAddr
    Batch <- MCBatch
    UnknownDenom = unknown
    Precision <- MCPrecision
    Basket <- MCBasket
    Amounts <- MCAmounts
    MaxCredits = 2
    SendPairs <- DistinctPairs
    InitStores <- MCIssued
SPECIFICATION Spec
PROPERTIES
    ImplementsCreditPools
