CONSTANTS
    a1 = a1
    a2 = a2
    unknown = unknown
    Addr <- LGAddr
    Batch <- LGBatch
    UnknownDenom = unknown
    Precision <- LGPrecision
    Basket <- LGBasket
    Amounts <- LGAmounts
    MaxCredits = 2
    SendPairs <- LGPairs
    InitStores <- AcceptedEmptyStores
SPECIFICATION Spec
INVARIANT
    CreditsUsable
