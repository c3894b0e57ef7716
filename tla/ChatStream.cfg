SPECIFICATION FairSpec
CONSTANTS
    MaxChunks = 6
    Buffer = 3
INVARIANTS DoneMeansAll
PROPERTIES RequestsEnd AbandonedEnd ImplementsDelivery
