SPECIFICATION ShippingSpec
CONSTANTS
    Shipments = {s1, s2, s3}
    Consumers = {k1, k2}
    MaxBrokerCrashes = 1
    MaxKills = 2
    NoDelivery = NoDelivery
INVARIANTS ShippingInv HandledAgainOnlyAfterKill
PROPERTY Delivered
