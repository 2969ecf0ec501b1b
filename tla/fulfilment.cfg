SPECIFICATION FairFulfilment
CONSTANTS
    Orders = {o1, o2}
    Shipments = {o1, o2}
    Totals <- MCTotals
    Fee = 499
    DeclineOver = 10500
    None = None
    Consumers = {k1}
    MaxBrokerCrashes = 1
    MaxKills = 1
    NoDelivery = NoDelivery
INVARIANTS HandledWasPaid SavedIsOnItsWay
PROPERTIES PlacedIsHandled Ended
