SPECIFICATION Spec
CONSTANTS
    Orders = {o1, o2}
    Totals <- MCTotals
    Fee = 499
    DeclineOver = 10500
    None = None
INVARIANTS OrdersInv SavedWasPaid AnswerTruthful
SYMMETRY OrderSymmetry
PROPERTIES NothingStartsLate PromiseKept
