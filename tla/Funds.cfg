\* A payment or an invoice in parts over two channels; a payment in more parts than are told apart; or one of each in a channel, with a clock; or over two channels.
SPECIFICATION Spec
CONSTANTS
    h1 = h1
    h2 = h2
    Hashes = {h1, h2}
    Tlcs <- AllTlcs
    NoRecord = NoRecord
    MaxExactCharge = 2
    Channels = {c1, c2}
    Funded = 2
    ShutdownFee = 1
    Margin = 0
    Bounds <- AllBounds
SYMMETRY Symmetry
INVARIANTS BudgetHolds FallsAreCharged ReleasedIsPaid NeverMixed
PROPERTIES ClosedDrawsNoMore ClosePaysDue
