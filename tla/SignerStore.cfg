\* Two callers on two records and the balance lane, with a nested body each.
SPECIFICATION FairSpec
CONSTANTS
    c1 = c1
    c2 = c2
    c3 = c3
    b1 = b1
    b2 = b2
    b3 = b3
    Clients = {c1, c2}
    Bodies = {b1, b2}
    BodyOf <- MCBodyOf
    Records = {rec1, rec2}
    BalanceKey = balance
    Values <- MCValues
    Throws = Throws
    Updaters <- MCUpdaters
    Initial = 0
    NoOp = NoOp
PROPERTIES ImplementsAtomicStore EveryCallSettles
