\* Two calls at once over lies, aborts and a crash, with both steps running.
SPECIFICATION FairSpec
CONSTANTS
    None = None
    k1 = k1
    k2 = k2
    x1 = x1
    x2 = x2
    LockArgs <- Args
    Occupied = 1
    MaxCapacity = 10
    MockTx = 3
    FeeScale = 4
    MaxFee = 1
    Asks <- BothAsks
    Retried <- OneAsk
    Keys = {k1, k2}
    Answers <- AllAnswers
    Operations <- SomeOperations
    CloseRates = {None, 9}
    MaxCloseFee = 4
    Clock = {0, 1}
    Opens = {o1, o2}
    Runs = {r1}
    TowerRuns = {w1}
    MaxIndex = 3
    Bounds <- AllBounds
    Signing = Signing
    o1 = o1
    o2 = o2
    r1 = r1
    w1 = w1
CHECK_DEADLOCK FALSE
INVARIANTS OneChannelPerIndex FollowedUntilClosed SignedAsPinned PinnedCapacityFits
PROPERTIES RetriedOpens ClosedIsDropped
