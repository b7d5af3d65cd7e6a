\* Overlapping runs, replaced commitments, a twisting node and a settlement.
SPECIFICATION FairSpec
CONSTANTS
    None = None
    MaxTlcs = 2
    Reserves <- Kept
    MaxPaid = 2
    Liquid = 8
    CommitmentFee = 1
    Approvals <- MaybeHost
    Other <- Someone
    Runs = {w1, w2}
    MaxNumber = 2
    Bounds <- AllBounds
    w1 = w1
    w2 = w2
CHECK_DEADLOCK FALSE
INVARIANTS RecordReadsBack RecordKeepsUp BodyIsWhatIsLeft DeviceIsPaid
PROPERTIES FirstSignedStays SettledInTheEnd
