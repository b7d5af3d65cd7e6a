\* One tx over two settlement bodies: a repeat of a claim is signed with another key.
SPECIFICATION Spec
CONSTANTS
    None = None
    MaxTlcs = 2
    Reserves <- Kept
    MaxPaid = 2
    Liquid = 8
    CommitmentFee = 1
    Approvals <- MaybeHost
    Other <- Someone
    Runs = {w1, w2}
    MaxNumber = 2
    Bounds <- ThinBounds
    w1 = w1
    w2 = w2
CHECK_DEADLOCK FALSE
INVARIANT SignedAsClaimed
