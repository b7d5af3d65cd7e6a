\* One invoice, overlapping runs that may hang, failed operations and crashes.
SPECIFICATION FairSpec
CONSTANTS
    MaxIndex = 1
    Creations = {c1}
    Runs = {r1, r2, r3}
    None = None
    MaxFaults = 2
CHECK_DEADLOCK FALSE
INVARIANTS OneInvoicePerIndex HandedIsFollowed
PROPERTIES ReleasedIsSettled
