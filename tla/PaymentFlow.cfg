\* One payment sent twice at once under overlapping runs, with faults.
SPECIFICATION FairSpec
CONSTANTS
    Hashes = {h1}
    Unpayable = {}
    Transfers = {t1, t2}
    Runs = {r1, r2, r3}
    None = None
    MaxCalls = 2
    MaxFaults = 2
CHECK_DEADLOCK FALSE
INVARIANTS MarksKeepWatch FinishesWhatItRead
PROPERTIES WatchedEnds
