\* A run that was abandoned while the node kept it waiting, beside the runs that follow it.
SPECIFICATION Spec
CONSTANTS
    Hashes = {h1}
    Unpayable = {}
    Transfers = {t1}
    Runs = {r1, r2}
    None = None
    MaxCalls = 4
    MaxFaults = 1
CHECK_DEADLOCK FALSE
INVARIANTS OpenIsWatched
