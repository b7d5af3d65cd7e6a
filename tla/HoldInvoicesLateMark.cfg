\* A run that was abandoned while it waited for the balance lane, beside the run that follows it.
SPECIFICATION Spec
CONSTANTS
    MaxIndex = 1
    Creations = {c1}
    Runs = {r1, r2}
    None = None
    MaxFaults = 1
CHECK_DEADLOCK FALSE
INVARIANTS ReleasedIsWatched
