\* The payments, signing and other steps as three, with ticks of stopped polls unwinding.
SPECIFICATION FairPollerSpec
CONSTANTS
    Ticks = {t1, t2, t3}
    Steps = 3
    None = None
INVARIANTS OneLoop
PROPERTIES NoLostPoll EveryStepRuns
