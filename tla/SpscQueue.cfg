SPECIFICATION SpscFairSpec
CONSTANTS
    Capacity = 4
    NUM_STEPS = 10
INVARIANTS
    WithinOneLap
    SlotsDoNotRace
PROPERTIES
    IsFifo
    SpscTerminates
