SPECIFICATION FairSpec
CONSTANTS
    Programs <- AllPrograms
    NUM_THREADS = 3
    NUM_ITEMS = 2
INVARIANTS
    NoDataRace
    ResultsExact
    SeenInOneOrder
PROPERTY
    Terminates
