SPECIFICATION FairSpec
CONSTANTS
    Programs <- AllPrograms
    NUM_THREADS = 2
    ROUNDS = 2
    INCREMENTS = 4
    TARGET = 2
    n = 15
INVARIANTS
    AccessesSafe
    ResultsCorrect
PROPERTY
    Terminates
