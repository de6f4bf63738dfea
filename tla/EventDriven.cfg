\* The mains of chapters 8 and 9, each number short enough that every order
\* of the calls allowed, of expirations and arrivals is explored.
SPECIFICATION FairSpec
CONSTANTS
    Bodies <- AllBodies
    MODULUS = 5
    LIMIT = 3
    MAX_CALLS = 8
    DELAYS <- Delays
    LATENESS = 2
    SIGNALS = 2
    c1 = c1
    c2 = c2
    Clients <- TwoClients
    MAX_SENT <- MaxSent
INVARIANTS
    ResumedInTime
    AnswersAsPromised
    WokenInDueOrder
    EchoesInOrder
PROPERTY LoopsProgress
