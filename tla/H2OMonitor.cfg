SPECIFICATION MonitorFairSpec
CONSTANTS
    Hydrogens = {h1, h2, h3, h4, h5, h6}
    Oxygens = {o1, o2, o3}
INVARIANTS
    OnlyFalsePredicatesWait
PROPERTIES
    MonitorMakesWater
    MonitorTerminates
