SPECIFICATION Spec
CONSTANTS
    Programs <- AllPrograms
    total_tasks = 3
    max_concurrent_tasks = 2
INVARIANTS
    PermitsBoundTasks
    FailuresPropagate
PROPERTIES
    DependenciesFirst
    Terminates
