SPECIFICATION Spec
CONSTANTS
    MaxTasks = 3
    MaxPriorities = 4
    Priorities = {0, 1, 2}
    MaxDelay = 2
INVARIANTS
    Consistent
    HighestRuns
PROPERTIES
    HighestWakes
