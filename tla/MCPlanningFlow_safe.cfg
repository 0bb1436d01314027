SPECIFICATION PLiveSpec
CONSTANTS
    Feature = {f1, f2}
    MaxRepairs = 2
    MaxTasks = 3
CHECK_DEADLOCK FALSE
INVARIANTS
    PTypeOK
    MaterializedOnce
    PlannerIsAlone
PROPERTIES
    PlanningEnds
