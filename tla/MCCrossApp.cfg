SPECIFICATION FairSpec
CONSTANTS
    Node = {1, 2, 3}
    Lock = {1, 2, 3}
    Parallel = {1, 2, 3}
    Roots = {0, 2}
    Free = 0
    OrderKey <- MCOrderKey
    Wants <- MCWants
    Cuts <- MCCuts
    Deadlines <- MCDeadlines
INVARIANTS
    SchedulesAreSound
    PropagationIsExact
    RunsAfterDependencies
    NoCircularWait
PROPERTIES
    EveryPlanEnds
