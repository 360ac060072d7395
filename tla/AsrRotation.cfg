\* Two calls of finalize within either scenario.
SPECIFICATION FairSpec
CONSTANTS
    Budgets <- Scenarios
    MaxCallers = 2
    Slots = 2
    StreamSize = 2
    Retained = 2
INVARIANTS
    AudioAccountedFor
    FinalizeBarrier
    SoleRotation
    NothingLeaks
PROPERTIES
    EveryFinalizeEnds
    
\* The bounded environment stops: no start, call or buffer is left.
CHECK_DEADLOCK FALSE
