\* Two shapes of a conversation, see InSomeScenario.
SPECIFICATION FairSpec
CONSTANTS
    MaxTurns = 2
    MaxTexts = 2
    MaxFlushes = 1
    MaxErrors = 1
    Endings = {TRUE, FALSE}
CONSTRAINT InSomeScenario
INVARIANTS
    OutputInOrder
    FlushSurvives
    NeverBlamed
    ContextsExist
PROPERTY
    EverythingDrains
\* The bounded environment stops: no turn, response or flush is left.
CHECK_DEADLOCK FALSE
