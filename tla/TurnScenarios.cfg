\* Four shapes of a turn, see Scenarios.
SPECIFICATION FairSpec
CONSTANTS
    MaxWords = 2
    MaxScores = 4
    MaxControls = 1
    MaxEnd = 1
    MaxBacklog = 2
    BufferLimit = 2
CONSTRAINT InSomeScenario
INVARIANTS
    StopAwaited
    NothingOvertaken
PROPERTIES
    EndpointIsBarrier
    EndpointClosesItsSpan
    TurnCloses
\* The bounded environment stops: no word, score or lifecycle event is left.
CHECK_DEADLOCK FALSE
