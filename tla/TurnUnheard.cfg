\* Speech that resumes while its finalization is cancelled.
SPECIFICATION Spec
CONSTANTS
    MaxWords = 1
    MaxScores = 3
    MaxControls = 1
    MaxEnd = 1
    MaxBacklog = 2
    BufferLimit = 2
PROPERTY NoTurnUnheard
\* The bounded environment stops: no word, score or lifecycle event is left.
CHECK_DEADLOCK FALSE
