SPECIFICATION VadSpec
CONSTANTS
    StartFrames = 2
    StopFrames = 4
    Times = {0, 1, 2, 3, 4, 5, 6, 7, 8, 9, 10, 11, 12}
PROPERTIES
    TransitionsNeedRuns
    ImplementsSpan
