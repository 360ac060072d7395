\* Three conversations, three presses of the microphone, three stops and a failure.
SPECIFICATION FairSpec
CONSTANTS
    MaxStarts = 3
    MaxToggles = 3
    MaxStops = 3
    MaxFailures = 1
INVARIANTS
    SettlesAsAsked
    InputMeansCapture
    ScreenTellsTruth
PROPERTIES
    FindsNothingLeft
    EveryTaskEnds
\* The bounded environment stops: no start, toggle or stop is left.
CHECK_DEADLOCK FALSE
