\* Three processors; one utterance interrupts and the worker is cancelled at any time.
SPECIFICATION FairSpec
CONSTANTS
    N = 3
    Breaker = 1
    Model = 2
    Speaker = 3
    Aggregator = 3
    Scripts <- AllScripts
    MaxSpeech = 1
INVARIANTS
    UninterruptibleSurvives
    DrainedMeansDrained
PROPERTIES
    EndCompletes
    CancelCompletes
\* A finished worker stops.
CHECK_DEADLOCK FALSE
