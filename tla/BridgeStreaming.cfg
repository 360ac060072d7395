\* One streaming request of two turns, with one user operation.
SPECIFICATION FairSpec
CONSTANTS
    MaxSessions = 1
    MaxTurns = 2
    MaxRequests = 1
    MaxTaps = 1
    MaxDeltas = 1
    MaxBacklog = 1
    QueueSize = 1
    MaxTurnSessions = 1
    Ops <- GenerateOps
PROPERTIES
    EveryRequestEnds
    ImplementsContract
\* The bounded environment stops: no conversation, request or tap is left.
CHECK_DEADLOCK FALSE
