\* A start that fails while the next conversation begins.
SPECIFICATION Spec
CONSTANTS
    MaxSessions = 2
    MaxTurns = 1
    MaxRequests = 1
    MaxTaps = 1
    MaxDeltas = 0
    MaxBacklog = 1
    QueueSize = 2
    MaxTurnSessions = 1
    Ops <- SpeechOps
INVARIANT OldErrorsSpareNewSession
\* The bounded environment stops: no conversation, request or tap is left.
CHECK_DEADLOCK FALSE
