\* Three shapes of a conversation, see Scenarios.
SPECIFICATION Spec
CONSTANTS
    MaxSessions = 2
    MaxTurns = 2
    MaxRequests = 2
    MaxTaps = 2
    MaxDeltas = 0
    MaxBacklog = 1
    QueueSize = 1
    MaxTurnSessions = 1
    Ops <- ConversationOps
CONSTRAINT InSomeScenario
INVARIANTS
    TurnFence
    NoOrphanWork
    NoForgottenRequest
    Agreement
PROPERTY
    ConfirmationKeepsFinalization
\* The bounded environment stops: no conversation, request or tap is left.
CHECK_DEADLOCK FALSE
