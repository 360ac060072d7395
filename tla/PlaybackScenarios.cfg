\* Four shapes of a reply of two turns and two sentences, see Scenarios.
SPECIFICATION Spec
CONSTANTS
    MaxTurns = 2
    MaxRequests = 2
    MaxSessions = 3
    MaxChunks = 2
    Windows = 1
    MaxInterrupts = 1
    MaxFailures = 1
CONSTRAINT InSomeScenario
INVARIANTS
    AcknowledgedMeansHeard
    CancelSparesNewReply
    SoleInference
    PlaybackAgreement
    NoTaskStuck
\* The bounded environment stops: no turn, sentence or press is left.
CHECK_DEADLOCK FALSE
