SPECIFICATION ContextSpec
CONSTANTS
    MaxHistoryTurns = 2
    MaxHistoryCharacters = 4
    MaxPrompt = 2
    MaxLength = 3
    MaxMessages = 6
INVARIANTS
    ContextIsRecent
