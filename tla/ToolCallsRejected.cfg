SPECIFICATION ToolSpec
CONSTANTS
    Tool = {edit}
    Answers = {"auto", "accept", "reject"}
    NoEvent = NoEvent
    BatchEvents = 2
    MaxTurns = 1
    MaxCalls = 2
    MaxSent = 5
    MaxLives = 1
INVARIANTS
    RejectedHasNoResult
CHECK_DEADLOCK FALSE
