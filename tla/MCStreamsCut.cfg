SPECIFICATION ExchangeSpec

CONSTANTS
    Responses <- Answers
    Loggable = TRUE
    Conversations <- UpToThree
    Replies <- FourReplies
    MaxCalls = 2

INVARIANTS
    DoneIsComplete

CHECK_DEADLOCK FALSE
