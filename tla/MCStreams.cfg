SPECIFICATION FairExchange

CONSTANTS
    Responses <- Answers
    Loggable = TRUE
    Conversations <- UpToThree
    Replies <- FourReplies
    MaxCalls = 2

INVARIANTS
    SameConversation
    AnswerKept
    SdkYieldsText
    LostIsCut

PROPERTIES
    StartedIsClosed

CHECK_DEADLOCK FALSE
