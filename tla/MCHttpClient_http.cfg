CONSTANTS
    Responses <- MCResponses
    MaxAddrs = 2
    BodyLen = 2
    ReadBuff = 2
    RecvBuff = 3
    HeaderMaxLength = 30
    MaxUnsigned = 999
SPECIFICATION Spec
INVARIANTS TypeOK NoSocketLeft ConnectionErrorIsClean LengthIsMet BodyIsAsSent
PROPERTIES AnswersLikeRpc
CHECK_DEADLOCK FALSE
