\* One connection, four frames, a send queue of two.
CONSTANTS
    HEAD_ID_LEN = 1
    HEAD_DATA_LEN = 1
    MAX_LENGTH = 2
    MAX_SENDQUE = 1
    SHORT = 4
    Heads <- MCHeads
    AnswerLens = {1}
    MaxFrames = 4
SPECIFICATION FairSpec
INVARIANTS TypeOK AnswersInOrder ReadFits HandlerWoken
PROPERTIES RequestsArrive RepliesArrive DropsOnlyWhenBehind RequestsHandled AnswersWritten
CHECK_DEADLOCK FALSE
