SPECIFICATION Spec
CONSTANTS
    Endpoints = 2
    UpKinds = {"one", "two", "odd", "zero"}
    DownKinds = {"handshake", "other", "answer1", "answer2", "emptyAnswer",
                 "shortAnswer", "ack", "closeConn", "unknown", "short"}
    MaxFrames = 3
CHECK_DEADLOCK FALSE
INVARIANTS TypeOK AnswersInOrder NoFalseEnd PromptDelivery UploadExact SeqConsecutive
