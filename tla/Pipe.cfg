SPECIFICATION FairSpec
CONSTANTS
    Hops = 2
    MaxData = 2
CHECK_DEADLOCK FALSE
INVARIANT TypeOK
PROPERTIES SessionIsStreams SessionEnds AnswerEnds
