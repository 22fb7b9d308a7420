SPECIFICATION FairSpec
CONSTANTS
    w1 = w1
    Waiters <- One
    ExitCodes <- OkOrFail
    MaxStarts = 2
    MaxTime = 2
INVARIANTS
    TypeOK
    AnswersAreTrue
    UsageIsPossible
PROPERTIES
    WaitersAnswered
    StreamEnds
