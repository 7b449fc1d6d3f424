SPECIFICATION FairSpec
CONSTANTS
    MaxLines = 5
    ChanSize = 2
    TailCount = 2
    SockCap = 2
    Blank <- OddLines
INVARIANTS
    FollowInOrder
    NormalCloseIsComplete
    TailIsRecent
    EmptyAnswerIsTrue
    BoundedReadAhead
PROPERTIES
    DeliverySpec
    EverythingEnds
    StalledClientIsDropped
    EofIsDelivered
    CollectionEnds
