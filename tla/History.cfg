\* Batches of two out of queues of four, the stop of the thread, pages of two
\* rows; four ids to a millisecond.
SPECIFICATION ChatSpec
CONSTANTS
    BatchSize = 2
    Limit = 4
    Torn = 1
    Stops = TRUE
    MaxEntries = 6
    Chats <- MCChats
    Reader = 1
    Peer = 2
    MaxRows = 2
    MaxTime = 3
    Epoch = 3
    SequenceSpan = 4
    WorkerSpan = 2
    WorkerId = 1
    Clock <- ClockValues
INVARIANTS InOrder HistoryTypeOK MissedSharesSecond
PROPERTIES EndsWithNothingLeft AcceptedIsHanded HistoryIsRead IdsIncrease
CHECK_DEADLOCK FALSE
