CONSTANT LastQuestion = 3
CONSTANT MaxPosts = 3
CHECK_DEADLOCK FALSE
SPECIFICATION RoomSpec
INVARIANT RoomShowsCurrentQuestion
