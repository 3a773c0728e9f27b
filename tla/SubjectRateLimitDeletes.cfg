CONSTANTS
    Requests = {1, 2}
    Workers = {"w1", "w2"}
    Subjects = {"operator"}
    Threads = 2
    Window = 2
    Max = 1
    LastTick = 3
SPECIFICATION LimitSpec
INVARIANT OncePerWindow
CHECK_DEADLOCK FALSE
