\* Event loop: two other threads, three functors: pushes, wakeups, swaps and
\* quit() in every order, with functors queued from inside functors.  Thread
\* pool: two workers and two producers, with and without a bound on the queue,
\* in both builds.  Log: buffers of two lines.  Windows loop: three calls, a timer
\* set for an odd microsecond, so that its timeout is rounded.
CONSTANTS
    Threads = {t1, t2}
    MaxFunctors = 3
    Workers <- PoolThreads
    Producers = {"p", "q"}
    MaxQueueSizes = {0, 1}
    TasksEach = 2
    PoolBuilds = {"linux", "win"}
    LargeBuffer = 3
    DropLimit = 3
    MaxLines = 6
    WinPosters = {"p", "q"}
    MaxPosts = 3
    kMicroSecondsPerMillisecond = 2
    defaultOuttime = 1
    defaultTimeout = 5
    TimerTimes = {3}
    MaxWork = 1
    LastInstant = 8
SPECIFICATION MCSpec
INVARIANTS NoLostWakeup PoolIsQueue LogIsSound
PROPERTIES RunsInOrder LoopAnswers PoolAnswers LogAnswers WinLoopAnswers
CHECK_DEADLOCK FALSE
