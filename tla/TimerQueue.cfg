\* Three timers, one-shot or repeating, created and cancelled anywhere,
\* callbacks included, over three units of time.
CONSTANTS
    Timers = {1, 2, 3}
    MaxTime = 3
    Interval = 1
SPECIFICATION FairSpec
INVARIANTS QueueIsSound TimerfdCovers
PROPERTIES TimersRun
CHECK_DEADLOCK FALSE
