\* Each sequential part on inputs around the values at which its code branches.
CONSTANTS
    Peers <- OrderedPeers
    AesKeys <- Keys
    AesBlocks <- Blocks
    Anys = {"a", "b"}
    StackTypes = {"S", "P"}
    DynamicTypes = {"D", "L"}
    AnyValues = {1, 2}
    Cells = {"x1", "x2", "x3"}
    Base64Bytes = {0, 1, 97, 250, 255}
    Base64MaxLen = 3
    kCheapPrepend = 2
    kInitialSize = 1
    ExtraBuf = 1
    BufferBytes = {200}
    BufferInts <- Integers16
    MaxPiece = 2
    MaxVector = 5
    BufferBuilds = {"linux"}
    Years = {1900, 1904, 1969, 1970, 2000, 2024, 2037, 2100, 2500}
    UtcYears = {1904, 1969, 1970, 2000, 2024, 2037}
    DaySeconds = {0, 1, 43199, 86399}
    ZoneFiles <- Zones
    Offsets <- AroundTransitions
    ConfigNames <- Names
    ConfigValues <- Values
    FirstFiles <- OldTexts
    LineBuffer = 14
    PairBuffer = 8
    MaxSets = 3
    IntegerBits = 8
    rollSize = 6
    flushInterval = 1
    checkEveryN = 3
    kRollPerSeconds = 4
    LineLengths = {1, 4}
    LastTime = 13
    LogThreads = {t1, t2}
    Texts = {3910, 3962}
    MaxTexts = 1
    LastSecond = 2
    Md5Lengths <- Lengths
    Md5Width = 10
    Fds = {3, 4, 5}
    PollerKinds = {"poll", "epoll", "select"}
    Reports <- Revents
    kInitEventListSize = 1
    TiedFds = {3, 4}
    WinTimerIds = {1, 2, 3, 4, 5, 6}
    Repeating = {2}
    WinInterval = 1
    Expirations = {1, 2}
    LastTick = 2
SPECIFICATION MCSpec
INVARIANTS FindsKnown AnyIsSound PollerIsSound ConfigSurvives
PROPERTIES BufferIsQueue CalendarIsRight WinTimersRun LogIsRight StandardsAreMet
CHECK_DEADLOCK FALSE
