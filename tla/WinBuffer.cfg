\* The Windows build's copy of Buffer.
CONSTANTS
    kCheapPrepend = 2
    kInitialSize = 1
    ExtraBuf = 1
    BufferBytes = {10}
    BufferInts = {1}
    MaxPiece = 2
    MaxVector = 5
    BufferBuilds = {"win"}
SPECIFICATION BufferSpec
INVARIANT IndicesOrdered
CHECK_DEADLOCK FALSE
