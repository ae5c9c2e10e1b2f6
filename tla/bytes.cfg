SPECIFICATION Spec
CONSTANTS
    ByteBits = 2
    BaseSize = 2
    SYLAR_BYTE_ORDER = 1
    Numbers <- MCNumbers
    Contents <- MCContents
    MaxSize = 4
    Junk = 2
INVARIANTS CurExact RoundTrip ViewsAgree
PROPERTY ImplementsStream
CHECK_DEADLOCK FALSE
