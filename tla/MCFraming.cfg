CONSTANTS
    UpgradeRequest <- Browser
    ApiRequest <- Page
    Lengths = {0, 125, 126, 65535, 65536}
    MaxSplits = 2
    MaxFrames = 2
    MaxPushes = 1
SPECIFICATION Spec
INVARIANTS
    FramesExact
    ParsedAsSent
    BuiltReadable
    RequestForwardedOnce
    OpensExactlyWhen
CHECK_DEADLOCK FALSE
