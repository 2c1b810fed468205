CONSTANTS
    MaxRetry = 2
    Events = TRUE
    DevicePath = "update"
    ReinitWhileReady = FALSE
    WdtGapCap = 3

SPECIFICATION Spec

INVARIANT ChannelFlagsTrack
