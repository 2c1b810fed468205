\* Update build with events, a client that closes before re-initializing.
CONSTANTS
    MaxRetry = 2
    Events = TRUE
    DevicePath = "update"
    ReinitWhileReady = FALSE
    WdtGapCap = 3

SPECIFICATION Spec

INVARIANTS
    TypeOK
    ReadySessionHeld
    DeviceSessionConsistent
    IdentityOutlivesChannels

PROPERTIES
    RoutinesReturn
    EventEndsLoop
    ImplementsLifecycle
