\* A build with NO_EVENTS and neither device-update sync nor
\* CHECK_DEVICE_REG (a restore hit only closes the HTTP client); a client
\* that closes before re-initializing.
CONSTANTS
    MaxRetry = 2
    Events = FALSE
    DevicePath = "close"
    ReinitWhileReady = FALSE
    WdtGapCap = 3

SPECIFICATION Spec

INVARIANTS
    TypeOK
    ReadySessionHeld
    DeviceSessionConsistent
    IdentityOutlivesChannels

PROPERTIES
    RoutinesReturn
    ImplementsLifecycle
