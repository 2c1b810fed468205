\* TLS build: one MQTT connection beside the SDK's other sockets.
CONSTANTS
    MaxFd = 2
    MaxRead = 3
    MaxAvail = 3
    Tls = TRUE
    Cipher = TRUE

SPECIFICATION Spec

INVARIANTS
    TypeOK
    FailedConnectReleases
    ReadAccounting
