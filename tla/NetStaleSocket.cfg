\* TLS build: a client that may disconnect after a failed connect.
CONSTANTS
    MaxFd = 2
    MaxRead = 3
    MaxAvail = 3
    Tls = TRUE
    Cipher = TRUE

SPECIFICATION Spec

INVARIANTS
    CloseOwnOnly
