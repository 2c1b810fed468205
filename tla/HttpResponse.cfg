\* Dynamic chunks, the first through set_payload.
CONSTANTS
    MaxChunks = 4
    MaxLen = 2
    MaxHeaders = 3
    Kinds <- DynamicOnly
    FirstBySet = TRUE

SPECIFICATION Spec

INVARIANTS
    TypeOK
    PayloadIsConcatenation
