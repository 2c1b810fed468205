\* libc build, no allocation failure, string and raw properties.
CONSTANTS
    s1 = s1
    s2 = s2
    s3 = s3
    Slots <- MCSlots
    NBlocks = 4
    MaxLen = 2
    StaticBuf = FALSE
    OOM = FALSE
    RawInputs = TRUE

SYMMETRY SlotSymmetry
SPECIFICATION Spec

INVARIANTS
    TypeOK
    NoDoubleFree
    NoLeak

