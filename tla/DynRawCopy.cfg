\* Static-buffer build (static_strndup keeps every byte of a raw value):
\* a raw property copied with dynmc_copy and then concatenated.
CONSTANTS
    s1 = s1
    s2 = s2
    s3 = s3
    Slots <- MCSlots
    NBlocks = 4
    MaxLen = 2
    StaticBuf = TRUE
    OOM = FALSE
    RawInputs = TRUE

SYMMETRY SlotSymmetry
SPECIFICATION Spec

INVARIANTS
    SizeWithinBlock

\* A fault (here the NULL of an empty static_strndup) ends the program.
CHECK_DEADLOCK FALSE
