\* A buffer of four bytes.
SPECIFICATION Spec
CONSTANTS
    Size = 4
    Bytes <- MCBytes
    Chunks <- MCChunks
    Counts <- MCCounts
INVARIANTS
    TypeOK
    Coherent
PROPERTIES
    ImplementsWindow
    RangeIsWhatWasRead
