\* A header of ten digits.
SPECIFICATION Spec
CONSTANTS
    BufferSize = 20
    EnableCommand = FALSE
    Messages <- NoMessages
    RawChunks <- TenDigits
    MaxChunk = 11
    MaxBytes = 0
    MaxRaw = 11
INVARIANTS
    NineDigitsAtMost
\* The bound on bytes ends the run.
CHECK_DEADLOCK FALSE
