\* Three messages of up to 11 bytes, chunks of up to 3: the buffer is just large
\* enough for the longest unfinished message and a chunk.  Or bytes of every kind, in
\* every order, cut in every way.
SPECIFICATION Spec
CONSTANTS
    BufferSize = 13
    EnableCommand = TRUE
    Messages <- Tricky
    RawChunks <- AnyByte
    MaxChunk = 3
    MaxBytes = 38
    MaxRaw = 6
INVARIANTS
    TypeOK
    ChunksDoNotMatter
    DecodesWhatArrived
    SerializedIsTheFrame
\* The bound on bytes ends the run.
CHECK_DEADLOCK FALSE
