SPECIFICATION Spec
CONSTANTS
    NUL = NUL
    x = x
    y = y
    Byte = {NUL, x, y}
    Chunk <- Chunks
    MaxLength = 4
INVARIANTS
    WriteFillsGap
    ReadStopsAtEnd
    SetSizeFillsWithNul
