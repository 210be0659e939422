SPECIFICATION Spec
CONSTANTS
    Byte <- Bytes
    Eof = "eof"
    RangeError = "range error"
    Files <- SomeFiles
    BufferSize = 2
    Pattern <- End
    CR = "cr"
    LF = "lf"
    White <- Space
    MaxPosition = 2
    Lengths = {0, 2}
INVARIANTS BufferIsFile EndFound
PROPERTIES ReadsEnd
