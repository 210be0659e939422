SPECIFICATION StreamSpec
CONSTANTS
    Stream = {1, 2}
    NoStream = 0
    DictId = {1, 2, 3}
    Filter = {"Flate", "Hex", "DCT"}
    FilterLists <- Lists
    Data <- Datas
    EmptyData <- Empty
    Undecoded = "null"
    ApplyFilter <- Apply
    DictsFinal = TRUE
    SetsUnfiltered = TRUE
INVARIANTS CopiesAgree ReadsLastWritten
