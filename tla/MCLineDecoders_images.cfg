SPECIFICATION DecoderSpec
CONSTANTS
    Line <- Lines
    NoLine <- Null
    Blank <- BlankLines
    MaxLine = 2
    Images <- AllImages
INVARIANTS AnswersAreLines PredictorsAgree
PROPERTIES YieldsDecodedData RequestsReturn
CHECK_DEADLOCK FALSE
