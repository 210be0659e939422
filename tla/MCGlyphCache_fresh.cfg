SPECIFICATION Spec
CONSTANTS
    Font = {"A", "B"}
    NoFace = "no face"
    Glyph = {1, 2}
    Format <- Formats
    Advance <- Advances
    Matrix = {0, 1, 2}
    PerKey = 2
    Alias = {"none", "normal"}
    Style <- Styles
    Weight = {0, 3, 8}
    LoadsFirst = TRUE
    MaxEntries = 3
 
PROPERTIES AskingKeeps
