SPECIFICATION PageSpec
CONSTANTS
    Colour = {"black", "red"}
    Black = "black"
    Font = {"none", "F1"}
    NoFont = "none"
    Matrix = {"D", "M"}
    Operations <- PageAndFormOperations
    PageOperations <- SharedOperations
    Display = "D"
    WellFormed = TRUE
    MaxSaved = 3
    MaxPoints = 2
    MaxFactors = 2
    MaxForms = 2
INVARIANTS TypeOK
PROPERTIES   FormKeepsState
CHECK_DEADLOCK FALSE
