SPECIFICATION PageSpec
CONSTANTS
    Node = {1, 2, 3}
    PageDict = 1
    Parents <- Lines
    Value = {0, 1}
    Editable <- Edits
PROPERTIES BoxesInherited ResourcesFixed 
CHECK_DEADLOCK FALSE
