SPECIFICATION Spec
CONSTANTS
    e1 = e1
    e2 = e2
    MaxObjNum = 4
    Files <- PlainFiles
    Edit = {e1, e2}
    Replaceable = {3}
    Deletable = {3, 4}
    ReplaceClosed = FALSE
    MaxDepth = 6
PROPERTIES ImplementsHolder 
