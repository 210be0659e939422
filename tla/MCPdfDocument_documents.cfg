SPECIFICATION Spec
CONSTANTS
    ObjNum = {0, 1, 2, 3, 4, 5}
    Dict = {1, 2, 3, 4}
    Docs <- AllDocs
    KidsEdits <- SomeKids
    Replaceable = {3}
    MaxIndex = 2
    MaxDepth = 4
INVARIANTS TypeOK PagesAreLeaves
PROPERTIES RequestsReturn CountNeverChanges PagesStay NoPageAfterClose
CHECK_DEADLOCK FALSE
