SPECIFICATION Spec
CONSTANTS
    e1 = e1
    e2 = e2
    MaxObjNum = 4
    Files <- AcyclicFiles
    Edit = {e1}
    Replaceable = {2}
    Deletable = {2}
    ReplaceClosed = TRUE
    MaxDepth = 6
INVARIANTS TypeOK NoNullParser FiledUnderOwnNumber 
PROPERTIES LoadsKeepCache
