SPECIFICATION Spec
CONSTANTS
    ObjNum = {1, 2}
    Pos = {1, 2, 3}
    Files <- AllFiles
INVARIANTS  LookupsSeeWholeTable
PROPERTIES ParseReturns
CHECK_DEADLOCK FALSE
