SPECIFICATION Spec
CONSTANTS
    Dict = {"a", "b", "c"}
    NoDict = "null"
    Name = {"x", "y"}
    NoName = "no name"
    NoKids <- None
    Forms <- TreeForms
    MaxDepth = 4
INVARIANTS RootsAndLeavesListed  ControlsAreWidgets
 
CHECK_DEADLOCK FALSE
