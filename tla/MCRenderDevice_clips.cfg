SPECIFICATION DeviceSpec
CONSTANTS
    Sizes <- SmallSizes
    Rects <- SomeRects
    MaxSaved = 4
INVARIANTS BoxesAgree
PROPERTIES ClipsNest
