CONSTANTS
    MaxRows = 2
    Texts = {a, b}
    MaxSlots = 2
    Chunk = 1
    MaxActs = 2
    Indexed = FALSE
    MaxFaults = 2
    Blank = Blank
SPECIFICATION Spec
INVARIANTS SavesTypeOK PromiseKept OneDocPerRow
PROPERTIES AckKeepsText SavesArePromised
