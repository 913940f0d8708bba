\* Rows that are a pixel further apart than they are wide.
CONSTANTS
    Width = 2
    Height = 3
    Pitch = 3
    Bits = 32
    Letters = {"a"}
    BufSize = 5
    MaxRows = 2
SPECIFICATION Spec
INVARIANT SeenIsDrawn
CHECK_DEADLOCK FALSE
