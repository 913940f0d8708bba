\* Two rows of two columns, or more: every character may wrap and scroll.  Modes and
\* fonts that change the number of columns, of rows, of both or of neither.
\* Transfers of up to five blocks through a buffer of two.  A failed ASSERT stops the
\* system.
CONSTANTS
    Width = 2
    Height = 3
    Pitch = 2
    Bits = 32
    Letters = {"a"}
    BufSize = 5
    MaxRows = 2
    VideoModes <- MCVideoModes
    Requests <- MCRequests
    Cherry <- MCCherry
    Fonts <- MCFonts
    DiskSize = 5
    MaxBlocks = 2
    MaxRead = 5
    WriteData = {8}
SPECIFICATION MCSpec
INVARIANT SeenIsDrawn
INVARIANT LineOnScreen
INVARIANT NeverPanics
INVARIANT ScreenAgrees
PROPERTY ImplementsTerminal
PROPERTY ImplementsDisk
CHECK_DEADLOCK FALSE
