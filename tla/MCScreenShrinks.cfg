\* Modes of four bytes to a pixel and rows without gaps.
CONSTANTS
    VideoModes <- MCVideoModes
    Requests <- MCRequests
    Cherry <- MCCherry
    Fonts <- MCFonts
SPECIFICATION FbSpec
INVARIANT DrawsInBuffer
