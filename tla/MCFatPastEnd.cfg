\* A directory that fills its cluster, and behind the buffer an entry that is still in
\* memory.  A failed ASSERT stops the system.
CONSTANTS
    Volumes <- FullVolumes
    Paths <- MCPaths
    PerSector = 2
    PerFatSector = 4
    FatClusterEnd = 8
    Beyond <- StaleBeyond
SPECIFICATION VolSpec
INVARIANT FoundWithinBuffer
CHECK_DEADLOCK FALSE
