\* Ticks and keys come at any time of the boot.  Left shift and two letters, with at most
\* one BIOS call between the reads.  Up to three files are loaded, with the names of the
\* kernel's symbols and of each other's; up to three lines are typed; the configuration
\* keeps a key in each of two namespaces, with room for four strings.  Reads and chunks
\* that fit into a cluster, or take the rest of the file, at every alignment of the cursor
\* and of the file's end to the clusters; paths of up to three names on three volumes.  A
\* failed ASSERT stops the system, and the lines to type run out.
CONSTANTS
    Lines = {0, 1}
    MaxTicks = 2
    KernelTable <- MCKernelTable
    Files <- MCFiles
    MaxLoads = 3
    NrMax = 128
    Reserved = 32
    Nul = "NUL"
    Namespaces <- MCNamespaces
    ConfKeys = {"k"}
    Texts <- MCTexts
    Numbers = {1, 2}
    MaxTexts = 4
    Scripts <- MCScripts
    NoScript = NoScript
    CommandLines <- MCCommandLines
    Unrelated = {"dino"}
    MaxTyped = 3
    Keys = {"lshift", "a", "b"}
    ShiftKeys = {"lshift"}
    MaxEvents = 5
    MaxBiosCalls = 1
    Sizes = {0, 1, 2, 3, 4, 5, 6, 7, 8, 9}
    ClusterSizes = {2, 3, 4}
    Missing = {0}
    Reads = {1, 2, 10}
    Chunks = {2, 10}
    Volumes <- MCVolumes
    Paths <- MCPaths
    PerSector = 2
    PerFatSector = 4
    FatClusterEnd = 8
    Beyond <- MCBeyond
SPECIFICATION MCSpec
INVARIANT UnhandledOnlyEarly
INVARIANT InServiceHasFrame
INVARIANT KernelResolves
INVARIANT AutorunRunsAll
INVARIANT ValueVerbatim
INVARIANT CharsInOrder
INVARIANT BytesNoticedOnce
INVARIANT FullReadExact
INVARIANT OpensWhatTreeSays
INVARIANT MemoryReturned
PROPERTY TimerTaken
PROPERTY ImplementsConfig
PROPERTY AllDelivered
PROPERTY WaiterNotDeaf
PROPERTY ImplementsFile
PROPERTY FullReadEnds
CHECK_DEADLOCK FALSE
