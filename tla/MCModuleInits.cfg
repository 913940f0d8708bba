\* Up to two files, of which one has an init function.  A failed ASSERT stops the system.
CONSTANTS
    KernelTable <- MCKernelTable
    Files <- MCFiles
    MaxLoads = 2
    NrMax = 128
    Reserved = 32
SPECIFICATION ModSpec
INVARIANT ModuleInitsCalled
CHECK_DEADLOCK FALSE
