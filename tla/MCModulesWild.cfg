\* Up to three files, of which two export functions.  A failed ASSERT stops the system.
CONSTANTS
    KernelTable <- MCKernelTable
    Files <- MCFiles
    MaxLoads = 3
    NrMax = 128
    Reserved = 32
SPECIFICATION ModSpec
INVARIANT ExportsCallable
CHECK_DEADLOCK FALSE
