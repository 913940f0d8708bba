\* Up to three disks with up to two partitions each; after the boot every sequence of
\* commands and calls of a module, as long as there is room for devices.
CONSTANTS
    Drivers <- MCDriverSet
    Attr <- MCAttr
    Ids <- MCIds
    Words <- MCWords
    LinkOrders <- MCOrders
    DiskCounts = {0, 1, 2, 3}
    MaxPartitions = 2
    MaxMade = 10
    LeftInMemory <- MCLeft
    ModuleRemoves = {"fs"}
SPECIFICATION Spec
INVARIANT UniqueNames
INVARIANT ProbedOnce
INVARIANT PartitionsMounted
INVARIANT DisksRegistered
INVARIANT ConsoleRegistered
PROPERTY CallsReturn
CHECK_DEADLOCK FALSE
