\* Three disks with a FAT partition each.
CONSTANTS
    Drivers <- TreeDrivers
    Attr <- TreeAttr
    Ids <- MCIds
    Words <- MCWords
    LinkOrders <- MCOrders
    DiskCounts = {3}
    MaxPartitions = 1
    MaxMade = 10
    LeftInMemory <- MCLeft
    ModuleRemoves = {}
SPECIFICATION Spec
INVARIANT SuffixesFit
CHECK_DEADLOCK FALSE
