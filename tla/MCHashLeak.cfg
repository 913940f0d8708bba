\* A table that has been expanded is destroyed.
CONSTANTS
    k1 = k1
    k2 = k2
    k3 = k3
    k4 = k4
    v1 = v1
    v2 = v2
    None = None
    Keys <- MCKeys
    Values <- MCValues
    Hash <- MCHash
    Initial = 2
    MaxLeaked = 3
SPECIFICATION HtblSpec
INVARIANT KeysFreed
