\* Up to three blocks fit behind the head; blocks may be shrunk, moved, reused, marked
\* critical, freed twice; bytes are junk, cleared, or an owner's.  Lists of up to four
\* nodes, walked while they change; three elements in four cells; four keys for three
\* items; capacities 2 to 16 with keys that collide at every, some or no capacity.  Ints
\* of five bits, for which texts of three characters reach over the limits.  A failed
\* ASSERT stops the system, and so does the end of memory.
CONSTANTS
    Hdr = 1
    Align = 2
    MemSize = 4
    MaxRequest = 3
    Data = {d}
    Nodes = {n1, n2, n3, n4}
    HeadCell = head
    TailCell = tail
    Null = null
    d1 = d1
    d2 = d2
    d3 = d3
    Nothing = Nothing
    RingData <- MCData
    Size = 4
    e1 = e1
    e2 = e2
    e3 = e3
    e4 = e4
    w1 = w1
    w2 = w2
    NoValue = NoValue
    NoPair = NoPair
    EnvKeys <- MCEnvKeys
    EnvValues <- MCEnvValues
    EnvSize = 3
    Texts <- MCTexts
    k1 = k1
    k2 = k2
    k3 = k3
    k4 = k4
    v1 = v1
    v2 = v2
    None = None
    Keys <- MCKeys
    Values <- MCValues
    Hash <- MCHash
    Width = 5
    Characters = {"0", "1", "3", "6", "f", "x", "-", " "}
    MaxLength = 3
    Bases = {10, 16}
    Initial = 2
    MaxLeaked = 3
SPECIFICATION MCSpec
SYMMETRY Symmetry
INVARIANT ChainIntact
INVARIANT LedgerMatches
INVARIANT OverrunBounded
INVARIANT LinksMatchOrder
INVARIANT ForeachComplete
INVARIANT SearchesEnd
INVARIANT NumbersExact
PROPERTY CriticalKept
PROPERTY ImplementsHeap
PROPERTY ImplementsQueue
PROPERTY ImplementsStore
PROPERTY ImplementsMap
CHECK_DEADLOCK FALSE
