\* Reads of several clusters.
CONSTANTS
    Sizes = {6}
    ClusterSizes = {2}
    Missing = {0}
    Reads = {1, 2, 3, 4}
    Chunks = {4}
SPECIFICATION FileSpec
INVARIANT CursorInStep
