CONSTANTS
    Entries <- MCEntriesSparse
    Requests <- MCRequests
    DevSize <- MCDevSize
    BadBlocks = {12}
SPECIFICATION Spec
INVARIANT
    WritesWithinBuffer
