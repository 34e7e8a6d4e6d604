CONSTANTS
    Entries <- MCEntries
    Requests <- MCRequests
    DevSize <- MCDevSize
    BadBlocks = {12}
SPECIFICATION Spec
INVARIANTS
    TypeOK
    WritesWithinBuffer
    ReturnedBytesRead
