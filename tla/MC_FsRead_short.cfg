CONSTANTS
    Entries <- MCEntriesShort
    Requests <- MCRequests
    DevSize <- MCDevSizeShort
    BadBlocks = {12}
SPECIFICATION Spec
INVARIANT
    ReturnedBytesRead
