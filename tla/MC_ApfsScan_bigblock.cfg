CONSTANTS
    Ids <- MCIds
    Parents <- MCParents
    Names <- MCNames
    DTypes <- MCDTypes
    Sizes <- MCSizes
    Exts <- MCExts
    Xids <- MCXids
    BlockSizes <- MCBlockSizes
    Blocks <- MCBlocks
    DiskBlocks <- MCDiskBlocks
    NoSizeV = NoSizeV
    NoNameV = NoNameV
    NoEntryV = NoEntryV
    NoGroupV = NoGroupV
    NoNodeV = NoNodeV
    NoSize <- NoSizeV
    NoName <- NoNameV
    NoEntry <- NoEntryV
    NoGroup <- NoGroupV
    NoNode <- NoNodeV

SPECIFICATION Spec

INVARIANT
    ChecksumWithinBuffer
