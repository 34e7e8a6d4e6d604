------------------------------ MODULE MC_FsRead ------------------------------
EXTENDS FsRead

(* Extents as the scan leaves them: lengths rounded up to whole blocks,    *)
(* in the order their leaves were read.                                    *)
Ext(la, phys) == [la |-> la, phys |-> phys, len |-> BlockUnits]

(* A 5 KiB file in two extents, the second read first; an 8 KiB file with  *)
(* a bad first block; a 4 KiB file whose block lies past the device end;   *)
(* a 4 KiB file whose extent was recorded twice (the reapply finding).     *)
MCEntries ==
    { [length |-> 5, extents |-> <<Ext(4, 11), Ext(0, 10)>>],
      [length |-> 8, extents |-> <<Ext(0, 12), Ext(4, 13)>>],
      [length |-> 4, extents |-> <<Ext(0, 30)>>],
      [length |-> 4, extents |-> <<Ext(0, 14), Ext(0, 14)>>] }

(* The file's first extent was never recovered (the orphan finding).       *)
MCEntriesSparse ==
    { [length |-> 5, extents |-> <<Ext(4, 11)>>] }

(* An 8 KiB file whose second block is cut by the end of the device.       *)
MCEntriesShort ==
    { [length |-> 8, extents |-> <<Ext(0, 10), Ext(4, 13)>>] }

MCRequests ==
    { [offset |-> 0, size |-> 4], [offset |-> 3, size |-> 4],
      [offset |-> 6, size |-> 4], [offset |-> 9, size |-> 4] }

MCDevSize == CodeBase + 20 * BlockUnits
MCDevSizeShort == CodeBase + 13 * BlockUnits + 2
=============================================================================
